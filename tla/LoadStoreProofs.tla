--------------------------- MODULE LoadStoreProofs ----------------------------
(***************************************************************************)
(* Loads and stores, for any register width, page size, memory and program. *)
(*                                                                         *)
(* Every handler is a chain of parts (check, read, set, write, writeback,   *)
(* done), and every part passes on what Outcome says: a state of the right  *)
(* widths, which has faulted exactly if a byte of the access is not         *)
(* allowed, and then is the state before it but for the fault.  The TLB's   *)
(* and the page-crossing paths come down to one question about bytes        *)
(* (Span).  The decoder supplies each handler with operands that fit        *)
(* (Operands).  Together: Instruction, the lemma about one step.            *)
(*                                                                         *)
(* Values are gathered from bytes by a recursive function.  What it returns *)
(* is proved by induction over a set of numbers (SetInduction).             *)
(***************************************************************************)
EXTENDS AccessMeaning, WellFoundedInduction, TLAPS

M == 2^XLEN

LEMMA Widths == XLEN \in Nat /\ WLEN \in Nat /\ M \in Nat \ {0} /\ PageSize \in Nat \ {0}
  BY WordsAssumption, PagesAssumption DEF XLEN, WLEN, M, dczvaBytes

(* A set with 0 that is closed under successor has every number.  (The library's *)
(* induction theorems take an operator, which the provers cannot instantiate.) *)
LEMMA SetInduction ==
  ASSUME NEW S, 0 \in S, \A n \in Nat : n \in S => n + 1 \in S
  PROVE  Nat \subseteq S
<1> DEFINE R == OpToRel(<, Nat)
           T == Nat \ S
<1> SUFFICES ASSUME T # {} PROVE FALSE
  OBVIOUS
<1>1. PICK x \in T : \A y \in T : ~ (<<y, x>> \in R)
  <2>1. IsWellFoundedOn(R, Nat)
    BY NatLessThanWellFounded
  <2>2. T \subseteq Nat
    OBVIOUS
  <2> HIDE DEF R, T
  <2> QED
    BY <2>1, <2>2, WFMin
<1>2. x # 0
  OBVIOUS
<1>3. x - 1 \in Nat /\ x - 1 \notin S
  BY <1>2
<1>4. <<x - 1, x>> \in R
  BY <1>3 DEF OpToRel
<1> QED
  BY <1>1, <1>3, <1>4

LEMMA DivUnique ==
  ASSUME NEW p \in Nat, p > 0, NEW q \in Int, NEW r \in 0 .. p - 1
  PROVE  (q * p + r) \div p = q /\ (q * p + r) % p = r
  OBVIOUS

LEMMA Divided ==
  ASSUME NEW p \in Nat, p > 0, NEW a \in Int
  PROVE  /\ a \div p \in Int /\ a % p \in 0 .. p - 1
         /\ a = (a \div p) * p + (a % p)
  OBVIOUS

\* Add on words
LEMMA AddWord ==
  ASSUME NEW a \in Int, NEW k \in Int
  PROVE  Add(a, k) \in 0 .. M - 1
<1>1. a + k \in Int
  OBVIOUS
<1> QED
  BY <1>1, Widths DEF Add, Low, M

LEMMA AddSmall ==
  ASSUME NEW a \in Int, NEW k \in Int, a + k \in 0 .. M - 1
  PROVE  Add(a, k) = a + k
<1>1. (0 * M + (a + k)) % M = a + k
  BY Widths, DivUnique
<1> QED
  BY <1>1, Widths DEF Add, Low, M

LEMMA AddWraps ==
  ASSUME NEW a \in Int, NEW k \in Int, a + k \in M .. 2 * M - 1
  PROVE  Add(a, k) = a + k - M
<1>1. (1 * M + (a + k - M)) % M = a + k - M
  BY Widths, DivUnique
<1> QED
  BY <1>1, Widths DEF Add, Low, M

LEMMA PageOfAt ==
  ASSUME NEW q \in Int, NEW r \in 0 .. PageSize - 1
  PROVE  PageOf(q * PageSize + r) = q /\ (q * PageSize + r) % PageSize = r
  BY DivUnique, Widths DEF PageOf

\* The page after the one a lies on
NextPage(q) == IF (q + 1) * PageSize < M THEN q + 1 ELSE 0

LEMMA PageFits ==
  ASSUME NEW a \in 0 .. M - 1
  PROVE  /\ PageOf(a) \in Nat /\ a % PageSize \in 0 .. PageSize - 1
         /\ a = PageOf(a) * PageSize + (a % PageSize)
         /\ PageOf(a) * PageSize + PageSize <= M
         /\ (PageOf(a) + 1) * PageSize >= M => (PageOf(a) + 1) * PageSize = M
<1> DEFINE q == PageOf(a)
           r == a % PageSize
           k == M \div PageSize
<1>1. q \in Int /\ r \in 0 .. PageSize - 1 /\ a = q * PageSize + r
  BY Divided, Widths DEF PageOf
<1>2. k \in Int /\ M = k * PageSize
  <2>1. M % PageSize = 0
    BY PagesAssumption DEF M
  <2> QED
    BY <2>1, Divided, Widths
<1> HIDE DEF q, r, k
<1>3. PageSize \in Nat /\ PageSize > 0 /\ M \in Nat
  BY Widths
<1>4. q >= 0
  <2> SUFFICES ASSUME q <= -1 PROVE FALSE
    BY <1>1
  <2>1. q * PageSize <= -1 * PageSize
    BY <1>1, <1>3
  <2> QED
    BY <2>1, <1>1, <1>3
<1>5. q < k
  <2> SUFFICES ASSUME k <= q PROVE FALSE
    BY <1>1, <1>2
  <2>1. k * PageSize <= q * PageSize
    BY <1>1, <1>2, <1>3
  <2> QED
    BY <2>1, <1>1, <1>2, <1>3
<1>6. (q + 1) * PageSize <= k * PageSize /\ (q + 1) * PageSize = q * PageSize + PageSize
  BY <1>5, <1>1, <1>2, <1>3
<1> QED
  BY <1>1, <1>2, <1>3, <1>4, <1>6 DEF q, r

(* The page of a byte at most a page further on: the same, or the next, which *)
(* after the last page is page 0.                                             *)
LEMMA ByteAt ==
  ASSUME NEW a \in 0 .. M - 1, NEW j \in 0 .. PageSize
  PROVE  LET q == PageOf(a)
             r == a % PageSize
         IN IF r + j < PageSize
            THEN Add(a, j) = a + j /\ PageOf(Add(a, j)) = q /\ Add(a, j) % PageSize = r + j
            ELSE j > 0 => PageOf(Add(a, j)) = NextPage(q) /\ Add(a, j) % PageSize = r + j - PageSize
<1> DEFINE q == PageOf(a)
           r == a % PageSize
<1>1. /\ q \in Nat /\ r \in 0 .. PageSize - 1 /\ a = q * PageSize + r
      /\ q * PageSize + PageSize <= M
      /\ (q + 1) * PageSize >= M => (q + 1) * PageSize = M
      /\ (q + 1) * PageSize = q * PageSize + PageSize
  BY PageFits, Widths
<1>2. PageSize \in Nat /\ PageSize > 0 /\ M \in Nat
  BY Widths
<1> HIDE DEF q, r
<1>3. CASE r + j < PageSize
  <2>1. a + j \in 0 .. M - 1 /\ a + j = q * PageSize + (r + j) /\ r + j \in 0 .. PageSize - 1
    BY <1>1, <1>2, <1>3
  <2>2. Add(a, j) = a + j
    BY <2>1, AddSmall
  <2> QED
    BY <2>1, <2>2, <1>1, <1>3, PageOfAt DEF q, r
<1>4. CASE ~ (r + j < PageSize) /\ (q + 1) * PageSize < M
  <2> DEFINE u == r + j - PageSize
  <2>1. u \in 0 .. PageSize - 1 /\ a + j = (q + 1) * PageSize + u
    BY <1>1, <1>2, <1>4
  <2>2. a + j \in 0 .. M - 1
    <3>1. (q + 1) \in 0 .. M - 1 
      BY <1>1, <1>2, <1>4
    <3>2. (q + 1) * PageSize \in 0 .. M - 1
      BY <3>1, <1>1, <1>2, <1>4
    <3>3. PageOf((q + 1) * PageSize) = q + 1 /\ ((q + 1) * PageSize) % PageSize = 0
      <4>1. q + 1 \in Int /\ 0 \in 0 .. PageSize - 1
        BY <1>1, <1>2
      <4>2. (q + 1) * PageSize + 0 = (q + 1) * PageSize
        BY <1>1, <1>2
      <4> QED
        BY <4>1, <4>2, PageOfAt
    <3>4. (q + 1) * PageSize + PageSize <= M
      BY <3>2, <3>3, PageFits, <1>1, <1>2
    <3> QED
      BY <3>4, <2>1, <1>1, <1>2
  <2>3. Add(a, j) = (q + 1) * PageSize + u
    BY <2>1, <2>2, AddSmall
  <2>4. PageOf((q + 1) * PageSize + u) = q + 1 /\ ((q + 1) * PageSize + u) % PageSize = u
    BY <2>1, PageOfAt, <1>1
  <2> QED
    BY <2>3, <2>4, <1>1, <1>4 DEF q, r, NextPage
<1>5. CASE ~ (r + j < PageSize) /\ ~ ((q + 1) * PageSize < M)
  <2> DEFINE u == r + j - PageSize
  <2>1. u \in 0 .. PageSize - 1 /\ a + j - M = u
    BY <1>1, <1>2, <1>5
  <2>2. a + j \in M .. 2 * M - 1
    BY <2>1, <1>1, <1>2
  <2>3. Add(a, j) = u
    BY <2>1, <2>2, AddWraps
  <2>4. PageOf(0 * PageSize + u) = 0 /\ (0 * PageSize + u) % PageSize = u
    BY <2>1, PageOfAt
  <2>5. 0 * PageSize + u = u
    BY <2>1, <1>2
  <2>6. PageOf(u) = 0 /\ u % PageSize = u
    BY <2>4, <2>5
  <2> HIDE DEF u
  <2> QED
    BY <2>3, <2>6, <1>1, <1>5 DEF q, r, NextPage, u
<1> QED
  BY <1>3, <1>4, <1>5 DEF q, r

(* mem.go asks about the two pages an access can touch: that is about each byte. *)
LEMMA AllowedBytes ==
  ASSUME NEW kind, NEW a \in 0 .. M - 1, NEW n \in 1 .. PageSize
  PROVE  Allowed(kind, a, n) <=> \A j \in 0 .. n - 1 : guestPage(kind, Add(a, j))
<1> DEFINE q == PageOf(a)
           r == a % PageSize
           G(p) == p \in Pages /\ kind \in prot[p]
<1>1. r \in 0 .. PageSize - 1 /\ PageSize \in Nat /\ PageSize > 0
  BY PageFits, Widths
<1>2. Add(a - r, PageSize) = Add(a, PageSize - r)
  BY <1>1 DEF Add
<1>3. ~ (r + (PageSize - r) < PageSize) /\ PageSize - r > 0 /\ PageSize - r \in 0 .. PageSize
  BY <1>1
<1>4. PageOf(Add(a - r, PageSize)) = NextPage(q)
  BY <1>2, <1>3, ByteAt
<1>5. Allowed(kind, a, n) <=> G(q) /\ (~ (r <= PageSize - n) => G(NextPage(q)))
  BY <1>4 DEF Allowed, guestPage, Inside
<1>6. ASSUME NEW j \in 0 .. n - 1
      PROVE  guestPage(kind, Add(a, j)) <=> IF r + j < PageSize THEN G(q) ELSE G(NextPage(q))
  <2>1. j \in 0 .. PageSize
    BY <1>1
  <2>2. ~ (r + j < PageSize) => j > 0
    BY <1>1
  <2> QED
    BY <2>1, <2>2, ByteAt DEF guestPage
<1>7. 0 \in 0 .. n - 1 /\ n - 1 \in 0 .. n - 1 /\ r + 0 < PageSize
      /\ (r + (n - 1) < PageSize <=> r <= PageSize - n)
  BY <1>1
<1> HIDE DEF q, r, G
<1>8. CASE r <= PageSize - n
  <2>1. \A j \in 0 .. n - 1 : r + j < PageSize
    BY <1>1, <1>8
  <2>2. \A j \in 0 .. n - 1 : guestPage(kind, Add(a, j)) <=> G(q)
    BY <2>1, <1>6
  <2> QED
    BY <2>2, <1>5, <1>7, <1>8
<1>9. CASE ~ (r <= PageSize - n)
  <2>1. guestPage(kind, Add(a, 0)) <=> G(q)
    BY <1>6, <1>7
  <2>2. guestPage(kind, Add(a, n - 1)) <=> G(NextPage(q))
    BY <1>6, <1>7, <1>9
  <2>3. \A j \in 0 .. n - 1 : G(q) /\ G(NextPage(q)) => guestPage(kind, Add(a, j))
    BY <1>6
  <2> QED
    BY <2>1, <2>2, <2>3, <1>5, <1>7, <1>9
<1> QED
  BY <1>8, <1>9
-----------------------------------------------------------------------------
(* Words and their arithmetic.                                               *)

LEMMA Powers ==
  /\ 2^0 = 1 /\ 2^1 = 2 /\ 2^2 = 4 /\ 2^3 = 8 /\ 2^4 = 16
  OBVIOUS

LEMMA Power ==
  ASSUME NEW m \in 0 .. 2 * XLEN
  PROVE  2^m \in Nat /\ 2^m > 0
  BY WordsAssumption

LEMMA PowerSum ==
  ASSUME NEW m \in Nat, NEW n \in Nat, m + n <= 2 * XLEN
  PROVE  2^(m + n) = 2^m * 2^n
<1>1. m \in 0 .. 2 * XLEN /\ n \in 0 .. 2 * XLEN - m
  BY Widths
<1> QED
  BY <1>1, WordsAssumption

(* The provers know of powers what WordsAssumption says: 2^(m+n) = 2^m * 2^n. *)
LEMMA PowerMonotonic ==
  ASSUME NEW m \in Nat, NEW n \in Nat, m <= n, n <= 2 * XLEN
  PROVE  2^m <= 2^n
<1>1. n - m \in Nat /\ m + (n - m) = n
  OBVIOUS
<1>2. 2^n = 2^m * 2^(n - m)
  BY <1>1, PowerSum
<1>3. 2^m \in Nat /\ 2^(n - m) \in Nat /\ 2^(n - m) > 0
  BY <1>1, Power, Widths
<1> HIDE DEF M
<1>4. 2^m * 2^(n - m) >= 2^m
  <2> DEFINE x == 2^m
             y == 2^(n - m)
  <2> HIDE DEF x, y
  <2>1. x \in Nat /\ y \in Nat /\ y > 0 => x * y >= x
    OBVIOUS
  <2> QED
    BY <2>1, <1>3 DEF x, y
<1> QED
  BY <1>2, <1>4

\* The bits of k bytes, for at most the sixteen of a vector register
LEMMA ByteWidths ==
  ASSUME NEW k \in 0 .. 16
  PROVE  /\ ByteBits * k \in 0 .. 2 * XLEN /\ 2 * XLEN = ByteBits * 16
         /\ 2^(ByteBits * k) \in Nat /\ 2^(ByteBits * k) > 0
<1>1. ByteBits \in Nat /\ ByteBits > 0
  BY WordsAssumption
<1>2. ByteBits * k \in Nat /\ ByteBits * k <= ByteBits * 16
  BY <1>1
<1>3. 2 * XLEN = ByteBits * 16
  BY <1>1 DEF XLEN
<1> QED
  BY <1>2, <1>3, Power

LEMMA LowWord ==
  ASSUME NEW x \in Int, NEW n \in 0 .. 2 * XLEN
  PROVE  Low(x, n) \in Word(n) /\ Low(x, n) \in Nat
<1>1. 2^n \in Nat /\ 2^n > 0
  BY Power
<1> QED
  BY <1>1 DEF Low, Word

LEMMA LsrInt ==
  ASSUME NEW x \in Int, NEW n \in 0 .. 2 * XLEN
  PROVE  Lsr(x, n) \in Int
<1>1. 2^n \in Nat /\ 2^n > 0
  BY Power
<1> QED
  BY <1>1 DEF Lsr

LEMMA WordGrows ==
  ASSUME NEW m \in Nat, NEW n \in Nat, m <= n, n <= 2 * XLEN
  PROVE  Word(m) \subseteq Word(n)
<1>1. 2^m <= 2^n
  BY PowerMonotonic
<1>2. 2^m \in Nat /\ 2^n \in Nat
  BY Power, Widths
<1> QED
  BY <1>1, <1>2 DEF Word

LEMMA sextWord ==
  ASSUME NEW x \in Int, NEW n \in 1 .. 2 * XLEN
  PROVE  sext(x, n) \in Word(XLEN)
<1>1. Low(x, n) \in Nat
  BY LowWord
<1>2. 2^n \in Nat
  BY Power
<1>3. Signed(Low(x, n), n) \in Int
  BY <1>1, <1>2 DEF Signed
<1> QED
  BY <1>3, LowWord, Widths DEF sext

LEMMA extendNat ==
  ASSUME NEW x \in Nat, NEW option \in 0 .. 7
  PROVE  extend(x, option) \in Nat
<1> DEFINE n == ByteBits * 2^(option % 4)
<1>1. option % 4 \in 0 .. 3
  OBVIOUS
<1>2. 2^(option % 4) \in {1, 2, 4, 8}
  <2>1. CASE option % 4 = 0
    BY <2>1, Powers
  <2>2. CASE option % 4 = 1
    BY <2>2, Powers
  <2>3. CASE option % 4 = 2
    BY <2>3, Powers
  <2>4. CASE option % 4 = 3
    BY <2>4, Powers
  <2> QED
    BY <1>1, <2>1, <2>2, <2>3, <2>4
<1>3. n \in 0 .. 2 * XLEN /\ n >= 1
  <2>1. ByteBits \in Nat \ {0}
    BY WordsAssumption
  <2>2. 2^(option % 4) \in 0 .. 16
    BY <1>2
  <2>3. n \in 0 .. 2 * XLEN
    BY <2>2, ByteWidths
  <2> QED
    BY <1>2, <2>1, <2>3
<1>4. Low(x, n) \in Nat
  BY <1>3, LowWord
<1>5. sext(x, n) \in Word(XLEN)
  BY <1>3, sextWord
<1>6. sext(x, n) \in Nat
  BY <1>5, Widths DEF Word, M
<1> HIDE DEF n
<1> QED
  BY <1>4, <1>6 DEF extend, n

\* Cutting twice is cutting to the smaller width.
LEMMA LowLow ==
  ASSUME NEW x \in Int, NEW m \in Nat, NEW n \in Nat, m <= n, n <= 2 * XLEN
  PROVE  Low(Low(x, n), m) = Low(x, m)
<1> DEFINE P == 2^m   Q == 2^(n - m)
<1>1. n - m \in Nat /\ m + (n - m) = n /\ XLEN \in Nat
  BY Widths
<1>2. 2^n = P * Q
  BY <1>1, PowerSum
<1>3. P \in Nat /\ P > 0 /\ Q \in Nat /\ Q > 0
  BY <1>1, Power
<1> HIDE DEF P, Q
<1> DEFINE N == P * Q
           c == x \div N   r == x % N
           d == r \div P   u == r % P
<1>4. N \in Nat /\ N > 0
  BY <1>3
<1>5. c \in Int /\ r \in 0 .. N - 1 /\ x = c * N + r
  <2> HIDE DEF N
  <2> QED
    BY <1>4, Divided
<1>6. d \in Int /\ u \in 0 .. P - 1 /\ r = d * P + u
  <2> HIDE DEF N, r
  <2> QED
    BY <1>3, <1>4, <1>5, Divided
<1> HIDE DEF c, r, d, u
<1>7. x = (c * Q + d) * P + u /\ c * Q + d \in Int
  BY <1>3, <1>5, <1>6
<1>8. ((c * Q + d) * P + u) % P = u
  <2> DEFINE k == c * Q + d
  <2>1. k \in Int
    BY <1>7
  <2> HIDE DEF k
  <2> QED
    BY <2>1, <1>3, <1>6, DivUnique DEF k
<1>9. x % P = u
  BY <1>7, <1>8
<1>10. r % P = u
  BY <1>3, <1>6, DivUnique
<1> QED
  BY <1>2, <1>9, <1>10 DEF Low, P, N, r

\* Shifting twice is shifting by the sum.
LEMMA LsrLsr ==
  ASSUME NEW x \in Int, NEW m \in Nat, NEW n \in Nat, m + n <= 2 * XLEN
  PROVE  Lsr(Lsr(x, m), n) = Lsr(x, m + n)
<1> DEFINE P == 2^m   Q == 2^n
<1>1. XLEN \in Nat
  BY Widths
<1>2. 2^(m + n) = P * Q
  BY PowerSum
<1>3. P \in Nat /\ P > 0 /\ Q \in Nat /\ Q > 0
  BY <1>1, Power
<1> HIDE DEF P, Q
<1> DEFINE d == x \div P   u == x % P
           c == d \div Q   v == d % Q
<1>4. d \in Int /\ u \in 0 .. P - 1 /\ x = d * P + u
  BY <1>3, Divided
<1> HIDE DEF d, u
<1>5. c \in Int /\ v \in 0 .. Q - 1 /\ d = c * Q + v
  BY <1>3, <1>4, Divided
<1> HIDE DEF c, v
<1> DEFINE N == P * Q   w == v * P + u
<1>6. N \in Nat /\ N > 0 /\ w \in 0 .. N - 1
  <2>1. v * P \in Nat /\ v * P <= (Q - 1) * P /\ (Q - 1) * P = P * Q - P
    BY <1>3, <1>5
  <2> QED
    BY <2>1, <1>3, <1>4
<1>7. x = c * N + w
  BY <1>3, <1>4, <1>5
<1> HIDE DEF N, w
<1>8. x \div N = c
  BY <1>5, <1>6, <1>7, DivUnique
<1> QED
  BY <1>2, <1>8 DEF Lsr, P, Q, N, c, d

\* What is cut off above does not matter below.
LEMMA LsrLow ==
  ASSUME NEW x \in Int, NEW k \in Nat, NEW m \in Nat, NEW n \in Nat, k + m <= n, n <= 2 * XLEN
  PROVE  Low(Lsr(Low(x, n), k), m) = Low(Lsr(x, k), m)
<1> DEFINE P == 2^k   Q == 2^m   R == 2^(n - (k + m))
<1>1. n - (k + m) \in Nat /\ (k + m) + (n - (k + m)) = n /\ XLEN \in Nat /\ k + m \in Nat
  BY Widths
<1>2. 2^n = (P * Q) * R
  <2>1. 2^(k + m) = P * Q
    BY <1>1, PowerSum
  <2>2. 2^((k + m) + (n - (k + m))) = 2^(k + m) * R
    BY <1>1, PowerSum
  <2> QED
    BY <2>1, <2>2, <1>1
<1>3. P \in Nat /\ P > 0 /\ Q \in Nat /\ Q > 0 /\ R \in Nat /\ R > 0
  BY <1>1, Power
<1> HIDE DEF P, Q, R
<1> DEFINE N == (P * Q) * R
           c == x \div N   r == x % N
           d == r \div P   u == r % P
<1>4. N \in Nat /\ N > 0
  BY <1>3
<1>5. c \in Int /\ r \in 0 .. N - 1 /\ x = c * N + r
  <2> HIDE DEF N
  <2> QED
    BY <1>4, Divided
<1>6. d \in Int /\ u \in 0 .. P - 1 /\ r = d * P + u
  <2> HIDE DEF N, r
  <2> QED
    BY <1>3, <1>4, <1>5, Divided
<1> HIDE DEF c, r, d, u
<1> DEFINE b == c * R   q == b * Q + d
<1>7. b \in Int /\ q \in Int /\ x = q * P + u
  <2>1. b \in Int
    BY <1>3, <1>5
  <2>2. q \in Int
    BY <2>1, <1>3, <1>6
  <2>3. c * N = ((c * R) * Q) * P
    BY <1>3, <1>5
  <2>4. (b * Q + d) * P = (b * Q) * P + d * P
    <3> HIDE DEF b
    <3>1. b * Q \in Int
      BY <2>1, <1>3
    <3> DEFINE g == b * Q
    <3> HIDE DEF g
    <3>2. g \in Int => (g + d) * P = g * P + d * P
      BY <1>3, <1>6
    <3> QED
      BY <3>1, <3>2 DEF g
  <2> HIDE DEF N
  <2>5. c * N \in Int /\ d * P \in Int
    BY <1>3, <1>4, <1>5, <1>6
  <2> QED
    BY <2>1, <2>2, <2>3, <2>4, <2>5, <1>5, <1>6
<1> HIDE DEF N
<1>8. x \div P = q
  <2> HIDE DEF q
  <2> QED
    BY <1>3, <1>6, <1>7, DivUnique
<1>9. r \div P = d
  BY <1>3, <1>6, DivUnique
<1> HIDE DEF b
<1>10. q % Q = d % Q
  <2> DEFINE f == d \div Q   g == d % Q
  <2>1. f \in Int /\ g \in 0 .. Q - 1 /\ d = f * Q + g
    BY <1>3, <1>6, Divided
  <2> HIDE DEF f, g
  <2>2. q = (b + f) * Q + g /\ b + f \in Int
    BY <2>1, <1>3, <1>7
  <2>3. ((b + f) * Q + g) % Q = g
    <3> DEFINE h == b + f
    <3>1. h \in Int
      BY <2>2
    <3> HIDE DEF h
    <3> QED
      BY <3>1, <2>1, <1>3, DivUnique DEF h
  <2> HIDE DEF q
  <2> QED
    BY <2>2, <2>3 DEF g
<1> QED
  BY <1>2, <1>8, <1>9, <1>10 DEF Low, Lsr, P, Q, N, r

\* A word is its own low part.
LEMMA LowOfWord ==
  ASSUME NEW n \in 0 .. 2 * XLEN, NEW x \in Word(n)
  PROVE  Low(x, n) = x
<1> DEFINE P == 2^n
<1>1. P \in Nat /\ P > 0
  BY Power
<1>2. x \in 0 .. P - 1
  BY DEF Word
<1> HIDE DEF P
<1>3. (0 * P + x) % P = x
  BY <1>1, <1>2, DivUnique
<1> QED
  BY <1>1, <1>2, <1>3 DEF Low, P
\* A word splits where one likes
LEMMA LowAndRest ==
  ASSUME NEW m \in Nat, NEW n \in Nat, m + n <= 2 * XLEN, NEW x \in Word(m), NEW y \in Word(n)
  PROVE  /\ x + y * 2^m \in Word(m + n)
         /\ Low(x + y * 2^m, m) = x
         /\ Lsr(x + y * 2^m, m) = y
<1> DEFINE P == 2^m   Q == 2^n
<1>1. XLEN \in Nat /\ 2^(m + n) = P * Q
  BY PowerSum, Widths
<1>2. P \in Nat /\ P > 0 /\ Q \in Nat /\ Q > 0
  BY <1>1, Power
<1>3. x \in 0 .. P - 1 /\ y \in 0 .. Q - 1
  BY DEF Word
<1> HIDE DEF P, Q
<1>4. y * P <= (Q - 1) * P /\ (Q - 1) * P = P * Q - P /\ y * P \in Nat /\ P * Q \in Nat
  BY <1>2, <1>3
<1>5. x + y * P \in 0 .. P * Q - 1 /\ x + y * P = y * P + x
  BY <1>2, <1>3, <1>4
<1>6. (y * P + x) % P = x /\ (y * P + x) \div P = y
  BY <1>2, <1>3, DivUnique
<1> QED
  BY <1>1, <1>5, <1>6 DEF Word, Low, Lsr, P

(* Pieces of w bits put together make a word of w * n bits, from which each    *)
(* can be taken again.                                                        *)
LEMMA GatheredWord ==
  ASSUME NEW pieces, NEW n \in Nat, NEW w \in Nat, w * n <= 2 * XLEN,
         \A k \in 1 .. n : pieces[k] \in Word(w)
  PROVE  /\ Gathered(pieces, n, w) \in Word(w * n)
         /\ \A j \in 0 .. n - 1 : Low(Lsr(Gathered(pieces, n, w), w * j), w) = pieces[j + 1]
<1> DEFINE g(k) == pieces[k] * 2^(w * (k - 1))
           F(m, f) == f = [k \in 0 .. m |-> IF k = 0 THEN 0 ELSE f[k - 1] + g(k)]
           W(f, k) == /\ f[k] \in Word(w * k)
                      /\ \A j \in 0 .. k - 1 : Low(Lsr(f[k], w * j), w) = pieces[j + 1]
           S == {m \in Nat : m <= n => \E f : F(m, f)}
           d == CHOOSE f : F(n, f)
           T == {m \in Nat : m <= n => W(d, m)}
<1>1. 0 \in S
  <2> DEFINE f == [k \in 0 .. 0 |-> 0]
  <2>1. F(0, f)
    OBVIOUS
  <2> QED
    BY <2>1
<1>2. ASSUME NEW m \in Nat, m \in S, m + 1 <= n
      PROVE  \E f : F(m + 1, f)
  <2>1. PICK f : F(m, f)
    BY <1>2
  <2> DEFINE h == [k \in 0 .. m + 1 |-> IF k = m + 1 THEN f[m] + g(k) ELSE f[k]]
  <2>2. h = [k \in 0 .. m + 1 |-> IF k = 0 THEN 0 ELSE h[k - 1] + g(k)]
    <3> SUFFICES ASSUME NEW k \in 0 .. m + 1
                 PROVE  h[k] = IF k = 0 THEN 0 ELSE h[k - 1] + g(k)
      OBVIOUS
    <3> HIDE DEF g
    <3>1. CASE k = m + 1
      <4>1. k # 0 /\ k - 1 = m /\ k - 1 \in 0 .. m + 1 /\ k - 1 # m + 1
        BY <3>1
      <4>2. h[k] = f[m] + g(k) /\ h[k - 1] = f[m]
        BY <3>1, <4>1
      <4> QED
        BY <4>1, <4>2
    <3>2. CASE k # m + 1
      <4>1. k \in 0 .. m
        BY <3>2
      <4>2. f[k] = IF k = 0 THEN 0 ELSE f[k - 1] + g(k)
        BY <4>1, <2>1
      <4>3. k # 0 => h[k - 1] = f[k - 1]
        BY <4>1
      <4> QED
        BY <3>2, <4>2, <4>3
    <3> QED
      BY <3>1, <3>2
  <2> HIDE DEF h
  <2> QED
    BY <2>2
<1>3. Nat \subseteq S
  <2>1. ASSUME NEW m \in Nat, m \in S
        PROVE  m + 1 \in S
    <3> HIDE DEF F
    <3> QED
      BY <1>2, <2>1
  <2> HIDE DEF S
  <2> QED
    BY <1>1, <2>1, SetInduction
<1>4. F(n, d)
  <2>1. \E f : F(n, f)
    <3> HIDE DEF F
    <3> QED
      BY <1>3
  <2> QED
    BY <2>1
<1>5. Gathered(pieces, n, w) = d[n]
  BY DEF Gathered
<1> HIDE DEF d
<1>6. ASSUME NEW m \in Nat, m + 1 <= n, W(d, m)
      PROVE  W(d, m + 1)
  <2> DEFINE b == pieces[m + 1]
             u == w * m
             x == d[m]
  <2>1. m + 1 \in 1 .. n /\ (m + 1) - 1 = m
    BY <1>6
  <2>2. b \in Word(w)
    BY <2>1
  <2>3. x \in Word(u)
    BY <1>6
  <2>4. w * (m + 1) = u + w /\ u \in Nat /\ w * (m + 1) <= w * n /\ w * (m + 1) <= 2 * XLEN
    <3>1. XLEN \in Nat
      BY Widths
    <3>2. w * (m + 1) <= w * n
      <4>1. m + 1 <= n
        BY <1>6
      <4> QED
        BY <4>1
    <3> QED
      BY <3>1, <3>2
  <2> HIDE DEF u
  <2>5. u \in 0 .. 2 * XLEN /\ w \in 0 .. 2 * XLEN
    BY <2>4, Widths
  <2>6. d[m + 1] = x + b * 2^u
    BY <2>1, <1>4 DEF u
  <2> DEFINE y == x + b * 2^u
  <2>7. y \in Word(u + w) /\ Low(y, u) = x /\ Lsr(y, u) = b
    BY <2>2, <2>3, <2>4, LowAndRest
  <2>8. y \in Int
    <3>1. 2^(u + w) \in Nat
      BY <2>4, Power, Widths
    <3> QED
      BY <2>7, <3>1 DEF Word
  <2> HIDE DEF y
  <2>9. ASSUME NEW j \in 0 .. (m + 1) - 1
        PROVE  Low(Lsr(y, w * j), w) = pieces[j + 1]
    <3>1. CASE j = m
      <4>1. w * j = u
        BY <3>1 DEF u
      <4>2. Low(b, w) = b
        BY <2>2, <2>5, LowOfWord
      <4> QED
        BY <3>1, <4>1, <4>2, <2>7
    <3>2. CASE j # m
      <4>1. j \in 0 .. m - 1
        BY <3>2
      <4>2. w * j \in Nat /\ w * j + w <= u
        <5>1. w * j \in Nat /\ w * j + w = w * (j + 1) /\ w * (j + 1) <= w * m
          BY <4>1
        <5> QED
          BY <5>1 DEF u
      <4>3. Low(Lsr(Low(y, u), w * j), w) = Low(Lsr(y, w * j), w)
        BY <4>2, <2>5, <2>8, LsrLow, <2>4
      <4>4. Low(Lsr(x, w * j), w) = pieces[j + 1]
        BY <4>1, <1>6
      <4> QED
        BY <4>3, <4>4, <2>7
    <3> QED
      BY <3>1, <3>2
  <2> QED
    BY <2>4, <2>6, <2>7, <2>9 DEF y
<1>7. W(d, 0)
  <2>1. w * 0 = 0
    OBVIOUS
  <2>2. d[0] = 0
    BY <1>4
  <2>3. 0 \in Word(0)
    BY Powers DEF Word
  <2> QED
    BY <2>1, <2>2, <2>3
<1>8. Nat \subseteq T
  <2>1. ASSUME NEW m \in Nat, m \in T
        PROVE  m + 1 \in T
    <3> HIDE DEF W
    <3> QED
      BY <1>6, <2>1
  <2>2. 0 \in T
    BY <1>7
  <2> HIDE DEF T
  <2> QED
    BY <2>1, <2>2, SetInduction
<1>9. n \in T
  BY <1>8
<1> QED
  BY <1>5, <1>9

\* Memory as a sum of its bytes
LEMMA LoadWord ==
  ASSUME NEW s, NEW a \in Int, NEW n \in 0 .. 16,
         \A k \in 1 .. n : s.mem[Add(a, k - 1)] \in Word(ByteBits)
  PROVE  ReadN(s, a, n) \in Word(ByteBits * n)
<1> DEFINE pieces == [k \in 1 .. n |-> s.mem[Add(a, k - 1)]]
<1>1. \A k \in 1 .. n : pieces[k] \in Word(ByteBits)
  OBVIOUS
<1>2. ByteBits \in Nat /\ n \in Nat /\ ByteBits * n <= 2 * XLEN
  BY ByteWidths, WordsAssumption
<1> HIDE DEF pieces
<1>3. Gathered(pieces, n, ByteBits) \in Word(ByteBits * n)
  BY <1>1, <1>2, GatheredWord
<1> QED
  BY <1>3 DEF ReadN, pieces

-----------------------------------------------------------------------------
(* Spans of bytes.                                                           *)

Span(kind, a, n) == \A j \in 0 .. n - 1 : guestPage(kind, Add(a, j))

LEMMA WordXLEN ==
  /\ Word(XLEN) = 0 .. M - 1 /\ Word(XLEN) \subseteq Nat
  /\ PageSize \in Nat /\ PageSize >= 64
  BY Widths, PagesAssumption DEF Word, M, dczvaBytes

LEMMA AddInWord ==
  ASSUME NEW a \in Int, NEW k \in Int
  PROVE  Add(a, k) \in Word(XLEN)
  BY AddWord, WordXLEN

LEMMA AddAdd ==
  ASSUME NEW a \in Int, NEW k \in Int, NEW j \in Int
  PROVE  Add(Add(a, k), j) = Add(a, k + j)
<1> DEFINE c == (a + k) \div M
           r == (a + k) % M
           d == (r + j) \div M
           u == (r + j) % M
<1>1. c \in Int /\ r \in 0 .. M - 1 /\ a + k = c * M + r
  BY Widths, Divided
<1>2. d \in Int /\ u \in 0 .. M - 1 /\ r + j = d * M + u
  <2>1. r + j \in Int
    BY <1>1
  <2> QED
    BY <2>1, Widths, Divided
<1>3. Add(a, k) = r /\ Add(Add(a, k), j) = u
  BY DEF Add, Low, M
<1> HIDE DEF c, r, d, u
<1>4. a + (k + j) = (c + d) * M + u /\ c + d \in Int
  BY <1>1, <1>2, Widths
<1>5. ((c + d) * M + u) % M = u
  <2> DEFINE q == c + d
  <2>1. M \in Nat /\ M > 0 /\ q \in Int /\ u \in 0 .. M - 1
    BY <1>4, <1>2, Widths
  <2> HIDE DEF q
  <2>2. (q * M + u) % M = u
    BY <2>1, DivUnique
  <2> QED
    BY <2>2 DEF q
<1> QED
  BY <1>3, <1>4, <1>5 DEF Add, Low, M

LEMMA SpanAllowed ==
  ASSUME NEW kind, NEW a \in Word(XLEN), NEW n \in 1 .. 64
  PROVE  Allowed(kind, a, n) <=> Span(kind, a, n)
<1>1. n \in 1 .. PageSize /\ a \in 0 .. M - 1
  BY WordXLEN
<1> QED
  BY <1>1, AllowedBytes DEF Span

LEMMA PartAllowed ==
  ASSUME NEW kind, NEW a \in Word(XLEN), NEW m \in Nat, Span(kind, a, m),
         NEW k \in Nat, NEW n \in 1 .. 64, k + n <= m
  PROVE  Allowed(kind, Add(a, k), n)
<1>1. a \in Int
  BY WordXLEN
<1>2. Add(a, k) \in Word(XLEN)
  BY <1>1, AddInWord
<1>3. ASSUME NEW j \in 0 .. n - 1
      PROVE  guestPage(kind, Add(Add(a, k), j))
  <2>1. Add(Add(a, k), j) = Add(a, k + j)
    BY <1>1, AddAdd
  <2>2. k + j \in 0 .. m - 1
    OBVIOUS
  <2> QED
    BY <2>1, <2>2 DEF Span
<1> QED
  BY <1>2, <1>3, SpanAllowed DEF Span

\* A word plus nothing
LEMMA AddZero ==
  ASSUME NEW a \in Word(XLEN)
  PROVE  Add(a, 0) = a
<1>1. a \in 0 .. M - 1 /\ a \in Int /\ a + 0 = a
  BY WordXLEN
<1> QED
  BY <1>1, AddSmall

LEMMA SpanSplit ==
  ASSUME NEW kind, NEW a \in Word(XLEN), NEW n \in 1 .. 64
  PROVE  Span(kind, a, 2 * n) <=> Span(kind, a, n) /\ Span(kind, Add(a, n), n)
<1>1. a \in Int
  BY WordXLEN
<1>2. ASSUME NEW j \in 0 .. n - 1
      PROVE  Add(Add(a, n), j) = Add(a, n + j)
  BY <1>1, AddAdd
<1>3. ASSUME Span(kind, a, 2 * n)
      PROVE  Span(kind, a, n) /\ Span(kind, Add(a, n), n)
  <2>1. \A j \in 0 .. n - 1 : j \in 0 .. 2 * n - 1 /\ n + j \in 0 .. 2 * n - 1
    OBVIOUS
  <2> QED
    BY <1>2, <1>3, <2>1 DEF Span
<1>4. ASSUME Span(kind, a, n), Span(kind, Add(a, n), n), NEW j \in 0 .. 2 * n - 1
      PROVE  guestPage(kind, Add(a, j))
  <2>1. CASE j < n
    BY <2>1, <1>4 DEF Span
  <2>2. CASE ~ (j < n)
    <3>1. j - n \in 0 .. n - 1 /\ n + (j - n) = j
      BY <2>2
    <3> QED
      BY <3>1, <1>2, <1>4 DEF Span
  <2> QED
    BY <2>1, <2>2
<1> QED
  BY <1>3, <1>4 DEF Span

\* The first and the last byte tell for the span
(* The check before a store looks at the first and the last byte.             *)
LEMMA SpanEnds ==
  ASSUME NEW kind, NEW a \in Word(XLEN), NEW n \in 1 .. 64
  PROVE  Span(kind, a, n) <=>
           /\ guestPage(kind, a)
           /\ PageOf(Add(a, n - 1)) # PageOf(a) => guestPage(kind, Add(a, n - 1))
<1>1. a \in 0 .. M - 1 /\ PageSize \in Nat /\ PageSize >= 64 /\ a \in Int
  BY WordXLEN
<1>2. a % PageSize \in 0 .. PageSize - 1
  BY <1>1, PageFits
<1>3. ASSUME Span(kind, a, n)
      PROVE  guestPage(kind, a) /\ guestPage(kind, Add(a, n - 1))
  <2>1. 0 \in 0 .. n - 1 /\ n - 1 \in 0 .. n - 1
    OBVIOUS
  <2> QED
    BY <2>1, <1>3, AddZero DEF Span
<1>4. ASSUME guestPage(kind, a),
             PageOf(Add(a, n - 1)) # PageOf(a) => guestPage(kind, Add(a, n - 1)),
             NEW j \in 0 .. n - 1
      PROVE  guestPage(kind, Add(a, j))
  <2>1. j \in 0 .. PageSize /\ n - 1 \in 0 .. PageSize
    BY <1>1
  <2>2. CASE (a % PageSize) + j < PageSize
    <3>1. PageOf(Add(a, j)) = PageOf(a)
      BY <2>1, <2>2, <1>1, ByteAt
    <3> QED
      BY <3>1, <1>4 DEF guestPage
  <2>3. CASE ~ ((a % PageSize) + j < PageSize)
    <3>1. j > 0 /\ n - 1 > 0 /\ ~ ((a % PageSize) + (n - 1) < PageSize)
      BY <2>3, <1>1, <1>2
    <3>2. PageOf(Add(a, j)) = NextPage(PageOf(a))
      BY <3>1, <2>1, <2>3, <1>1, ByteAt
    <3>3. PageOf(Add(a, n - 1)) = NextPage(PageOf(a))
      BY <3>1, <2>1, <1>1, ByteAt
    <3> QED
      BY <3>2, <3>3, <1>4 DEF guestPage
  <2> QED
    BY <2>2, <2>3
<1> QED
  BY <1>3, <1>4 DEF Span

\* The bytes of an allowed access are in memory
(* Bytes that are allowed exist.                                              *)
LEMMA SpanInMemory ==
  ASSUME NEW kind, NEW a \in Word(XLEN), NEW n \in 0 .. 64, Span(kind, a, n), NEW j \in 0 .. n - 1
  PROVE  Add(a, j) \in Cells
<1> DEFINE x == Add(a, j)
           q == PageOf(x)
<1>1. x \in 0 .. M - 1 /\ guestPage(kind, x)
  <2>1. a \in Int /\ j \in Int
    BY WordXLEN
  <2> QED
    BY <2>1, AddWord DEF Span
<1>2. q \in Nat /\ x % PageSize \in 0 .. PageSize - 1 /\ x = q * PageSize + (x % PageSize)
  BY <1>1, PageFits
<1>3. q <= NumPages - 1 /\ NumPages \in Nat /\ PageSize \in Nat
  BY <1>1, PagesAssumption DEF guestPage, Pages
<1> HIDE DEF x, q
<1>4. (q + 1) * PageSize <= NumPages * PageSize /\ (q + 1) * PageSize = q * PageSize + PageSize
      /\ NumPages * PageSize \in Nat
  BY <1>2, <1>3
<1> QED
  BY <1>1, <1>2, <1>3, <1>4 DEF Cells, x

-----------------------------------------------------------------------------
(* The parts of a handler.                                                   *)

CpuStates ==
  [r : [XRegs -> Word(XLEN)], v : [VRegs -> Word(2 * XLEN)], pc : Word(XLEN),
   excl : [valid : BOOLEAN, addr : Word(XLEN), size : Nat, val : Nat, val2 : Nat],
   mem : [Cells -> Word(ByteBits)], fault : BOOLEAN]

\* t is what an instruction that may fault makes of s: it faults if and only
\* if the access is bad, and a fault is all it then leaves
Outcome(s, t, bad) ==
  /\ t \in CpuStates
  /\ t.fault <=> bad
  /\ bad => t = Fault(s)

LEMMA FaultFields ==
  ASSUME NEW s \in CpuStates
  PROVE  /\ Fault(s) \in CpuStates /\ Fault(s).fault /\ Fault(Fault(s)) = Fault(s)
         /\ Fault(s).r = s.r /\ Fault(s).v = s.v /\ Fault(s).pc = s.pc /\ Fault(s).mem = s.mem
         /\ Fault(s).excl = s.excl
         /\ s.fault => Fault(s) = s
  BY DEF CpuStates, Fault

(* checkWrite before a store of n bytes.                                      *)
LEMMA Checked ==
  ASSUME NEW t \in CpuStates, NEW a \in Word(XLEN), NEW n \in 1 .. 64
  PROVE  checkWrite(t, a, n) = IF t.fault \/ ~Span("W", a, n) THEN Fault(t) ELSE t
<1>1. Span("W", a, n) <=>
           /\ guestPage("W", a)
           /\ PageOf(Add(a, n - 1)) # PageOf(a) => guestPage("W", Add(a, n - 1))
  BY SpanEnds
<1> QED
  BY <1>1, FaultFields DEF checkWrite, Check

(* A pair load as one check of 2n bytes, although it is made in three parts.  *)
LEMMA TwoReads ==
  ASSUME NEW t \in CpuStates, NEW a \in Word(XLEN), NEW n \in 1 .. 64
  PROVE  Reads(Reads(Check(t, "R", a), a, n), Add(a, n), n)
           = IF t.fault \/ ~Span("R", a, 2 * n) THEN Fault(t) ELSE t
<1>1. Add(a, n) \in Word(XLEN)
  <2>1. a \in Int /\ n \in Int
    BY WordXLEN
  <2> QED
    BY <2>1, AddInWord
<1>2. Allowed("R", a, n) <=> Span("R", a, n)
  BY SpanAllowed
<1>3. Allowed("R", Add(a, n), n) <=> Span("R", Add(a, n), n)
  BY <1>1, SpanAllowed
<1>4. Allowed("R", a, n) => guestPage("R", a)
  BY DEF Allowed
<1> QED
  BY <1>2, <1>3, <1>4, SpanSplit, FaultFields DEF Reads, Check

LEMMA OutcomeStart ==
  ASSUME NEW s \in CpuStates, ~s.fault, NEW bad \in BOOLEAN
  PROVE  Outcome(s, IF bad THEN Fault(s) ELSE s, bad)
  BY FaultFields DEF Outcome

LEMMA OutcomeSetR ==
  ASSUME NEW s \in CpuStates, NEW t, NEW bad \in BOOLEAN, Outcome(s, t, bad), NEW x, NEW val,
         ~bad => val \in Word(XLEN)
  PROVE  Outcome(s, SetR(t, x, val), bad)
<1>1. CASE bad
  BY <1>1 DEF Outcome, SetR
<1>2. CASE ~bad
  BY <1>2 DEF Outcome, SetR, CpuStates
<1> QED
  BY <1>1, <1>2

LEMMA OutcomeSetV ==
  ASSUME NEW s \in CpuStates, NEW t, NEW bad \in BOOLEAN, Outcome(s, t, bad), NEW x, NEW val,
         ~bad => val \in Word(2 * XLEN)
  PROVE  Outcome(s, SetV(t, x, val), bad)
<1>1. CASE bad
  BY <1>1 DEF Outcome, SetV
<1>2. CASE ~bad
  BY <1>2 DEF Outcome, SetV, CpuStates
<1> QED
  BY <1>1, <1>2

LEMMA OutcomeDone ==
  ASSUME NEW s \in CpuStates, NEW t, NEW bad \in BOOLEAN, Outcome(s, t, bad)
  PROVE  Outcome(s, Done(t), bad)
<1>1. CASE bad
  BY <1>1 DEF Outcome, Done
<1>2. CASE ~bad
  <2>1. t.pc \in Word(XLEN)
    BY DEF Outcome, CpuStates
  <2>2. t.pc \in Int /\ 4 \in Int
    BY <2>1, WordXLEN
  <2>3. Add(t.pc, 4) \in Word(XLEN)
    BY <2>2, AddInWord
  <2> QED
    BY <1>2, <2>3 DEF Outcome, Done, CpuStates
<1> QED
  BY <1>1, <1>2

LEMMA OutcomeMonitor ==
  ASSUME NEW s \in CpuStates, NEW t, NEW bad \in BOOLEAN, Outcome(s, t, bad),
         NEW a \in Word(XLEN), NEW n \in Nat, NEW x, NEW y, ~bad => x \in Nat /\ y \in Nat
  PROVE  Outcome(s, Monitor(t, a, n, x, y), bad)
<1>1. CASE bad
  BY <1>1 DEF Outcome, Monitor
<1>2. CASE ~bad
  BY <1>2 DEF Outcome, Monitor, CpuStates
<1> QED
  BY <1>1, <1>2

LEMMA storeNType ==
  ASSUME NEW mem \in [Cells -> Word(ByteBits)], NEW a \in Int, NEW n \in 0 .. 16, NEW x \in Int
  PROVE  storeN(mem, a, n, x) \in [Cells -> Word(ByteBits)]
<1> SUFFICES ASSUME NEW c \in Cells, Low(c - a, XLEN) < n
             PROVE  Low(Lsr(x, ByteBits * Low(c - a, XLEN)), ByteBits) \in Word(ByteBits)
  BY DEF storeN
<1> DEFINE k == Low(c - a, XLEN)
<1>1. c - a \in Int
  BY PagesAssumption DEF Cells
<1>2. k \in Nat
  BY <1>1, LowWord, Widths
<1>3. k \in 0 .. 16
  BY <1>2
<1> HIDE DEF k
<1>4. Lsr(x, ByteBits * k) \in Int
  BY <1>3, ByteWidths, LsrInt
<1>5. ByteBits \in 0 .. 2 * XLEN
  <2>1. ByteBits * 1 = ByteBits
    BY WordsAssumption
  <2> QED
    BY <2>1, ByteWidths
<1> QED
  BY <1>4, <1>5, LowWord DEF k

LEMMA OutcomeWrite ==
  ASSUME NEW s \in CpuStates, NEW t, NEW bad \in BOOLEAN, Outcome(s, t, bad),
         NEW a \in Word(XLEN), NEW n \in 0 .. 16, NEW x \in Int,
         ~bad => Allowed("W", a, n)
  PROVE  Outcome(s, WriteN(t, a, n, x), bad)
<1>1. CASE bad
  BY <1>1, FaultFields DEF Outcome, WriteN
<1>2. CASE ~bad
  <2>1. t.mem \in [Cells -> Word(ByteBits)] /\ a \in Int
    BY WordXLEN DEF Outcome, CpuStates
  <2>2. storeN(t.mem, a, n, x) \in [Cells -> Word(ByteBits)]
    BY <2>1, storeNType
  <2> QED
    BY <1>2, <2>2 DEF Outcome, WriteN, CpuStates
<1> QED
  BY <1>1, <1>2

LEMMA ByteOfMemory ==
  ASSUME NEW s \in CpuStates, NEW kind, NEW a \in Word(XLEN), NEW n \in 0 .. 16, Span(kind, a, n)
  PROVE  ReadN(s, a, n) \in Word(ByteBits * n)
<1>1. ASSUME NEW k \in 1 .. n
      PROVE  s.mem[Add(a, k - 1)] \in Word(ByteBits)
  <2>1. Add(a, k - 1) \in Cells
    BY SpanInMemory
  <2> QED
    BY <2>1 DEF CpuStates
<1>2. a \in Int
  BY WordXLEN
<1> QED
  BY <1>1, <1>2, LoadWord

-----------------------------------------------------------------------------
(* Decoded instructions and their handlers.                                  *)

Singles == {"opLdrOff", "opStrOff", "opLdrReg", "opStrReg", "opLoad", "opStore"}
Pairs == {"opLoadPair", "opStorePair", "opLdp64Off", "opStp64Off"}
VSingles == {"opVLoad", "opVStore"}
VPairs == {"opVLoadPair", "opVStorePair"}
Exclusives == {"opLdxr", "opStxr", "opLdxp", "opStxp"}
Multis == {"opSIMDLoadMulti", "opSIMDStoreMulti"}
Handlers == Singles \cup Pairs \cup VSingles \cup VPairs \cup Exclusives \cup Multis
            \cup {"opNop", "opUndef", "opClrex", "opDcZva"}

Insts == [fn : Handlers, rd : Nat, rn : Nat, rm : Nat, ra : Nat, cond : 0 .. 3,
          sh : Nat, amt : Nat, sz : Nat, imm : Int]

Addressed(i) ==
  /\ i.rn \in XRegs
  /\ i.cond = modeReg => i.rm \in XRegs /\ i.ra \in 0 .. 7 /\ i.amt \in 0 .. 4

Operands(i) ==
  /\ i \in Insts
  /\ i.fn \in Singles \cup Pairs => i.sz \in 1 .. 8 /\ i.rd \in XRegs
  /\ i.fn \in Pairs => i.ra \in XRegs
  /\ i.fn \in VSingles \cup VPairs => i.sz \in 1 .. 16 /\ i.rd \in VRegs
  /\ i.fn \in VPairs => i.ra \in VRegs
  /\ i.fn \in Singles \cup Pairs \cup VSingles \cup VPairs => Addressed(i)
  /\ i.fn \in {"opLdrOff", "opStrOff", "opLdp64Off", "opStp64Off"} => i.cond = modeOff
  /\ i.fn \in {"opLdrReg", "opStrReg"} => i.cond = modeReg
  /\ i.fn \in {"opLdp64Off", "opStp64Off"} => i.sz = 8
  /\ i.fn \in Exclusives => i.sz \in 1 .. 8 /\ {i.rn, i.rd} \subseteq XRegs
  /\ i.fn \in {"opLdxp", "opStxp"} => i.rm \in XRegs
  /\ i.fn = "opDcZva" => i.rn \in XRegs
  /\ i.fn \in Multis =>
       /\ i.rn \in XRegs
       /\ i.cond = modeReg => i.rm \in XRegs
       /\ i.sz \in 0 .. 3 /\ i.sh \in 1 .. 4 /\ i.amt \in {8, 16} /\ i.ra \in {1, i.sh}
       /\ i.rd \in 0 .. 31 /\ \A k \in 0 .. i.sh - 1 : VReg(i, k) \in VRegs

LEMMA RegisterWord ==
  ASSUME NEW s \in CpuStates, NEW x \in XRegs
  PROVE  s.r[x] \in Word(XLEN) /\ s.r[x] \in Nat
  BY WordXLEN DEF CpuStates

LEMMA addrForWord ==
  ASSUME NEW s \in CpuStates, NEW i \in Insts, Addressed(i)
  PROVE  addrFor(s, i) \in Word(XLEN) /\ addrFor(s, i) \in Nat
<1>1. s.r[i.rn] \in Word(XLEN) /\ s.r[i.rn] \in Int /\ i.imm \in Int
  BY RegisterWord DEF Addressed, Insts
<1>2. CASE i.cond = modeReg
  <2> DEFINE x == extend(s.r[i.rm], i.ra)
             y == 2^i.amt
  <2>1. x \in Nat
    BY <1>2, RegisterWord, extendNat DEF Addressed
  <2>2. y \in Nat
    <3>1. i.amt \in 0 .. 16 /\ ByteBits \in Nat \ {0}
      BY <1>2, WordsAssumption DEF Addressed
    <3>2. i.amt \in 0 .. 2 * XLEN
      BY <3>1 DEF XLEN
    <3> QED
      BY <3>2, Power
  <2> HIDE DEF x, y
  <2>3. x * y \in Int
    BY <2>1, <2>2
  <2>4. Add(s.r[i.rn], x * y) \in Word(XLEN)
    BY <1>1, <2>3, AddInWord
  <2>5. addrFor(s, i) = Add(s.r[i.rn], x * y)
    BY <1>2 DEF addrFor, x, y, modeReg, modePost
  <2> QED
    BY <2>4, <2>5, WordXLEN
<1>3. CASE i.cond # modeReg
  <2>1. Add(s.r[i.rn], i.imm) \in Word(XLEN)
    BY <1>1, AddInWord
  <2> QED
    BY <1>1, <1>3, <2>1, WordXLEN DEF addrFor
<1> QED
  BY <1>2, <1>3

LEMMA Outcomewriteback ==
  ASSUME NEW s \in CpuStates, NEW t, NEW bad \in BOOLEAN, Outcome(s, t, bad),
         NEW i \in Insts, NEW a \in Word(XLEN)
  PROVE  Outcome(s, writeback(t, i, a), bad)
<1>1. a \in Int /\ i.imm \in Int
  BY WordXLEN DEF Insts
<1>2. Add(a, i.imm) \in Word(XLEN)
  BY <1>1, AddInWord
<1>3. CASE i.cond = modePre
  <2>1. Outcome(s, SetR(t, i.rn, a), bad)
    BY OutcomeSetR
  <2> QED
    BY <1>3, <2>1 DEF writeback, modePre, modePost
<1>4. CASE i.cond = modePost
  <2>1. Outcome(s, SetR(t, i.rn, Add(a, i.imm)), bad)
    BY <1>2, OutcomeSetR
  <2> QED
    BY <1>4, <2>1 DEF writeback, modePre, modePost
<1>5. CASE i.cond # modePre /\ i.cond # modePost
  BY <1>5 DEF writeback
<1> QED
  BY <1>3, <1>4, <1>5

LEMMA ExtendedWord ==
  ASSUME NEW i \in Insts, i.sz \in 1 .. 8, NEW x \in Word(ByteBits * i.sz)
  PROVE  Extended(i, x) \in Word(XLEN)
<1>1. i.sz \in 0 .. 16
  OBVIOUS
<1> DEFINE n == ByteBits * i.sz
<1>2. ByteBits \in Nat /\ ByteBits > 0 /\ XLEN = 8 * ByteBits /\ WLEN = 4 * ByteBits
  BY WordsAssumption DEF XLEN, WLEN
<1>3. n \in 1 .. 2 * XLEN /\ n <= XLEN
  BY <1>2
<1>4. x \in Int
  <2>1. 2^n \in Nat
    BY <1>3, Power
  <2> QED
    BY <2>1 DEF Word
<1>5. sext(x, n) \in Word(XLEN)
  BY <1>3, <1>4, sextWord
<1>6. Low(sext(x, n), WLEN) \in Word(XLEN)
  <2>1. sext(x, n) \in Int
    BY <1>5, WordXLEN
  <2>2. Low(sext(x, n), WLEN) \in Word(WLEN)
    BY <2>1, <1>2, LowWord
  <2>3. Word(WLEN) \subseteq Word(XLEN)
    BY <1>2, WordGrows
  <2> QED
    BY <2>2, <2>3
<1>7. x \in Word(XLEN)
  <2>1. Word(n) \subseteq Word(XLEN)
    BY <1>2, <1>3, WordGrows
  <2> QED
    BY <2>1
<1> QED
  BY <1>5, <1>6, <1>7 DEF Extended

\* What a readable span holds, extended or not, fits a register
LEMMA Readable ==
  ASSUME NEW s \in CpuStates, NEW a \in Word(XLEN), NEW n \in 0 .. 16, Span("R", a, n)
  PROVE  /\ ReadN(s, a, n) \in Nat /\ ReadN(s, a, n) \in Word(2 * XLEN)
         /\ n <= 8 => ReadN(s, a, n) \in Word(XLEN)
<1>1. ReadN(s, a, n) \in Word(ByteBits * n)
  BY ByteOfMemory
<1>2. ByteBits \in Nat /\ XLEN = ByteBits * 8
  BY WordsAssumption DEF XLEN
<1>3. ByteBits * n \in Nat /\ ByteBits * n <= 2 * XLEN /\ (n <= 8 => ByteBits * n <= XLEN)
  BY <1>2
<1>4. Word(ByteBits * n) \subseteq Word(2 * XLEN) /\ (n <= 8 => Word(ByteBits * n) \subseteq Word(XLEN))
  BY <1>2, <1>3, WordGrows
<1>5. 2^(ByteBits * n) \in Nat
  BY ByteWidths
<1> QED
  BY <1>1, <1>4, <1>5 DEF Word

LEMMA opLoadOutcome ==
  ASSUME NEW s \in CpuStates, ~s.fault, NEW i, Operands(i), i.fn = "opLoad"
  PROVE  Outcome(s, opLoad(s, i), ~Span("R", addrFor(s, i), i.sz))
<1> DEFINE a == addrFor(s, i)
           bad == ~Span("R", a, i.sz)
           t == Reads(s, a, i.sz)
<1>1. i \in Insts /\ i.sz \in 1 .. 8 /\ Addressed(i)
  BY DEF Operands, Singles
<1>2. a \in Word(XLEN)
  BY <1>1, addrForWord
<1>3. t = IF bad THEN Fault(s) ELSE s
  BY <1>1, <1>2, SpanAllowed DEF Reads
<1>4. ~bad => Extended(i, ReadN(s, a, i.sz)) \in Word(XLEN)
  BY <1>1, <1>2, ByteOfMemory, ExtendedWord
<1>5. bad \in BOOLEAN
  OBVIOUS
<1> HIDE DEF a, bad
<1>6. Outcome(s, t, bad)
  BY <1>3, <1>5, OutcomeStart
<1>7. Outcome(s, ldInt(s, i, a), bad)
  BY <1>4, <1>5, <1>6, OutcomeSetR DEF ldInt
<1>8. Outcome(s, writeback(ldInt(s, i, a), i, a), bad)
  BY <1>1, <1>2, <1>5, <1>7, Outcomewriteback
<1>9. Outcome(s, Done(writeback(ldInt(s, i, a), i, a)), bad)
  BY <1>5, <1>8, OutcomeDone
<1> QED
  BY <1>9 DEF opLoad, a, bad

LEMMA opStoreOutcome ==
  ASSUME NEW s \in CpuStates, ~s.fault, NEW i, Operands(i), i.fn = "opStore"
  PROVE  Outcome(s, opStore(s, i), ~Span("W", addrFor(s, i), i.sz))
<1> DEFINE a == addrFor(s, i)
           bad == ~Span("W", a, i.sz)
           t == WriteN(s, a, i.sz, s.r[i.rd])
<1>1. i \in Insts /\ i.sz \in 1 .. 8 /\ Addressed(i) /\ i.rd \in XRegs
  BY DEF Operands, Singles
<1>2. a \in Word(XLEN) /\ s.r[i.rd] \in Int
  BY <1>1, addrForWord, RegisterWord
<1>3. Allowed("W", a, i.sz) <=> ~bad
  BY <1>1, <1>2, SpanAllowed
<1>4. bad \in BOOLEAN
  OBVIOUS
<1> HIDE DEF a, bad
<1>5. Outcome(s, t, bad)
  <2>1. CASE bad
    BY <2>1, <1>3, FaultFields DEF Outcome, WriteN
  <2>2. CASE ~bad
    <3>1. Outcome(s, s, bad)
      BY <2>2, <1>4, OutcomeStart
    <3> QED
      BY <3>1, <2>2, <1>1, <1>2, <1>3, <1>4, OutcomeWrite
  <2> QED
    BY <2>1, <2>2, <1>4
<1>6. Outcome(s, writeback(t, i, a), bad)
  BY <1>1, <1>2, <1>4, <1>5, Outcomewriteback
<1>7. Outcome(s, Done(writeback(t, i, a)), bad)
  BY <1>4, <1>6, OutcomeDone
<1> QED
  BY <1>7 DEF opStore, a, bad
LEMMA opLoadPairOutcome ==
  ASSUME NEW s \in CpuStates, ~s.fault, NEW i, Operands(i), i.fn = "opLoadPair"
  PROVE  Outcome(s, opLoadPair(s, i), ~Span("R", addrFor(s, i), 2 * i.sz))
<1> DEFINE a == addrFor(s, i)
           b == Add(a, i.sz)
           bad == ~Span("R", a, 2 * i.sz)
           t == Reads(Reads(Check(s, "R", a), a, i.sz), b, i.sz)
           x == Extended(i, ReadN(s, a, i.sz))
           y == Extended(i, ReadN(s, b, i.sz))
           u == SetR(SetR(t, i.rd, x), i.ra, y)
<1>1. i \in Insts /\ i.sz \in 1 .. 8 /\ Addressed(i)
  BY DEF Operands, Pairs
<1>2. a \in Word(XLEN) /\ a \in Int
  BY <1>1, addrForWord
<1>3. b \in Word(XLEN)
  BY <1>1, <1>2, AddInWord
<1>4. t = IF bad THEN Fault(s) ELSE s
  BY <1>1, <1>2, TwoReads
<1>5. ~bad => x \in Word(XLEN) /\ y \in Word(XLEN)
  <2>1. ~bad => Span("R", a, i.sz) /\ Span("R", b, i.sz)
    BY <1>1, <1>2, SpanSplit
  <2> HIDE DEF a, b, bad
  <2>2. i.sz \in 0 .. 16
    BY <1>1
  <2>3. ~bad => ReadN(s, a, i.sz) \in Word(ByteBits * i.sz) /\ ReadN(s, b, i.sz) \in Word(ByteBits * i.sz)
    BY <2>1, <2>2, <1>2, <1>3, ByteOfMemory
  <2> QED
    BY <2>3, <1>1, ExtendedWord
<1>6. bad \in BOOLEAN
  OBVIOUS
<1> HIDE DEF a, b, bad, t, x, y
<1>7. Outcome(s, t, bad)
  BY <1>4, <1>6, OutcomeStart
<1>8. Outcome(s, SetR(t, i.rd, x), bad)
  BY <1>5, <1>6, <1>7, OutcomeSetR
<1>9. Outcome(s, u, bad)
  BY <1>5, <1>6, <1>8, OutcomeSetR
<1>10. Outcome(s, writeback(u, i, a), bad)
  BY <1>1, <1>2, <1>6, <1>9, Outcomewriteback
<1>11. Outcome(s, Done(writeback(u, i, a)), bad)
  BY <1>6, <1>10, OutcomeDone
<1> QED
  BY <1>11 DEF opLoadPair, a, b, bad, t, x, y

\* Two stores of n bytes after the span was checked
LEMMA TwoWrites ==
  ASSUME NEW s \in CpuStates, NEW t, NEW a \in Word(XLEN), NEW n \in 1 .. 16,
         NEW x \in Int, NEW y \in Int, Outcome(s, t, ~Span("W", a, 2 * n))
  PROVE  Outcome(s, WriteN(WriteN(t, a, n, x), Add(a, n), n, y), ~Span("W", a, 2 * n))
<1> DEFINE bad == ~Span("W", a, 2 * n)
<1>1. Add(a, n) \in Word(XLEN) /\ bad \in BOOLEAN
  <2>1. a \in Int /\ n \in Int
    BY WordXLEN
  <2> QED
    BY <2>1, AddInWord
<1>2. ~bad => Allowed("W", a, n) /\ Allowed("W", Add(a, n), n)
  <2>1. n \in 1 .. 64
    OBVIOUS
  <2> QED
    BY <1>1, <2>1, SpanSplit, SpanAllowed
<1>3. Outcome(s, t, bad) /\ n \in 0 .. 16
  OBVIOUS
<1> HIDE DEF bad
<1>4. Outcome(s, WriteN(t, a, n, x), bad)
  BY <1>1, <1>2, <1>3, OutcomeWrite
<1>5. Outcome(s, WriteN(WriteN(t, a, n, x), Add(a, n), n, y), bad)
  BY <1>1, <1>2, <1>3, <1>4, OutcomeWrite
<1> QED
  BY <1>5 DEF bad

LEMMA opStorePairOutcome ==
  ASSUME NEW s \in CpuStates, ~s.fault, NEW i, Operands(i), i.fn = "opStorePair"
  PROVE  Outcome(s, opStorePair(s, i), ~Span("W", addrFor(s, i), 2 * i.sz))
<1> DEFINE a == addrFor(s, i)
           bad == ~Span("W", a, 2 * i.sz)
           c == checkWrite(s, a, 2 * i.sz)
           t == WriteN(WriteN(c, a, i.sz, s.r[i.rd]), Add(a, i.sz), i.sz, s.r[i.ra])
<1>1. i \in Insts /\ i.sz \in 1 .. 8 /\ Addressed(i) /\ i.rd \in XRegs /\ i.ra \in XRegs
  BY DEF Operands, Pairs
<1>2. a \in Word(XLEN) /\ s.r[i.rd] \in Int /\ s.r[i.ra] \in Int
  BY <1>1, addrForWord, RegisterWord
<1>3. 2 * i.sz \in 1 .. 64 /\ bad \in BOOLEAN
  BY <1>1
<1>4. c = IF bad THEN Fault(s) ELSE s
  BY <1>2, <1>3, Checked
<1> HIDE DEF a, c
<1>5. Outcome(s, c, bad)
  <2> HIDE DEF bad
  <2> QED
    BY <1>3, <1>4, OutcomeStart
<1>6. Outcome(s, t, bad)
  <2>1. i.sz \in 1 .. 16
    BY <1>1
  <2> QED
    BY <1>2, <1>5, <2>1, TwoWrites
<1> HIDE DEF bad, t
<1>7. Outcome(s, writeback(t, i, a), bad)
  BY <1>1, <1>2, <1>3, <1>6, Outcomewriteback
<1>8. Outcome(s, Done(writeback(t, i, a)), bad)
  BY <1>3, <1>7, OutcomeDone
<1> QED
  BY <1>8 DEF opStorePair, a, bad, c, t

(* Vector registers.                                                         *)

LEMMA VectorHalves ==
  ASSUME NEW s \in CpuStates, NEW x \in VRegs
  PROVE  Low(s.v[x], XLEN) \in Int /\ Lsr(s.v[x], XLEN) \in Int
<1>1. XLEN \in 0 .. 2 * XLEN /\ 2 * XLEN \in 0 .. 2 * XLEN
  BY Widths
<1>2. s.v[x] \in Int
  <2>1. s.v[x] \in Word(2 * XLEN)
    BY DEF CpuStates
  <2>2. 2^(2 * XLEN) \in Nat
    BY <1>1, Power
  <2> QED
    BY <2>1, <2>2 DEF Word
<1>3. XLEN \in Nat
  BY Widths
<1>4. Low(s.v[x], XLEN) \in Nat
  BY <1>1, <1>2, LowWord
<1>5. Lsr(s.v[x], XLEN) \in Int
  BY <1>1, <1>2, LsrInt
<1> QED
  BY <1>4, <1>5

LEMMA vLoadIs ==
  ASSUME NEW t \in CpuStates, NEW i \in Insts, i.sz \in 1 .. 16, NEW a \in Word(XLEN)
  PROVE  vLoad(t, i, a) = SetV(IF t.fault \/ ~Span("R", a, i.sz) THEN Fault(t) ELSE t,
                               i.rd, ReadN(t, a, i.sz))
<1>1. CASE i.sz = 16
  <2>1. 2 * 8 = 16 /\ 8 \in 1 .. 64
    OBVIOUS
  <2>2. Reads(Reads(Check(t, "R", a), a, 8), Add(a, 8), 8)
          = IF t.fault \/ ~Span("R", a, 16) THEN Fault(t) ELSE t
    BY <2>1, TwoReads
  <2> QED
    BY <1>1, <2>2 DEF vLoad
<1>2. CASE i.sz # 16
  <2>1. Allowed("R", a, i.sz) <=> Span("R", a, i.sz)
    BY SpanAllowed
  <2> QED
    BY <1>2, <2>1 DEF vLoad, Reads
<1> QED
  BY <1>1, <1>2

LEMMA OutcomevStore ==
  ASSUME NEW s \in CpuStates, NEW x \in CpuStates, NEW t, NEW bad \in BOOLEAN, Outcome(s, t, bad),
         NEW i \in Insts, i.sz \in 1 .. 16, NEW a \in Word(XLEN), i.rd \in VRegs,
         ~bad => Span("W", a, i.sz)
  PROVE  Outcome(s, vStore(t, i, a), bad)
<1>1. t \in CpuStates /\ a \in Int
  BY WordXLEN DEF Outcome
<1> DEFINE y == Low(t.v[i.rd], XLEN)
           z == Lsr(t.v[i.rd], XLEN)
<1>2. y \in Int /\ z \in Int
  BY <1>1, VectorHalves
<1> HIDE DEF y, z
<1>3. CASE i.sz = 16
  <2> DEFINE c == checkWrite(t, a, 16)
  <2>1. c = IF t.fault \/ ~Span("W", a, 16) THEN Fault(t) ELSE t
    BY <1>1, Checked
  <2>2. c = t
    BY <1>3, <2>1, FaultFields DEF Outcome
  <2>3. Add(a, 8) \in Word(XLEN)
    BY <1>1, AddInWord
  <2>4. ~bad => Allowed("W", a, 8) /\ Allowed("W", Add(a, 8), 8)
    <3>1. 2 * 8 = 16 /\ 8 \in 1 .. 64
      OBVIOUS
    <3>2. ~bad => Span("W", a, 8) /\ Span("W", Add(a, 8), 8)
      BY <1>3, <3>1, SpanSplit
    <3> QED
      BY <3>1, <3>2, <2>3, SpanAllowed
  <2>5. Outcome(s, WriteN(t, a, 8, y), bad)
    BY <1>2, <2>4, OutcomeWrite
  <2>6. Outcome(s, WriteN(WriteN(t, a, 8, y), Add(a, 8), 8, z), bad)
    BY <1>2, <2>3, <2>4, <2>5, OutcomeWrite
  <2> QED
    BY <1>3, <2>2, <2>6 DEF vStore, y, z
<1>4. CASE i.sz # 16
  <2>1. ~bad => Allowed("W", a, i.sz)
    BY SpanAllowed
  <2>2. i.sz \in 0 .. 16
    OBVIOUS
  <2>3. Outcome(s, WriteN(t, a, i.sz, y), bad)
    BY <1>2, <2>1, <2>2, OutcomeWrite
  <2> QED
    BY <1>4, <2>3 DEF vStore, y
<1> QED
  BY <1>3, <1>4
LEMMA opVLoadOutcome ==
  ASSUME NEW s \in CpuStates, ~s.fault, NEW i, Operands(i), i.fn = "opVLoad"
  PROVE  Outcome(s, opVLoad(s, i), ~Span("R", addrFor(s, i), i.sz))
<1> DEFINE a == addrFor(s, i)
           bad == ~Span("R", a, i.sz)
<1>1. i \in Insts /\ i.sz \in 1 .. 16 /\ Addressed(i)
  BY DEF Operands, VSingles
<1>2. a \in Word(XLEN)
  BY <1>1, addrForWord
<1>3. vLoad(s, i, a) = SetV(IF bad THEN Fault(s) ELSE s, i.rd, ReadN(s, a, i.sz))
  BY <1>1, <1>2, vLoadIs
<1>4. ~bad => ReadN(s, a, i.sz) \in Word(2 * XLEN)
  <2>1. i.sz \in 0 .. 16
    BY <1>1
  <2> QED
    BY <1>2, <2>1, Readable
<1>5. bad \in BOOLEAN
  OBVIOUS
<1> HIDE DEF a, bad
<1>6. Outcome(s, IF bad THEN Fault(s) ELSE s, bad)
  BY <1>5, OutcomeStart
<1>7. Outcome(s, vLoad(s, i, a), bad)
  BY <1>3, <1>4, <1>5, <1>6, OutcomeSetV
<1>8. Outcome(s, writeback(vLoad(s, i, a), i, a), bad)
  BY <1>1, <1>2, <1>5, <1>7, Outcomewriteback
<1>9. Outcome(s, Done(writeback(vLoad(s, i, a), i, a)), bad)
  BY <1>5, <1>8, OutcomeDone
<1> QED
  BY <1>9 DEF opVLoad, a, bad

LEMMA opVStoreOutcome ==
  ASSUME NEW s \in CpuStates, ~s.fault, NEW i, Operands(i), i.fn = "opVStore"
  PROVE  Outcome(s, opVStore(s, i), ~Span("W", addrFor(s, i), i.sz))
<1> DEFINE a == addrFor(s, i)
           bad == ~Span("W", a, i.sz)
           t == vStore(s, i, a)
<1>1. i \in Insts /\ i.sz \in 1 .. 16 /\ Addressed(i) /\ i.rd \in VRegs
  BY DEF Operands, VSingles
<1>2. a \in Word(XLEN)
  BY <1>1, addrForWord
<1>3. bad \in BOOLEAN
  OBVIOUS
<1>4. Outcome(s, t, bad)
  <2>1. CASE ~bad
    <3>1. Outcome(s, s, bad)
      BY <2>1 DEF Outcome
    <3> QED
      BY <2>1, <3>1, <1>1, <1>2, <1>3, OutcomevStore
  <2>2. CASE bad
    <3>1. i.sz = 16 => checkWrite(s, a, 16) = Fault(s)
      BY <2>2, <1>2, Checked
    <3>2. i.sz # 16 => ~Allowed("W", a, i.sz)
      BY <2>2, <1>1, <1>2, SpanAllowed
    <3>3. t = Fault(s)
      BY <3>1, <3>2, FaultFields DEF vStore, WriteN
    <3> QED
      BY <2>2, <3>3, FaultFields DEF Outcome
  <2> QED
    BY <2>1, <2>2
<1> HIDE DEF a, bad, t
<1>5. Outcome(s, writeback(t, i, a), bad)
  BY <1>1, <1>2, <1>3, <1>4, Outcomewriteback
<1>6. Outcome(s, Done(writeback(t, i, a)), bad)
  BY <1>3, <1>5, OutcomeDone
<1> QED
  BY <1>6 DEF opVStore, a, bad, t

LEMMA opVStorePairOutcome ==
  ASSUME NEW s \in CpuStates, ~s.fault, NEW i, Operands(i), i.fn = "opVStorePair"
  PROVE  Outcome(s, opVStorePair(s, i), ~Span("W", addrFor(s, i), 2 * i.sz))
<1> DEFINE a == addrFor(s, i)
           b == Add(a, i.sz)
           bad == ~Span("W", a, 2 * i.sz)
           half == [i EXCEPT !.rd = i.ra]
           c == checkWrite(s, a, 2 * i.sz)
           t == vStore(vStore(c, i, a), half, b)
<1>1. i \in Insts /\ i.sz \in 1 .. 16 /\ i.sz \in 1 .. 64 /\ Addressed(i) /\ i.rd \in VRegs /\ i.ra \in VRegs
  BY DEF Operands, VPairs
<1>2. half \in Insts /\ half.sz = i.sz /\ half.rd = i.ra
  BY <1>1 DEF Insts
<1>3. a \in Word(XLEN) /\ a \in Int /\ i.sz \in Int
  BY <1>1, addrForWord
<1>4. b \in Word(XLEN) /\ 2 * i.sz \in 1 .. 64 /\ bad \in BOOLEAN
  BY <1>1, <1>3, AddInWord
<1>5. c = IF bad THEN Fault(s) ELSE s
  BY <1>3, <1>4, Checked
<1>6. ~bad => Span("W", a, i.sz) /\ Span("W", b, i.sz)
  BY <1>1, <1>3, SpanSplit
<1> HIDE DEF a, b, bad, half, c
<1>7. Outcome(s, c, bad)
  BY <1>4, <1>5, OutcomeStart
<1>8. Outcome(s, vStore(c, i, a), bad)
  BY <1>1, <1>3, <1>4, <1>6, <1>7, OutcomevStore
<1>9. Outcome(s, t, bad)
  BY <1>1, <1>2, <1>4, <1>6, <1>8, OutcomevStore
<1>10. Outcome(s, writeback(t, i, a), bad)
  BY <1>1, <1>3, <1>4, <1>9, Outcomewriteback
<1>11. Outcome(s, Done(writeback(t, i, a)), bad)
  BY <1>4, <1>10, OutcomeDone
<1> QED
  BY <1>11 DEF opVStorePair, a, b, bad, half, c, t

(* The specialised handlers, on a page the TLB knows or not.                 *)

HitAllowed(kind, hit, a) == hit \in BOOLEAN /\ (hit => guestPage(kind, a))

LEMMA HitSpan ==
  ASSUME NEW kind, NEW hit, NEW a \in Word(XLEN), NEW n \in 1 .. 64, HitAllowed(kind, hit, a),
         hit /\ Inside(a, n)
  PROVE  Span(kind, a, n)
<1>1. Allowed(kind, a, n)
  BY DEF HitAllowed, Allowed
<1> QED
  BY <1>1, SpanAllowed

LEMMA HotLoadOutcome ==
  ASSUME NEW s \in CpuStates, ~s.fault, NEW i \in Insts, i.sz \in 1 .. 8, NEW a \in Word(XLEN),
         NEW hit, HitAllowed("R", hit, a)
  PROVE  Outcome(s, HotLoad(s, i, a, hit), ~Span("R", a, i.sz))
<1> DEFINE bad == ~Span("R", a, i.sz)
           t == IF hit /\ Inside(a, i.sz) THEN s ELSE Reads(s, a, i.sz)
<1>1. i.sz \in 1 .. 64 /\ i.sz \in 0 .. 16 /\ i.sz <= 8 /\ bad \in BOOLEAN
  OBVIOUS
<1>2. hit /\ Inside(a, i.sz) => ~bad
  BY <1>1, HitSpan
<1>3. t = IF bad THEN Fault(s) ELSE s
  BY <1>1, <1>2, SpanAllowed DEF Reads
<1>4. ~bad => ReadN(s, a, i.sz) \in Word(XLEN)
  BY <1>1, Readable
<1> HIDE DEF bad, t
<1>5. Outcome(s, t, bad)
  BY <1>1, <1>3, OutcomeStart
<1>6. Outcome(s, SetR(t, i.rd, ReadN(s, a, i.sz)), bad)
  BY <1>1, <1>4, <1>5, OutcomeSetR
<1>7. Outcome(s, Done(SetR(t, i.rd, ReadN(s, a, i.sz))), bad)
  BY <1>1, <1>6, OutcomeDone
<1> QED
  BY <1>7 DEF HotLoad, bad, t

LEMMA HotStoreOutcome ==
  ASSUME NEW s \in CpuStates, ~s.fault, NEW i \in Insts, i.sz \in 1 .. 8, i.rd \in XRegs,
         NEW a \in Word(XLEN), NEW hit, HitAllowed("W", hit, a)
  PROVE  Outcome(s, HotStore(s, i, a, hit), ~Span("W", a, i.sz))
<1> DEFINE bad == ~Span("W", a, i.sz)
           t == IF hit /\ Inside(a, i.sz) THEN [s EXCEPT !.mem = storeN(s.mem, a, i.sz, s.r[i.rd])]
                ELSE WriteN(s, a, i.sz, s.r[i.rd])
<1>1. i.sz \in 1 .. 64 /\ i.sz \in 0 .. 16 /\ bad \in BOOLEAN /\ s.r[i.rd] \in Int /\ ~s.fault
  BY RegisterWord
<1>2. hit /\ Inside(a, i.sz) => ~bad
  BY <1>1, HitSpan
<1>3. Allowed("W", a, i.sz) <=> ~bad
  BY <1>1, SpanAllowed
<1>4. t = WriteN(s, a, i.sz, s.r[i.rd])
  BY <1>1, <1>2, <1>3 DEF WriteN
<1>5. bad => WriteN(s, a, i.sz, s.r[i.rd]) = Fault(s)
  BY <1>3 DEF WriteN
<1> HIDE DEF bad, t
<1>6. Outcome(s, t, bad)
  <2>1. CASE bad
    BY <2>1, <1>4, <1>5, FaultFields DEF Outcome
  <2>2. CASE ~bad
    <3>1. Outcome(s, s, bad)
      BY <2>2, <1>1 DEF Outcome
    <3> QED
      BY <3>1, <2>2, <1>1, <1>3, <1>4, OutcomeWrite
  <2> QED
    BY <2>1, <2>2, <1>1
<1>7. Outcome(s, Done(t), bad)
  BY <1>1, <1>6, OutcomeDone
<1> QED
  BY <1>7 DEF HotStore, bad, t

LEMMA HotAddress ==
  ASSUME NEW s \in CpuStates, NEW i, Operands(i)
  PROVE  /\ i.fn \in {"opLdrOff", "opStrOff"} => addrFor(s, i) = Offset(s, i)
         /\ i.fn \in {"opLdrReg", "opStrReg"} => addrFor(s, i) = Indexed(s, i)
<1>1. ASSUME i.cond = modeOff
      PROVE  addrFor(s, i) = Offset(s, i)
  BY <1>1 DEF addrFor, Offset, modeOff, modePost, modeReg
<1>2. ASSUME i.cond = modeReg
      PROVE  addrFor(s, i) = Indexed(s, i)
  BY <1>2 DEF addrFor, Indexed, modePost, modeReg
<1> QED
  BY <1>1, <1>2 DEF Operands

LEMMA opStp64OffOutcome ==
  ASSUME NEW s \in CpuStates, ~s.fault, NEW i, Operands(i), i.fn = "opStp64Off",
         NEW hit, HitAllowed("W", hit, addrFor(s, i))
  PROVE  Outcome(s, opStp64Off(s, i, hit), ~Span("W", addrFor(s, i), 2 * i.sz))
<1> DEFINE a == addrFor(s, i)
           x == s.r[i.rd]
           y == s.r[i.ra]
           bad == ~Span("W", a, 2 * 8)
           c == checkWrite(s, a, 16)
           w == WriteN(WriteN(c, a, 8, x), Add(a, 8), 8, y)
           both(m) == storeN(storeN(m, a, 8, x), Add(a, 8), 8, y)
           t == IF hit /\ Inside(a, 16) THEN [s EXCEPT !.mem = both(s.mem)] ELSE w
<1>1. i \in Insts /\ i.sz = 8 /\ Addressed(i) /\ i.rd \in XRegs /\ i.ra \in XRegs
  BY DEF Operands, Pairs
<1>2. a \in Word(XLEN) /\ x \in Int /\ y \in Int /\ a \in Int
  BY <1>1, addrForWord, RegisterWord
<1>3. bad \in BOOLEAN /\ 2 * 8 = 16 /\ 8 \in 1 .. 16 /\ 16 \in 1 .. 64 /\ 8 \in 1 .. 64
  OBVIOUS
<1>4. Add(a, 8) \in Word(XLEN)
  BY <1>2, <1>3, AddInWord
<1>5. c = IF bad THEN Fault(s) ELSE s
  BY <1>2, <1>3, Checked
<1>6. Outcome(s, c, bad)
  <2> HIDE DEF bad
  <2> QED
    BY <1>3, <1>5, OutcomeStart
<1>7. Outcome(s, w, bad)
  BY <1>2, <1>3, <1>6, TwoWrites
<1>8. hit /\ Inside(a, 16) => t = w
  <2> SUFFICES ASSUME hit /\ Inside(a, 16) PROVE t = w
    OBVIOUS
  <2>1. ~bad /\ c = s
    BY <1>2, <1>3, <1>5, HitSpan
  <2>2. Allowed("W", a, 8) /\ Allowed("W", Add(a, 8), 8)
    <3>1. Span("W", a, 8) /\ Span("W", Add(a, 8), 8)
      BY <2>1, <1>2, <1>3, SpanSplit
    <3> QED
      BY <3>1, <1>2, <1>3, <1>4, SpanAllowed
  <2>3. WriteN(c, a, 8, x) = [s EXCEPT !.mem = storeN(s.mem, a, 8, x)]
    BY <2>1, <2>2 DEF WriteN
  <2>4. w = [s EXCEPT !.mem = both(s.mem)]
    BY <2>2, <2>3 DEF WriteN, CpuStates
  <2> QED
    BY <2>4
<1>9. t = w
  BY <1>8
<1> HIDE DEF w, bad, t
<1>10. Outcome(s, Done(t), bad)
  BY <1>3, <1>7, <1>9, OutcomeDone
<1>11. opStp64Off(s, i, hit) = Done(t)
  BY DEF opStp64Off, t, w
<1> QED
  BY <1>1, <1>10, <1>11 DEF bad
(* The two pair loads that write their first register before the second read. *)

Crosses(a, n) == PageOf(a) # PageOf(Add(a, n - 1))

\* A span that breaks off after its first half crosses into another page
LEMMA HalfCrosses ==
  ASSUME NEW kind, NEW a \in Word(XLEN), NEW n \in 1 .. 16, Span(kind, a, n), ~Span(kind, a, 2 * n)
  PROVE  Crosses(a, 2 * n)
<1>1. 2 * n \in 1 .. 64 /\ n \in 1 .. 64
  OBVIOUS
<1>2. guestPage(kind, a)
  BY <1>1, SpanEnds
<1> QED
  BY <1>1, <1>2, SpanEnds DEF Crosses

LEMMA opVLoadPairOutcome ==
  ASSUME NEW s \in CpuStates, ~s.fault, NEW i, Operands(i), i.fn = "opVLoadPair"
  PROVE  LET a == addrFor(s, i)
             n == i.sz
             t == opVLoadPair(s, i)
         IN IF Span("R", a, n) /\ ~Span("R", a, 2 * n)
            THEN /\ Crosses(a, 2 * n)
                 /\ Outcome([s EXCEPT !.v[i.rd] = ReadN(s, a, n)], t, TRUE)
            ELSE Outcome(s, t, ~Span("R", a, 2 * n))
<1> DEFINE a == addrFor(s, i)
           n == i.sz
           b == Add(a, n)
           half == [i EXCEPT !.rd = i.ra]
           x == ReadN(s, a, n)
           u == vLoad(s, i, a)
           w == vLoad(u, half, b)
           p == [s EXCEPT !.v[i.rd] = x]
           one == Span("R", a, n)
           two == Span("R", b, n)
<1>1. i \in Insts /\ n \in 1 .. 16 /\ n \in 1 .. 64 /\ n \in 0 .. 16 /\ Addressed(i)
  BY DEF Operands, VPairs
<1>2. half \in Insts /\ half.sz = n
  BY <1>1, ProgramsAssumption DEF Insts, Operands, VPairs
<1>3. a \in Word(XLEN) /\ a \in Int /\ n \in Int
  BY <1>1, addrForWord
<1>4. b \in Word(XLEN)
  BY <1>3, AddInWord
<1>5. Span("R", a, 2 * n) <=> one /\ two
  BY <1>1, <1>3, SpanSplit
<1>6. u = SetV(IF s.fault \/ ~one THEN Fault(s) ELSE s, i.rd, x)
  BY <1>1, <1>3, vLoadIs
<1>7. opVLoadPair(s, i) = Done(writeback(w, i, a))
  BY DEF opVLoadPair
<1>8. one => x \in Word(2 * XLEN)
  BY <1>1, <1>3, Readable
<1>9. one => p \in CpuStates /\ ~p.fault
  BY <1>8 DEF CpuStates
<1>10. ASSUME NEW q \in CpuStates, NEW y, NEW bad \in BOOLEAN, Outcome(q, y, bad)
       PROVE  Outcome(q, Done(writeback(y, i, a)), bad)
  BY <1>1, <1>3, <1>10, Outcomewriteback, OutcomeDone
<1>11. ASSUME NEW y \in CpuStates
       PROVE  w = w /\ vLoad(y, half, b) = SetV(IF y.fault \/ ~two THEN Fault(y) ELSE y,
                                         half.rd, ReadN(y, b, n))
  BY <1>1, <1>2, <1>4, vLoadIs
<1> HIDE DEF a, n, b, half, x
<1>12. CASE ~one
  <2>1. u = Fault(s)
    BY <1>6, <1>12, FaultFields DEF SetV
  <2>2. w = Fault(s)
    BY <2>1, <1>11, FaultFields DEF SetV
  <2>3. Outcome(s, w, TRUE)
    BY <2>2, FaultFields DEF Outcome
  <2> QED
    BY <2>3, <1>5, <1>7, <1>10, <1>12 DEF a, n
<1>13. CASE one /\ ~two
  <2>1. u = p
    BY <1>6, <1>13 DEF SetV
  <2>2. w = Fault(p)
    BY <2>1, <1>9, <1>11, <1>13, FaultFields DEF SetV
  <2>3. Outcome(p, w, TRUE)
    BY <2>2, <1>9, <1>13, FaultFields DEF Outcome
  <2>4. Crosses(a, 2 * n)
    BY <1>1, <1>3, <1>5, <1>13, HalfCrosses
  <2>5. Outcome(p, Done(writeback(w, i, a)), TRUE)
    BY <2>3, <1>9, <1>10, <1>13
  <2> HIDE DEF w
  <2> QED
    BY <2>4, <2>5, <1>5, <1>7, <1>13 DEF a, n, x
<1>14. CASE one /\ two
  <2>1. u = p
    BY <1>6, <1>14 DEF SetV
  <2>2. Outcome(s, p, FALSE)
    BY <1>9, <1>14 DEF Outcome
  <2>3. ReadN(p, b, n) \in Word(2 * XLEN)
    BY <1>1, <1>4, <1>9, <1>14, Readable
  <2>4. w = SetV(p, half.rd, ReadN(p, b, n))
    BY <2>1, <1>9, <1>11, <1>14
  <2>5. Outcome(s, w, FALSE)
    BY <2>2, <2>3, <2>4, OutcomeSetV
  <2>6. Outcome(s, Done(writeback(w, i, a)), FALSE)
    BY <2>5, <1>10
  <2> HIDE DEF w
  <2> QED
    BY <2>6, <1>5, <1>7, <1>14 DEF a, n
<1> HIDE DEF one, two
<1> QED
  BY <1>12, <1>13, <1>14

LEMMA opLdp64OffOutcome ==
  ASSUME NEW s \in CpuStates, ~s.fault, NEW i, Operands(i), i.fn = "opLdp64Off",
         NEW hit, HitAllowed("R", hit, addrFor(s, i))
  PROVE  LET a == addrFor(s, i)
             t == opLdp64Off(s, i, hit)
         IN IF Span("R", a, i.sz) /\ ~Span("R", a, 2 * i.sz)
            THEN /\ Crosses(a, 2 * i.sz)
                 /\ Outcome([s EXCEPT !.r[i.rd] = ReadN(s, a, i.sz)], t, TRUE)
            ELSE Outcome(s, t, ~Span("R", a, 2 * i.sz))
<1> DEFINE a == addrFor(s, i)
           b == Add(a, 8)
           x == ReadN(s, a, 8)
           y == ReadN(s, b, 8)
           p == [s EXCEPT !.r[i.rd] = x]
           one == Span("R", a, 8)
           two == Span("R", b, 8)
           inside == hit /\ Inside(a, 16)
           first == IF inside THEN s ELSE Reads(Check(s, "R", a), a, 8)
           t == SetR(first, i.rd, x)
           second == IF inside THEN t ELSE Reads(t, b, 8)
<1>1. i \in Insts /\ i.sz = 8 /\ Addressed(i) /\ 8 \in 1 .. 64 /\ 8 \in 0 .. 16 /\ 8 \in 1 .. 16 /\ 2 * 8 = 16
  BY DEF Operands, Pairs
<1>2. a \in Word(XLEN) /\ a \in Int /\ 8 \in Int
  BY <1>1, addrForWord
<1>3. b \in Word(XLEN)
  BY <1>2, AddInWord
<1>4. Span("R", a, 2 * 8) <=> one /\ two
  BY <1>1, <1>2, SpanSplit
<1>5. opLdp64Off(s, i, hit) = Done(SetR(second, i.ra, y))
  BY DEF opLdp64Off
<1>6. (one => x \in Word(XLEN)) /\ (two => y \in Word(XLEN))
  BY <1>1, <1>2, <1>3, Readable
<1>7. one => p \in CpuStates /\ ~p.fault
  BY <1>6 DEF CpuStates
<1>8. inside => one /\ two
  <2>1. inside => Span("R", a, 16)
    <3>1. 16 \in 1 .. 64
      OBVIOUS
    <3> QED
      BY <3>1, <1>2, HitSpan
  <2> QED
    BY <2>1, <1>1, <1>4
<1>9. (Allowed("R", a, 8) <=> one) /\ (Allowed("R", b, 8) <=> two)
  BY <1>1, <1>2, <1>3, SpanAllowed
<1>10. one => guestPage("R", a)
  BY <1>9 DEF Allowed
<1> HIDE DEF a, b, x, y, one, two, inside
<1>11. CASE ~one
  <2>1. first = Fault(s)
    BY <1>8, <1>9, <1>11, FaultFields DEF Reads, Check
  <2>2. t = Fault(s)
    BY <2>1, FaultFields DEF SetR
  <2>3. second = Fault(s)
    BY <2>2, <1>8, <1>11, FaultFields DEF Reads
  <2> HIDE DEF second
  <2>4. SetR(second, i.ra, y) = Fault(s)
    BY <2>3, FaultFields DEF SetR
  <2>5. Outcome(s, SetR(second, i.ra, y), TRUE)
    BY <2>4, FaultFields DEF Outcome
  <2>6. Outcome(s, Done(SetR(second, i.ra, y)), TRUE)
    BY <2>5, OutcomeDone
  <2> QED
    BY <2>6, <1>1, <1>4, <1>5, <1>11 DEF a, one
<1>12. CASE one /\ ~two
  <2>1. first = s
    BY <1>9, <1>10, <1>12 DEF Reads, Check
  <2>2. t = p
    BY <2>1 DEF SetR
  <2>3. second = Fault(p)
    BY <2>2, <1>7, <1>8, <1>9, <1>12 DEF Reads
  <2> HIDE DEF second
  <2>4. SetR(second, i.ra, y) = Fault(p)
    BY <2>3, <1>7, <1>12, FaultFields DEF SetR
  <2>5. Outcome(p, SetR(second, i.ra, y), TRUE)
    BY <2>4, <1>7, <1>12, FaultFields DEF Outcome
  <2>6. Outcome(p, Done(SetR(second, i.ra, y)), TRUE)
    BY <2>5, <1>7, <1>12, OutcomeDone
  <2>7. Crosses(a, 2 * 8)
    BY <1>1, <1>2, <1>4, <1>12, HalfCrosses DEF one
  <2> QED
    BY <2>6, <2>7, <1>1, <1>4, <1>5, <1>12 DEF a, one, x
<1>13. CASE one /\ two
  <2>1. first = s
    BY <1>9, <1>10, <1>13 DEF Reads, Check
  <2>2. t = p
    BY <2>1 DEF SetR
  <2>3. second = p
    BY <2>2, <1>7, <1>9, <1>13 DEF Reads
  <2>4. Outcome(s, p, FALSE)
    BY <1>7, <1>13 DEF Outcome
  <2>5. Outcome(s, SetR(second, i.ra, y), FALSE)
    BY <2>3, <2>4, <1>6, <1>13, OutcomeSetR
  <2>6. Outcome(s, Done(SetR(second, i.ra, y)), FALSE)
    BY <2>5, OutcomeDone
  <2> HIDE DEF second
  <2> QED
    BY <2>6, <1>1, <1>4, <1>5, <1>13 DEF a, one
<1> QED
  BY <1>11, <1>12, <1>13

(* Exclusives.                                                               *)

LEMMA opLdxrOutcome ==
  ASSUME NEW s \in CpuStates, ~s.fault, NEW i, Operands(i), i.fn = "opLdxr"
  PROVE  Outcome(s, opLdxr(s, i), ~Span("R", s.r[i.rn], i.sz))
<1> DEFINE a == s.r[i.rn]
           x == ReadN(s, a, i.sz)
           bad == ~Span("R", a, i.sz)
           t == Reads(s, a, i.sz)
<1>1. i.sz \in 1 .. 64 /\ i.sz \in 0 .. 16 /\ i.sz <= 8 /\ i.sz \in Nat /\ i.rn \in XRegs /\ bad \in BOOLEAN
  BY DEF Operands, Exclusives
<1>2. a \in Word(XLEN) /\ s.excl.val2 \in Nat
  BY <1>1, RegisterWord DEF CpuStates
<1>3. t = IF bad THEN Fault(s) ELSE s
  BY <1>1, <1>2, SpanAllowed DEF Reads
<1>4. ~bad => x \in Word(XLEN) /\ x \in Nat
  BY <1>1, <1>2, Readable
<1> HIDE DEF a, x, bad, t
<1>5. Outcome(s, t, bad)
  BY <1>1, <1>3, OutcomeStart
<1>6. Outcome(s, SetR(t, i.rd, x), bad)
  BY <1>1, <1>4, <1>5, OutcomeSetR
<1>7. Outcome(s, Monitor(SetR(t, i.rd, x), a, i.sz, x, s.excl.val2), bad)
  BY <1>1, <1>2, <1>4, <1>6, OutcomeMonitor
<1>8. Outcome(s, Done(Monitor(SetR(t, i.rd, x), a, i.sz, x, s.excl.val2)), bad)
  BY <1>1, <1>7, OutcomeDone
<1> QED
  BY <1>8 DEF opLdxr, a, x, bad, t

LEMMA opLdxpOutcome ==
  ASSUME NEW s \in CpuStates, ~s.fault, NEW i, Operands(i), i.fn = "opLdxp"
  PROVE  Outcome(s, opLdxp(s, i), ~Span("R", s.r[i.rn], 2 * i.sz))
<1> DEFINE a == s.r[i.rn]
           b == Add(a, i.sz)
           x == ReadN(s, a, i.sz)
           y == ReadN(s, b, i.sz)
           bad == ~Span("R", a, 2 * i.sz)
           t == Reads(Reads(Check(s, "R", a), a, i.sz), b, i.sz)
           u == SetR(SetR(t, i.rd, x), i.rm, y)
<1>1. /\ i.sz \in 1 .. 64 /\ i.sz \in 0 .. 16 /\ i.sz <= 8 /\ 2 * i.sz \in Nat /\ i.rn \in XRegs
      /\ bad \in BOOLEAN /\ i.sz \in Int
  BY DEF Operands, Exclusives
<1>2. a \in Word(XLEN) /\ a \in Int
  BY <1>1, RegisterWord
<1>3. b \in Word(XLEN)
  BY <1>1, <1>2, AddInWord
<1>4. t = IF bad THEN Fault(s) ELSE s
  BY <1>1, <1>2, TwoReads
<1>5. ~bad => Span("R", a, i.sz) /\ Span("R", b, i.sz)
  BY <1>1, <1>2, SpanSplit
<1>6. ~bad => x \in Word(XLEN) /\ x \in Nat /\ y \in Word(XLEN) /\ y \in Nat
  BY <1>1, <1>2, <1>3, <1>5, Readable
<1> HIDE DEF a, b, x, y, bad, t
<1>7. Outcome(s, t, bad)
  BY <1>1, <1>4, OutcomeStart
<1>8. Outcome(s, SetR(t, i.rd, x), bad)
  BY <1>1, <1>6, <1>7, OutcomeSetR
<1>9. Outcome(s, u, bad)
  BY <1>1, <1>6, <1>8, OutcomeSetR
<1>10. Outcome(s, Monitor(u, a, 2 * i.sz, x, y), bad)
  BY <1>1, <1>2, <1>6, <1>9, OutcomeMonitor
<1>11. Outcome(s, Done(Monitor(u, a, 2 * i.sz, x, y)), bad)
  BY <1>1, <1>10, OutcomeDone
<1> QED
  BY <1>11 DEF opLdxp, a, b, x, y, bad, t

LEMMA ClearedFields ==
  ASSUME NEW s \in CpuStates, ~s.fault
  PROVE  /\ Cleared(s) \in CpuStates /\ ~Cleared(s).fault
         /\ Cleared(s).r = s.r /\ Cleared(s).v = s.v /\ Cleared(s).pc = s.pc /\ Cleared(s).mem = s.mem
  BY DEF CpuStates, Cleared

LEMMA SmallWords == 0 \in Word(XLEN) /\ 1 \in Word(XLEN)
<1>1. NumPages * PageSize <= M /\ M % PageSize = 0 /\ PageSize >= 64 /\ M \in Nat /\ M > 0 /\ PageSize \in Nat
  BY PagesAssumption, Widths, WordXLEN DEF M
<1>2. M # 1
  <2> SUFFICES ASSUME M = 1 PROVE FALSE
    OBVIOUS
  <2>1. 0 * PageSize + 1 = 1 /\ 1 \in 0 .. PageSize - 1 /\ PageSize > 0
    BY <1>1
  <2>2. (0 * PageSize + 1) % PageSize = 1
    BY <1>1, <2>1, DivUnique
  <2> QED
    BY <2>1, <2>2, <1>1
<1> QED
  BY <1>1, <1>2, WordXLEN

LEMMA opStxrOutcome ==
  ASSUME NEW s \in CpuStates, ~s.fault, NEW i, Operands(i), i.fn = "opStxr"
  PROVE  Outcome(Cleared(s), opStxr(s, i), exclusiveOK(s, s.r[i.rn], i.sz) /\ ~Span("W", s.r[i.rn], i.sz))
<1> DEFINE a == s.r[i.rn]
           ok == exclusiveOK(s, a, i.sz)
           bad == ok /\ ~Span("W", a, i.sz)
           t == Cleared(s)
           w == WriteN(t, a, i.sz, s.r[i.rd])
<1>1. i.sz \in 1 .. 64 /\ i.sz \in 0 .. 16 /\ i.rn \in XRegs /\ i.rd \in XRegs /\ bad \in BOOLEAN
  BY DEF Operands, Exclusives
<1>2. a \in Word(XLEN) /\ s.r[i.rd] \in Int /\ t \in CpuStates /\ ~t.fault
  BY <1>1, RegisterWord, ClearedFields
<1>3. Allowed("W", a, i.sz) <=> Span("W", a, i.sz)
  BY <1>1, <1>2, SpanAllowed
<1>4. opStxr(s, i) = Done(IF ok THEN SetR(w, i.ra, 0) ELSE SetR(t, i.ra, 1))
  BY DEF opStxr
<1>5. CASE bad
  <2>1. w = Fault(t) /\ ok
    BY <1>3, <1>5 DEF WriteN
  <2>2. Outcome(t, w, bad)
    BY <2>1, <1>2, <1>5, FaultFields DEF Outcome
  <2>3. Outcome(t, SetR(w, i.ra, 0), bad)
    BY <2>2, <1>1, <1>2, SmallWords, OutcomeSetR
  <2> HIDE DEF bad, w
  <2>4. Outcome(t, Done(SetR(w, i.ra, 0)), bad)
    BY <2>3, <1>1, <1>2, OutcomeDone
  <2> QED
    BY <2>1, <2>4, <1>4 DEF bad
<1>6. CASE ~bad
  <2>1. Outcome(t, t, bad)
    BY <1>2, <1>6 DEF Outcome
  <2>2. ok => Allowed("W", a, i.sz)
    BY <1>3, <1>6
  <2> HIDE DEF bad, ok, a
  <2>3. ok => Outcome(t, w, bad)
    BY <2>1, <2>2, <1>1, <1>2, OutcomeWrite
  <2>4. ok => Outcome(t, SetR(w, i.ra, 0), bad)
    BY <2>3, <1>1, <1>2, SmallWords, OutcomeSetR
  <2>5. Outcome(t, SetR(t, i.ra, 1), bad)
    BY <2>1, <1>1, <1>2, SmallWords, OutcomeSetR
  <2>6. Outcome(t, IF ok THEN SetR(w, i.ra, 0) ELSE SetR(t, i.ra, 1), bad)
    BY <2>4, <2>5
  <2>7. Outcome(t, Done(IF ok THEN SetR(w, i.ra, 0) ELSE SetR(t, i.ra, 1)), bad)
    BY <2>6, <1>1, <1>2, OutcomeDone
  <2> QED
    BY <2>7, <1>4 DEF bad, ok, a
<1> QED
  BY <1>5, <1>6

LEMMA opStxpOutcome ==
  ASSUME NEW s \in CpuStates, ~s.fault, NEW i, Operands(i), i.fn = "opStxp"
  PROVE  Outcome(Cleared(s), opStxp(s, i),
                 exclusiveOK(s, s.r[i.rn], 2 * i.sz) /\ ~Span("W", s.r[i.rn], 2 * i.sz))
<1> DEFINE a == s.r[i.rn]
           ok == exclusiveOK(s, a, 2 * i.sz)
           out == ~Span("W", a, 2 * i.sz)
           bad == ok /\ out
           c == Cleared(s)
           t == checkWrite(c, a, 2 * i.sz)
           u == WriteN(WriteN(t, a, i.sz, s.r[i.rd]), Add(a, i.sz), i.sz, s.r[i.rm])
<1>1. /\ i.sz \in 1 .. 16 /\ 2 * i.sz \in 1 .. 64 /\ i.rn \in XRegs /\ i.rd \in XRegs /\ i.rm \in XRegs
      /\ bad \in BOOLEAN /\ out \in BOOLEAN
  BY DEF Operands, Exclusives
<1>2. a \in Word(XLEN) /\ s.r[i.rd] \in Int /\ s.r[i.rm] \in Int /\ c \in CpuStates /\ ~c.fault
  BY <1>1, RegisterWord, ClearedFields
<1>3. t = IF out THEN Fault(c) ELSE c
  BY <1>1, <1>2, Checked
<1>4. opStxp(s, i) = Done(IF ok THEN SetR(u, i.ra, 0) ELSE SetR(c, i.ra, 1))
  BY DEF opStxp
<1>5. Outcome(c, t, out)
  <2> HIDE DEF out, c, t
  <2> QED
    BY <1>1, <1>2, <1>3, OutcomeStart
<1> HIDE DEF a, c, t
<1>6. Outcome(c, u, out)
  BY <1>1, <1>2, <1>5, TwoWrites
<1> HIDE DEF u, out, ok
<1>7. Outcome(c, SetR(u, i.ra, 0), out)
  BY <1>1, <1>2, <1>6, SmallWords, OutcomeSetR
<1>8. Outcome(c, c, FALSE)
  BY <1>2 DEF Outcome
<1>9. Outcome(c, SetR(c, i.ra, 1), FALSE)
  BY <1>2, <1>8, SmallWords, OutcomeSetR
<1>10. Outcome(c, IF ok THEN SetR(u, i.ra, 0) ELSE SetR(c, i.ra, 1), bad)
  <2>1. CASE ok
    <3>1. bad <=> out
      BY <2>1
    <3>2. bad = out
      BY <3>1, <1>1
    <3> QED
      BY <2>1, <3>2, <1>7
  <2>2. CASE ~ok
    <3>1. bad = FALSE
      BY <2>2
    <3> QED
      BY <2>2, <3>1, <1>9
  <2> QED
    BY <2>1, <2>2
<1> HIDE DEF bad
<1>11. Outcome(c, Done(IF ok THEN SetR(u, i.ra, 0) ELSE SetR(c, i.ra, 1)), bad)
  BY <1>1, <1>2, <1>10, OutcomeDone
<1> QED
  BY <1>4, <1>11 DEF bad, ok, out, a, c
(* DC ZVA and CLREX.                                                         *)

LEMMA ZeroByte == 0 \in Word(ByteBits)
<1>1. ByteBits * 1 = ByteBits
  BY WordsAssumption
<1>2. 2^ByteBits \in Nat /\ 2^ByteBits > 0
  BY <1>1, ByteWidths
<1> QED
  BY <1>2 DEF Word

LEMMA opDcZvaOutcome ==
  ASSUME NEW s \in CpuStates, ~s.fault, NEW i, Operands(i), i.fn = "opDcZva"
  PROVE  Outcome(s, opDcZva(s, i), ~Span("W", s.r[i.rn] - (s.r[i.rn] % 64), 64))
<1> DEFINE a == s.r[i.rn] - (s.r[i.rn] % dczvaBytes)
           t == checkWrite(s, a, dczvaBytes)
           zeroed == [c \in Cells |-> IF Low(c - a, XLEN) < dczvaBytes THEN 0 ELSE s.mem[c]]
           bad == ~Span("W", a, 64)
           u == IF t.fault THEN t ELSE [t EXCEPT !.mem = zeroed]
<1>1. a \in Word(XLEN)
  <2>1. i.rn \in XRegs
    BY DEF Operands
  <2>2. s.r[i.rn] \in 0 .. M - 1
    BY <2>1, RegisterWord, WordXLEN
  <2>3. s.r[i.rn] - (s.r[i.rn] % 64) \in 0 .. M - 1
    BY <2>2, Widths
  <2> QED
    BY <2>3, WordXLEN DEF dczvaBytes
<1>2. t = IF bad THEN Fault(s) ELSE s
  <2> HIDE DEF a
  <2>1. dczvaBytes \in 1 .. 64 /\ dczvaBytes = 64
    BY DEF dczvaBytes
  <2> QED
    BY <1>1, <2>1, Checked
<1>3. zeroed \in [Cells -> Word(ByteBits)]
  BY ZeroByte DEF CpuStates
<1>4. bad \in BOOLEAN
  OBVIOUS
<1>5. opDcZva(s, i) = Done(u)
  BY DEF opDcZva
<1>6. bad <=> ~Span("W", s.r[i.rn] - (s.r[i.rn] % 64), 64)
  BY DEF dczvaBytes
<1> HIDE DEF a, t, zeroed, bad
<1>7. Outcome(s, u, bad)
  <2>1. CASE bad
    BY <2>1, <1>2, FaultFields DEF Outcome
  <2>2. CASE ~bad
    BY <2>2, <1>2, <1>3 DEF Outcome, CpuStates
  <2> QED
    BY <2>1, <2>2, <1>4
<1> HIDE DEF u
<1>8. Outcome(s, Done(u), bad)
  BY <1>4, <1>7, OutcomeDone
<1> QED
  BY <1>5, <1>6, <1>8 DEF Outcome

LEMMA PlainOutcome ==
  ASSUME NEW s \in CpuStates, ~s.fault
  PROVE  /\ Outcome(s, Done(s), FALSE)
         /\ Outcome(Cleared(s), Done(Cleared(s)), FALSE)
         /\ Outcome(s, Fault(s), TRUE)
<1>1. Outcome(s, s, FALSE) /\ Outcome(Cleared(s), Cleared(s), FALSE)
  BY ClearedFields DEF Outcome
<1>2. Outcome(s, Fault(s), TRUE)
  BY FaultFields DEF Outcome
<1> QED
  BY <1>1, <1>2, OutcomeDone, ClearedFields

(* Structure loads and stores.                                               *)

LEMMA MultiParams ==
  ASSUME NEW i, Operands(i), i.fn \in Multis
  PROVE  LET p == simdMultiParams(i)
         IN /\ p.esize \in {1, 2, 4, 8} /\ p.lanes \in 1 .. 16 /\ p.lanes * p.esize = i.amt
            /\ p.total = i.sh * i.amt /\ p.total \in 1 .. 64 /\ p.total = (i.sh * p.lanes) * p.esize
            /\ i.sh \in 1 .. 4 /\ i.amt \in {8, 16} /\ i.ra \in {1, i.sh}
            /\ i.rd \in 0 .. 31 /\ i.rn \in XRegs
            /\ \A k \in 0 .. i.sh - 1 : VReg(i, k) \in VRegs
<1>1. i.sz \in 0 .. 3 /\ i.sh \in 1 .. 4 /\ i.amt \in {8, 16} /\ i.ra \in {1, i.sh}
      /\ i.rd \in 0 .. 31 /\ i.rn \in XRegs /\ \A k \in 0 .. i.sh - 1 : VReg(i, k) \in VRegs
  BY DEF Operands
<1> DEFINE e == 2^i.sz
           n == i.amt \div e
<1>2. e \in {1, 2, 4, 8}
  <2>1. CASE i.sz = 0
    BY <2>1, Powers
  <2>2. CASE i.sz = 1
    BY <2>2, Powers
  <2>3. CASE i.sz = 2
    BY <2>3, Powers
  <2>4. CASE i.sz = 3
    BY <2>4, Powers
  <2> QED
    BY <1>1, <2>1, <2>2, <2>3, <2>4
<1> HIDE DEF e
<1>3. n \in 1 .. 16 /\ n * e = i.amt
  <2>1. CASE e = 1
    BY <1>1, <2>1
  <2>2. CASE e = 2
    BY <1>1, <2>2
  <2>3. CASE e = 4
    BY <1>1, <2>3
  <2>4. CASE e = 8
    BY <1>1, <2>4
  <2> QED
    BY <1>2, <2>1, <2>2, <2>3, <2>4
<1>4. i.sh * i.amt \in 1 .. 64
  BY <1>1
<1> DEFINE sh == i.sh
<1>5. (sh * n) * e = sh * (n * e)
  <2>1. sh \in Nat /\ e \in Nat
    BY <1>1, <1>2
  <2>2. n \in Nat
    BY <1>3
  <2> HIDE DEF n, sh
  <2> QED
    BY <2>1, <2>2
<1> HIDE DEF n
<1>6. simdMultiParams(i) = [esize |-> e, lanes |-> n, total |-> i.sh * i.amt]
  BY DEF simdMultiParams, e, n
<1> QED
  BY <1>1, <1>2, <1>3, <1>4, <1>5, <1>6

LEMMA OutcomeAdvance ==
  ASSUME NEW s \in CpuStates, NEW t, NEW bad \in BOOLEAN, Outcome(s, t, bad),
         NEW i, Operands(i), i.fn \in Multis, NEW a \in Word(XLEN)
  PROVE  Outcome(s, simdAdvance(t, i, a), bad)
<1>1. i.cond = modeReg => i.rm \in XRegs
  BY DEF Operands
<1>2. i.imm \in Int /\ a \in Int
  BY WordXLEN DEF Operands, Insts
<1>3. i.cond = modeReg => t.r[i.rm] \in Int
  BY <1>1, RegisterWord DEF Outcome
<1>4. CASE i.cond = modePost
  <2>1. Add(a, i.imm) \in Word(XLEN)
    BY <1>2, AddInWord
  <2>2. Outcome(s, SetR(t, i.rn, Add(a, i.imm)), bad)
    BY <2>1, OutcomeSetR
  <2> QED
    BY <1>4, <2>2 DEF simdAdvance, modePost, modeReg
<1>5. CASE i.cond = modeReg
  <2>1. Add(a, t.r[i.rm]) \in Word(XLEN)
    BY <1>2, <1>3, <1>5, AddInWord
  <2>2. Outcome(s, SetR(t, i.rn, Add(a, t.r[i.rm])), bad)
    BY <2>1, OutcomeSetR
  <2> QED
    BY <1>5, <2>2 DEF simdAdvance, modePost, modeReg
<1>6. CASE i.cond # modePost /\ i.cond # modeReg
  BY <1>6 DEF simdAdvance
<1> QED
  BY <1>4, <1>5, <1>6
LEMMA Divides ==
  ASSUME NEW p \in Nat, p > 0, NEW c \in Nat, NEW m \in 0 .. c * p - 1
  PROVE  /\ m \div p \in 0 .. c - 1 /\ m % p \in 0 .. p - 1
         /\ m = (m \div p) * p + (m % p)
<1> DEFINE q == m \div p
           r == m % p
<1>0. c * p \in Nat
  OBVIOUS
<1>1. q \in Int /\ r \in 0 .. p - 1 /\ m = q * p + r /\ m \in Int /\ m >= 0 /\ m < c * p
  BY <1>0, Divided
<1> HIDE DEF q, r
<1>2. q >= 0
  <2> SUFFICES ASSUME q <= -1 PROVE FALSE
    BY <1>1
  <2>1. q * p <= (-1) * p
    BY <1>1
  <2> QED
    BY <2>1, <1>1
<1>3. q < c
  <2> SUFFICES ASSUME c <= q PROVE FALSE
    BY <1>1
  <2>1. c * p <= q * p
    BY <1>1
  <2> QED
    BY <2>1, <1>1
<1> QED
  BY <1>1, <1>2, <1>3 DEF q, r

\* The elements of a structure access are those of its span, each once or more
LEMMA Elements ==
  ASSUME NEW i, Operands(i), i.fn \in Multis
  PROVE  LET n == simdMultiParams(i).lanes
         IN /\ \A k \in 0 .. i.sh - 1, l \in 0 .. n - 1 : Element(i, k, l) \in 0 .. i.sh * n - 1
            /\ \A m \in 0 .. i.sh * n - 1 :
                 \E k \in 0 .. i.sh - 1, l \in 0 .. n - 1 : m = Element(i, k, l)
<1> DEFINE n == simdMultiParams(i).lanes
           c == i.sh
<1>1. n \in Nat /\ n > 0 /\ c \in 1 .. 4 /\ i.ra \in {1, c}
  BY MultiParams
<1> HIDE DEF n, c
<1>2. CASE i.ra = 1
  <2>1. \A k, l : Element(i, k, l) = k * n + l
    BY <1>2 DEF Element, n
  <2>2. ASSUME NEW k \in 0 .. c - 1, NEW l \in 0 .. n - 1
        PROVE  k * n + l \in 0 .. c * n - 1
    <3>1. k * n <= (c - 1) * n /\ (c - 1) * n = c * n - n /\ k * n \in Nat /\ c * n \in Nat
      BY <1>1
    <3> QED
      BY <3>1, <1>1
  <2>3. ASSUME NEW m \in 0 .. c * n - 1
        PROVE  \E k \in 0 .. c - 1, l \in 0 .. n - 1 : m = k * n + l
    <3>1. m \div n \in 0 .. c - 1 /\ m % n \in 0 .. n - 1 /\ m = (m \div n) * n + (m % n)
      <4>1. c \in Nat
        BY <1>1
      <4> QED
        BY <4>1, <1>1, Divides
    <3> QED
      BY <3>1
  <2> QED
    BY <2>1, <2>2, <2>3 DEF n, c
<1>3. CASE i.ra # 1
  <2>1. \A k, l : Element(i, k, l) = l * c + k
    BY <1>1, <1>3 DEF Element, c
  <2>2. ASSUME NEW k \in 0 .. c - 1, NEW l \in 0 .. n - 1
        PROVE  l * c + k \in 0 .. c * n - 1
    <3>1. l * c <= (n - 1) * c /\ (n - 1) * c = c * n - c /\ l * c \in Nat /\ c * n \in Nat
      BY <1>1
    <3> QED
      BY <3>1, <1>1
  <2>3. ASSUME NEW m \in 0 .. c * n - 1
        PROVE  \E k \in 0 .. c - 1, l \in 0 .. n - 1 : m = l * c + k
    <3>1. m \div c \in 0 .. n - 1 /\ m % c \in 0 .. c - 1 /\ m = (m \div c) * c + (m % c)
      <4>1. c \in Nat /\ c > 0 /\ c * n = n * c
        BY <1>1
      <4>2. m \in 0 .. n * c - 1
        BY <4>1
      <4> QED
        BY <4>1, <4>2, <1>1, Divides
    <3> QED
      BY <3>1
  <2> QED
    BY <2>1, <2>2, <2>3 DEF n, c
<1> QED
  BY <1>2, <1>3

\* A span is accessible if each element of it is
LEMMA SpanElements ==
  ASSUME NEW kind, NEW a \in Word(XLEN), NEW e \in {1, 2, 4, 8}, NEW n \in Nat
  PROVE  Span(kind, a, n * e) <=> \A m \in 0 .. n - 1 : Allowed(kind, Add(a, m * e), e)
<1>1. e \in Nat /\ e > 0 /\ e \in 1 .. 64 /\ a \in Int /\ n * e \in Nat
  BY WordXLEN
<1>2. ASSUME Span(kind, a, n * e), NEW m \in 0 .. n - 1
      PROVE  Allowed(kind, Add(a, m * e), e)
  <2>1. m * e \in Nat /\ m * e + e <= n * e
    <3>1. (m + 1) * e <= n * e /\ (m + 1) * e = m * e + e
      BY <1>1
    <3> QED
      BY <3>1, <1>1
  <2> DEFINE k == m * e
             t == n * e
  <2>2. k \in Nat /\ t \in Nat /\ k + e <= t /\ Span(kind, a, t)
    BY <2>1, <1>1, <1>2
  <2> HIDE DEF k, t
  <2>3. Allowed(kind, Add(a, k), e)
    BY <2>2, <1>1, PartAllowed
  <2> QED
    BY <2>3 DEF k
<1>3. ASSUME \A m \in 0 .. n - 1 : Allowed(kind, Add(a, m * e), e), NEW j \in 0 .. n * e - 1
      PROVE  guestPage(kind, Add(a, j))
  <2> DEFINE m == j \div e
             r == j % e
             k == m * e
  <2>1. m \in 0 .. n - 1 /\ r \in 0 .. e - 1 /\ j = m * e + r
    BY <1>1, Divides
  <2>2. Allowed(kind, Add(a, k), e) /\ k \in Int
    <3>1. Allowed(kind, Add(a, m * e), e)
      BY <2>1, <1>3
    <3>2. m \in Int /\ e \in Int
      BY <2>1, <1>1
    <3> HIDE DEF m
    <3> QED
      BY <3>1, <3>2
  <2>3. j = k + r /\ r \in 0 .. e - 1 /\ r \in Int
    BY <2>1, <1>1
  <2> HIDE DEF m, r, k
  <2>4. Add(a, k) \in Word(XLEN)
    BY <2>2, <1>1, AddInWord
  <2>5. Span(kind, Add(a, k), e)
    BY <2>2, <2>4, <1>1, SpanAllowed
  <2>6. guestPage(kind, Add(Add(a, k), r))
    BY <2>3, <2>5 DEF Span
  <2> QED
    BY <2>2, <2>3, <2>6, <1>1, AddAdd
<1> QED
  BY <1>2, <1>3 DEF Span

LEMMA opSIMDLoadOutcome ==
  ASSUME NEW s \in CpuStates, ~s.fault, NEW i, Operands(i), i.fn = "opSIMDLoadMulti"
  PROVE  Outcome(s, opSIMDLoadMulti(s, i), ~Span("R", s.r[i.rn], simdMultiParams(i).total))
<1> DEFINE a == s.r[i.rn]
           p == simdMultiParams(i)
           c == i.sh
           n == p.lanes
           e == p.esize
           at(k, l) == Add(a, Element(i, k, l) * e)
           readable == \A k \in 0 .. c - 1, l \in 0 .. n - 1 : Allowed("R", at(k, l), e)
           pieces(k) == [l \in 1 .. n |-> ReadN(s, at(k, l - 1), e)]
           out(k) == Gathered(pieces(k), n, ByteBits * e)
           moved == {VReg(i, k) : k \in 0 .. c - 1}
           v == [x \in VRegs |-> IF x \in moved THEN out((x - i.rd) % 32) ELSE s.v[x]]
           t == [s EXCEPT !.v = v]
           bad == ~Span("R", a, p.total)
<1>1. /\ e \in {1, 2, 4, 8} /\ n \in 1 .. 16 /\ n * e = i.amt /\ p.total = (c * n) * e
      /\ c \in 1 .. 4 /\ i.amt \in {8, 16} /\ i.rd \in 0 .. 31 /\ i.rn \in XRegs
      /\ i.fn \in Multis
  BY MultiParams DEF Multis
<1>2. a \in Word(XLEN) /\ a \in Int
  BY <1>1, RegisterWord
<1>3. readable <=> ~bad
  <2>1. /\ \A k \in 0 .. c - 1, l \in 0 .. n - 1 : Element(i, k, l) \in 0 .. c * n - 1
        /\ \A m \in 0 .. c * n - 1 : \E k \in 0 .. c - 1, l \in 0 .. n - 1 : m = Element(i, k, l)
    BY <1>1, Elements
  <2>2. c * n \in Nat
    BY <1>1
  <2> HIDE DEF a, c, n, e, p
  <2>3. Span("R", a, (c * n) * e) <=> \A m \in 0 .. c * n - 1 : Allowed("R", Add(a, m * e), e)
    BY <1>1, <1>2, <2>2, SpanElements
  <2> QED
    BY <2>1, <2>3, <1>1
<1>4. ASSUME readable, NEW k \in 0 .. c - 1
      PROVE  out(k) \in Word(2 * XLEN)
  <2>1. ASSUME NEW l \in 1 .. n
        PROVE  ReadN(s, at(k, l - 1), e) \in Word(ByteBits * e)
    <3>1. l - 1 \in 0 .. n - 1
      BY <1>1
    <3>2. Allowed("R", at(k, l - 1), e)
      BY <3>1, <1>4
    <3>3. at(k, l - 1) \in Word(XLEN)
      <4>1. Element(i, k, l - 1) \in 0 .. c * n - 1
        BY <3>1, <1>1, Elements
      <4>2. Element(i, k, l - 1) * e \in Int
        BY <4>1, <1>1
      <4> HIDE DEF a, e
      <4> QED
        BY <4>2, <1>2, AddInWord
    <3> HIDE DEF at, e
    <3>4. e \in 1 .. 64 /\ e \in 0 .. 16
      BY <1>1
    <3>5. Span("R", at(k, l - 1), e)
      BY <3>2, <3>3, <3>4, SpanAllowed
    <3> QED
      BY <3>3, <3>4, <3>5, ByteOfMemory
  <2>2. \A l \in 1 .. n : pieces(k)[l] \in Word(ByteBits * e)
    <3> HIDE DEF at, e, n
    <3> QED
      BY <2>1
  <2> HIDE DEF pieces
  <2> DEFINE w == ByteBits * e
  <2>3. ByteBits \in Nat
    BY WordsAssumption
  <2> HIDE DEF n, e
  <2>4. e \in Nat /\ n \in Nat
    BY <1>1
  <2>5. w \in Nat
    BY <2>3, <2>4
  <2>6. w * n = ByteBits * i.amt
    <3>1. (ByteBits * e) * n = ByteBits * (n * e)
      BY <2>3, <2>4
    <3> QED
      BY <3>1, <1>1
  <2>7. ByteBits * i.amt \in 0 .. 2 * XLEN
    <3>1. i.amt \in 0 .. 16
      BY <1>1
    <3> QED
      BY <3>1, ByteWidths
  <2>8. w * n <= 2 * XLEN /\ w * n \in Nat /\ 2 * XLEN \in Nat
    BY <2>6, <2>7, Widths
  <2> HIDE DEF w
  <2>9. Gathered(pieces(k), n, w) \in Word(w * n)
    BY <2>2, <2>4, <2>5, <2>8, GatheredWord DEF w
  <2>10. Word(w * n) \subseteq Word(2 * XLEN)
    BY <2>8, WordGrows
  <2> QED
    BY <2>9, <2>10 DEF w
<1>5. ASSUME NEW x \in moved
      PROVE  (x - i.rd) % 32 \in 0 .. c - 1
  <2>1. PICK k \in 0 .. c - 1 : x = (i.rd + k) % 32
    BY DEF VReg
  <2>2. i.rd \in 0 .. 31 /\ k \in 0 .. 3
    BY <1>1, <2>1
  <2>3. (x - i.rd) % 32 = k
    BY <2>1, <2>2
  <2> QED
    BY <2>1, <2>3
<1>6. readable => v \in [VRegs -> Word(2 * XLEN)]
  <2> HIDE DEF readable, out, moved
  <2> QED
    BY <1>4, <1>5 DEF CpuStates
<1>7. opSIMDLoadMulti(s, i) = IF ~readable THEN Fault(s) ELSE Done(simdAdvance(t, i, a))
  BY DEF opSIMDLoadMulti
<1>8. bad \in BOOLEAN
  OBVIOUS
<1> HIDE DEF a, p, c, n, e, readable, v, bad
<1>9. CASE bad
  BY <1>3, <1>7, <1>9, FaultFields DEF Outcome, a, p, bad
<1>10. CASE ~bad
  <2>1. Outcome(s, t, bad)
    BY <1>3, <1>6, <1>10 DEF Outcome, CpuStates
  <2> HIDE DEF t
  <2>2. Outcome(s, simdAdvance(t, i, a), bad)
    BY <2>1, <1>1, <1>2, <1>8, OutcomeAdvance
  <2>3. Outcome(s, Done(simdAdvance(t, i, a)), bad)
    BY <2>2, <1>8, OutcomeDone
  <2> QED
    BY <2>3, <1>3, <1>7, <1>10 DEF a, p, bad
<1> QED
  BY <1>9, <1>10

LEMMA opSIMDStoreOutcome ==
  ASSUME NEW s \in CpuStates, ~s.fault, NEW i, Operands(i), i.fn = "opSIMDStoreMulti"
  PROVE  Outcome(s, opSIMDStoreMulti(s, i), ~Span("W", s.r[i.rn], simdMultiParams(i).total))
<1> DEFINE a == s.r[i.rn]
           p == simdMultiParams(i)
           e == p.esize
           lane(k, l) == Low(Lsr(s.v[VReg(i, k)], ByteBits * e * l), ByteBits * e)
           byte(j) == LET m == j \div e
                          k == IF i.ra = 1 THEN m \div p.lanes ELSE m % i.sh
                          l == IF i.ra = 1 THEN m % p.lanes ELSE m \div i.sh
                      IN Low(Lsr(lane(k, l), ByteBits * (j % e)), ByteBits)
           t == checkWrite(s, a, p.total)
           stored == [c \in Cells |-> LET j == Low(c - a, XLEN)
                                      IN IF j < p.total THEN byte(j) ELSE s.mem[c]]
           u == IF t.fault THEN t ELSE [t EXCEPT !.mem = stored]
           bad == ~Span("W", a, p.total)
<1>1. /\ e \in {1, 2, 4, 8} /\ p.lanes \in 1 .. 16 /\ p.lanes * e = i.amt
      /\ p.total = (i.sh * p.lanes) * e /\ p.total \in 1 .. 64
      /\ i.sh \in 1 .. 4 /\ i.amt \in {8, 16} /\ i.ra \in {1, i.sh} /\ i.rn \in XRegs
      /\ i.fn \in Multis /\ \A k \in 0 .. i.sh - 1 : VReg(i, k) \in VRegs
  BY MultiParams DEF Multis
<1>2. a \in Word(XLEN) /\ a \in Int
  BY <1>1, RegisterWord
<1>3. bad \in BOOLEAN
  OBVIOUS
<1>4. t = IF bad THEN Fault(s) ELSE s
  BY <1>1, <1>2, Checked
<1>5. ASSUME NEW k \in 0 .. i.sh - 1, NEW l \in 0 .. p.lanes - 1
      PROVE  lane(k, l) \in Int
  <2>1. s.v[VReg(i, k)] \in Int
    <3>1. s.v[VReg(i, k)] \in Word(2 * XLEN)
      BY <1>1 DEF CpuStates
    <3>2. 2^(2 * XLEN) \in Nat
      BY Power, Widths
    <3> QED
      BY <3>1, <3>2 DEF Word
  <2>2. e * l \in 0 .. 16
    <3>1. CASE e = 1
      BY <3>1, <1>1
    <3>2. CASE e = 2
      BY <3>2, <1>1
    <3>3. CASE e = 4
      BY <3>3, <1>1
    <3>4. CASE e = 8
      BY <3>4, <1>1
    <3> QED
      BY <3>1, <3>2, <3>3, <3>4, <1>1
  <2>3. ByteBits * e * l = ByteBits * (e * l)
    <3>1. ByteBits \in Nat /\ e \in Nat /\ l \in Nat
      BY <1>1, WordsAssumption
    <3> HIDE DEF e
    <3> QED
      BY <3>1
  <2>4. ByteBits * e * l \in 0 .. 2 * XLEN
    BY <2>2, <2>3, ByteWidths
  <2>5. ByteBits * e \in 0 .. 2 * XLEN
    <3>1. e \in 0 .. 16
      BY <1>1
    <3> QED
      BY <3>1, ByteWidths
  <2>6. Lsr(s.v[VReg(i, k)], ByteBits * e * l) \in Int
    BY <2>1, <2>4, LsrInt
  <2> QED
    BY <2>5, <2>6, LowWord
<1>6. ASSUME NEW j \in 0 .. p.total - 1
      PROVE  byte(j) \in Word(ByteBits)
  <2> DEFINE n == p.lanes
             c == i.sh
             m == j \div e
             k == IF i.ra = 1 THEN m \div n ELSE m % c
             l == IF i.ra = 1 THEN m % n ELSE m \div c
  <2>1. e \in Nat /\ e > 0 /\ n \in Nat /\ n > 0 /\ c \in Nat /\ c > 0 /\ c * n \in Nat
        /\ p.total = (c * n) * e
    <3>1. n \in 1 .. 16 /\ c \in 1 .. 4 /\ p.total = (c * n) * e
      BY <1>1
    <3>2. e \in Nat /\ e > 0
      BY <1>1
    <3> HIDE DEF n, c, e
    <3> QED
      BY <3>1, <3>2
  <2>2. m \in 0 .. c * n - 1 /\ j % e \in 0 .. e - 1
    <3> HIDE DEF n, c, e
    <3> DEFINE q == c * n
    <3>1. q \in Nat /\ j \in 0 .. q * e - 1
      BY <2>1
    <3> HIDE DEF q
    <3>2. j \div e \in 0 .. q - 1 /\ j % e \in 0 .. e - 1
      BY <3>1, <2>1, Divides
    <3> QED
      BY <3>2 DEF q
  <2>3. k \in 0 .. c - 1 /\ l \in 0 .. n - 1
    <3> HIDE DEF m, n, c
    <3>1. m \div n \in 0 .. c - 1 /\ m % n \in 0 .. n - 1
      BY <2>1, <2>2, Divides
    <3>2. c * n = n * c
      BY <2>1
    <3>3. m \div c \in 0 .. n - 1 /\ m % c \in 0 .. c - 1
      BY <2>1, <2>2, <3>2, Divides
    <3> QED
      BY <3>1, <3>3
  <2>4. lane(k, l) \in Int
    <3> HIDE DEF k, l, lane
    <3> QED
      BY <2>3, <1>5
  <2>5. j % e \in 0 .. 16
    BY <2>2, <1>1
  <2> HIDE DEF lane
  <2>6. Lsr(lane(k, l), ByteBits * (j % e)) \in Int
    BY <2>4, <2>5, ByteWidths, LsrInt
  <2>7. ByteBits \in 0 .. 2 * XLEN
    <3>1. ByteBits * 1 = ByteBits
      BY WordsAssumption
    <3> QED
      BY <3>1, ByteWidths
  <2> QED
    BY <2>6, <2>7, LowWord
<1>7. stored \in [Cells -> Word(ByteBits)]
  <2> HIDE DEF byte, p
  <2> SUFFICES ASSUME NEW c \in Cells
               PROVE  stored[c] \in Word(ByteBits)
    OBVIOUS
  <2>1. c - a \in Int
    BY <1>2, PagesAssumption DEF Cells
  <2>2. Low(c - a, XLEN) \in Nat
    BY <2>1, LowWord, Widths
  <2>3. Low(c - a, XLEN) < p.total => Low(c - a, XLEN) \in 0 .. p.total - 1
    BY <2>2, <1>1
  <2> QED
    BY <2>3, <1>6 DEF CpuStates
<1>8. opSIMDStoreMulti(s, i) = Done(simdAdvance(u, i, a))
  BY DEF opSIMDStoreMulti
<1> HIDE DEF a, p, t, stored, bad
<1>9. Outcome(s, u, bad)
  <2>1. CASE bad
    BY <2>1, <1>4, FaultFields DEF Outcome
  <2>2. CASE ~bad
    BY <2>2, <1>4, <1>7 DEF Outcome, CpuStates
  <2> QED
    BY <2>1, <2>2
<1> HIDE DEF u
<1>10. Outcome(s, simdAdvance(u, i, a), bad)
  BY <1>1, <1>2, <1>3, <1>9, OutcomeAdvance
<1>11. Outcome(s, Done(simdAdvance(u, i, a)), bad)
  BY <1>3, <1>10, OutcomeDone
<1> QED
  BY <1>8, <1>11 DEF a, p, bad
-----------------------------------------------------------------------------
(* Decoding: whatever the encoding, the handler gets operands it can use.     *)

LEMMA SizeBytes ==
  ASSUME NEW n \in 0 .. 3
  PROVE  2^n \in {1, 2, 4, 8}
<1>1. CASE n = 0
  BY <1>1, Powers
<1>2. CASE n = 1
  BY <1>2, Powers
<1>3. CASE n = 2
  BY <1>3, Powers
<1>4. CASE n = 3
  BY <1>4, Powers
<1> QED
  BY <1>1, <1>2, <1>3, <1>4

LEMMA HandlerNames ==
  /\ {"opNop", "opUndef", "opClrex", "opDcZva"} \subseteq Handlers
  /\ Singles \cup Pairs \cup VSingles \cup VPairs \cup Exclusives \cup Multis \subseteq Handlers
  BY DEF Handlers

LEMMA InstType == Inst \in Insts /\ Operands(Inst)
<1>1. Inst \in Insts
  BY HandlerNames DEF Inst, Insts, modeOff, extZero
<1> QED
  BY <1>1 DEF Operands, Inst, Singles, Pairs, VSingles, VPairs, Exclusives, Multis

\* An instruction that addresses no memory
LEMMA PlainOperands ==
  ASSUME NEW i \in Insts, i.fn \in {"opNop", "opUndef", "opClrex"}
  PROVE  Operands(i)
  BY DEF Operands, Singles, Pairs, VSingles, VPairs, Exclusives, Multis

LEMMA Registers ==
  ASSUME NEW k, {xr(k), xw(k)} \subseteq XRegs
  PROVE  xr(k) \in XRegs /\ xw(k) \in XRegs /\ xr(k) \in Nat /\ xw(k) \in Nat
  BY ProgramsAssumption

LEMMA VectorRegister ==
  ASSUME NEW k \in VRegs
  PROVE  k \in 0 .. 31 /\ k \in Nat
  BY ProgramsAssumption

LEMMA ldstKindIs ==
  ASSUME NEW size \in 0 .. 3, NEW opc \in 0 .. 3, NEW vec \in BOOLEAN
  PROVE  LET k == ldstKind(size, opc, vec)
         IN /\ k \in [bytes : Nat, ext : 0 .. 2, load : BOOLEAN, prfm : BOOLEAN, ok : BOOLEAN]
            /\ k.ok /\ ~k.prfm => k.bytes \in (IF vec THEN 1 .. 16 ELSE 1 .. 8)
<1>1. 2^size \in {1, 2, 4, 8}
  BY SizeBytes
<1> DEFINE b == 2^size
<1>2. b \in 1 .. 8
  BY <1>1
<1> HIDE DEF b
<1>3. CASE vec /\ opc < 2
  BY <1>2, <1>3 DEF ldstKind, extZero, b
<1> DEFINE zero == [bytes |-> 0, ext |-> extZero, load |-> FALSE, prfm |-> FALSE, ok |-> TRUE]
           none == [zero EXCEPT !.ok = FALSE]
           Kinds == [bytes : Nat, ext : 0 .. 2, load : BOOLEAN, prfm : BOOLEAN, ok : BOOLEAN]
<1>z. zero \in Kinds
  BY DEF extZero
<1> HIDE DEF zero
<1>n. none \in Kinds /\ ~none.ok
  BY <1>z
<1>4. CASE vec /\ opc >= 2
  <2>1. CASE size = 0
    BY <1>4, <2>1 DEF ldstKind, extZero
  <2>2. CASE size # 0
    <3>1. ldstKind(size, opc, vec) = none
      BY <1>4, <2>2 DEF ldstKind, zero
    <3> QED
      BY <3>1, <1>n
  <2> QED
    BY <2>1, <2>2
<1>5. CASE ~vec /\ opc < 2
  BY <1>2, <1>5 DEF ldstKind, extZero, b
<1>6. CASE ~vec /\ opc = 2
  BY <1>2, <1>6 DEF ldstKind, extZero, extSign, b
<1>7. CASE ~vec /\ opc = 3
  <2>1. CASE size < 2
    BY <1>2, <1>7, <2>1 DEF ldstKind, extSign32, b
  <2>2. CASE ~(size < 2)
    <3>1. ldstKind(size, opc, vec) = none
      BY <1>7, <2>2 DEF ldstKind, zero
    <3> QED
      BY <3>1, <1>n
  <2> QED
    BY <2>1, <2>2
<1> QED
  BY <1>3, <1>4, <1>5, <1>6, <1>7

LEMMA setLdStOperands ==
  ASSUME NEW i \in Insts, Addressed(i), NEW e, NEW load \in BOOLEAN, e.vec \in BOOLEAN,
         IF e.vec THEN e.rt \in VRegs ELSE {xr(e.rt), xw(e.rt)} \subseteq XRegs,
         i.sz \in (IF e.vec THEN 1 .. 16 ELSE 1 .. 8)
  PROVE  Operands(setLdSt(i, e, load))
<1> DEFINE j == setLdSt(i, e, load)
           rd == IF e.vec THEN e.rt ELSE IF load THEN xw(e.rt) ELSE xr(e.rt)
           hot == IF e.vec THEN "none"
                  ELSE CASE i.cond = modeOff -> hotLdSt(load, i.sz, i.sh)
                         [] i.cond = modeReg -> hotLdStReg(load, i.sz, i.sh)
                         [] OTHER -> "none"
           generic == CASE e.vec /\ load -> "opVLoad" [] e.vec /\ ~load -> "opVStore"
                        [] ~e.vec /\ load -> "opLoad" [] OTHER -> "opStore"
           fn == IF hot # "none" THEN hot ELSE generic
<1>1. j = [i EXCEPT !.rd = rd, !.fn = fn]
  BY DEF setLdSt
<1>2. rd \in Nat /\ (IF e.vec THEN rd \in VRegs ELSE rd \in XRegs)
  <2>1. CASE e.vec
    <3>1. rd \in VRegs
      BY <2>1
    <3> HIDE DEF rd
    <3>2. rd \in Nat
      BY <3>1, VectorRegister
    <3> QED
      BY <2>1, <3>1, <3>2
  <2>2. CASE ~e.vec
    <3>1. {xr(e.rt), xw(e.rt)} \subseteq XRegs
      BY <2>2
    <3> QED
      BY <2>2, <3>1, Registers
  <2> QED
    BY <2>1, <2>2
<1>3. \/ e.vec /\ fn \in VSingles
      \/ ~e.vec /\ fn \in {"opLoad", "opStore"}
      \/ ~e.vec /\ fn \in {"opLdrOff", "opStrOff"} /\ i.cond = modeOff
      \/ ~e.vec /\ fn \in {"opLdrReg", "opStrReg"} /\ i.cond = modeReg
  <2>1. CASE e.vec
    BY <2>1 DEF VSingles
  <2>2. CASE ~e.vec /\ i.cond = modeOff
    BY <2>2 DEF hotLdSt, modeOff, modeReg
  <2>3. CASE ~e.vec /\ i.cond = modeReg
    BY <2>3 DEF hotLdStReg, modeOff, modeReg
  <2>4. CASE ~e.vec /\ i.cond # modeOff /\ i.cond # modeReg
    BY <2>4
  <2> QED
    BY <2>1, <2>2, <2>3, <2>4
<1> HIDE DEF rd, hot, generic, fn, j
<1>4. fn \in VSingles \cup Singles
  BY <1>3 DEF Singles
<1>5. /\ j \in Insts /\ j.fn = fn /\ j.rd = rd /\ j.sz = i.sz /\ j.cond = i.cond
      /\ j.rn = i.rn /\ j.rm = i.rm /\ j.ra = i.ra /\ j.amt = i.amt
  BY <1>1, <1>2, <1>4, HandlerNames DEF Insts
<1>6. Addressed(j)
  BY <1>5 DEF Addressed
<1>7. CASE e.vec
  <2>1. j.fn \in VSingles /\ j.rd \in VRegs /\ j.sz \in 1 .. 16
    BY <1>2, <1>3, <1>5, <1>7
  <2>2. Operands(j)
    BY <2>1, <1>5, <1>6 DEF Operands, Singles, Pairs, VSingles, VPairs, Exclusives, Multis
  <2> QED
    BY <2>2 DEF j
<1>8. CASE ~e.vec
  <2>1. /\ j.rd \in XRegs /\ j.sz \in 1 .. 8
        /\ \/ j.fn \in {"opLoad", "opStore"}
           \/ j.fn \in {"opLdrOff", "opStrOff"} /\ j.cond = modeOff
           \/ j.fn \in {"opLdrReg", "opStrReg"} /\ j.cond = modeReg
    BY <1>2, <1>3, <1>5, <1>8
  <2>2. Operands(j)
    BY <2>1, <1>5, <1>6 DEF Operands, Singles, Pairs, VSingles, VPairs, Exclusives, Multis
  <2> QED
    BY <2>2 DEF j
<1> QED
  BY <1>7, <1>8

LEMMA IdxMode ==
  ASSUME NEW k \in 0 .. 3
  PROVE  /\ <<modeOff, modePost, modeOff, modePre>>[k + 1] \in {modeOff, modePost, modePre}
         /\ <<modeOff, modePost, modeOff, modePre>>[k + 1] \in 0 .. 3
         /\ <<modeOff, modePost, modeOff, modePre>>[k + 1] # modeReg
<1>1. CASE k = 0
  BY <1>1 DEF modeOff, modePost, modePre, modeReg
<1>2. CASE k = 1
  BY <1>2 DEF modeOff, modePost, modePre, modeReg
<1>3. CASE k = 2
  BY <1>3 DEF modeOff, modePost, modePre, modeReg
<1>4. CASE k = 3
  BY <1>4 DEF modeOff, modePost, modePre, modeReg
<1> QED
  BY <1>1, <1>2, <1>3, <1>4

LEMMA LowInt ==
  ASSUME NEW x \in Int
  PROVE  Low(x, XLEN) \in Int
  BY LowWord, Widths

LEMMA decodeRegFormOperands ==
  ASSUME NEW e, e.class = "register", Encoding(e)
  PROVE  Operands(decodeRegForm(e))
<1> DEFINE k == ldstKind(e.size, e.opc, e.vec)
           scaled == IF e.vec /\ e.opc >= 2 THEN 4 ELSE e.size
           rn == xsp(e.rn)   bytes == k.bytes   ext == k.ext
           base == [Inst EXCEPT !.rn = rn, !.sz = bytes, !.sh = ext]
           mode == <<modeOff, modePost, modeOff, modePre>>[e.idx + 1]
           amt == IF e.s THEN scaled ELSE 0
           rm == xr(e.rm)   option == e.option   off == Low(e.imm, XLEN)
           reg == [base EXCEPT !.cond = modeReg, !.rm = rm, !.ra = option, !.amt = amt]
           imm == [base EXCEPT !.cond = mode, !.imm = off]
           i == IF e.regOffset THEN reg ELSE imm
<1>1. /\ e.size \in 0 .. 3 /\ e.opc \in 0 .. 3 /\ e.vec \in BOOLEAN /\ xsp(e.rn) \in XRegs
      /\ IF e.vec THEN e.rt \in VRegs ELSE {xr(e.rt), xw(e.rt)} \subseteq XRegs
      /\ e.regOffset \in BOOLEAN /\ e.idx \in 0 .. 3
      /\ e.regOffset => e.option \in 0 .. 7 /\ e.s \in BOOLEAN /\ {xr(e.rm), xw(e.rm)} \subseteq XRegs
      /\ ~e.regOffset => e.imm \in Int
  BY DEF Encoding
<1>2. /\ k \in [bytes : Nat, ext : 0 .. 2, load : BOOLEAN, prfm : BOOLEAN, ok : BOOLEAN]
      /\ k.ok /\ ~k.prfm => k.bytes \in (IF e.vec THEN 1 .. 16 ELSE 1 .. 8)
  BY <1>1, ldstKindIs
<1>3. xsp(e.rn) \in Nat
  BY <1>1, ProgramsAssumption
<1>4. decodeRegForm(e) \in {Inst, [i EXCEPT !.fn = "opNop"], setLdSt(i, e, k.load)}
      /\ (decodeRegForm(e) = setLdSt(i, e, k.load) \/ decodeRegForm(e) \in {Inst, [i EXCEPT !.fn = "opNop"]})
      /\ (~k.ok \/ k.prfm => decodeRegForm(e) \in {Inst, [i EXCEPT !.fn = "opNop"]})
  BY DEF decodeRegForm
<1> HIDE DEF k
<1>5. base \in Insts /\ base.rn = rn /\ base.sz = bytes
  <2>1. bytes \in Nat /\ ext \in Nat /\ Inst \in Insts /\ rn \in Nat
    BY <1>2, <1>3, InstType
  <2> HIDE DEF bytes, ext, rn
  <2> QED
    BY <2>1 DEF Insts
<1> HIDE DEF base
<1>6. i \in Insts /\ i.sz = k.bytes /\ Addressed(i)
  <2>1. CASE e.regOffset
    <3>1. amt \in 0 .. 4 /\ amt \in Nat
      BY <1>1, <2>1
    <3>2. rm \in XRegs /\ rm \in Nat /\ option \in 0 .. 7 /\ option \in Nat /\ modeReg \in 0 .. 3
      BY <1>1, <2>1, Registers DEF modeReg
    <3> HIDE DEF amt, rm, option, rn, bytes
    <3>3. reg \in Insts /\ reg.sz = bytes /\ reg.rn = rn /\ reg.rm = rm /\ reg.ra = option
          /\ reg.amt = amt /\ reg.cond = modeReg
      BY <1>5, <3>1, <3>2 DEF Insts
    <3> USE DEF bytes, rn
    <3> QED
      BY <2>1, <3>1, <3>2, <3>3, <1>1 DEF Addressed
  <2>2. CASE ~e.regOffset
    <3>1. mode \in 0 .. 3 /\ mode # modeReg
      BY <1>1, IdxMode
    <3>2. off \in Int
      BY <1>1, <2>2, LowInt
    <3> HIDE DEF mode, off, rn, bytes
    <3>3. imm \in Insts /\ imm.sz = bytes /\ imm.rn = rn /\ imm.cond = mode
      BY <1>5, <3>1, <3>2 DEF Insts
    <3> USE DEF bytes, rn
    <3> QED
      BY <2>2, <3>1, <3>3, <1>1 DEF Addressed
  <2> QED
    BY <2>1, <2>2, <1>1
<1> HIDE DEF i
<1>7. k.ok /\ ~k.prfm => Operands(setLdSt(i, e, k.load))
  BY <1>1, <1>2, <1>6, setLdStOperands
<1>8. Operands([i EXCEPT !.fn = "opNop"])
  <2>1. [i EXCEPT !.fn = "opNop"] \in Insts /\ [i EXCEPT !.fn = "opNop"].fn = "opNop"
    BY <1>6, HandlerNames DEF Insts
  <2> QED
    BY <2>1, PlainOperands
<1> QED
  BY <1>4, <1>7, <1>8, InstType

LEMMA decodeUnsignedOperands ==
  ASSUME NEW e, e.class = "unsigned", Encoding(e)
  PROVE  Operands(decodeUnsignedImm(e))
<1> DEFINE k == ldstKind(e.size, e.opc, e.vec)
           scale == IF e.vec /\ e.opc >= 2 THEN 4 ELSE e.size
           rn == xsp(e.rn)   bytes == k.bytes   ext == k.ext   off == Low(e.imm * 2^scale, XLEN)
           base == [Inst EXCEPT !.rn = rn, !.sz = bytes, !.sh = ext]
           i == [base EXCEPT !.imm = off]
<1>1. /\ e.size \in 0 .. 3 /\ e.opc \in 0 .. 3 /\ e.vec \in BOOLEAN /\ xsp(e.rn) \in XRegs
      /\ IF e.vec THEN e.rt \in VRegs ELSE {xr(e.rt), xw(e.rt)} \subseteq XRegs
      /\ e.imm \in Nat
  BY DEF Encoding
<1>2. /\ k \in [bytes : Nat, ext : 0 .. 2, load : BOOLEAN, prfm : BOOLEAN, ok : BOOLEAN]
      /\ k.ok /\ ~k.prfm => k.bytes \in (IF e.vec THEN 1 .. 16 ELSE 1 .. 8)
  BY <1>1, ldstKindIs
<1>3. Low(e.imm * 2^scale, XLEN) \in Int
  <2>1. scale \in 0 .. 4
    BY <1>1
  <2>2. 2^scale \in Nat
    <3>1. XLEN \in Nat /\ 2 * XLEN >= 4
      BY WordsAssumption DEF XLEN
    <3>2. scale \in 0 .. 2 * XLEN
      BY <2>1, <3>1
    <3> HIDE DEF scale
    <3> QED
      BY <3>2, Power
  <2> DEFINE x == 2^scale
  <2>3. x \in Nat
    BY <2>2
  <2> HIDE DEF x
  <2>4. e.imm * x \in Int
    BY <2>3, <1>1
  <2> QED
    BY <2>4, LowInt DEF x
<1>4. xsp(e.rn) \in Nat
  BY <1>1, ProgramsAssumption
<1>5. (decodeUnsignedImm(e) = setLdSt(i, e, k.load) /\ k.ok /\ ~k.prfm)
      \/ decodeUnsignedImm(e) \in {Inst, [i EXCEPT !.fn = "opNop"]}
  BY DEF decodeUnsignedImm
<1> HIDE DEF k, scale
<1>6. i \in Insts /\ i.sz = k.bytes /\ i.rn = xsp(e.rn) /\ i.cond = modeOff
  <2>1. bytes \in Nat /\ ext \in Nat /\ Inst \in Insts /\ Inst.cond = modeOff /\ rn \in Nat /\ off \in Int
    BY <1>2, <1>3, <1>4, InstType DEF Inst
  <2> HIDE DEF bytes, ext, rn, off
  <2>2. base \in Insts /\ base.rn = rn /\ base.sz = bytes /\ base.cond = modeOff
    BY <2>1 DEF Insts
  <2> HIDE DEF base
  <2>3. i \in Insts /\ i.rn = rn /\ i.sz = bytes /\ i.cond = modeOff
    BY <2>1, <2>2 DEF Insts
  <2> QED
    BY <2>3 DEF bytes, rn
<1>7. Addressed(i)
  BY <1>1, <1>6 DEF Addressed, modeOff, modeReg
<1> HIDE DEF i
<1>8. k.ok /\ ~k.prfm => Operands(setLdSt(i, e, k.load))
  BY <1>1, <1>2, <1>6, <1>7, setLdStOperands
<1>9. Operands([i EXCEPT !.fn = "opNop"])
  <2>1. [i EXCEPT !.fn = "opNop"] \in Insts /\ [i EXCEPT !.fn = "opNop"].fn = "opNop"
    BY <1>6, HandlerNames DEF Insts
  <2> QED
    BY <2>1, PlainOperands
<1> QED
  BY <1>5, <1>8, <1>9, InstType

LEMMA decodeLiteralOperands ==
  ASSUME NEW e, NEW pc \in Int, e.class = "literal", Encoding(e)
  PROVE  Operands(decodeLiteral(e, pc))
<1> DEFINE off == Low(pc + 4 * e.imm, XLEN)
           i == [Inst EXCEPT !.imm = off, !.rn = rZR]
           vsz == 4 * 2^e.opc   sz == <<4, 8, 4>>[e.opc + 1]
           rt == e.rt   rd == xw(e.rt)
           sh == IF e.opc = 2 THEN extSign ELSE extZero
           v == [i EXCEPT !.sz = vsz, !.rd = rt, !.fn = "opVLoad"]
           nop == [i EXCEPT !.fn = "opNop"]
           r == [i EXCEPT !.sz = sz, !.rd = rd, !.fn = "opLoad", !.sh = sh]
<1>1. /\ e.opc \in 0 .. 3 /\ e.vec \in BOOLEAN /\ e.imm \in Int
      /\ IF e.vec THEN e.rt \in VRegs ELSE {xr(e.rt), xw(e.rt)} \subseteq XRegs
  BY DEF Encoding
<1>2. \/ decodeLiteral(e, pc) \in {Inst, nop}
      \/ e.vec /\ e.opc \in 0 .. 2 /\ decodeLiteral(e, pc) = v
      \/ ~e.vec /\ e.opc \in 0 .. 2 /\ decodeLiteral(e, pc) = r
  BY <1>1 DEF decodeLiteral
<1>3. i \in Insts /\ i.rn = rZR /\ rZR \in XRegs /\ i.cond = modeOff
  <2>1. off \in Int
    <3> DEFINE x == pc + 4 * e.imm
    <3>1. x \in Int
      BY <1>1
    <3> HIDE DEF x
    <3>2. Low(x, XLEN) \in Int
      BY <3>1, LowInt
    <3> QED
      BY <3>2 DEF x
  <2>2. rZR \in XRegs /\ rZR \in Nat /\ Inst.cond = modeOff /\ Inst \in Insts
    BY ProgramsAssumption, InstType DEF Inst
  <2> HIDE DEF off
  <2> QED
    BY <2>1, <2>2 DEF Insts
<1> HIDE DEF i
<1>4. Operands(nop)
  <2>1. nop \in Insts /\ nop.fn = "opNop"
    BY <1>3, HandlerNames DEF Insts
  <2> QED
    BY <2>1, PlainOperands
<1>5. ASSUME e.vec, e.opc \in 0 .. 2
      PROVE  Operands(v)
  <2>1. vsz \in 1 .. 16 /\ vsz \in Nat
    <3>1. CASE e.opc = 0
      BY <3>1, Powers
    <3>2. CASE e.opc = 1
      BY <3>2, Powers
    <3>3. CASE e.opc = 2
      BY <3>3, Powers
    <3> QED
      BY <1>5, <3>1, <3>2, <3>3
  <2>2. rt \in VRegs /\ rt \in Nat
    BY <1>1, <1>5, VectorRegister
  <2> HIDE DEF vsz, rt
  <2>3. v \in Insts /\ v.fn = "opVLoad" /\ v.sz = vsz /\ v.rd = rt /\ v.rn = rZR /\ v.cond = modeOff
    BY <1>3, <2>1, <2>2, HandlerNames DEF Insts, VSingles
  <2> HIDE DEF v
  <2>4. Addressed(v)
    BY <2>3, <1>3 DEF Addressed, modeOff, modeReg
  <2> QED
    BY <2>1, <2>2, <2>3, <2>4 DEF Operands, Singles, Pairs, VSingles, VPairs, Exclusives, Multis
<1>6. ASSUME ~e.vec, e.opc \in 0 .. 2
      PROVE  Operands(r)
  <2>1. sz \in 1 .. 8 /\ sz \in Nat
    BY <1>6
  <2>2. rd \in XRegs /\ rd \in Nat
    BY <1>1, <1>6, Registers
  <2>3. sh \in Nat
    BY DEF extSign, extZero
  <2> HIDE DEF sz, rd, sh
  <2>4. r \in Insts /\ r.fn = "opLoad" /\ r.sz = sz /\ r.rd = rd /\ r.rn = rZR /\ r.cond = modeOff
    BY <1>3, <2>1, <2>2, <2>3, HandlerNames DEF Insts, Singles
  <2> HIDE DEF r
  <2>5. Addressed(r)
    BY <2>4, <1>3 DEF Addressed, modeOff, modeReg
  <2> QED
    BY <2>1, <2>2, <2>4, <2>5 DEF Operands, Singles, Pairs, VSingles, VPairs, Exclusives, Multis
<1> HIDE DEF v, r, nop
<1> QED
  BY <1>2, <1>4, <1>5, <1>6, InstType

LEMMA decodePairOperands ==
  ASSUME NEW e, e.class = "pair", Encoding(e)
  PROVE  Operands(decodePair(e))
<1> DEFINE bytes == IF e.vec THEN 4 * 2^e.opc ELSE IF e.opc = 2 THEN 8 ELSE 4
           sign == ~e.vec /\ e.opc = 1
           mode == <<modeOff, modePost, modeOff, modePre>>[e.idx + 1]
           reg(t) == IF e.vec THEN t ELSE IF e.l THEN xw(t) ELSE xr(t)
           wide == bytes = 8 /\ mode = modeOff
           fn == CASE e.vec -> IF e.l THEN "opVLoadPair" ELSE "opVStorePair"
                   [] ~e.vec /\ e.l -> IF wide /\ ~sign THEN "opLdp64Off" ELSE "opLoadPair"
                   [] OTHER -> IF wide THEN "opStp64Off" ELSE "opStorePair"
           off == Low(e.imm * bytes, XLEN)   rn == xsp(e.rn)
           rd == reg(e.rt)   ra == reg(e.rt2)
           sh == IF sign THEN extSign ELSE extZero
           i == [Inst EXCEPT !.fn = fn, !.cond = mode, !.imm = off, !.rn = rn, !.sz = bytes,
                             !.rd = rd, !.ra = ra, !.sh = sh]
<1>1. /\ e.opc \in 0 .. 3 /\ e.vec \in BOOLEAN /\ e.l \in BOOLEAN /\ e.idx \in 0 .. 3 /\ e.imm \in Int
      /\ rn \in XRegs
      /\ IF e.vec THEN e.rt \in VRegs ELSE {xr(e.rt), xw(e.rt)} \subseteq XRegs
      /\ IF e.vec THEN e.rt2 \in VRegs ELSE {xr(e.rt2), xw(e.rt2)} \subseteq XRegs
  BY DEF Encoding
<1>2. decodePair(e) = Inst \/ (e.opc \in 0 .. 2 /\ decodePair(e) = i)
  BY <1>1 DEF decodePair
<1>3. ASSUME e.opc \in 0 .. 2
      PROVE  Operands(i)
  <2>1. bytes \in 1 .. 16 /\ bytes \in Nat /\ (~e.vec => bytes \in 1 .. 8)
    <3>1. CASE e.opc = 0
      BY <3>1, <1>1, Powers
    <3>2. CASE e.opc = 1
      BY <3>2, <1>1, Powers
    <3>3. CASE e.opc = 2
      BY <3>3, <1>1, Powers
    <3> QED
      BY <1>3, <3>1, <3>2, <3>3
  <2>2. mode \in 0 .. 3 /\ mode # modeReg
    BY <1>1, IdxMode
  <2>3. off \in Int
    <3> DEFINE b == bytes
               x == e.imm * b
    <3>1. b \in Nat
      BY <2>1
    <3> HIDE DEF b
    <3>2. x \in Int
      BY <3>1, <1>1
    <3> HIDE DEF x
    <3>3. Low(x, XLEN) \in Int
      BY <3>2, LowInt
    <3> QED
      BY <3>3 DEF x, b
  <2>4. rn \in XRegs /\ rn \in Nat
    BY <1>1, ProgramsAssumption
  <2>5. /\ rd \in Nat /\ ra \in Nat
        /\ e.vec => rd \in VRegs /\ ra \in VRegs
        /\ ~e.vec => rd \in XRegs /\ ra \in XRegs
    <3>1. CASE e.vec
      <4>1. rd \in VRegs /\ ra \in VRegs
        BY <3>1, <1>1
      <4> HIDE DEF rd, ra
      <4> QED
        BY <3>1, <4>1, VectorRegister
    <3>2. CASE ~e.vec
      <4>1. {xr(e.rt), xw(e.rt)} \subseteq XRegs /\ {xr(e.rt2), xw(e.rt2)} \subseteq XRegs
        BY <3>2, <1>1
      <4> QED
        BY <3>2, <4>1, <1>1, Registers
    <3> QED
      BY <3>1, <3>2, <1>1
  <2>6. sh \in Nat
    BY DEF extSign, extZero
  <2>7. \/ e.vec /\ fn \in VPairs
        \/ ~e.vec /\ fn \in {"opLoadPair", "opStorePair"}
        \/ ~e.vec /\ fn \in {"opLdp64Off", "opStp64Off"} /\ bytes = 8 /\ mode = modeOff
    BY <1>1 DEF VPairs
  <2> HIDE DEF bytes, mode, off, rn, rd, ra, sh, fn
  <2>8. fn \in Handlers
    BY <2>7, HandlerNames DEF Pairs
  <2>9. /\ i \in Insts /\ i.fn = fn /\ i.cond = mode /\ i.rn = rn /\ i.sz = bytes
        /\ i.rd = rd /\ i.ra = ra
    BY <2>1, <2>2, <2>3, <2>4, <2>5, <2>6, <2>8, InstType DEF Insts
  <2> HIDE DEF i
  <2>10. Addressed(i)
    BY <2>2, <2>4, <2>9 DEF Addressed
  <2>11. CASE e.vec
    <3>1. i.fn \in VPairs /\ i.sz \in 1 .. 16 /\ i.rd \in VRegs /\ i.ra \in VRegs
      BY <2>1, <2>5, <2>7, <2>9, <2>11
    <3> QED
      BY <3>1, <2>9, <2>10 DEF Operands, Singles, Pairs, VSingles, VPairs, Exclusives, Multis
  <2>12. CASE ~e.vec
    <3>1. /\ i.sz \in 1 .. 8 /\ i.rd \in XRegs /\ i.ra \in XRegs
          /\ \/ i.fn \in {"opLoadPair", "opStorePair"}
             \/ i.fn \in {"opLdp64Off", "opStp64Off"} /\ i.sz = 8 /\ i.cond = modeOff
      BY <2>1, <2>5, <2>7, <2>9, <2>12
    <3> QED
      BY <3>1, <2>9, <2>10 DEF Operands, Singles, Pairs, VSingles, VPairs, Exclusives, Multis
  <2> QED
    BY <2>11, <2>12, <1>1
<1> HIDE DEF i
<1> QED
  BY <1>2, <1>3, InstType

LEMMA decodeExclusiveOperands ==
  ASSUME NEW e, e.class = "exclusive", Encoding(e)
  PROVE  Operands(decodeExclusive(e))
<1> DEFINE rn == xsp(e.rn)   sz == 2^e.size
           rd == IF e.l THEN xw(e.rt) ELSE xr(e.rt)
           status == xw(e.rs)
           i == [Inst EXCEPT !.rn = rn, !.sz = sz, !.rd = rd]
           single == [i EXCEPT !.fn = IF e.l THEN "opLoad" ELSE "opStore"]
           ldxr == [i EXCEPT !.fn = "opLdxr"]
           stxr == [i EXCEPT !.fn = "opStxr", !.ra = status]
           xw2 == xw(e.rt2)   xr2 == xr(e.rt2)
           ldxp == [i EXCEPT !.fn = "opLdxp", !.rm = xw2]
           stxp == [i EXCEPT !.fn = "opStxp", !.rm = xr2, !.ra = status]
<1>1. /\ e.size \in 0 .. 3 /\ e.l \in BOOLEAN /\ xsp(e.rn) \in XRegs
      /\ {xr(e.rt), xw(e.rt)} \subseteq XRegs /\ {xr(e.rt2), xw(e.rt2)} \subseteq XRegs
      /\ {xr(e.rs), xw(e.rs)} \subseteq XRegs
  BY DEF Encoding
<1>2. decodeExclusive(e) \in {Inst, single, ldxr, stxr, ldxp, stxp}
  BY <1>1 DEF decodeExclusive
<1>3. /\ rn \in XRegs /\ rn \in Nat /\ sz \in 1 .. 8 /\ sz \in Nat /\ rd \in XRegs /\ rd \in Nat
      /\ status \in XRegs /\ status \in Nat /\ xw2 \in XRegs /\ xw2 \in Nat /\ xr2 \in XRegs /\ xr2 \in Nat
  <2>1. rn \in XRegs /\ rn \in Nat
    BY <1>1, ProgramsAssumption
  <2>2. sz \in 1 .. 8 /\ sz \in Nat
    <3>1. sz \in {1, 2, 4, 8}
      BY <1>1, SizeBytes
    <3> HIDE DEF sz
    <3> QED
      BY <3>1
  <2>3. /\ xr(e.rt) \in XRegs /\ xw(e.rt) \in XRegs /\ xr(e.rt) \in Nat /\ xw(e.rt) \in Nat
        /\ status \in XRegs /\ status \in Nat /\ xw2 \in XRegs /\ xw2 \in Nat /\ xr2 \in XRegs /\ xr2 \in Nat
    BY <1>1, Registers
  <2> QED
    BY <2>1, <2>2, <2>3, <1>1
<1> HIDE DEF rn, sz, rd, status, xw2, xr2
<1>4. i \in Insts /\ i.rn = rn /\ i.sz = sz /\ i.rd = rd /\ i.cond = modeOff
  <2>1. Inst \in Insts /\ Inst.cond = modeOff
    BY InstType DEF Inst
  <2> QED
    BY <1>3, <2>1 DEF Insts
<1> HIDE DEF i
<1>5. Operands(single)
  <2> DEFINE j == single
  <2>1. /\ j \in Insts /\ j.fn \in {"opLoad", "opStore"} /\ j.rn = rn /\ j.sz = sz /\ j.rd = rd
        /\ j.cond = modeOff
    BY <1>4, HandlerNames DEF Insts, Singles
  <2> HIDE DEF j
  <2>2. Addressed(j)
    BY <2>1, <1>3 DEF Addressed, modeOff, modeReg
  <2>3. Operands(j)
    BY <2>1, <2>2, <1>3 DEF Operands, Singles, Pairs, VSingles, VPairs, Exclusives, Multis
  <2> QED
    BY <2>3 DEF j
<1>6. Operands(ldxr)
  <2> DEFINE j == ldxr
  <2>1. j \in Insts /\ j.fn = "opLdxr" /\ j.rn = rn /\ j.sz = sz /\ j.rd = rd
    BY <1>4, HandlerNames DEF Insts, Exclusives
  <2> HIDE DEF j
  <2>2. Operands(j)
    BY <2>1, <1>3 DEF Operands, Singles, Pairs, VSingles, VPairs, Exclusives, Multis
  <2> QED
    BY <2>2 DEF j
<1>7. Operands(stxr)
  <2> DEFINE j == stxr
  <2>1. j \in Insts /\ j.fn = "opStxr" /\ j.rn = rn /\ j.sz = sz /\ j.rd = rd /\ j.ra = status
    BY <1>3, <1>4, HandlerNames DEF Insts, Exclusives
  <2> HIDE DEF j
  <2>2. Operands(j)
    BY <2>1, <1>3 DEF Operands, Singles, Pairs, VSingles, VPairs, Exclusives, Multis
  <2> QED
    BY <2>2 DEF j
<1>8. Operands(ldxp)
  <2> DEFINE j == ldxp
  <2>1. j \in Insts /\ j.fn = "opLdxp" /\ j.rn = rn /\ j.sz = sz /\ j.rd = rd /\ j.rm = xw2
    BY <1>3, <1>4, HandlerNames DEF Insts, Exclusives
  <2> HIDE DEF j
  <2>2. Operands(j)
    BY <2>1, <1>3 DEF Operands, Singles, Pairs, VSingles, VPairs, Exclusives, Multis
  <2> QED
    BY <2>2 DEF j
<1>9. Operands(stxp)
  <2> DEFINE j == stxp
  <2>1. j \in Insts /\ j.fn = "opStxp" /\ j.rn = rn /\ j.sz = sz /\ j.rd = rd /\ j.rm = xr2 /\ j.ra = status
    BY <1>3, <1>4, HandlerNames DEF Insts, Exclusives
  <2> HIDE DEF j
  <2>2. Operands(j)
    BY <2>1, <1>3 DEF Operands, Singles, Pairs, VSingles, VPairs, Exclusives, Multis
  <2> QED
    BY <2>2 DEF j
<1> HIDE DEF single, ldxr, stxr, ldxp, stxp
<1> QED
  BY <1>2, <1>5, <1>6, <1>7, <1>8, <1>9, InstType

LEMMA MultiShapes ==
  /\ DOMAIN MultiShape = {0, 2, 4, 6, 7, 8, 10}
  /\ \A op \in DOMAIN MultiShape :
       MultiShape[op][1] \in 1 .. 4 /\ MultiShape[op][2] \in {1, MultiShape[op][1]}
<1>1. DOMAIN MultiShape = {0, 2, 4, 6, 7, 8, 10}
  BY DEF MultiShape
<1>2. ASSUME NEW op \in {0, 2, 4, 6, 7, 8, 10}
      PROVE  MultiShape[op] \in {<<4, 4>>, <<4, 1>>, <<3, 3>>, <<3, 1>>, <<1, 1>>, <<2, 2>>, <<2, 1>>}
  BY DEF MultiShape
<1>3. ASSUME NEW x \in {<<4, 4>>, <<4, 1>>, <<3, 3>>, <<3, 1>>, <<1, 1>>, <<2, 2>>, <<2, 1>>}
      PROVE  x[1] \in 1 .. 4 /\ x[2] \in {1, x[1]}
  OBVIOUS
<1> QED
  BY <1>1, <1>2, <1>3

LEMMA decodeSIMDMultiOperands ==
  ASSUME NEW e, e.class = "multi", Encoding(e)
  PROVE  Operands(decodeSIMDMulti(e))
<1> DEFINE rt == e.rt   rn == xsp(e.rn)   size == e.size
           regs == MultiShape[e.opcode][1]   group == MultiShape[e.opcode][2]
           width == IF e.q THEN 16 ELSE 8
           fn == IF e.l THEN "opSIMDLoadMulti" ELSE "opSIMDStoreMulti"
           bytes == [Inst EXCEPT !.rd = rt, !.rn = rn, !.sz = size, !.sh = regs,
                                 !.ra = group, !.amt = width, !.fn = fn]
           imm == regs * width   rm == xr(e.rm)
           post == [bytes EXCEPT !.cond = modePost, !.imm = imm]
           reg == [bytes EXCEPT !.cond = modeReg, !.rm = rm]
<1>1. /\ e.size \in 0 .. 3 /\ {e.q, e.l, e.post, e.b21} \subseteq BOOLEAN
      /\ xsp(e.rn) \in XRegs /\ {xr(e.rm), xw(e.rm)} \subseteq XRegs /\ e.rt \in 0 .. 31
      /\ \A k \in 0 .. 3 : (e.rt + k) % 32 \in VRegs
  BY DEF Encoding
<1>2. \/ decodeSIMDMulti(e) = Inst
      \/ e.opcode \in DOMAIN MultiShape /\ decodeSIMDMulti(e) \in {bytes, post, reg}
  BY <1>1 DEF decodeSIMDMulti
<1>3. ASSUME e.opcode \in DOMAIN MultiShape
      PROVE  Operands(bytes) /\ Operands(post) /\ Operands(reg)
  <2>1. regs \in 1 .. 4 /\ regs \in Nat /\ group \in {1, regs} /\ group \in Nat
    BY <1>3, MultiShapes
  <2>2. width \in {8, 16} /\ width \in Nat
    BY <1>1
  <2>3. rn \in XRegs /\ rn \in Nat /\ rm \in XRegs /\ rm \in Nat
    BY <1>1, ProgramsAssumption, Registers
  <2>4. rt \in 0 .. 31 /\ rt \in Nat /\ size \in 0 .. 3 /\ size \in Nat
        /\ \A k \in 0 .. 3 : (rt + k) % 32 \in VRegs
    BY <1>1
  <2>5. fn \in Multis /\ fn \in Handlers
    BY HandlerNames DEF Multis
  <2> HIDE DEF rt, rn, size, regs, group, width, fn, rm
  <2>6. imm \in Int
    BY <2>1, <2>2
  <2> HIDE DEF imm
  <2>7. /\ bytes \in Insts /\ bytes.rd = rt /\ bytes.rn = rn /\ bytes.sz = size /\ bytes.sh = regs
        /\ bytes.ra = group /\ bytes.amt = width /\ bytes.fn = fn /\ bytes.cond = modeOff
    <3>1. Inst \in Insts /\ Inst.cond = modeOff
      BY InstType DEF Inst
    <3> QED
      BY <2>1, <2>2, <2>3, <2>4, <2>5, <3>1 DEF Insts
  <2> HIDE DEF bytes
  <2>8. ASSUME NEW j \in Insts, j.rd = rt, j.rn = rn, j.sz = size, j.sh = regs, j.ra = group,
               j.amt = width, j.fn = fn, j.cond = modeReg => j.rm \in XRegs
        PROVE  Operands(j)
    <3>1. \A k \in 0 .. j.sh - 1 : VReg(j, k) \in VRegs
      BY <2>1, <2>4, <2>8 DEF VReg
    <3>2. j.fn \in Multis
      BY <2>5, <2>8
    <3>3. j.rn \in XRegs /\ j.sz \in 0 .. 3 /\ j.sh \in 1 .. 4 /\ j.amt \in {8, 16} /\ j.ra \in {1, j.sh}
          /\ j.rd \in 0 .. 31
      BY <2>1, <2>2, <2>3, <2>4, <2>8
    <3> QED
      BY <2>8, <3>1, <3>2, <3>3 DEF Operands, Singles, Pairs, VSingles, VPairs, Exclusives, Multis
  <2>9. Operands(bytes)
    BY <2>7, <2>8 DEF modeOff, modeReg
  <2>10. Operands(post)
    <3> DEFINE j == post
    <3>1. /\ j \in Insts /\ j.rd = rt /\ j.rn = rn /\ j.sz = size /\ j.sh = regs
          /\ j.ra = group /\ j.amt = width /\ j.fn = fn /\ j.cond = modePost
      <4>1. modePost \in 0 .. 3
        BY DEF modePost
      <4> QED
        BY <2>6, <2>7, <4>1 DEF Insts
    <3> HIDE DEF j
    <3>2. Operands(j)
      BY <2>8, <3>1 DEF modePost, modeReg
    <3> QED
      BY <3>2 DEF j
  <2>11. Operands(reg)
    <3> DEFINE j == reg
    <3>1. /\ j \in Insts /\ j.rd = rt /\ j.rn = rn /\ j.sz = size /\ j.sh = regs
          /\ j.ra = group /\ j.amt = width /\ j.fn = fn /\ j.rm = rm
      <4>1. modeReg \in 0 .. 3
        BY DEF modeReg
      <4> QED
        BY <2>3, <2>7, <4>1 DEF Insts
    <3> HIDE DEF j
    <3>2. Operands(j)
      BY <2>3, <2>8, <3>1
    <3> QED
      BY <3>2 DEF j
  <2> QED
    BY <2>9, <2>10, <2>11
<1> HIDE DEF bytes, post, reg
<1> QED
  BY <1>2, <1>3, InstType

LEMMA decodeSystemOperands ==
  ASSUME NEW e, e.class = "system", Encoding(e)
  PROVE  Operands(decodeSystem(e))
<1> DEFINE rn == xr(e.rt)
           clrex == [Inst EXCEPT !.fn = "opClrex"]
           zva == [Inst EXCEPT !.fn = "opDcZva", !.rn = rn]
<1>1. decodeSystem(e) \in {clrex, zva}
  BY DEF decodeSystem
<1>2. Operands(clrex)
  <2>1. clrex \in Insts /\ clrex.fn = "opClrex"
    BY InstType, HandlerNames DEF Insts
  <2> QED
    BY <2>1, PlainOperands
<1>3. Operands(zva)
  <2>1. {xr(e.rt), xw(e.rt)} \subseteq XRegs
    BY DEF Encoding
  <2>2. rn \in XRegs /\ rn \in Nat
    BY <2>1, Registers
  <2> HIDE DEF rn
  <2> DEFINE j == zva
  <2>3. j \in Insts /\ j.fn = "opDcZva" /\ j.rn = rn
    BY <2>2, InstType, HandlerNames DEF Insts
  <2> HIDE DEF j
  <2>4. Operands(j)
    BY <2>2, <2>3 DEF Operands, Singles, Pairs, VSingles, VPairs, Exclusives, Multis
  <2> QED
    BY <2>4 DEF j
<1> HIDE DEF clrex, zva
<1> QED
  BY <1>1, <1>2, <1>3

(* Whatever the encoding, the decoder gives its handler operands it can use.  *)
LEMMA Decoded ==
  ASSUME NEW e, Encoding(e), NEW pc \in Int
  PROVE  Operands(decodeLdSt(e, pc))
<1>1. e.class \in {"register", "unsigned", "literal", "pair", "exclusive", "multi", "system", "atomic"}
  BY DEF Encoding
<1>2. CASE e.class = "register"
  BY <1>2, decodeRegFormOperands DEF decodeLdSt
<1>3. CASE e.class = "unsigned"
  BY <1>3, decodeUnsignedOperands DEF decodeLdSt
<1>4. CASE e.class = "literal"
  BY <1>4, decodeLiteralOperands DEF decodeLdSt
<1>5. CASE e.class = "pair"
  BY <1>5, decodePairOperands DEF decodeLdSt
<1>6. CASE e.class = "exclusive"
  BY <1>6, decodeExclusiveOperands DEF decodeLdSt
<1>7. CASE e.class = "multi"
  BY <1>7, decodeSIMDMultiOperands DEF decodeLdSt
<1>8. CASE e.class = "system"
  BY <1>8, decodeSystemOperands DEF decodeLdSt
<1>9. CASE e.class = "atomic"
  BY <1>9, InstType DEF decodeLdSt
<1> QED
  BY <1>1, <1>2, <1>3, <1>4, <1>5, <1>6, <1>7, <1>8, <1>9

-----------------------------------------------------------------------------
(* One instruction.                                                           *)

\* The access handler i makes of state s is not allowed, or i is no handler
Denied(s, i) ==
  LET a == s.r[i.rn]
  IN CASE i.fn \in {"opLoad", "opLdrOff", "opLdrReg", "opVLoad"} -> ~Span("R", addrFor(s, i), i.sz)
       [] i.fn \in {"opStore", "opStrOff", "opStrReg", "opVStore"} -> ~Span("W", addrFor(s, i), i.sz)
       [] i.fn \in {"opLoadPair", "opLdp64Off", "opVLoadPair"} -> ~Span("R", addrFor(s, i), 2 * i.sz)
       [] i.fn \in {"opStorePair", "opStp64Off", "opVStorePair"} -> ~Span("W", addrFor(s, i), 2 * i.sz)
       [] i.fn = "opLdxr" -> ~Span("R", a, i.sz)
       [] i.fn = "opLdxp" -> ~Span("R", a, 2 * i.sz)
       [] i.fn = "opStxr" -> exclusiveOK(s, a, i.sz) /\ ~Span("W", a, i.sz)
       [] i.fn = "opStxp" -> exclusiveOK(s, a, 2 * i.sz) /\ ~Span("W", a, 2 * i.sz)
       [] i.fn = "opDcZva" -> ~Span("W", a - (a % 64), 64)
       [] i.fn = "opSIMDLoadMulti" -> ~Span("R", a, simdMultiParams(i).total)
       [] i.fn = "opSIMDStoreMulti" -> ~Span("W", a, simdMultiParams(i).total)
       [] OTHER -> i.fn = "opUndef"

\* What a fault of handler i leaves of s (FaultKeepsState)
Kept(s, i, t) ==
  LET half(fn) == i.fn = fn /\ Crosses(addrFor(s, i), 2 * i.sz)
  IN /\ t.pc = s.pc /\ t.mem = s.mem
     /\ \A x \in XRegs : t.r[x] = s.r[x] \/ (half("opLdp64Off") /\ x = i.rd)
     /\ \A x \in VRegs : t.v[x] = s.v[x] \/ (half("opVLoadPair") /\ x = i.rd)
     /\ t.excl = s.excl \/ i.fn \in {"opStxr", "opStxp"}

\* t is what instruction i makes of s: it faults exactly when it must
Executed(s, i, t) ==
  t \in CpuStates /\ (t.fault <=> Denied(s, i)) /\ (t.fault => Kept(s, i, t))

\* The handlers that leave everything as it was when they fault
LEMMA KeepsAll ==
  ASSUME NEW s \in CpuStates, NEW t, NEW i, Outcome(s, t, Denied(s, i))
  PROVE  Executed(s, i, t)
<1>1. t \in CpuStates /\ (t.fault <=> Denied(s, i)) /\ (Denied(s, i) => t = Fault(s))
  BY DEF Outcome
<1>2. /\ Fault(s).r = s.r /\ Fault(s).v = s.v /\ Fault(s).pc = s.pc /\ Fault(s).mem = s.mem
      /\ Fault(s).excl = s.excl
  BY FaultFields
<1> QED
  BY <1>1, <1>2 DEF Executed, Kept

\* ... all but the monitor
LEMMA KeepsButMonitor ==
  ASSUME NEW s \in CpuStates, ~s.fault, NEW t, NEW i, i.fn \in {"opStxr", "opStxp"},
         Outcome(Cleared(s), t, Denied(s, i))
  PROVE  Executed(s, i, t)
<1>1. t \in CpuStates /\ (t.fault <=> Denied(s, i)) /\ (Denied(s, i) => t = Fault(Cleared(s)))
  BY DEF Outcome
<1>2. /\ Cleared(s) \in CpuStates /\ Cleared(s).r = s.r /\ Cleared(s).v = s.v
      /\ Cleared(s).pc = s.pc /\ Cleared(s).mem = s.mem
  BY ClearedFields
<1>3. /\ Fault(Cleared(s)).r = s.r /\ Fault(Cleared(s)).v = s.v /\ Fault(Cleared(s)).pc = s.pc
      /\ Fault(Cleared(s)).mem = s.mem
  BY <1>2, FaultFields
<1> QED
  BY <1>1, <1>3 DEF Executed, Kept

\* ... all but the first register of a pair that breaks off between its halves
LEMMA KeepsButHalf ==
  ASSUME NEW s \in CpuStates, NEW t, NEW i, Denied(s, i), Crosses(addrFor(s, i), 2 * i.sz),
         NEW x,
         \/ i.fn = "opLdp64Off" /\ Outcome([s EXCEPT !.r[i.rd] = x], t, TRUE)
         \/ i.fn = "opVLoadPair" /\ Outcome([s EXCEPT !.v[i.rd] = x], t, TRUE)
  PROVE  Executed(s, i, t)
<1>1. CASE i.fn = "opLdp64Off" /\ Outcome([s EXCEPT !.r[i.rd] = x], t, TRUE)
  <2>1. t \in CpuStates /\ t.fault /\ t = Fault([s EXCEPT !.r[i.rd] = x])
    BY <1>1 DEF Outcome
  <2>2. /\ t.pc = s.pc /\ t.mem = s.mem /\ t.v = s.v /\ t.excl = s.excl
        /\ \A y \in XRegs : t.r[y] = s.r[y] \/ y = i.rd
    BY <2>1 DEF Fault, CpuStates
  <2> QED
    BY <1>1, <2>1, <2>2 DEF Executed, Kept
<1>2. CASE i.fn = "opVLoadPair" /\ Outcome([s EXCEPT !.v[i.rd] = x], t, TRUE)
  <2>1. t \in CpuStates /\ t.fault /\ t = Fault([s EXCEPT !.v[i.rd] = x])
    BY <1>2 DEF Outcome
  <2>2. /\ t.pc = s.pc /\ t.mem = s.mem /\ t.r = s.r /\ t.excl = s.excl
        /\ \A y \in VRegs : t.v[y] = s.v[y] \/ y = i.rd
    BY <2>1 DEF Fault, CpuStates
  <2> QED
    BY <1>2, <2>1, <2>2 DEF Executed, Kept
<1> QED
  BY <1>1, <1>2

LEMMA LoadsAndStores ==
  ASSUME NEW s \in CpuStates, ~s.fault, NEW i, Operands(i), NEW hit,
         i.fn \in {"opLoad", "opVLoad", "opStore", "opVStore", "opLoadPair", "opStorePair", "opVStorePair"}
  PROVE  Executed(s, i, Exec(s, i, hit))
<1>1. CASE i.fn = "opLoad"
  <2>1. Exec(s, i, hit) = opLoad(s, i)
    BY <1>1 DEF Exec
  <2>2. Outcome(s, opLoad(s, i), Denied(s, i))
    BY <1>1, opLoadOutcome DEF Denied
  <2> QED
    BY <2>1, <2>2, KeepsAll
<1>2. CASE i.fn = "opVLoad"
  <2>1. Exec(s, i, hit) = opVLoad(s, i)
    BY <1>2 DEF Exec
  <2>2. Outcome(s, opVLoad(s, i), Denied(s, i))
    BY <1>2, opVLoadOutcome DEF Denied
  <2> QED
    BY <2>1, <2>2, KeepsAll
<1>3. CASE i.fn = "opStore"
  <2>1. Exec(s, i, hit) = opStore(s, i)
    BY <1>3 DEF Exec
  <2>2. Outcome(s, opStore(s, i), Denied(s, i))
    BY <1>3, opStoreOutcome DEF Denied
  <2> QED
    BY <2>1, <2>2, KeepsAll
<1>4. CASE i.fn = "opVStore"
  <2>1. Exec(s, i, hit) = opVStore(s, i)
    BY <1>4 DEF Exec
  <2>2. Outcome(s, opVStore(s, i), Denied(s, i))
    BY <1>4, opVStoreOutcome DEF Denied
  <2> QED
    BY <2>1, <2>2, KeepsAll
<1>5. CASE i.fn = "opLoadPair"
  <2>1. Exec(s, i, hit) = opLoadPair(s, i)
    BY <1>5 DEF Exec
  <2>2. Outcome(s, opLoadPair(s, i), Denied(s, i))
    BY <1>5, opLoadPairOutcome DEF Denied
  <2> QED
    BY <2>1, <2>2, KeepsAll
<1>6. CASE i.fn = "opStorePair"
  <2>1. Exec(s, i, hit) = opStorePair(s, i)
    BY <1>6 DEF Exec
  <2>2. Outcome(s, opStorePair(s, i), Denied(s, i))
    BY <1>6, opStorePairOutcome DEF Denied
  <2> QED
    BY <2>1, <2>2, KeepsAll
<1>7. CASE i.fn = "opVStorePair"
  <2>1. Exec(s, i, hit) = opVStorePair(s, i)
    BY <1>7 DEF Exec
  <2>2. Outcome(s, opVStorePair(s, i), Denied(s, i))
    BY <1>7, opVStorePairOutcome DEF Denied
  <2> QED
    BY <2>1, <2>2, KeepsAll
<1> QED
  BY <1>1, <1>2, <1>3, <1>4, <1>5, <1>6, <1>7

LEMMA Specialised ==
  ASSUME NEW s \in CpuStates, ~s.fault, NEW i, Operands(i), NEW hit,
         i.fn \in {"opLdrOff", "opLdrReg"} => HitAllowed("R", hit, addrFor(s, i)),
         i.fn \in {"opStrOff", "opStrReg", "opStp64Off"} => HitAllowed("W", hit, addrFor(s, i)),
         i.fn \in {"opLdrOff", "opLdrReg", "opStrOff", "opStrReg", "opStp64Off"}
  PROVE  Executed(s, i, Exec(s, i, hit))
<1>1. i \in Insts /\ (i.fn # "opStp64Off" => i.sz \in 1 .. 8 /\ i.rd \in XRegs /\ Addressed(i))
  BY DEF Operands, Singles
<1>2. i.fn # "opStp64Off" => addrFor(s, i) \in Word(XLEN)
  BY <1>1, addrForWord
<1>3. CASE i.fn = "opLdrOff"
  <2>1. Exec(s, i, hit) = HotLoad(s, i, addrFor(s, i), hit)
    BY <1>3, HotAddress DEF Exec, opLdrOff
  <2>2. Outcome(s, HotLoad(s, i, addrFor(s, i), hit), Denied(s, i))
    BY <1>1, <1>2, <1>3, HotLoadOutcome DEF Denied
  <2> QED
    BY <2>1, <2>2, KeepsAll
<1>4. CASE i.fn = "opLdrReg"
  <2>1. Exec(s, i, hit) = HotLoad(s, i, addrFor(s, i), hit)
    BY <1>4, HotAddress DEF Exec, opLdrReg
  <2>2. Outcome(s, HotLoad(s, i, addrFor(s, i), hit), Denied(s, i))
    BY <1>1, <1>2, <1>4, HotLoadOutcome DEF Denied
  <2> QED
    BY <2>1, <2>2, KeepsAll
<1>5. CASE i.fn = "opStrOff"
  <2>1. Exec(s, i, hit) = HotStore(s, i, addrFor(s, i), hit)
    BY <1>5, HotAddress DEF Exec, opStrOff
  <2>2. Outcome(s, HotStore(s, i, addrFor(s, i), hit), Denied(s, i))
    BY <1>1, <1>2, <1>5, HotStoreOutcome DEF Denied
  <2> QED
    BY <2>1, <2>2, KeepsAll
<1>6. CASE i.fn = "opStrReg"
  <2>1. Exec(s, i, hit) = HotStore(s, i, addrFor(s, i), hit)
    BY <1>6, HotAddress DEF Exec, opStrReg
  <2>2. Outcome(s, HotStore(s, i, addrFor(s, i), hit), Denied(s, i))
    BY <1>1, <1>2, <1>6, HotStoreOutcome DEF Denied
  <2> QED
    BY <2>1, <2>2, KeepsAll
<1>7. CASE i.fn = "opStp64Off"
  <2>1. Exec(s, i, hit) = opStp64Off(s, i, hit)
    BY <1>7 DEF Exec
  <2>2. Outcome(s, opStp64Off(s, i, hit), Denied(s, i))
    BY <1>7, opStp64OffOutcome DEF Denied
  <2> QED
    BY <2>1, <2>2, KeepsAll
<1> QED
  BY <1>3, <1>4, <1>5, <1>6, <1>7

LEMMA LoadPairs ==
  ASSUME NEW s \in CpuStates, ~s.fault, NEW i, Operands(i), NEW hit,
         i.fn = "opLdp64Off" => HitAllowed("R", hit, addrFor(s, i)),
         i.fn \in {"opLdp64Off", "opVLoadPair"}
  PROVE  Executed(s, i, Exec(s, i, hit))
<1> DEFINE a == addrFor(s, i)   n == i.sz
           broken == Span("R", a, n) /\ ~Span("R", a, 2 * n)
<1>1. Denied(s, i) = ~Span("R", a, 2 * n)
  BY DEF Denied
<1>2. CASE i.fn = "opLdp64Off"
  <2> DEFINE t == opLdp64Off(s, i, hit)
  <2>1. Exec(s, i, hit) = t
    BY <1>2 DEF Exec
  <2>2. IF broken THEN Crosses(a, 2 * n) /\ Outcome([s EXCEPT !.r[i.rd] = ReadN(s, a, n)], t, TRUE)
                  ELSE Outcome(s, t, ~Span("R", a, 2 * n))
    BY <1>2, opLdp64OffOutcome
  <2> HIDE DEF t
  <2>3. CASE broken
    BY <1>1, <1>2, <2>1, <2>2, <2>3, KeepsButHalf
  <2>4. CASE ~broken
    BY <1>1, <2>1, <2>2, <2>4, KeepsAll
  <2> QED
    BY <2>3, <2>4
<1>3. CASE i.fn = "opVLoadPair"
  <2> DEFINE t == opVLoadPair(s, i)
  <2>1. Exec(s, i, hit) = t
    BY <1>3 DEF Exec
  <2>2. IF broken THEN Crosses(a, 2 * n) /\ Outcome([s EXCEPT !.v[i.rd] = ReadN(s, a, n)], t, TRUE)
                  ELSE Outcome(s, t, ~Span("R", a, 2 * n))
    BY <1>3, opVLoadPairOutcome
  <2> HIDE DEF t
  <2>3. CASE broken
    BY <1>1, <1>3, <2>1, <2>2, <2>3, KeepsButHalf
  <2>4. CASE ~broken
    BY <1>1, <2>1, <2>2, <2>4, KeepsAll
  <2> QED
    BY <2>3, <2>4
<1> QED
  BY <1>2, <1>3

LEMMA ExclusivesAndBlocks ==
  ASSUME NEW s \in CpuStates, ~s.fault, NEW i, Operands(i), NEW hit,
         i.fn \in {"opLdxr", "opLdxp", "opStxr", "opStxp", "opDcZva", "opSIMDLoadMulti", "opSIMDStoreMulti"}
  PROVE  Executed(s, i, Exec(s, i, hit))
<1>1. CASE i.fn = "opLdxr"
  <2>1. Exec(s, i, hit) = opLdxr(s, i)
    BY <1>1 DEF Exec
  <2>2. Outcome(s, opLdxr(s, i), Denied(s, i))
    BY <1>1, opLdxrOutcome DEF Denied
  <2> QED
    BY <2>1, <2>2, KeepsAll
<1>2. CASE i.fn = "opLdxp"
  <2>1. Exec(s, i, hit) = opLdxp(s, i)
    BY <1>2 DEF Exec
  <2>2. Outcome(s, opLdxp(s, i), Denied(s, i))
    BY <1>2, opLdxpOutcome DEF Denied
  <2> QED
    BY <2>1, <2>2, KeepsAll
<1>3. CASE i.fn = "opDcZva"
  <2>1. Exec(s, i, hit) = opDcZva(s, i)
    BY <1>3 DEF Exec
  <2>2. Outcome(s, opDcZva(s, i), Denied(s, i))
    BY <1>3, opDcZvaOutcome DEF Denied
  <2> QED
    BY <2>1, <2>2, KeepsAll
<1>4. CASE i.fn = "opSIMDLoadMulti"
  <2>1. Exec(s, i, hit) = opSIMDLoadMulti(s, i)
    BY <1>4 DEF Exec
  <2>2. Outcome(s, opSIMDLoadMulti(s, i), Denied(s, i))
    BY <1>4, opSIMDLoadOutcome DEF Denied
  <2> QED
    BY <2>1, <2>2, KeepsAll
<1>5. CASE i.fn = "opSIMDStoreMulti"
  <2>1. Exec(s, i, hit) = opSIMDStoreMulti(s, i)
    BY <1>5 DEF Exec
  <2>2. Outcome(s, opSIMDStoreMulti(s, i), Denied(s, i))
    BY <1>5, opSIMDStoreOutcome DEF Denied
  <2> QED
    BY <2>1, <2>2, KeepsAll
<1>6. CASE i.fn = "opStxr"
  <2>1. Exec(s, i, hit) = opStxr(s, i)
    BY <1>6 DEF Exec
  <2>2. Outcome(Cleared(s), opStxr(s, i), Denied(s, i))
    BY <1>6, opStxrOutcome DEF Denied
  <2> QED
    BY <1>6, <2>1, <2>2, KeepsButMonitor
<1>7. CASE i.fn = "opStxp"
  <2>1. Exec(s, i, hit) = opStxp(s, i)
    BY <1>7 DEF Exec
  <2>2. Outcome(Cleared(s), opStxp(s, i), Denied(s, i))
    BY <1>7, opStxpOutcome DEF Denied
  <2> QED
    BY <1>7, <2>1, <2>2, KeepsButMonitor
<1> QED
  BY <1>1, <1>2, <1>3, <1>4, <1>5, <1>6, <1>7

LEMMA NoAccess ==
  ASSUME NEW s \in CpuStates, ~s.fault, NEW i, NEW hit,
         i.fn \in {"opNop", "opClrex", "opUndef"}
  PROVE  Executed(s, i, Exec(s, i, hit))
<1>1. CASE i.fn = "opNop"
  <2>1. Exec(s, i, hit) = Done(s) /\ ~Denied(s, i) /\ Denied(s, i) \in BOOLEAN
    BY <1>1 DEF Exec, Denied
  <2> QED
    BY <2>1, PlainOutcome, KeepsAll
<1>2. CASE i.fn = "opUndef"
  <2>1. Exec(s, i, hit) = Fault(s) /\ Denied(s, i) /\ Denied(s, i) \in BOOLEAN
    BY <1>2 DEF Exec, Denied
  <2> QED
    BY <2>1, PlainOutcome, KeepsAll
<1>3. CASE i.fn = "opClrex"
  <2>1. Exec(s, i, hit) = Done(Cleared(s)) /\ ~Denied(s, i) /\ Denied(s, i) \in BOOLEAN
    BY <1>3 DEF Exec, Denied, opClrex
  <2>2. Exec(s, i, hit) \in CpuStates /\ ~Exec(s, i, hit).fault
    BY <2>1, PlainOutcome DEF Outcome
  <2> QED
    BY <2>1, <2>2 DEF Executed
<1> QED
  BY <1>1, <1>2, <1>3

\* The page a hit of the TLB knows is one that allows the access
TlbHit(s, i, hit) ==
  /\ hit \in BOOLEAN
  /\ hit => i.fn \in HotLoads \cup HotStores
            /\ guestPage(IF i.fn \in HotLoads THEN "R" ELSE "W", addrFor(s, i))

(* One instruction, whether or not the TLB knows the page.                    *)
LEMMA Instruction ==
  ASSUME NEW s \in CpuStates, ~s.fault, NEW i, Operands(i), NEW hit, TlbHit(s, i, hit)
  PROVE  Executed(s, i, Exec(s, i, hit))
<1>1. i.fn \in Handlers
  BY DEF Operands, Insts
<1>2. /\ i.fn \in HotLoads => HitAllowed("R", hit, addrFor(s, i))
      /\ i.fn \in HotStores => HitAllowed("W", hit, addrFor(s, i))
  BY DEF TlbHit, HitAllowed, HotLoads, HotStores
<1>3. CASE i.fn \in {"opLoad", "opVLoad", "opStore", "opVStore", "opLoadPair", "opStorePair", "opVStorePair"}
  BY <1>3, LoadsAndStores
<1>4. CASE i.fn \in {"opLdrOff", "opLdrReg", "opStrOff", "opStrReg", "opStp64Off"}
  <2>1. /\ i.fn \in {"opLdrOff", "opLdrReg"} => i.fn \in HotLoads
        /\ i.fn \in {"opStrOff", "opStrReg", "opStp64Off"} => i.fn \in HotStores
    BY DEF HotLoads, HotStores
  <2> QED
    BY <1>2, <1>4, <2>1, Specialised
<1>5. CASE i.fn \in {"opLdp64Off", "opVLoadPair"}
  <2>1. i.fn = "opLdp64Off" => i.fn \in HotLoads
    BY DEF HotLoads
  <2> QED
    BY <1>2, <1>5, <2>1, LoadPairs
<1>6. CASE i.fn \in {"opLdxr", "opLdxp", "opStxr", "opStxp", "opDcZva", "opSIMDLoadMulti", "opSIMDStoreMulti"}
  BY <1>6, ExclusivesAndBlocks
<1>7. CASE i.fn \in {"opNop", "opClrex", "opUndef"}
  BY <1>7, NoAccess
<1> QED
  BY <1>1, <1>3, <1>4, <1>5, <1>6, <1>7
     DEF Handlers, Singles, Pairs, VSingles, VPairs, Exclusives, Multis

-----------------------------------------------------------------------------
(* The machine.                                                               *)

LEMMA FirstStates ==
  ASSUME NEW b \in Bases
  PROVE  FirstState(b) \in CpuStates
<1> DEFINE other(x) == (37 * x + 11) % 2^XLEN
           r == [x \in XRegs |-> CASE x = 0 -> b [] x \in {rZR, rSink} -> 0 [] OTHER -> other(x)]
           v == [x \in VRegs |-> (4099 * x + 9029) % 2^(2 * XLEN)]
<1>1. FirstState(b) = [r |-> r, v |-> v, pc |-> 0, excl |-> NoMonitor, mem |-> Background, fault |-> FALSE]
  BY DEF FirstState
<1>2. b \in Word(XLEN) /\ Background \in [Cells -> Word(ByteBits)] /\ XRegs \subseteq Nat
      /\ VRegs \subseteq Nat
  BY ProgramsAssumption
<1>3. 0 \in Word(XLEN) /\ XLEN \in Nat /\ 2^XLEN \in Nat \ {0} /\ 2^(2 * XLEN) \in Nat \ {0}
  <2>1. XLEN \in Nat /\ XLEN \in 0 .. 2 * XLEN /\ 2 * XLEN \in 0 .. 2 * XLEN
    BY WordsAssumption DEF XLEN
  <2> QED
    BY <2>1, WordsAssumption, Power DEF Word
<1>4. r \in [XRegs -> Word(XLEN)]
  <2> DEFINE m == 2^XLEN
  <2>1. m \in Nat \ {0}
    BY <1>3
  <2>2. ASSUME NEW x \in XRegs
        PROVE  (37 * x + 11) % 2^XLEN \in Word(XLEN)
    <3>1. x \in Nat
      BY <1>2
    <3> HIDE DEF m
    <3>2. (37 * x + 11) % m \in 0 .. m - 1
      BY <2>1, <3>1
    <3> QED
      BY <3>2 DEF m, Word
  <2> HIDE DEF other
  <2> QED
    BY <1>2, <1>3, <2>2 DEF other
<1>5. v \in [VRegs -> Word(2 * XLEN)]
  <2> DEFINE m == 2^(2 * XLEN)
  <2>1. m \in Nat \ {0}
    BY <1>3
  <2>2. ASSUME NEW x \in VRegs
        PROVE  (4099 * x + 9029) % 2^(2 * XLEN) \in Word(2 * XLEN)
    <3>1. x \in Nat
      BY <1>2
    <3> HIDE DEF m
    <3>2. (4099 * x + 9029) % m \in 0 .. m - 1
      BY <2>1, <3>1
    <3> QED
      BY <3>2 DEF m, Word
  <2> QED
    BY <2>2
<1> HIDE DEF r, v
<1>6. NoMonitor \in [valid : BOOLEAN, addr : Word(XLEN), size : Nat, val : Nat, val2 : Nat]
  BY <1>3 DEF NoMonitor
<1> QED
  BY <1>1, <1>2, <1>3, <1>4, <1>5, <1>6 DEF CpuStates

\* One step of the machine runs an encoding of the program or mends the pages
LEMMA StepExecutes ==
  ASSUME cpu \in CpuStates, prog \in DOMAIN Programs, Step
  PROVE  LET i == decodeLdSt(last'.e, cpu.pc)
         IN ~cpu.fault /\ Encoding(last'.e) /\ Operands(i) /\ Executed(cpu, i, cpu')
<1>1. PICK e \in Programs[prog].insts, hit \in BOOLEAN :
        LET i == decodeLdSt(e, cpu.pc)
            kind == IF i.fn \in HotLoads THEN "R" ELSE "W"
        IN /\ hit => i.fn \in HotLoads \cup HotStores /\ guestPage(kind, addrFor(cpu, i))
           /\ cpu' = Exec(cpu, i, hit)
           /\ last' = [e |-> e, hit |-> hit]
  BY DEF Step
<1> DEFINE i == decodeLdSt(e, cpu.pc)
<1>2. ~cpu.fault
  BY DEF Step
<1>3. cpu.pc \in Int
  BY WordXLEN DEF CpuStates
<1>4. Encoding(e)
  BY <1>1, ProgramsAssumption
<1>5. Operands(i)
  BY <1>3, <1>4, Decoded
<1>6. cpu' = Exec(cpu, i, hit) /\ last'.e = e /\ TlbHit(cpu, i, hit)
  BY <1>1 DEF TlbHit
<1> HIDE DEF i
<1>7. Executed(cpu, i, cpu')
  BY <1>2, <1>5, <1>6, Instruction
<1> QED
  BY <1>2, <1>4, <1>5, <1>6, <1>7 DEF i

\* The inductive invariant: every value a handler leaves fits the place it is in
StatesInv == cpu \in CpuStates /\ prog \in DOMAIN Programs

LEMMA StatesInvHolds ==
  Spec => []StatesInv
<1>1. Init => StatesInv
  BY FirstStates DEF StatesInv, Init
<1>2. StatesInv /\ [Next]_vars => StatesInv'
  <2> SUFFICES ASSUME StatesInv, [Next]_vars
               PROVE  StatesInv'
    OBVIOUS
  <2>1. CASE Step
    <3>1. prog' = prog
      BY <2>1 DEF Step
    <3> QED
      BY <2>1, <3>1, StepExecutes DEF StatesInv, Executed
  <2>2. CASE Mend
    BY <2>2 DEF Mend, StatesInv, CpuStates
  <2>3. CASE UNCHANGED vars
    BY <2>3 DEF vars, StatesInv
  <2> QED
    BY <2>1, <2>2, <2>3 DEF Next
<1> QED
  BY <1>1, <1>2, PTL DEF Spec

(* Whatever the program, the widths and the memory, registers, memory and       *)
(* monitor only ever hold values of their width: no handler of ldst.go stores a *)
(* value it did not cut to size.                                                *)
THEOREM WidthsKept ==
  Spec => [](cpu \in CpuStates)
  BY StatesInvHolds, PTL DEF StatesInv

(* An instruction faults exactly when a byte of its access lies on a page that  *)
(* does not allow it, wherever the page boundaries lie and whatever the TLB     *)
(* knows: the fast paths of mem.go and of the specialised handlers never let an *)
(* access through that the slow one refuses, and the reverse.                   *)
THEOREM FaultsExact ==
  Spec => [][Step => (cpu'.fault <=> Denied(cpu, decodeLdSt(last'.e, cpu.pc)))]_vars
<1>1. StatesInv /\ [Next]_vars =>
        [Step => (cpu'.fault <=> Denied(cpu, decodeLdSt(last'.e, cpu.pc)))]_vars
  BY StepExecutes DEF StatesInv, Executed
<1> QED
  BY <1>1, StatesInvHolds, PTL DEF Spec

(* A fault can be resumed: it leaves PC, memory and registers as they were, but *)
(* for the first half of a pair load that crosses into an unreadable page, and  *)
(* the monitor, which a store-exclusive has given up.                           *)
THEOREM FaultsKeepState ==
  Spec => FaultKeepsState
<1> DEFINE Keeps == cpu'.fault =>
       LET i == decodeLdSt(last'.e, cpu.pc)
           half(fn) == i.fn = fn /\ PageOf(addrFor(cpu, i)) # PageOf(Add(addrFor(cpu, i), 2 * i.sz - 1))
       IN /\ cpu'.pc = cpu.pc /\ cpu'.mem = cpu.mem
          /\ \A x \in XRegs : cpu'.r[x] = cpu.r[x] \/ (half("opLdp64Off") /\ x = i.rd)
          /\ \A x \in VRegs : cpu'.v[x] = cpu.v[x] \/ (half("opVLoadPair") /\ x = i.rd)
          /\ cpu'.excl = cpu.excl \/ i.fn \in {"opStxr", "opStxp"}
<1>1. StatesInv /\ [Next]_vars => [Keeps]_vars
  <2> SUFFICES ASSUME StatesInv, Next, cpu'.fault
               PROVE  Keeps
    OBVIOUS
  <2>1. CASE Step
    <3> DEFINE i == decodeLdSt(last'.e, cpu.pc)
    <3>1. Executed(cpu, i, cpu')
      BY <2>1, StepExecutes DEF StatesInv
    <3>2. Kept(cpu, i, cpu')
      BY <3>1 DEF Executed
    <3> HIDE DEF i
    <3>3. LET half(fn) == i.fn = fn /\ PageOf(addrFor(cpu, i)) # PageOf(Add(addrFor(cpu, i), 2 * i.sz - 1))
          IN /\ cpu'.pc = cpu.pc /\ cpu'.mem = cpu.mem
             /\ \A x \in XRegs : cpu'.r[x] = cpu.r[x] \/ (half("opLdp64Off") /\ x = i.rd)
             /\ \A x \in VRegs : cpu'.v[x] = cpu.v[x] \/ (half("opVLoadPair") /\ x = i.rd)
             /\ cpu'.excl = cpu.excl \/ i.fn \in {"opStxr", "opStxp"}
      BY <3>2 DEF Kept, Crosses
    <3> QED
      BY <3>3 DEF i
  <2>2. CASE Mend
    BY <2>2 DEF Mend, StatesInv, CpuStates
  <2> QED
    BY <2>1, <2>2 DEF Next
<1> QED
  BY <1>1, StatesInvHolds, PTL DEF Spec, FaultKeepsState

-----------------------------------------------------------------------------
(* What an encoding means, and what the decoder makes of it.                *)

\* An offset cut to size moves an address as far as the whole of it.
LEMMA AddLow ==
  ASSUME NEW a \in Int, NEW k \in Int
  PROVE  Add(a, Low(k, XLEN)) = Add(a, k)
<1>1. Low(k, XLEN) = Add(0, k) /\ Low(k, XLEN) \in Int
  BY LowInt DEF Add
<1>2. Add(a, Low(k, XLEN)) = Add(Low(k, XLEN), a)
  BY <1>1 DEF Add
<1>3. Add(Add(0, k), a) = Add(0, k + a)
  BY AddAdd
<1>4. Add(0, k + a) = Add(a, k)
  BY DEF Add
<1> QED
  BY <1>1, <1>2, <1>3, <1>4

LEMMA ExtendIs ==
  ASSUME NEW n \in 1 .. XLEN, NEW x \in Word(n)
  PROVE  sext(x, n) = Low(Signed(x, n), XLEN) /\ Low(sext(x, n), WLEN) = Low(Signed(x, n), WLEN)
<1>1. ByteBits \in Nat /\ ByteBits > 0 /\ XLEN = 8 * ByteBits /\ WLEN = 4 * ByteBits
  BY WordsAssumption DEF XLEN, WLEN
<1>2. n \in 0 .. 2 * XLEN /\ WLEN \in Nat /\ XLEN \in Nat /\ WLEN <= XLEN /\ XLEN <= 2 * XLEN
  BY <1>1
<1>3. Low(x, n) = x
  BY <1>2, LowOfWord
<1>4. Signed(x, n) \in Int
  <2>1. 2^n \in Nat
    BY <1>2, Power
  <2> QED
    BY <2>1 DEF Signed, Word
<1>5. Low(Low(Signed(x, n), XLEN), WLEN) = Low(Signed(x, n), WLEN)
  <2> DEFINE y == Signed(x, n)
  <2>1. y \in Int
    BY <1>4
  <2> HIDE DEF y
  <2>2. Low(Low(y, XLEN), WLEN) = Low(y, WLEN)
    BY <2>1, <1>2, LowLow
  <2> QED
    BY <2>2 DEF y
<1> QED
  BY <1>3, <1>5 DEF sext

IntLoads == {"opLoad", "opLdrOff", "opLdrReg"}
IntStores == {"opStore", "opStrOff", "opStrReg"}

KindIs(k, b, x, l) == k.ok = TRUE /\ k.prfm = FALSE /\ k.bytes = b /\ k.ext = x /\ k.load = l

LEMMA ldstKindCases ==
  ASSUME NEW size \in 0 .. 3, NEW opc \in 0 .. 3, NEW vec \in BOOLEAN
  PROVE  LET k == ldstKind(size, opc, vec)
         IN /\ opc = 0 => KindIs(k, 2^size, extZero, FALSE)
            /\ opc = 1 => KindIs(k, 2^size, extZero, TRUE)
            /\ vec /\ opc = 2 /\ size = 0 => KindIs(k, 16, extZero, FALSE)
            /\ vec /\ opc = 3 /\ size = 0 => KindIs(k, 16, extZero, TRUE)
            /\ vec /\ opc >= 2 /\ size # 0 => k.ok = FALSE
            /\ ~vec /\ opc = 2 /\ size = 3 => k.ok = TRUE /\ k.prfm = TRUE
            /\ ~vec /\ opc = 2 /\ size # 3 => KindIs(k, 2^size, extSign, TRUE)
            /\ ~vec /\ opc = 3 /\ size < 2 => KindIs(k, 2^size, extSign32, TRUE)
            /\ ~vec /\ opc = 3 /\ ~(size < 2) => k.ok = FALSE
<1> DEFINE b == 2^size
           k == ldstKind(size, opc, vec)
           K(c, x, l, p, o) == [bytes |-> c, ext |-> x, load |-> l, prfm |-> p, ok |-> o]
<1> HIDE DEF b
<1> DEFINE one == (opc = 1)   three == (opc = 3)
<1>a. opc < 2 => k = K(b, extZero, one, FALSE, TRUE)
  BY DEF ldstKind, b
<1>b. vec /\ opc >= 2 /\ size = 0 => k = K(16, extZero, three, FALSE, TRUE)
  BY DEF ldstKind
<1> DEFINE zero == K(0, extZero, FALSE, FALSE, TRUE)
<1>z. zero \in [bytes : Nat, ext : {extZero}, load : BOOLEAN, prfm : BOOLEAN, ok : BOOLEAN]
  OBVIOUS
<1>n. [zero EXCEPT !.ok = FALSE].ok = FALSE
  <2> HIDE DEF zero
  <2> QED
    BY <1>z
<1>5. vec /\ opc >= 2 /\ size # 0 => k.ok = FALSE
  <2>1. vec /\ opc >= 2 /\ size # 0 => k = [zero EXCEPT !.ok = FALSE]
    BY DEF ldstKind
  <2> QED
    BY <2>1, <1>n
<1>c. (opc = 0 => one = FALSE) /\ (opc = 1 => one = TRUE) /\ (opc = 2 => three = FALSE) /\ (opc = 3 => three = TRUE)
  OBVIOUS
<1>6. ~vec /\ opc = 2 /\ size = 3 => k = K(0, extZero, FALSE, TRUE, TRUE)
  BY DEF ldstKind
<1>7. ~vec /\ opc = 2 /\ size # 3 => k = K(b, extSign, TRUE, FALSE, TRUE)
  BY DEF ldstKind, b
<1>8. ~vec /\ opc = 3 /\ size < 2 => k = K(b, extSign32, TRUE, FALSE, TRUE)
  BY DEF ldstKind, b
<1>9. ~vec /\ opc = 3 /\ ~(size < 2) => k.ok = FALSE
  <2>1. ~vec /\ opc = 3 /\ ~(size < 2) => k = [zero EXCEPT !.ok = FALSE]
    BY DEF ldstKind
  <2> QED
    BY <2>1, <1>n
<1> HIDE DEF one, three
<1> HIDE DEF k
<1>10. ASSUME NEW c, NEW x, NEW l, NEW p, NEW o, k = K(c, x, l, p, o)
       PROVE  k.ok = o /\ k.prfm = p /\ k.bytes = c /\ k.ext = x /\ k.load = l
  BY <1>10
<1>11. ASSUME NEW c, NEW x, NEW l, k = K(c, x, l, FALSE, TRUE)
       PROVE  KindIs(k, c, x, l)
  <2> HIDE DEF K
  <2> QED
    BY <1>10, <1>11 DEF KindIs
<1>12. ~vec /\ opc = 2 /\ size = 3 => k.ok = TRUE /\ k.prfm = TRUE
  <2> HIDE DEF K
  <2> QED
    BY <1>6, <1>10
<1> HIDE DEF K, zero
<1>13. (opc = 0 => KindIs(k, b, extZero, FALSE)) /\ (opc = 1 => KindIs(k, b, extZero, TRUE))
  <2>1. (opc = 0 => opc < 2) /\ (opc = 1 => opc < 2)
    OBVIOUS
  <2> QED
    BY <2>1, <1>a, <1>c, <1>11, Zenon
<1>14. /\ vec /\ opc = 2 /\ size = 0 => KindIs(k, 16, extZero, FALSE)
       /\ vec /\ opc = 3 /\ size = 0 => KindIs(k, 16, extZero, TRUE)
  <2>1. (opc = 2 => opc >= 2) /\ (opc = 3 => opc >= 2)
    OBVIOUS
  <2> QED
    BY <2>1, <1>b, <1>c, <1>11, Zenon
<1>15. /\ ~vec /\ opc = 2 /\ size # 3 => KindIs(k, b, extSign, TRUE)
       /\ ~vec /\ opc = 3 /\ size < 2 => KindIs(k, b, extSign32, TRUE)
  BY <1>7, <1>8, <1>11
<1> QED
  BY <1>5, <1>9, <1>12, <1>13, <1>14, <1>15 DEF b, k

\* The decoder's answer about size, extension and direction is the architecture's
LEMMA ldstKindRight ==
  ASSUME NEW e, e.class \in {"register", "unsigned"}, e.size \in 0 .. 3, e.opc \in 0 .. 3,
         e.vec \in BOOLEAN
  PROVE  LET k == ldstKind(e.size, e.opc, e.vec)
         IN /\ k.ok <=> (e.opc >= 2 => IF e.vec THEN e.size = 0
                                       ELSE e.size + e.opc <= 5 /\ (e.size = 2 => e.opc = 2))
            /\ k.ok => (k.prfm <=> Prefetch(e))
            /\ k.ok /\ ~k.prfm => /\ k.bytes = AccessSize(e)
                                  /\ k.load <=> Loads(e)
                                  /\ k.load \in BOOLEAN
                                  /\ k.ext = IF e.vec \/ e.opc < 2 THEN extZero
                                             ELSE IF e.opc = 2 THEN extSign ELSE extSign32
<1> DEFINE k == ldstKind(e.size, e.opc, e.vec)
           size == e.size   opc == e.opc   vec == e.vec
<1>1. /\ opc = 0 => KindIs(k, 2^size, extZero, FALSE)
      /\ opc = 1 => KindIs(k, 2^size, extZero, TRUE)
      /\ vec /\ opc = 2 /\ size = 0 => KindIs(k, 16, extZero, FALSE)
      /\ vec /\ opc = 3 /\ size = 0 => KindIs(k, 16, extZero, TRUE)
      /\ vec /\ opc >= 2 /\ size # 0 => k.ok = FALSE
      /\ ~vec /\ opc = 2 /\ size = 3 => k.ok = TRUE /\ k.prfm = TRUE
      /\ ~vec /\ opc = 2 /\ size # 3 => KindIs(k, 2^size, extSign, TRUE)
      /\ ~vec /\ opc = 3 /\ size < 2 => KindIs(k, 2^size, extSign32, TRUE)
      /\ ~vec /\ opc = 3 /\ ~(size < 2) => k.ok = FALSE
  BY ldstKindCases
<1>2. /\ Prefetch(e) <=> ~vec /\ size = 3 /\ opc = 2
      /\ AccessSize(e) = IF vec /\ opc >= 2 THEN 16 ELSE 2^size
      /\ Loads(e) <=> opc % 2 = 1 \/ (~vec /\ opc = 2)
  BY DEF Prefetch, AccessSize, Loads
<1>3. (opc % 2 = 1 <=> opc \in {1, 3}) /\ size \in 0 .. 3 /\ opc \in 0 .. 3 /\ vec \in BOOLEAN
  OBVIOUS
<1> DEFINE b == 2^size
           ok == k.ok   prfm == k.prfm
<1> HIDE DEF k, size, opc, vec, b
<1>4. opc \in {0, 1, 2, 3} /\ (opc = 2 \/ opc = 3 <=> opc >= 2)
  BY <1>3
<1>5. k.ok <=> (opc >= 2 => IF vec THEN size = 0 ELSE size + opc <= 5 /\ (size = 2 => opc = 2))
  BY <1>1, <1>3, <1>4 DEF KindIs
<1>6. k.ok => (k.prfm <=> Prefetch(e))
  BY <1>1, <1>2, <1>3, <1>4 DEF KindIs
<1>7. ASSUME k.ok, ~k.prfm
      PROVE  /\ k.bytes = AccessSize(e) /\ (k.load <=> Loads(e)) /\ k.load \in BOOLEAN
             /\ k.ext = IF vec \/ opc < 2 THEN extZero ELSE IF opc = 2 THEN extSign ELSE extSign32
  <2>1. k.load = TRUE \/ k.load = FALSE
    BY <1>1, <1>3, <1>4, <1>7 DEF KindIs
  <2>2. Loads(e) <=> opc = 1 \/ opc = 3 \/ (~vec /\ opc = 2)
    BY <1>2, <1>3
  <2>3. k.load = TRUE <=> opc = 1 \/ opc = 3 \/ (~vec /\ opc = 2)
    BY <1>1, <1>3, <1>4, <1>7 DEF KindIs
  <2>4. k.bytes = IF vec /\ opc >= 2 THEN 16 ELSE b
    BY <1>1, <1>3, <1>4, <1>7 DEF KindIs, b
  <2>5. k.ext = IF vec \/ opc < 2 THEN extZero ELSE IF opc = 2 THEN extSign ELSE extSign32
    BY <1>1, <1>3, <1>4, <1>7 DEF KindIs
  <2>6. (k.load <=> Loads(e)) /\ k.load \in BOOLEAN
    BY <2>1, <2>2, <2>3, Zenon
  <2>7. k.bytes = AccessSize(e)
    BY <2>4, <1>2 DEF b
  <2> QED
    BY <2>5, <2>6, <2>7
<1> QED
  BY <1>5, <1>6, <1>7 DEF k, size, opc, vec

LEMMA setLdStIs ==
  ASSUME NEW i \in Insts, NEW e, NEW load \in BOOLEAN, e.vec \in BOOLEAN
  PROVE  LET j == setLdSt(i, e, load)
         IN /\ j.fn \in IF e.vec THEN {IF load THEN "opVLoad" ELSE "opVStore"}
                        ELSE IF load THEN IntLoads ELSE IntStores
            /\ j.rd = IF e.vec THEN e.rt ELSE IF load THEN xw(e.rt) ELSE xr(e.rt)
            /\ j.fn \notin {"opLoad", "opStore", "opVLoad", "opVStore"} => i.sh = extZero
            /\ j.sz = i.sz /\ j.cond = i.cond /\ j.rn = i.rn /\ j.rm = i.rm /\ j.ra = i.ra
            /\ j.amt = i.amt /\ j.imm = i.imm /\ j.sh = i.sh
<1> DEFINE j == setLdSt(i, e, load)
           rd == IF e.vec THEN e.rt ELSE IF load THEN xw(e.rt) ELSE xr(e.rt)
           hot == IF e.vec THEN "none"
                  ELSE CASE i.cond = modeOff -> hotLdSt(load, i.sz, i.sh)
                         [] i.cond = modeReg -> hotLdStReg(load, i.sz, i.sh)
                         [] OTHER -> "none"
           generic == CASE e.vec /\ load -> "opVLoad" [] e.vec /\ ~load -> "opVStore"
                        [] ~e.vec /\ load -> "opLoad" [] OTHER -> "opStore"
           fn == IF hot # "none" THEN hot ELSE generic
<1>1. j = [i EXCEPT !.rd = rd, !.fn = fn]
  BY DEF setLdSt
<1>2. /\ fn \in IF e.vec THEN {IF load THEN "opVLoad" ELSE "opVStore"}
                ELSE IF load THEN IntLoads ELSE IntStores
      /\ fn \notin {"opLoad", "opStore", "opVLoad", "opVStore"} => i.sh = extZero
  <2>1. CASE e.vec
    BY <2>1
  <2>2. CASE ~e.vec /\ i.cond = modeOff
    BY <2>2 DEF hotLdSt, modeOff, modeReg, IntLoads, IntStores
  <2>3. CASE ~e.vec /\ i.cond = modeReg
    BY <2>3 DEF hotLdStReg, modeOff, modeReg, IntLoads, IntStores
  <2>4. CASE ~e.vec /\ i.cond # modeOff /\ i.cond # modeReg
    BY <2>4 DEF IntLoads, IntStores
  <2> QED
    BY <2>1, <2>2, <2>3, <2>4
<1> HIDE DEF rd, hot, generic, fn
<1>3. /\ j.fn = fn /\ j.rd = rd /\ j.sz = i.sz /\ j.cond = i.cond /\ j.rn = i.rn /\ j.rm = i.rm
      /\ j.ra = i.ra /\ j.amt = i.amt /\ j.imm = i.imm /\ j.sh = i.sh
  BY <1>1 DEF Insts
<1> HIDE DEF j
<1>4. rd = IF e.vec THEN e.rt ELSE IF load THEN xw(e.rt) ELSE xr(e.rt)
  BY DEF rd
<1> QED
  BY <1>2, <1>3, <1>4 DEF j

\* j moves the one register e names
Single(e, j) ==
  /\ j.fn \in IF InVectors(e) THEN {IF Loads(e) THEN "opVLoad" ELSE "opVStore"}
              ELSE IF Loads(e) THEN IntLoads ELSE IntStores
  /\ j.rd = IF InVectors(e) THEN e.rt ELSE IF Loads(e) THEN xw(e.rt) ELSE xr(e.rt)
  /\ j.sz = AccessSize(e)
  /\ j.fn \notin {"opLoad", "opStore", "opVLoad", "opVStore"} => j.sh = extZero

Extends(e, j) ==
  ~InVectors(e) => \A x \in Word(ByteBits * AccessSize(e)) : Extended(j, x) = Extend(e, x)

\* j accesses what e does, and leaves the base register as e does
Located(e, s, j) ==
  /\ addrFor(s, j) = Address(e, s)
  /\ IF WritesBack(e)
     THEN /\ j.rn = xsp(e.rn)
          /\ \/ j.cond = modePre /\ NewBase(e, s) = addrFor(s, j)
             \/ j.cond = modePost /\ NewBase(e, s) = Add(addrFor(s, j), j.imm)
     ELSE j.cond # modePre /\ j.cond # modePost

LEMMA BaseRegister ==
  ASSUME NEW s, NEW k
  PROVE  Base(s, k) = s.r[xsp(k)]
  BY DEF Base, xsp

LEMMA SizeInBits ==
  ASSUME NEW n \in 1 .. 8
  PROVE  ByteBits * n \in 1 .. XLEN
<1>1. ByteBits \in Nat /\ ByteBits > 0 /\ XLEN = 8 * ByteBits
  BY WordsAssumption DEF XLEN
<1> QED
  BY <1>1

LEMMA ExtendedBy ==
  ASSUME NEW j, NEW n \in 1 .. 8, j.sz = n, NEW x \in Word(ByteBits * n)
  PROVE  /\ j.sh = extZero => Extended(j, x) = x
         /\ j.sh = extSign => Extended(j, x) = Low(Signed(x, ByteBits * n), XLEN)
         /\ j.sh = extSign32 => Extended(j, x) = Low(Signed(x, ByteBits * n), WLEN)
<1> DEFINE w == ByteBits * n
<1>1. w \in 1 .. XLEN /\ x \in Word(w)
  BY SizeInBits
<1> HIDE DEF w
<1>2. sext(x, w) = Low(Signed(x, w), XLEN) /\ Low(sext(x, w), WLEN) = Low(Signed(x, w), WLEN)
  BY <1>1, ExtendIs
<1>3. extZero # extSign /\ extZero # extSign32 /\ extSign # extSign32
  BY DEF extZero, extSign, extSign32
<1> QED
  BY <1>2, <1>3 DEF Extended, w

LEMMA IdxModes ==
  ASSUME NEW k \in 0 .. 3
  PROVE  LET m == <<modeOff, modePost, modeOff, modePre>>[k + 1]
         IN /\ k \in {0, 2} => m = modeOff
            /\ k = 1 => m = modePost
            /\ k = 3 => m = modePre
<1>1. CASE k = 0
  BY <1>1
<1>2. CASE k = 1
  BY <1>2
<1>3. CASE k = 2
  BY <1>3
<1>4. CASE k = 3
  BY <1>4
<1> QED
  BY <1>1, <1>2, <1>3, <1>4

LEMMA Modes ==
  /\ modeOff # modePre /\ modeOff # modePost /\ modeOff # modeReg
  /\ modePre # modePost /\ modePre # modeReg /\ modePost # modeReg
  BY DEF modeOff, modePre, modePost, modeReg

LEMMA SizeOfKind ==
  ASSUME NEW e, e.class \in {"register", "unsigned"}, e.size \in 0 .. 3, e.opc \in 0 .. 3,
         e.vec \in BOOLEAN
  PROVE  /\ AccessSize(e) = 2^(IF e.vec /\ e.opc >= 2 THEN 4 ELSE e.size)
         /\ AccessSize(e) \in {1, 2, 4, 8, 16}
         /\ ~e.vec => AccessSize(e) \in 1 .. 8
<1>1. AccessSize(e) = IF e.vec /\ e.opc >= 2 THEN 16 ELSE 2^e.size
  BY DEF AccessSize
<1>2. 2^e.size \in {1, 2, 4, 8} /\ 2^4 = 16
  BY SizeBytes, Powers
<1> DEFINE b == 2^e.size
<1>3. b \in {1, 2, 4, 8}
  BY <1>2
<1> HIDE DEF b
<1>4. CASE e.vec /\ e.opc >= 2
  BY <1>1, <1>2, <1>4
<1>5. CASE ~(e.vec /\ e.opc >= 2)
  BY <1>1, <1>3, <1>5 DEF b
<1> QED
  BY <1>4, <1>5

LEMMA ExtendsKind ==
  ASSUME NEW e, e.class \in {"register", "unsigned"}, e.size \in 0 .. 3, e.opc \in 0 .. 3,
         e.vec \in BOOLEAN, NEW j, j.sz = AccessSize(e),
         j.sh = IF e.vec \/ e.opc < 2 THEN extZero ELSE IF e.opc = 2 THEN extSign ELSE extSign32
  PROVE  Extends(e, j)
<1> SUFFICES ASSUME ~e.vec, NEW x \in Word(ByteBits * AccessSize(e))
             PROVE  Extended(j, x) = Extend(e, x)
  BY DEF Extends, InVectors
<1> DEFINE n == AccessSize(e)
<1>1. n \in 1 .. 8
  BY SizeOfKind
<1>2. Extend(e, x) = IF e.opc = 2 THEN Low(Signed(x, ByteBits * n), XLEN)
                     ELSE IF e.opc = 3 THEN Low(Signed(x, ByteBits * n), WLEN) ELSE x
  BY DEF Extend
<1> HIDE DEF n
<1>3. /\ j.sh = extZero => Extended(j, x) = x
      /\ j.sh = extSign => Extended(j, x) = Low(Signed(x, ByteBits * n), XLEN)
      /\ j.sh = extSign32 => Extended(j, x) = Low(Signed(x, ByteBits * n), WLEN)
  BY <1>1, ExtendedBy DEF n
<1>4. j.sh = IF e.opc < 2 THEN extZero ELSE IF e.opc = 2 THEN extSign ELSE extSign32
  OBVIOUS
<1> QED
  BY <1>2, <1>3, <1>4

\* What a class of encodings is decoded to
DecodedSingle(e, j, located) ==
  /\ ~Allocated(e) => j = Inst
  /\ Allocated(e) /\ Prefetch(e) => j.fn = "opNop"
  /\ Allocated(e) /\ ~Prefetch(e) => Single(e, j) /\ Extends(e, j) /\ located

LEMMA RegFormDecoded ==
  ASSUME NEW e, e.class = "register", Encoding(e), NEW s \in CpuStates
  PROVE  DecodedSingle(e, decodeRegForm(e), Located(e, s, decodeRegForm(e)))
<1> DEFINE k == ldstKind(e.size, e.opc, e.vec)
           scaled == IF e.vec /\ e.opc >= 2 THEN 4 ELSE e.size
           rn == xsp(e.rn)   bytes == k.bytes   ext == k.ext
           base == [Inst EXCEPT !.rn = rn, !.sz = bytes, !.sh = ext]
           mode == <<modeOff, modePost, modeOff, modePre>>[e.idx + 1]
           amt == IF e.s THEN scaled ELSE 0
           rm == xr(e.rm)   option == e.option   off == Low(e.imm, XLEN)
           reg == [base EXCEPT !.cond = modeReg, !.rm = rm, !.ra = option, !.amt = amt]
           imm == [base EXCEPT !.cond = mode, !.imm = off]
           i == IF e.regOffset THEN reg ELSE imm
           nop == [i EXCEPT !.fn = "opNop"]
           j == setLdSt(i, e, k.load)
           d == decodeRegForm(e)
           Sensible == IF e.regOffset THEN e.idx = 2 /\ e.option \in {2, 3, 6, 7}
                       ELSE (e.idx = 2 => ~e.vec) /\ (Prefetch(e) => e.idx = 0)
<1>1. /\ e.size \in 0 .. 3 /\ e.opc \in 0 .. 3 /\ e.vec \in BOOLEAN /\ xsp(e.rn) \in XRegs
      /\ e.regOffset \in BOOLEAN /\ e.idx \in 0 .. 3
      /\ e.regOffset => e.option \in 0 .. 7 /\ e.s \in BOOLEAN /\ {xr(e.rm), xw(e.rm)} \subseteq XRegs
      /\ ~e.regOffset => e.imm \in Int
  BY DEF Encoding
<1>2. /\ k.ok <=> (e.opc >= 2 => IF e.vec THEN e.size = 0
                                 ELSE e.size + e.opc <= 5 /\ (e.size = 2 => e.opc = 2))
      /\ k.ok => (k.prfm <=> Prefetch(e))
      /\ k.ok /\ ~k.prfm => /\ k.bytes = AccessSize(e)
                            /\ k.load <=> Loads(e)
                            /\ k.load \in BOOLEAN
                            /\ k.ext = IF e.vec \/ e.opc < 2 THEN extZero
                                       ELSE IF e.opc = 2 THEN extSign ELSE extSign32
  BY <1>1, ldstKindRight
<1>3. k \in [bytes : Nat, ext : 0 .. 2, load : BOOLEAN, prfm : BOOLEAN, ok : BOOLEAN]
  BY <1>1, ldstKindIs
<1>4. d = CASE ~k.ok -> Inst
            [] e.regOffset /\ (e.idx # 2 \/ e.option \notin {2, 3, 6, 7}) -> Inst
            [] ~e.regOffset /\ e.idx = 2 /\ (e.vec \/ k.prfm) -> Inst
            [] ~e.regOffset /\ e.idx \in {1, 3} /\ k.prfm -> Inst
            [] OTHER -> IF k.prfm THEN nop ELSE j
  BY DEF decodeRegForm
<1>5. Allocated(e) <=> k.ok /\ Sensible
  BY <1>2 DEF Allocated
<1> HIDE DEF k
<1>6. i \in Insts /\ nop.fn = "opNop"
      /\ i.sz = k.bytes /\ i.sh = k.ext /\ i.rn = rn
      /\ (e.regOffset => i.cond = modeReg /\ i.rm = e.rm /\ i.ra = e.option /\ i.amt = amt)
      /\ (~e.regOffset => i.cond = mode /\ i.imm = off)
  <2>1. base \in Insts /\ base.rn = rn /\ base.sz = bytes /\ base.sh = ext
    <3>1. bytes \in Nat /\ ext \in Nat /\ Inst \in Insts /\ rn \in Nat
      <4>1. rn \in Nat
        BY <1>1, ProgramsAssumption
      <4> HIDE DEF rn
      <4> QED
        BY <1>3, <4>1, InstType
    <3> HIDE DEF bytes, ext, rn
    <3> QED
      BY <3>1 DEF Insts
  <2> HIDE DEF base
  <2>2. CASE e.regOffset
    <3>1. amt \in 0 .. 4 /\ amt \in Nat
      BY <1>1, <2>2
    <3>2. rm \in XRegs /\ rm \in Nat /\ option \in Nat /\ modeReg \in 0 .. 3
      BY <1>1, <2>2, Registers DEF modeReg
    <3>3. rm = e.rm
      BY DEF xr
    <3> HIDE DEF amt, rm, option, rn, bytes, ext
    <3>4. reg \in Insts /\ reg.sz = bytes /\ reg.rn = rn /\ reg.rm = rm /\ reg.ra = option
          /\ reg.amt = amt /\ reg.cond = modeReg /\ reg.sh = ext /\ [reg EXCEPT !.fn = "opNop"].fn = "opNop"
      BY <2>1, <3>1, <3>2 DEF Insts
    <3> HIDE DEF reg
    <3> QED
      BY <2>2, <3>3, <3>4 DEF bytes, option, ext
  <2>3. CASE ~e.regOffset
    <3>1. mode \in 0 .. 3
      BY <1>1, IdxMode
    <3>2. off \in Int
      BY <1>1, <2>3, LowInt
    <3> HIDE DEF mode, off, rn, bytes, ext
    <3>3. imm \in Insts /\ imm.sz = bytes /\ imm.rn = rn /\ imm.cond = mode /\ imm.sh = ext /\ imm.imm = off
          /\ [imm EXCEPT !.fn = "opNop"].fn = "opNop"
      BY <2>1, <3>1, <3>2 DEF Insts
    <3> HIDE DEF imm
    <3> QED
      BY <2>3, <3>3 DEF bytes, ext
  <2> QED
    BY <2>2, <2>3, <1>1
<1> HIDE DEF i, nop, Sensible
<1>7. ~Allocated(e) => d = Inst
  <2>1. CASE ~k.ok
    BY <2>1, <1>4
  <2>2. CASE k.ok /\ ~Sensible
    <3>1. CASE e.regOffset
      BY <2>2, <3>1, <1>4 DEF Sensible
    <3>2. CASE ~e.regOffset
      BY <2>2, <3>2, <1>1, <1>2, <1>4 DEF Sensible
    <3> QED
      BY <3>1, <3>2
  <2> QED
    BY <2>1, <2>2, <1>5
<1>8. Allocated(e) /\ Prefetch(e) => d.fn = "opNop"
  BY <1>1, <1>2, <1>4, <1>5, <1>6 DEF Sensible
<1>9. ASSUME Allocated(e), ~Prefetch(e)
      PROVE  Single(e, d) /\ Extends(e, d) /\ Located(e, s, d)
  <2>1. k.ok /\ ~k.prfm /\ Sensible
    BY <1>2, <1>5, <1>9
  <2>2. d = j
    BY <2>1, <1>1, <1>4 DEF Sensible
  <2>3. /\ j.fn \in IF e.vec THEN {IF k.load THEN "opVLoad" ELSE "opVStore"}
                    ELSE IF k.load THEN IntLoads ELSE IntStores
        /\ j.rd = IF e.vec THEN e.rt ELSE IF k.load THEN xw(e.rt) ELSE xr(e.rt)
        /\ j.fn \notin {"opLoad", "opStore", "opVLoad", "opVStore"} => i.sh = extZero
        /\ j.sz = i.sz /\ j.cond = i.cond /\ j.rn = i.rn /\ j.rm = i.rm /\ j.ra = i.ra
        /\ j.amt = i.amt /\ j.imm = i.imm /\ j.sh = i.sh
    <3>1. k.load \in BOOLEAN /\ e.vec \in BOOLEAN /\ i \in Insts
      BY <1>1, <1>3, <1>6
    <3> QED
      BY <3>1, setLdStIs
  <2> HIDE DEF j, d
  <2>4. InVectors(e) <=> e.vec
    BY DEF InVectors
  <2>5. j.sz = AccessSize(e) /\ j.sh = IF e.vec \/ e.opc < 2 THEN extZero
                                       ELSE IF e.opc = 2 THEN extSign ELSE extSign32
    BY <2>1, <2>3, <1>2, <1>6
  <2>6. Single(e, j)
    BY <2>1, <2>3, <2>4, <2>5, <1>2, Zenon DEF Single
  <2>7. Extends(e, j)
    BY <2>5, <1>1, ExtendsKind
  <2>8. Located(e, s, j)
    <3>1. CASE e.regOffset
      <4>1. ~WritesBack(e)
        BY <2>1, <3>1 DEF WritesBack, Sensible
      <4> DEFINE x == extend(s.r[e.rm], e.option)
      <4>2. addrFor(s, j) = Add(s.r[rn], x * 2^amt)
        BY <2>3, <1>6, <3>1, Modes DEF addrFor
      <4>3. Address(e, s) = Add(Base(s, e.rn), (IF e.s THEN AccessSize(e) ELSE 1) * x)
        BY <2>1, <3>1 DEF Address, PostIndexed, Sensible
      <4>4. x * 2^amt = (IF e.s THEN AccessSize(e) ELSE 1) * x
        <5>1. x \in Int
          <6>1. e.rm \in XRegs
            BY <1>1, <3>1 DEF xr
          <6>2. s.r[e.rm] \in Nat /\ e.option \in 0 .. 7
            BY <6>1, <1>1, <3>1, RegisterWord
          <6>3. x \in Nat
            BY <6>2, extendNat
          <6> HIDE DEF x
          <6> QED
                BY <6>3
        <5>2. AccessSize(e) = 2^scaled /\ AccessSize(e) \in {1, 2, 4, 8, 16}
          BY <1>1, SizeOfKind
        <5> DEFINE y == AccessSize(e)
        <5>3. y \in Int /\ y = 2^scaled
          BY <5>2
        <5> HIDE DEF x, y, scaled
        <5>4. CASE e.s
          <6>1. x * y = y * x
            BY <5>1, <5>3
          <6> QED
            BY <6>1, <5>3, <5>4 DEF y
        <5>5. CASE ~e.s
          <6>1. x * 1 = 1 * x
            BY <5>1
          <6> QED
            BY <5>5, <6>1, Powers
        <5> QED
          BY <5>4, <5>5, <1>1, <3>1
      <4> HIDE DEF x, amt
      <4>5. addrFor(s, j) = Address(e, s)
        BY <4>2, <4>3, <4>4, BaseRegister
      <4>6. j.cond # modePre /\ j.cond # modePost
        BY <2>3, <1>6, <3>1, Modes
      <4> QED
        BY <4>1, <4>5, <4>6 DEF Located
    <3>2. CASE ~e.regOffset
      <4>1. s.r[rn] \in Int /\ e.imm \in Int /\ Base(s, e.rn) = s.r[rn]
        BY <1>1, <3>2, RegisterWord, BaseRegister
      <4>2. Add(s.r[rn], off) = Add(s.r[rn], e.imm)
        BY <4>1, AddLow
      <4>3. /\ WritesBack(e) <=> e.idx \in {1, 3}
            /\ Address(e, s) = IF e.idx = 1 THEN Base(s, e.rn) ELSE Add(Base(s, e.rn), e.imm)
            /\ NewBase(e, s) = Add(Base(s, e.rn), e.imm)
        BY <3>2 DEF WritesBack, Address, NewBase, PostIndexed
      <4>4. j.cond = mode /\ j.imm = off /\ j.rn = rn
        BY <2>3, <1>6, <3>2
      <4>5. (e.idx \in {0, 2} => mode = modeOff) /\ (e.idx = 1 => mode = modePost) /\ (e.idx = 3 => mode = modePre)
        BY <1>1, IdxModes
      <4>6. mode # modeReg
        BY <1>1, IdxMode
      <4>7. addrFor(s, j) = IF mode = modePost THEN s.r[rn] ELSE Add(s.r[rn], off)
        BY <4>4, <4>6 DEF addrFor
      <4> HIDE DEF mode, off, rn
      <4>8. CASE e.idx \in {0, 2}
        BY <4>8, <4>1, <4>2, <4>3, <4>4, <4>5, <4>7, Modes DEF Located
      <4>9. CASE e.idx = 1
        BY <4>9, <4>1, <4>2, <4>3, <4>4, <4>5, <4>7, Modes DEF Located, rn
      <4>10. CASE e.idx = 3
        BY <4>10, <4>1, <4>2, <4>3, <4>4, <4>5, <4>7, Modes DEF Located, rn
      <4> QED
        BY <4>8, <4>9, <4>10, <1>1
    <3> QED
      BY <3>1, <3>2, <1>1
  <2> QED
    BY <2>2, <2>6, <2>7, <2>8
<1> QED
  BY <1>7, <1>8, <1>9 DEF DecodedSingle

LEMMA UnsignedDecoded ==
  ASSUME NEW e, e.class = "unsigned", Encoding(e), NEW s \in CpuStates
  PROVE  DecodedSingle(e, decodeUnsignedImm(e), Located(e, s, decodeUnsignedImm(e)))
<1> DEFINE k == ldstKind(e.size, e.opc, e.vec)
           scale == IF e.vec /\ e.opc >= 2 THEN 4 ELSE e.size
           rn == xsp(e.rn)   bytes == k.bytes   ext == k.ext   off == Low(e.imm * 2^scale, XLEN)
           base == [Inst EXCEPT !.rn = rn, !.sz = bytes, !.sh = ext]
           i == [base EXCEPT !.imm = off]
           nop == [i EXCEPT !.fn = "opNop"]
           j == setLdSt(i, e, k.load)
           d == decodeUnsignedImm(e)
<1>1. /\ e.size \in 0 .. 3 /\ e.opc \in 0 .. 3 /\ e.vec \in BOOLEAN /\ xsp(e.rn) \in XRegs
      /\ e.imm \in Nat
  BY DEF Encoding
<1>2. /\ k.ok <=> (e.opc >= 2 => IF e.vec THEN e.size = 0
                                 ELSE e.size + e.opc <= 5 /\ (e.size = 2 => e.opc = 2))
      /\ k.ok => (k.prfm <=> Prefetch(e))
      /\ k.ok /\ ~k.prfm => /\ k.bytes = AccessSize(e)
                            /\ k.load <=> Loads(e)
                            /\ k.load \in BOOLEAN
                            /\ k.ext = IF e.vec \/ e.opc < 2 THEN extZero
                                       ELSE IF e.opc = 2 THEN extSign ELSE extSign32
  BY <1>1, ldstKindRight
<1>3. k \in [bytes : Nat, ext : 0 .. 2, load : BOOLEAN, prfm : BOOLEAN, ok : BOOLEAN]
  BY <1>1, ldstKindIs
<1>4. d = CASE ~k.ok -> Inst [] k.ok /\ k.prfm -> nop [] OTHER -> j
  BY <1>2 DEF decodeUnsignedImm
<1>5. Allocated(e) <=> k.ok
  BY <1>2 DEF Allocated
<1>6. off \in Int /\ Add(s.r[rn], off) = Add(s.r[rn], e.imm * AccessSize(e))
  <2>1. 2^scale = AccessSize(e) /\ AccessSize(e) \in {1, 2, 4, 8, 16}
    BY <1>1, SizeOfKind
  <2> DEFINE n == AccessSize(e)
             x == e.imm * n
  <2>2. n \in Nat
    BY <2>1
  <2> HIDE DEF n
  <2>3. x \in Int
    BY <2>2, <1>1
  <2>4. off = Low(x, XLEN)
    BY <2>1 DEF n
  <2> HIDE DEF x, off
  <2>5. s.r[rn] \in Int
    BY <1>1, RegisterWord
  <2>6. Low(x, XLEN) \in Int
    BY <2>3, LowInt
  <2>7. Add(s.r[rn], Low(x, XLEN)) = Add(s.r[rn], x)
    BY <2>3, <2>5, AddLow
  <2> QED
    BY <2>4, <2>6, <2>7 DEF x, n
<1> HIDE DEF k
<1>7. i \in Insts /\ nop.fn = "opNop" /\ i.sz = k.bytes /\ i.sh = k.ext /\ i.rn = rn
      /\ i.cond = modeOff /\ i.imm = off
  <2>1. base \in Insts /\ base.rn = rn /\ base.sz = bytes /\ base.sh = ext /\ base.cond = modeOff
    <3>1. bytes \in Nat /\ ext \in Nat /\ Inst \in Insts /\ rn \in Nat /\ Inst.cond = modeOff
      <4>1. rn \in Nat
        BY <1>1, ProgramsAssumption
      <4>2. Inst.cond = modeOff
        BY DEF Inst
      <4> HIDE DEF rn
      <4> QED
        BY <1>3, <4>1, <4>2, InstType
    <3> HIDE DEF bytes, ext, rn
    <3> QED
      BY <3>1 DEF Insts
  <2> HIDE DEF base, off, rn, bytes, ext
  <2>2. i \in Insts /\ nop.fn = "opNop" /\ i.sz = bytes /\ i.sh = ext /\ i.rn = rn
        /\ i.cond = modeOff /\ i.imm = off
    BY <1>6, <2>1 DEF Insts
  <2> QED
    BY <2>2 DEF bytes, ext
<1> HIDE DEF i, nop
<1>8. ~Allocated(e) => d = Inst
  BY <1>4, <1>5
<1>9. Allocated(e) /\ Prefetch(e) => d.fn = "opNop"
  BY <1>2, <1>4, <1>5, <1>7
<1>10. ASSUME Allocated(e), ~Prefetch(e)
       PROVE  Single(e, d) /\ Extends(e, d) /\ Located(e, s, d)
  <2>1. k.ok /\ ~k.prfm
    BY <1>2, <1>5, <1>10
  <2>2. d = j
    BY <2>1, <1>4
  <2>3. /\ j.fn \in IF e.vec THEN {IF k.load THEN "opVLoad" ELSE "opVStore"}
                    ELSE IF k.load THEN IntLoads ELSE IntStores
        /\ j.rd = IF e.vec THEN e.rt ELSE IF k.load THEN xw(e.rt) ELSE xr(e.rt)
        /\ j.fn \notin {"opLoad", "opStore", "opVLoad", "opVStore"} => i.sh = extZero
        /\ j.sz = i.sz /\ j.cond = i.cond /\ j.rn = i.rn /\ j.rm = i.rm /\ j.ra = i.ra
        /\ j.amt = i.amt /\ j.imm = i.imm /\ j.sh = i.sh
    <3>1. k.load \in BOOLEAN /\ e.vec \in BOOLEAN /\ i \in Insts
      BY <1>1, <1>3, <1>7
    <3> QED
      BY <3>1, setLdStIs
  <2> HIDE DEF j, d
  <2>4. InVectors(e) <=> e.vec
    BY DEF InVectors
  <2>5. j.sz = AccessSize(e) /\ j.sh = IF e.vec \/ e.opc < 2 THEN extZero
                                       ELSE IF e.opc = 2 THEN extSign ELSE extSign32
    BY <2>1, <2>3, <1>2, <1>7
  <2>6. Single(e, j)
    BY <2>1, <2>3, <2>4, <2>5, <1>2, Zenon DEF Single
  <2>7. Extends(e, j)
    BY <2>5, <1>1, ExtendsKind
  <2>8. Located(e, s, j)
    <3>1. j.cond = modeOff /\ j.imm = off /\ j.rn = rn
      BY <2>3, <1>7
    <3>2. addrFor(s, j) = Add(s.r[rn], off)
      BY <3>1, Modes DEF addrFor
    <3>3. Address(e, s) = Add(Base(s, e.rn), e.imm * AccessSize(e)) /\ ~WritesBack(e)
      BY DEF Address, WritesBack
    <3> QED
      BY <3>1, <3>2, <3>3, <1>6, BaseRegister, Modes DEF Located
  <2> QED
    BY <2>2, <2>6, <2>7, <2>8
<1> QED
  BY <1>8, <1>9, <1>10 DEF DecodedSingle

LEMMA LiteralDecoded ==
  ASSUME NEW e, e.class = "literal", Encoding(e), NEW s \in CpuStates, s.r[rZR] = 0
  PROVE  DecodedSingle(e, decodeLiteral(e, s.pc), Located(e, s, decodeLiteral(e, s.pc)))
<1> DEFINE pc == s.pc   off == Low(pc + 4 * e.imm, XLEN)
           i == [Inst EXCEPT !.imm = off, !.rn = rZR]
           vsz == 4 * 2^e.opc   sz == <<4, 8, 4>>[e.opc + 1]
           rt == e.rt   rd == xw(e.rt)
           sh == IF e.opc = 2 THEN extSign ELSE extZero
           v == [i EXCEPT !.sz = vsz, !.rd = rt, !.fn = "opVLoad"]
           nop == [i EXCEPT !.fn = "opNop"]
           r == [i EXCEPT !.sz = sz, !.rd = rd, !.fn = "opLoad", !.sh = sh]
           d == decodeLiteral(e, pc)
<1>1. /\ e.opc \in 0 .. 3 /\ e.vec \in BOOLEAN /\ e.imm \in Int
      /\ IF e.vec THEN e.rt \in VRegs ELSE {xr(e.rt), xw(e.rt)} \subseteq XRegs
  BY DEF Encoding
<1>2. d = CASE e.vec /\ e.opc > 2 -> Inst
            [] e.vec /\ ~(e.opc > 2) -> v
            [] ~e.vec /\ e.opc = 3 -> nop
            [] OTHER -> r
  BY <1>1 DEF decodeLiteral
<1>3. (Allocated(e) <=> (e.vec => e.opc < 3)) /\ (Prefetch(e) <=> ~e.vec /\ e.opc = 3)
      /\ Loads(e) /\ (InVectors(e) <=> e.vec)
      /\ AccessSize(e) = (IF e.vec THEN vsz ELSE IF e.opc = 1 THEN 8 ELSE 4)
  BY DEF Allocated, Prefetch, Loads, InVectors, AccessSize
<1>4. off \in Int /\ Add(s.r[rZR], off) = Address(e, s)
  <2>1. pc \in Int
    BY WordXLEN DEF CpuStates
  <2> DEFINE x == pc + 4 * e.imm
  <2>2. x \in Int
    BY <1>1, <2>1
  <2>3. Add(0, x) = Add(pc, 4 * e.imm)
    BY <2>1, <1>1 DEF Add
  <2>4. Address(e, s) = Add(pc, 4 * e.imm)
    BY DEF Address
  <2> HIDE DEF x, pc
  <2>5. Low(x, XLEN) \in Int /\ Add(0, Low(x, XLEN)) = Add(0, x)
    BY <2>2, LowInt, AddLow
  <2> QED
    BY <2>3, <2>4, <2>5 DEF x
<1>5. i \in Insts /\ i.rn = rZR /\ i.cond = modeOff /\ i.imm = off
  <2>1. rZR \in XRegs /\ rZR \in Nat /\ Inst.cond = modeOff /\ Inst \in Insts
    BY ProgramsAssumption, InstType DEF Inst
  <2> HIDE DEF off
  <2> QED
    BY <1>4, <2>1 DEF Insts
<1> HIDE DEF i, off
<1>6. ASSUME NEW j, j.rn = rZR, j.cond = modeOff, j.imm = off
      PROVE  Located(e, s, j)
  <2>1. addrFor(s, j) = Add(s.r[rZR], off)
    BY <1>6, Modes DEF addrFor
  <2>2. ~WritesBack(e)
    BY DEF WritesBack
  <2> QED
    BY <1>4, <1>6, <2>1, <2>2, Modes DEF Located
<1>7. nop.fn = "opNop"
  BY <1>5 DEF Insts
<1>8. ASSUME e.vec, e.opc \in 0 .. 2
      PROVE  Single(e, v) /\ Extends(e, v) /\ Located(e, s, v)
  <2>1. v.fn = "opVLoad" /\ v.sz = vsz /\ v.rd = rt /\ v.rn = rZR /\ v.cond = modeOff /\ v.imm = off
    <3> HIDE DEF vsz, rt
    <3> QED
      BY <1>5 DEF Insts
  <2> HIDE DEF v
  <2>2. Located(e, s, v)
    BY <1>6, <2>1
  <2>3. Single(e, v) /\ Extends(e, v)
    BY <1>3, <1>8, <2>1 DEF Single, Extends
  <2> QED
    BY <2>2, <2>3
<1>9. ASSUME ~e.vec, e.opc \in 0 .. 2
      PROVE  Single(e, r) /\ Extends(e, r) /\ Located(e, s, r)
  <2>1. r.fn = "opLoad" /\ r.sz = sz /\ r.rd = rd /\ r.rn = rZR /\ r.cond = modeOff /\ r.imm = off /\ r.sh = sh
    <3> HIDE DEF sz, rd, sh
    <3> QED
      BY <1>5 DEF Insts
  <2> HIDE DEF r
  <2>2. Located(e, s, r)
    BY <1>6, <2>1
  <2>3. r.sz = AccessSize(e) /\ AccessSize(e) \in 1 .. 8
    BY <1>3, <1>9, <2>1
  <2>4. Single(e, r)
    BY <1>3, <1>9, <2>1, <2>3 DEF Single, IntLoads
  <2>5. Extends(e, r)
    <3> SUFFICES ASSUME NEW x \in Word(ByteBits * AccessSize(e))
                 PROVE  Extended(r, x) = Extend(e, x)
      BY DEF Extends
    <3> DEFINE n == AccessSize(e)
    <3>1. Extend(e, x) = IF e.opc = 2 THEN Low(Signed(x, ByteBits * n), XLEN) ELSE x
      BY DEF Extend
    <3> HIDE DEF n
    <3>2. /\ r.sh = extZero => Extended(r, x) = x
          /\ r.sh = extSign => Extended(r, x) = Low(Signed(x, ByteBits * n), XLEN)
      BY <2>3, ExtendedBy DEF n
    <3> QED
      BY <3>1, <3>2, <2>1
  <2> QED
    BY <2>2, <2>4, <2>5
<1> HIDE DEF v, r, nop, d
<1>10. CASE e.vec /\ e.opc > 2
  BY <1>10, <1>1, <1>2, <1>3 DEF DecodedSingle, d
<1>11. CASE e.vec /\ ~(e.opc > 2)
  <2>1. e.opc \in 0 .. 2 /\ d = v
    BY <1>11, <1>1, <1>2
  <2> QED
    BY <2>1, <1>11, <1>1, <1>3, <1>8 DEF DecodedSingle, d
<1>12. CASE ~e.vec /\ e.opc = 3
  BY <1>12, <1>1, <1>2, <1>3, <1>7 DEF DecodedSingle, d
<1>13. CASE ~e.vec /\ e.opc # 3
  <2>1. e.opc \in 0 .. 2 /\ d = r
    BY <1>13, <1>1, <1>2
  <2> QED
    BY <2>1, <1>13, <1>1, <1>3, <1>9 DEF DecodedSingle, d
<1> QED
  BY <1>10, <1>11, <1>12, <1>13, <1>1

\* j moves the two registers e names
Double(e, j) ==
  /\ j.fn \in IF e.vec THEN {IF e.l THEN "opVLoadPair" ELSE "opVStorePair"}
              ELSE IF e.l THEN {"opLoadPair", "opLdp64Off"} ELSE {"opStorePair", "opStp64Off"}
  /\ j.rd = IF e.vec THEN e.rt ELSE IF e.l THEN xw(e.rt) ELSE xr(e.rt)
  /\ j.ra = IF e.vec THEN e.rt2 ELSE IF e.l THEN xw(e.rt2) ELSE xr(e.rt2)
  /\ j.sz = AccessSize(e)
  /\ j.fn = "opLdp64Off" => j.sh = extZero

LEMMA PairDecoded ==
  ASSUME NEW e, e.class = "pair", Encoding(e), NEW s \in CpuStates
  PROVE  LET j == decodePair(e)
         IN /\ ~Allocated(e) => j = Inst
            /\ Allocated(e) => Double(e, j) /\ Extends(e, j) /\ Located(e, s, j)
<1> DEFINE bytes == IF e.vec THEN 4 * 2^e.opc ELSE IF e.opc = 2 THEN 8 ELSE 4
           sign == ~e.vec /\ e.opc = 1
           mode == <<modeOff, modePost, modeOff, modePre>>[e.idx + 1]
           reg(t) == IF e.vec THEN t ELSE IF e.l THEN xw(t) ELSE xr(t)
           wide == bytes = 8 /\ mode = modeOff
           fn == CASE e.vec -> IF e.l THEN "opVLoadPair" ELSE "opVStorePair"
                   [] ~e.vec /\ e.l -> IF wide /\ ~sign THEN "opLdp64Off" ELSE "opLoadPair"
                   [] OTHER -> IF wide THEN "opStp64Off" ELSE "opStorePair"
           off == Low(e.imm * bytes, XLEN)   rn == xsp(e.rn)
           rd == reg(e.rt)   ra == reg(e.rt2)
           sh == IF sign THEN extSign ELSE extZero
           i == [Inst EXCEPT !.fn = fn, !.cond = mode, !.imm = off, !.rn = rn, !.sz = bytes,
                             !.rd = rd, !.ra = ra, !.sh = sh]
           d == decodePair(e)
<1>1. /\ e.opc \in 0 .. 3 /\ e.vec \in BOOLEAN /\ e.l \in BOOLEAN /\ e.idx \in 0 .. 3 /\ e.imm \in Int
      /\ rn \in XRegs
      /\ IF e.vec THEN e.rt \in VRegs ELSE {xr(e.rt), xw(e.rt)} \subseteq XRegs
      /\ IF e.vec THEN e.rt2 \in VRegs ELSE {xr(e.rt2), xw(e.rt2)} \subseteq XRegs
  BY DEF Encoding
<1>2. d = IF e.opc = 3 \/ (sign /\ (~e.l \/ e.idx = 0)) THEN Inst ELSE i
  BY <1>1 DEF decodePair
<1>3. Allocated(e) <=> e.opc < 3 /\ (sign => e.l /\ e.idx # 0)
  BY DEF Allocated
<1>4. bytes = AccessSize(e)
  BY DEF AccessSize
<1>5. ASSUME Allocated(e)
      PROVE  Double(e, i) /\ Extends(e, i) /\ Located(e, s, i)
  <2>0. e.opc \in 0 .. 2
    BY <1>1, <1>3, <1>5
  <2>1. bytes \in Nat /\ (~e.vec => bytes \in 1 .. 8)
    <3>1. CASE e.opc = 0
      BY <3>1, <1>1, Powers
    <3>2. CASE e.opc = 1
      BY <3>2, <1>1, Powers
    <3>3. CASE e.opc = 2
      BY <3>3, <1>1, Powers
    <3> QED
      BY <2>0, <3>1, <3>2, <3>3
  <2>2. mode \in 0 .. 3 /\ mode # modeReg
    BY <1>1, IdxMode
  <2>3. off \in Int /\ Add(s.r[rn], off) = Add(s.r[rn], e.imm * bytes)
    <3> DEFINE b == bytes
               x == e.imm * b
    <3>1. b \in Nat
      BY <2>1
    <3> HIDE DEF b
    <3>2. x \in Int
      BY <3>1, <1>1
    <3>0. s.r[rn] \in Int
      BY <1>1, RegisterWord
    <3> HIDE DEF x
    <3>3. Low(x, XLEN) \in Int /\ Add(s.r[rn], Low(x, XLEN)) = Add(s.r[rn], x)
      BY <3>0, <3>2, LowInt, AddLow
    <3> QED
      BY <3>3 DEF x, b
  <2>4. rn \in XRegs /\ rn \in Nat
    BY <1>1, ProgramsAssumption
  <2>5. /\ fn \in IF e.vec THEN {IF e.l THEN "opVLoadPair" ELSE "opVStorePair"}
                  ELSE IF e.l THEN {"opLoadPair", "opLdp64Off"} ELSE {"opStorePair", "opStp64Off"}
        /\ fn = "opLdp64Off" => ~sign
    BY <1>1
  <2>6. sh = (IF ~e.vec /\ e.opc = 1 THEN extSign ELSE extZero) /\ (fn = "opLdp64Off" => sh = extZero)
    BY <2>5
  <2>7. rd = (IF e.vec THEN e.rt ELSE IF e.l THEN xw(e.rt) ELSE xr(e.rt))
        /\ ra = (IF e.vec THEN e.rt2 ELSE IF e.l THEN xw(e.rt2) ELSE xr(e.rt2))
    OBVIOUS
  <2>8. (e.idx \in {0, 2} => mode = modeOff) /\ (e.idx = 1 => mode = modePost) /\ (e.idx = 3 => mode = modePre)
    BY <1>1, IdxModes
  <2> HIDE DEF bytes, mode, off, rn, rd, ra, sh, fn
  <2>9. /\ i.fn = fn /\ i.cond = mode /\ i.rn = rn /\ i.sz = bytes /\ i.imm = off
        /\ i.rd = rd /\ i.ra = ra /\ i.sh = sh
    BY InstType DEF Insts
  <2> HIDE DEF i
  <2>10. Double(e, i)
    BY <2>5, <2>6, <2>7, <2>9, <1>4, Zenon DEF Double
  <2>11. Extends(e, i)
    <3> SUFFICES ASSUME ~e.vec, NEW x \in Word(ByteBits * AccessSize(e))
                 PROVE  Extended(i, x) = Extend(e, x)
      BY DEF Extends, InVectors
    <3> DEFINE n == AccessSize(e)
    <3>1. Extend(e, x) = IF e.opc = 1 THEN Low(Signed(x, ByteBits * n), XLEN) ELSE x
      BY DEF Extend
    <3>2. n \in 1 .. 8 /\ i.sz = n
      BY <2>1, <2>9, <1>4
    <3> HIDE DEF n
    <3>3. /\ i.sh = extZero => Extended(i, x) = x
          /\ i.sh = extSign => Extended(i, x) = Low(Signed(x, ByteBits * n), XLEN)
      BY <3>2, ExtendedBy DEF n
    <3> QED
      BY <3>1, <3>3, <2>6, <2>9
  <2>12. Located(e, s, i)
    <3>1. Base(s, e.rn) = s.r[rn]
      BY BaseRegister DEF rn
    <3>2. /\ WritesBack(e) <=> e.idx \in {1, 3}
          /\ Address(e, s) = IF e.idx = 1 THEN Base(s, e.rn) ELSE Add(Base(s, e.rn), e.imm * bytes)
          /\ NewBase(e, s) = Add(Base(s, e.rn), e.imm * bytes)
      BY <1>4 DEF WritesBack, Address, NewBase, PostIndexed
    <3>3. addrFor(s, i) = IF mode = modePost THEN s.r[rn] ELSE Add(s.r[rn], off)
      BY <2>2, <2>9 DEF addrFor
    <3>4. CASE e.idx \in {0, 2}
      BY <3>4, <3>1, <3>2, <3>3, <2>3, <2>8, <2>9, Modes DEF Located
    <3>5. CASE e.idx = 1
      BY <3>5, <3>1, <3>2, <3>3, <2>3, <2>8, <2>9, Modes DEF Located, rn
    <3>6. CASE e.idx = 3
      BY <3>6, <3>1, <3>2, <3>3, <2>3, <2>8, <2>9, Modes DEF Located, rn
    <3> QED
      BY <3>4, <3>5, <3>6, <1>1
  <2> QED
    BY <2>10, <2>11, <2>12
<1> HIDE DEF i, d, sign
<1>6. ~Allocated(e) => d = Inst
  BY <1>1, <1>2, <1>3
<1>7. Allocated(e) => d = i
  BY <1>1, <1>2, <1>3
<1> QED
  BY <1>5, <1>6, <1>7 DEF d

\* What an exclusive is decoded to: Single, or one of the four handlers
ExclusiveOf(e, j) ==
  /\ j.sz = AccessSize(e) /\ j.rn = xsp(e.rn)
  /\ j.rd = IF e.l THEN xw(e.rt) ELSE xr(e.rt)
  /\ ~e.l => j.ra = xw(e.rs)
  /\ e.o1 => j.rm = IF e.l THEN xw(e.rt2) ELSE xr(e.rt2)
  /\ j.fn = IF e.o1 THEN IF e.l THEN "opLdxp" ELSE "opStxp" ELSE IF e.l THEN "opLdxr" ELSE "opStxr"

LEMMA ExclusiveDecoded ==
  ASSUME NEW e, e.class = "exclusive", Encoding(e), NEW s \in CpuStates
  PROVE  LET j == decodeExclusive(e)
         IN /\ ~Allocated(e) => j = Inst
            /\ Allocated(e) /\ e.o2 => Single(e, j) /\ Extends(e, j) /\ Located(e, s, j)
            /\ Allocated(e) /\ ~e.o2 => ExclusiveOf(e, j)
<1> DEFINE rn == xsp(e.rn)   sz == 2^e.size
           rd == IF e.l THEN xw(e.rt) ELSE xr(e.rt)
           status == xw(e.rs)   hfn == IF e.l THEN "opLoad" ELSE "opStore"
           i == [Inst EXCEPT !.rn = rn, !.sz = sz, !.rd = rd]
           single == [i EXCEPT !.fn = hfn]
           ldxr == [i EXCEPT !.fn = "opLdxr"]
           stxr == [i EXCEPT !.fn = "opStxr", !.ra = status]
           xw2 == xw(e.rt2)   xr2 == xr(e.rt2)
           ldxp == [i EXCEPT !.fn = "opLdxp", !.rm = xw2]
           stxp == [i EXCEPT !.fn = "opStxp", !.rm = xr2, !.ra = status]
           d == decodeExclusive(e)
<1>1. /\ e.size \in 0 .. 3 /\ e.l \in BOOLEAN /\ xsp(e.rn) \in XRegs
      /\ e.o2 \in BOOLEAN /\ e.o1 \in BOOLEAN /\ e.o0 \in BOOLEAN
  BY DEF Encoding
<1>2. Allocated(e) <=> IF e.o2 THEN ~e.o1 /\ e.o0 /\ e.rs = 31 /\ e.rt2 = 31
                       ELSE IF e.o1 THEN e.size >= 2 /\ (e.l => e.rs = 31)
                       ELSE e.rt2 = 31 /\ (e.l => e.rs = 31)
  BY <1>1 DEF Allocated
<1>3. /\ ~Allocated(e) => d = Inst
      /\ Allocated(e) /\ e.o2 => d = single
      /\ Allocated(e) /\ ~e.o2 => d = IF e.o1 THEN IF e.l THEN ldxp ELSE stxp
                                      ELSE IF e.l THEN ldxr ELSE stxr
  <2>1. CASE e.o2
    BY <1>1, <1>2, <2>1 DEF decodeExclusive
  <2>2. CASE ~e.o2 /\ e.o1
    BY <1>1, <1>2, <2>2 DEF decodeExclusive
  <2>3. CASE ~e.o2 /\ ~e.o1
    BY <1>1, <1>2, <2>3 DEF decodeExclusive
  <2> QED
    BY <1>1, <2>1, <2>2, <2>3
<1>4. sz = AccessSize(e) /\ sz \in 1 .. 8
  <2>1. sz \in {1, 2, 4, 8} /\ sz = AccessSize(e)
    BY <1>1, SizeBytes DEF AccessSize
  <2> HIDE DEF sz
  <2> QED
    BY <2>1
<1>0. rd = (IF e.l THEN xw(e.rt) ELSE xr(e.rt)) /\ hfn = (IF e.l THEN "opLoad" ELSE "opStore")
  OBVIOUS
<1> HIDE DEF rn, sz, rd, status, xw2, xr2, hfn
<1>5. /\ i.rn = rn /\ i.sz = sz /\ i.rd = rd /\ i.cond = modeOff /\ i.imm = 0 /\ i.sh = extZero
      /\ i \in [fn : {Inst.fn}, rd : {rd}, rn : {rn}, rm : {Inst.rm}, ra : {Inst.ra}, cond : {modeOff},
                sh : {extZero}, amt : {Inst.amt}, sz : {sz}, imm : {0}]
  BY DEF Inst
<1> HIDE DEF i
<1>6. /\ single.fn = hfn /\ single.rn = rn /\ single.sz = sz /\ single.rd = rd
      /\ single.cond = modeOff /\ single.imm = 0 /\ single.sh = extZero
  BY <1>5
<1>7. ldxr.fn = "opLdxr" /\ ldxr.rn = rn /\ ldxr.sz = sz /\ ldxr.rd = rd
  BY <1>5
<1>8. stxr.fn = "opStxr" /\ stxr.rn = rn /\ stxr.sz = sz /\ stxr.rd = rd /\ stxr.ra = status
  BY <1>5
<1>9. ldxp.fn = "opLdxp" /\ ldxp.rn = rn /\ ldxp.sz = sz /\ ldxp.rd = rd /\ ldxp.rm = xw2
  BY <1>5
<1>10. stxp.fn = "opStxp" /\ stxp.rn = rn /\ stxp.sz = sz /\ stxp.rd = rd /\ stxp.rm = xr2 /\ stxp.ra = status
  BY <1>5
<1> HIDE DEF single, ldxr, stxr, ldxp, stxp, d
<1>11. ASSUME Allocated(e), e.o2
       PROVE  Single(e, single) /\ Extends(e, single) /\ Located(e, s, single)
  <2>1. (Loads(e) <=> e.l) /\ ~InVectors(e) /\ ~WritesBack(e)
    BY DEF Loads, InVectors, WritesBack
  <2>2. Single(e, single)
    BY <1>0, <1>4, <1>6, <2>1 DEF Single, IntLoads, IntStores
  <2>3. Extends(e, single)
    <3> SUFFICES ASSUME NEW x \in Word(ByteBits * sz)
                 PROVE  Extended(single, x) = Extend(e, x)
      BY <1>4 DEF Extends
    <3>1. Extend(e, x) = x
      BY DEF Extend
    <3>2. Extended(single, x) = x
      BY <1>4, <1>6, ExtendedBy
    <3> QED
      BY <3>1, <3>2
  <2>4. Located(e, s, single)
    <3>1. addrFor(s, single) = Add(s.r[rn], 0)
      BY <1>6, Modes DEF addrFor
    <3>2. Address(e, s) = s.r[rn]
      BY BaseRegister DEF Address, PostIndexed, rn
    <3>3. Add(s.r[rn], 0) = s.r[rn]
      BY <1>1, RegisterWord, AddZero DEF rn
    <3> QED
      BY <1>6, <2>1, <3>1, <3>2, <3>3, Modes DEF Located
  <2> QED
    BY <2>2, <2>3, <2>4
<1>12. ASSUME Allocated(e), ~e.o2
       PROVE  ExclusiveOf(e, d)
  BY <1>0, <1>1, <1>3, <1>4, <1>7, <1>8, <1>9, <1>10, <1>12 DEF ExclusiveOf, rn, status, xw2, xr2
<1> QED
  BY <1>3, <1>11, <1>12 DEF d

\* j moves the consecutive vector registers e names
MultiOf(e, j) ==
  /\ j.fn = IF e.l THEN "opSIMDLoadMulti" ELSE "opSIMDStoreMulti"
  /\ j.rd = e.rt /\ j.rn = xsp(e.rn) /\ j.sz = e.size /\ j.sh = RegCount(e)
  /\ j.ra = IF e.opcode \in {0, 4, 8} THEN RegCount(e) ELSE 1
  /\ j.amt = AccessSize(e)
  /\ IF ~e.post THEN j.cond = modeOff
     ELSE IF e.rm = 31 THEN j.cond = modePost /\ j.imm = RegCount(e) * AccessSize(e)
     ELSE j.cond = modeReg /\ j.rm = e.rm

LEMMA ShapeIs ==
  ASSUME NEW e, e.opcode \in {0, 2, 4, 6, 7, 8, 10}
  PROVE  /\ MultiShape[e.opcode][1] = RegCount(e)
         /\ MultiShape[e.opcode][2] = IF e.opcode \in {0, 4, 8} THEN RegCount(e) ELSE 1
         /\ RegCount(e) \in 1 .. 4
         /\ RegCount(e) >= 2 \/ e.opcode = 7
<1>1. CASE e.opcode = 0
  BY <1>1 DEF MultiShape, RegCount
<1>2. CASE e.opcode = 2
  BY <1>2 DEF MultiShape, RegCount
<1>3. CASE e.opcode = 4
  BY <1>3 DEF MultiShape, RegCount
<1>4. CASE e.opcode = 6
  BY <1>4 DEF MultiShape, RegCount
<1>5. CASE e.opcode = 7
  BY <1>5 DEF MultiShape, RegCount
<1>6. CASE e.opcode = 8
  BY <1>6 DEF MultiShape, RegCount
<1>7. CASE e.opcode = 10
  BY <1>7 DEF MultiShape, RegCount
<1> QED
  BY <1>1, <1>2, <1>3, <1>4, <1>5, <1>6, <1>7

LEMMA MultiDecoded ==
  ASSUME NEW e, e.class = "multi", Encoding(e)
  PROVE  LET j == decodeSIMDMulti(e)
         IN /\ ~Allocated(e) => j = Inst
            /\ Allocated(e) => MultiOf(e, j)
<1> DEFINE rt == e.rt   rn == xsp(e.rn)   size == e.size
           regs == MultiShape[e.opcode][1]   group == MultiShape[e.opcode][2]
           width == IF e.q THEN 16 ELSE 8
           fn == IF e.l THEN "opSIMDLoadMulti" ELSE "opSIMDStoreMulti"
           bytes == [Inst EXCEPT !.rd = rt, !.rn = rn, !.sz = size, !.sh = regs,
                                 !.ra = group, !.amt = width, !.fn = fn]
           imm == regs * width   rm == xr(e.rm)
           post == [bytes EXCEPT !.cond = modePost, !.imm = imm]
           reg == [bytes EXCEPT !.cond = modeReg, !.rm = rm]
           d == decodeSIMDMulti(e)
           Undefined == \/ e.opcode \notin DOMAIN MultiShape
                        \/ group >= 2 /\ ~e.q /\ e.size = 3
                        \/ e.b21 \/ (~e.post /\ e.rm # 0)
<1>1. /\ e.size \in 0 .. 3 /\ {e.q, e.l, e.post, e.b21} \subseteq BOOLEAN
      /\ xsp(e.rn) \in XRegs /\ {xr(e.rm), xw(e.rm)} \subseteq XRegs /\ e.rt \in 0 .. 31
  BY DEF Encoding
<1>2. d = IF Undefined THEN Inst
          ELSE IF ~e.post THEN bytes ELSE IF e.rm = 31 THEN post ELSE reg
  BY <1>1 DEF decodeSIMDMulti
<1>3. Allocated(e) <=> ~Undefined
  <2>1. Allocated(e) <=> /\ e.opcode \in {0, 2, 4, 6, 7, 8, 10} /\ ~e.b21
                         /\ ~e.post => e.rm = 0
                         /\ e.opcode \in {0, 4, 8} => e.q \/ e.size < 3
    BY DEF Allocated
  <2>2. CASE e.opcode \in {0, 2, 4, 6, 7, 8, 10}
    <3>1. group = IF e.opcode \in {0, 4, 8} THEN RegCount(e) ELSE 1
      BY <2>2, ShapeIs
    <3>2. RegCount(e) \in 1 .. 4 /\ (e.opcode \in {0, 4, 8} => RegCount(e) >= 2)
      BY <2>2, ShapeIs
    <3> HIDE DEF group
    <3>3. group >= 2 <=> e.opcode \in {0, 4, 8}
      BY <3>1, <3>2
    <3>4. e.size < 3 <=> e.size # 3
      BY <1>1
    <3> QED
      BY <2>1, <2>2, <3>3, <3>4, MultiShapes
  <2>3. CASE e.opcode \notin {0, 2, 4, 6, 7, 8, 10}
    BY <2>1, <2>3, MultiShapes
  <2> QED
    BY <2>2, <2>3
<1> HIDE DEF Undefined
<1>4. ASSUME Allocated(e)
      PROVE  MultiOf(e, d)
  <2>0. e.opcode \in {0, 2, 4, 6, 7, 8, 10}
    BY <1>4 DEF Allocated
  <2>1. regs = RegCount(e) /\ group = (IF e.opcode \in {0, 4, 8} THEN RegCount(e) ELSE 1)
    BY <2>0, ShapeIs
  <2>2. width = AccessSize(e)
    BY DEF AccessSize
  <2>3. fn = (IF e.l THEN "opSIMDLoadMulti" ELSE "opSIMDStoreMulti") /\ rm = e.rm
        /\ imm = regs * width
    BY DEF xr
  <2> HIDE DEF rt, rn, size, regs, group, width, fn, rm, imm
  <2>4. /\ bytes.rd = rt /\ bytes.rn = rn /\ bytes.sz = size /\ bytes.sh = regs
        /\ bytes.ra = group /\ bytes.amt = width /\ bytes.fn = fn /\ bytes.cond = modeOff
        /\ bytes \in [fn : {fn}, rd : {rt}, rn : {rn}, rm : {Inst.rm}, ra : {group}, cond : {modeOff},
                      sh : {regs}, amt : {width}, sz : {size}, imm : {Inst.imm}]
    BY DEF Inst
  <2> HIDE DEF bytes
  <2>5. /\ post.rd = rt /\ post.rn = rn /\ post.sz = size /\ post.sh = regs
        /\ post.ra = group /\ post.amt = width /\ post.fn = fn /\ post.cond = modePost /\ post.imm = imm
    BY <2>4
  <2>6. /\ reg.rd = rt /\ reg.rn = rn /\ reg.sz = size /\ reg.sh = regs
        /\ reg.ra = group /\ reg.amt = width /\ reg.fn = fn /\ reg.cond = modeReg /\ reg.rm = rm
    BY <2>4
  <2> HIDE DEF post, reg, d
  <2>7. CASE ~e.post
    BY <2>7, <1>2, <1>3, <1>4, <2>1, <2>2, <2>3, <2>4 DEF MultiOf, rt, rn, size
  <2>8. CASE e.post /\ e.rm = 31
    BY <2>8, <1>2, <1>3, <1>4, <2>1, <2>2, <2>3, <2>5 DEF MultiOf, rt, rn, size
  <2>9. CASE e.post /\ e.rm # 31
    BY <2>9, <1>2, <1>3, <1>4, <2>1, <2>2, <2>3, <2>6 DEF MultiOf, rt, rn, size
  <2> QED
    BY <2>7, <2>8, <2>9
<1> QED
  BY <1>2, <1>3, <1>4

LEMMA SystemDecoded ==
  ASSUME NEW e, e.class = "system", Encoding(e)
  PROVE  LET j == decodeSystem(e)
         IN /\ e.op = "clrex" => j.fn = "opClrex"
            /\ e.op = "zva" => j.fn = "opDcZva" /\ j.rn = e.rt
<1>1. e.op \in {"clrex", "zva"}
  BY DEF Encoding
<1> DEFINE rn == e.rt
           clrex == [Inst EXCEPT !.fn = "opClrex"]
           zva == [Inst EXCEPT !.fn = "opDcZva", !.rn = rn]
<1>2. decodeSystem(e) = IF e.op = "clrex" THEN clrex ELSE zva
  BY DEF decodeSystem, xr
<1> HIDE DEF rn
<1>3. clrex.fn = "opClrex" /\ zva.fn = "opDcZva" /\ zva.rn = rn
  BY InstType DEF Insts
<1> HIDE DEF clrex, zva
<1> QED
  BY <1>1, <1>2, <1>3 DEF rn

(* When an encoding faults: an undefined one, a byte that is not accessible.  *)
MustFault(e, s) ==
  IF e.class = "system" THEN e.op = "zva" /\ ~Span("W", ZeroedBlock(e, s), dczvaBytes)
  ELSE ~Allocated(e) \/ Blocked(e, s)

LEMMA MovedIs ==
  ASSUME NEW e, Encoding(e), Allocated(e)
  PROVE  /\ e.class \in {"register", "unsigned", "literal"} \/ (e.class = "exclusive" /\ (e.o2 \/ ~e.o1)) =>
              Moved(e) = <<e.rt>> /\ Len(Moved(e)) = 1 /\ Total(e) = AccessSize(e)
         /\ e.class = "pair" \/ (e.class = "exclusive" /\ ~e.o2 /\ e.o1) =>
              Moved(e) = <<e.rt, e.rt2>> /\ Len(Moved(e)) = 2 /\ Total(e) = 2 * AccessSize(e)
         /\ e.class = "multi" =>
              /\ Moved(e) = [k \in 1 .. RegCount(e) |-> (e.rt + k - 1) % 32]
              /\ Len(Moved(e)) = RegCount(e) /\ Total(e) = RegCount(e) * AccessSize(e)
<1>0. ASSUME e.class \notin {"system", "atomic"}
      PROVE  AccessSize(e) \in Nat
  <2>1. CASE e.class \in {"register", "unsigned"}
    <3>1. AccessSize(e) \in {1, 2, 4, 8, 16}
      BY <2>1, SizeOfKind DEF Encoding
    <3> QED
      BY <3>1
  <2>2. CASE e.class = "exclusive"
    <3>1. AccessSize(e) = 2^e.size /\ e.size \in 0 .. 3
      BY <2>2 DEF AccessSize, Encoding
    <3>2. 2^e.size \in {1, 2, 4, 8}
      BY <3>1, SizeBytes
    <3> QED
      BY <3>1, <3>2
  <2>3. CASE e.class = "multi"
    BY <2>3 DEF AccessSize
  <2>4. CASE e.class \in {"literal", "pair"}
    <3>1. e.opc \in 0 .. 3 /\ e.vec \in BOOLEAN
      BY <2>4 DEF Encoding
    <3>2. 2^e.opc \in {1, 2, 4, 8}
      BY <3>1, SizeBytes
    <3> DEFINE b == 2^e.opc
    <3>3. AccessSize(e) \in {4 * b, 4, 8}
      BY <2>4 DEF AccessSize
    <3>4. b \in Nat
      BY <3>2
    <3> HIDE DEF b
    <3> QED
      BY <3>3, <3>4
  <2> QED
    BY <1>0, <2>1, <2>2, <2>3, <2>4 DEF Encoding
<1>1. ASSUME e.class \in {"register", "unsigned", "literal"} \/ (e.class = "exclusive" /\ (e.o2 \/ ~e.o1))
      PROVE  Moved(e) = <<e.rt>> /\ Len(Moved(e)) = 1 /\ Total(e) = AccessSize(e)
  <2>1. Moved(e) = <<e.rt>>
    BY <1>1 DEF Moved
  <2>2. AccessSize(e) \in Nat
    BY <1>1, <1>0
  <2>3. Len(Moved(e)) = 1
    BY <2>1
  <2> QED
    BY <2>1, <2>2, <2>3 DEF Total
<1>2. ASSUME e.class = "pair" \/ (e.class = "exclusive" /\ ~e.o2 /\ e.o1)
      PROVE  Moved(e) = <<e.rt, e.rt2>> /\ Len(Moved(e)) = 2 /\ Total(e) = 2 * AccessSize(e)
  <2>1. Moved(e) = <<e.rt, e.rt2>>
    BY <1>2 DEF Moved
  <2>2. Len(Moved(e)) = 2
    BY <2>1
  <2>3. AccessSize(e) \in Nat
    BY <1>2, <1>0
  <2> QED
    BY <2>1, <2>2, <2>3 DEF Total
<1>3. ASSUME e.class = "multi"
      PROVE  /\ Moved(e) = [k \in 1 .. RegCount(e) |-> (e.rt + k - 1) % 32]
             /\ Len(Moved(e)) = RegCount(e) /\ Total(e) = RegCount(e) * AccessSize(e)
  <2>1. Moved(e) = [k \in 1 .. RegCount(e) |-> (e.rt + k - 1) % 32]
    BY <1>3 DEF Moved
  <2>2. e.rt \in 0 .. 31
    BY <1>3 DEF Encoding
  <2>3. RegCount(e) \in 1 .. 4
    BY <1>3, ShapeIs DEF Allocated
  <2>4. \A k \in 1 .. RegCount(e) : (e.rt + k - 1) % 32 \in Nat
    BY <2>2, <2>3
  <2>5. Moved(e) \in Seq(Nat) /\ Len(Moved(e)) = RegCount(e)
    <3> DEFINE n == RegCount(e)
               f(k) == (e.rt + k - 1) % 32
    <3>1. n \in Nat /\ (\A k \in 1 .. n : f(k) \in Nat) /\ Moved(e) = [k \in 1 .. n |-> f(k)]
      BY <2>1, <2>3, <2>4
    <3> HIDE DEF n, f
    <3> QED
      BY <3>1 DEF n
  <2>6. AccessSize(e) \in Nat
    BY <1>3, <1>0
  <2> QED
    BY <2>1, <2>3, <2>5, <2>6 DEF Total
<1> QED
  BY <1>1, <1>2, <1>3, Zenon

LEMMA BlockedIs ==
  ASSUME NEW e, NEW s, ~Prefetch(e)
  PROVE  Blocked(e, s) <=> Succeeds(e, s) /\ ~Span(IF Loads(e) THEN "R" ELSE "W", Address(e, s), Total(e))
  BY DEF Blocked, Span

LEMMA SingleDenied ==
  ASSUME NEW e, NEW s, NEW j, Single(e, j), Located(e, s, j), ~StoresExclusive(e), ~Prefetch(e),
         Total(e) = AccessSize(e)
  PROVE  Denied(s, j) <=> Blocked(e, s)
<1>1. Succeeds(e, s)
  BY DEF Succeeds
<1>2. addrFor(s, j) = Address(e, s) /\ j.sz = Total(e)
  BY DEF Located, Single
<1>3. CASE Loads(e)
  <2>1. j.fn \in {"opLoad", "opLdrOff", "opLdrReg", "opVLoad"}
    BY <1>3 DEF Single, IntLoads
  <2>2. Denied(s, j) <=> ~Span("R", addrFor(s, j), j.sz)
    BY <2>1 DEF Denied
  <2> QED
    BY <1>1, <1>2, <1>3, <2>2, BlockedIs
<1>4. CASE ~Loads(e)
  <2>1. j.fn \in {"opStore", "opStrOff", "opStrReg", "opVStore"}
    BY <1>4 DEF Single, IntStores
  <2>2. Denied(s, j) <=> ~Span("W", addrFor(s, j), j.sz)
    BY <2>1 DEF Denied
  <2> QED
    BY <1>1, <1>2, <1>4, <2>2, BlockedIs
<1> QED
  BY <1>3, <1>4

LEMMA UndefDenied ==
  ASSUME NEW s
  PROVE  Denied(s, Inst)
  BY DEF Denied, Inst

LEMMA NopAllowed ==
  ASSUME NEW s, NEW j, j.fn \in {"opNop", "opClrex"}
  PROVE  ~Denied(s, j)
  BY DEF Denied

LEMMA SingleClassDenied ==
  ASSUME NEW e, Encoding(e), e.class \in {"register", "unsigned", "literal"}, NEW s, NEW j,
         DecodedSingle(e, j, Located(e, s, j))
  PROVE  Denied(s, j) <=> MustFault(e, s)
<1>1. MustFault(e, s) <=> ~Allocated(e) \/ Blocked(e, s)
  BY DEF MustFault
<1>2. CASE ~Allocated(e)
  BY <1>1, <1>2, UndefDenied DEF DecodedSingle
<1>3. CASE Allocated(e) /\ Prefetch(e)
  <2>1. ~Blocked(e, s)
    BY <1>3 DEF Blocked
  <2> QED
    BY <1>1, <1>3, <2>1, NopAllowed DEF DecodedSingle
<1>4. CASE Allocated(e) /\ ~Prefetch(e)
  <2>1. Total(e) = AccessSize(e)
    BY <1>4, MovedIs
  <2>2. ~StoresExclusive(e)
    BY DEF StoresExclusive
  <2>3. Single(e, j) /\ Located(e, s, j)
    BY <1>4 DEF DecodedSingle
  <2> QED
    BY <1>1, <1>4, <2>1, <2>2, <2>3, SingleDenied
<1> QED
  BY <1>2, <1>3, <1>4

LEMMA PairDenied ==
  ASSUME NEW e, Encoding(e), e.class = "pair", NEW s, NEW j,
         ~Allocated(e) => j = Inst, Allocated(e) => Double(e, j) /\ Located(e, s, j)
  PROVE  Denied(s, j) <=> MustFault(e, s)
<1>1. MustFault(e, s) <=> ~Allocated(e) \/ Blocked(e, s)
  BY DEF MustFault
<1>2. CASE ~Allocated(e)
  BY <1>1, <1>2, UndefDenied
<1>3. CASE Allocated(e)
  <2>1. addrFor(s, j) = Address(e, s) /\ 2 * j.sz = Total(e)
    BY <1>3, MovedIs DEF Located, Double
  <2>2. Succeeds(e, s) /\ ~Prefetch(e) /\ (Loads(e) <=> e.l)
    BY DEF Succeeds, StoresExclusive, Prefetch, Loads
  <2>3. Blocked(e, s) <=> ~Span(IF Loads(e) THEN "R" ELSE "W", Address(e, s), Total(e))
    BY <2>2, BlockedIs
  <2>4. CASE e.l
    <3>1. j.fn \in {"opLoadPair", "opLdp64Off", "opVLoadPair"}
      BY <1>3, <2>4 DEF Double
    <3>2. Denied(s, j) <=> ~Span("R", addrFor(s, j), 2 * j.sz)
      BY <3>1 DEF Denied
    <3> QED
      BY <1>1, <1>3, <2>1, <2>2, <2>3, <2>4, <3>2
  <2>5. CASE ~e.l
    <3>1. j.fn \in {"opStorePair", "opStp64Off", "opVStorePair"}
      BY <1>3, <2>5 DEF Double
    <3>2. Denied(s, j) <=> ~Span("W", addrFor(s, j), 2 * j.sz)
      BY <3>1 DEF Denied
    <3> QED
      BY <1>1, <1>3, <2>1, <2>2, <2>3, <2>5, <3>2
  <2> QED
    BY <2>4, <2>5
<1> QED
  BY <1>2, <1>3

LEMMA ExclusiveDenied ==
  ASSUME NEW e, Encoding(e), e.class = "exclusive", NEW s, NEW j,
         ~Allocated(e) => j = Inst,
         Allocated(e) /\ e.o2 => Single(e, j) /\ Located(e, s, j),
         Allocated(e) /\ ~e.o2 => ExclusiveOf(e, j)
  PROVE  Denied(s, j) <=> MustFault(e, s)
<1>1. MustFault(e, s) <=> ~Allocated(e) \/ Blocked(e, s)
  BY DEF MustFault
<1>2. CASE ~Allocated(e)
  BY <1>1, <1>2, UndefDenied
<1>3. ~Prefetch(e)
  BY DEF Prefetch
<1>4. CASE Allocated(e) /\ e.o2
  <2>1. Total(e) = AccessSize(e)
    BY <1>4, MovedIs
  <2>2. ~StoresExclusive(e)
    BY <1>4 DEF StoresExclusive
  <2> QED
    BY <1>1, <1>3, <1>4, <2>1, <2>2, SingleDenied
<1>5. CASE Allocated(e) /\ ~e.o2
  <2> DEFINE a == s.r[j.rn]
             n == IF e.o1 THEN 2 * j.sz ELSE j.sz
  <2>0. /\ j.sz = AccessSize(e) /\ j.rn = xsp(e.rn)
        /\ j.fn = IF e.o1 THEN IF e.l THEN "opLdxp" ELSE "opStxp" ELSE IF e.l THEN "opLdxr" ELSE "opStxr"
    BY <1>5 DEF ExclusiveOf
  <2>1. Address(e, s) = a /\ Total(e) = n
    <3>1. Total(e) = n
      BY <1>5, <2>0, MovedIs
    <3>2. Address(e, s) = Base(s, e.rn)
      BY DEF Address, PostIndexed
    <3> QED
      BY <3>1, <3>2, <2>0, BaseRegister
  <2>2. (Loads(e) <=> e.l) /\ (StoresExclusive(e) <=> ~e.l)
    BY <1>5 DEF Loads, StoresExclusive
  <2>3. Succeeds(e, s) <=> (e.l \/ exclusiveOK(s, a, n))
    BY <2>1, <2>2 DEF Succeeds, exclusiveOK
  <2>4. Denied(s, j) <=> IF e.l THEN ~Span("R", a, n) ELSE exclusiveOK(s, a, n) /\ ~Span("W", a, n)
    <3>1. CASE e.o1 /\ e.l
      BY <3>1, <2>0 DEF Denied
    <3>2. CASE e.o1 /\ ~e.l
      BY <3>2, <2>0 DEF Denied
    <3>3. CASE ~e.o1 /\ e.l
      BY <3>3, <2>0 DEF Denied
    <3>4. CASE ~e.o1 /\ ~e.l
      BY <3>4, <2>0 DEF Denied
    <3> QED
      BY <3>1, <3>2, <3>3, <3>4
  <2>5. Blocked(e, s) <=> Succeeds(e, s) /\ ~Span(IF Loads(e) THEN "R" ELSE "W", Address(e, s), Total(e))
    BY <1>3, BlockedIs
  <2> HIDE DEF a, n
  <2> QED
    BY <1>1, <1>5, <2>1, <2>2, <2>3, <2>4, <2>5
<1> QED
  BY <1>2, <1>4, <1>5

LEMMA MultiDenied ==
  ASSUME NEW e, Encoding(e), e.class = "multi", NEW s, NEW j,
         ~Allocated(e) => j = Inst, Allocated(e) => MultiOf(e, j)
  PROVE  Denied(s, j) <=> MustFault(e, s)
<1>1. MustFault(e, s) <=> ~Allocated(e) \/ Blocked(e, s)
  BY DEF MustFault
<1>2. CASE ~Allocated(e)
  BY <1>1, <1>2, UndefDenied
<1>3. CASE Allocated(e)
  <2>1. simdMultiParams(j).total = Total(e)
    BY <1>3, MovedIs DEF MultiOf, simdMultiParams
  <2>2. Succeeds(e, s) /\ ~Prefetch(e) /\ (Loads(e) <=> e.l)
    BY DEF Succeeds, StoresExclusive, Prefetch, Loads
  <2>3. Blocked(e, s) <=> ~Span(IF Loads(e) THEN "R" ELSE "W", Address(e, s), Total(e))
    BY <2>2, BlockedIs
  <2>4. s.r[j.rn] = Address(e, s)
    <3>1. Address(e, s) = Base(s, e.rn)
      BY DEF Address, PostIndexed
    <3> QED
      BY <3>1, <1>3, BaseRegister DEF MultiOf
  <2>5. j.fn = IF e.l THEN "opSIMDLoadMulti" ELSE "opSIMDStoreMulti"
    BY <1>3 DEF MultiOf
  <2>6. CASE e.l
    <3>1. Denied(s, j) <=> ~Span("R", s.r[j.rn], simdMultiParams(j).total)
      BY <2>5, <2>6 DEF Denied
    <3> QED
      BY <1>1, <1>3, <2>1, <2>2, <2>3, <2>4, <2>6, <3>1
  <2>7. CASE ~e.l
    <3>1. Denied(s, j) <=> ~Span("W", s.r[j.rn], simdMultiParams(j).total)
      BY <2>5, <2>7 DEF Denied
    <3> QED
      BY <1>1, <1>3, <2>1, <2>2, <2>3, <2>4, <2>7, <3>1
  <2> QED
    BY <2>6, <2>7
<1> QED
  BY <1>2, <1>3

(* The decoder and its handlers fault when the architecture does.             *)
LEMMA FaultsMeant ==
  ASSUME NEW e, Encoding(e), NEW s \in CpuStates, s.r[rZR] = 0
  PROVE  Denied(s, decodeLdSt(e, s.pc)) <=> MustFault(e, s)
<1>1. CASE e.class = "register"
  BY <1>1, RegFormDecoded, SingleClassDenied DEF decodeLdSt
<1>2. CASE e.class = "unsigned"
  BY <1>2, UnsignedDecoded, SingleClassDenied DEF decodeLdSt
<1>3. CASE e.class = "literal"
  BY <1>3, LiteralDecoded, SingleClassDenied DEF decodeLdSt
<1>4. CASE e.class = "pair"
  BY <1>4, PairDecoded, PairDenied DEF decodeLdSt
<1>5. CASE e.class = "exclusive"
  BY <1>5, ExclusiveDecoded, ExclusiveDenied DEF decodeLdSt
<1>6. CASE e.class = "multi"
  BY <1>6, MultiDecoded, MultiDenied DEF decodeLdSt
<1>7. CASE e.class = "system"
  <2> DEFINE j == decodeSystem(e)
  <2>1. decodeLdSt(e, s.pc) = j
    BY <1>7 DEF decodeLdSt
  <2>2. /\ e.op = "clrex" => j.fn = "opClrex"
        /\ e.op = "zva" => j.fn = "opDcZva" /\ j.rn = e.rt
    BY <1>7, SystemDecoded
  <2>3. e.op \in {"clrex", "zva"}
    BY <1>7 DEF Encoding
  <2>4. MustFault(e, s) <=> e.op = "zva" /\ ~Span("W", ZeroedBlock(e, s), dczvaBytes)
    BY <1>7 DEF MustFault
  <2> HIDE DEF j
  <2>5. CASE e.op = "clrex"
    BY <2>1, <2>2, <2>4, <2>5, NopAllowed
  <2>6. CASE e.op = "zva"
    <3>1. Denied(s, j) <=> ~Span("W", s.r[j.rn] - (s.r[j.rn] % 64), 64)
      BY <2>2, <2>6 DEF Denied
    <3>2. ZeroedBlock(e, s) = s.r[j.rn] - (s.r[j.rn] % 64)
      BY <2>2, <2>6 DEF ZeroedBlock, dczvaBytes
    <3> QED
      BY <2>1, <2>4, <2>6, <3>1, <3>2 DEF dczvaBytes
  <2> QED
    BY <2>3, <2>5, <2>6
<1>8. CASE e.class = "atomic"
  <2>1. decodeLdSt(e, s.pc) = Inst /\ ~Allocated(e)
    BY <1>8 DEF decodeLdSt, Allocated
  <2> QED
    BY <1>8, <2>1, UndefDenied DEF MustFault
<1> QED
  BY <1>1, <1>2, <1>3, <1>4, <1>5, <1>6, <1>7, <1>8 DEF Encoding

-----------------------------------------------------------------------------
(* The register that reads zero.                                            *)

(* The register that reads zero is never a destination: it reads zero.        *)
ZeroReads(t) == "r" \in DOMAIN t /\ rZR \in DOMAIN t.r /\ t.r[rZR] = 0

\* The parts of a handler that can disturb it, and those that cannot
LEMMA ZeroParts ==
  ASSUME NEW t, ZeroReads(t)
  PROVE  /\ ZeroReads(Fault(t)) /\ ZeroReads(Done(t)) /\ ZeroReads(Cleared(t))
         /\ \A kind, a : ZeroReads(Check(t, kind, a))
         /\ \A a, n : ZeroReads(Reads(t, a, n))
         /\ \A a, n, x : ZeroReads(WriteN(t, a, n, x))
         /\ \A x, val : ZeroReads(SetV(t, x, val))
         /\ \A x, val : x # rZR => ZeroReads(SetR(t, x, val))
         /\ \A a, n, x, y : ZeroReads(Monitor(t, a, n, x, y))
         /\ \A m : ZeroReads([t EXCEPT !.mem = m])
         /\ \A m : ZeroReads([t EXCEPT !.v = m])
<1>1. ZeroReads(Fault(t)) /\ ZeroReads(Done(t)) /\ ZeroReads(Cleared(t))
  BY DEF ZeroReads, Fault, Done, Cleared
<1>2. \A kind, a : ZeroReads(Check(t, kind, a))
  BY <1>1 DEF Check
<1>3. \A a, n : ZeroReads(Reads(t, a, n))
  BY <1>1 DEF Reads
<1>4. \A m : ZeroReads([t EXCEPT !.mem = m]) /\ ZeroReads([t EXCEPT !.v = m])
  BY DEF ZeroReads
<1>5. \A a, n, x : ZeroReads(WriteN(t, a, n, x))
  BY <1>1, <1>4 DEF WriteN
<1>6. \A x, val : ZeroReads(SetV(t, x, val))
  BY DEF SetV, ZeroReads
<1>7. \A x, val : x # rZR => ZeroReads(SetR(t, x, val))
  BY DEF SetR, ZeroReads
<1>8. \A a, n, x, y : ZeroReads(Monitor(t, a, n, x, y))
  BY DEF Monitor, ZeroReads
<1> QED
  BY <1>1, <1>2, <1>3, <1>4, <1>5, <1>6, <1>7, <1>8

LEMMA ZeroCheckWrite ==
  ASSUME NEW t, ZeroReads(t), NEW a, NEW n
  PROVE  ZeroReads(checkWrite(t, a, n))
<1>1. ZeroReads(Check(t, "W", a))
  BY ZeroParts
<1>2. ZeroReads(Check(Check(t, "W", a), "W", Add(a, n - 1)))
  BY <1>1, ZeroParts
<1> QED
  BY <1>1, <1>2 DEF checkWrite

LEMMA ZeroTwoReads ==
  ASSUME NEW t, ZeroReads(t), NEW a, NEW n, NEW b
  PROVE  ZeroReads(Reads(Reads(Check(t, "R", a), a, n), b, n))
<1>1. ZeroReads(Check(t, "R", a))
  BY ZeroParts
<1>2. ZeroReads(Reads(Check(t, "R", a), a, n))
  BY <1>1, ZeroParts
<1> QED
  BY <1>2, ZeroParts

LEMMA ZeroTwoWrites ==
  ASSUME NEW t, ZeroReads(t), NEW a, NEW b, NEW n, NEW x, NEW y
  PROVE  ZeroReads(WriteN(WriteN(t, a, n, x), b, n, y))
<1>1. ZeroReads(WriteN(t, a, n, x))
  BY ZeroParts
<1> QED
  BY <1>1, ZeroParts

LEMMA Zerowriteback ==
  ASSUME NEW t, ZeroReads(t), NEW i, NEW a, i.rn = rZR => i.cond \notin {modePre, modePost}
  PROVE  ZeroReads(Done(writeback(t, i, a)))
<1>1. ZeroReads(writeback(t, i, a))
  BY ZeroParts DEF writeback
<1> QED
  BY <1>1, ZeroParts

LEMMA ZerovLoad ==
  ASSUME NEW t, ZeroReads(t), NEW i, NEW a
  PROVE  ZeroReads(vLoad(t, i, a))
<1> DEFINE u == IF i.sz = 16 THEN Reads(Reads(Check(t, "R", a), a, 8), Add(a, 8), 8)
                             ELSE Reads(t, a, i.sz)
<1>1. ZeroReads(u)
  BY ZeroTwoReads, ZeroParts
<1> HIDE DEF u
<1>2. vLoad(t, i, a) = SetV(u, i.rd, ReadN(t, a, i.sz))
  BY DEF vLoad, u
<1> QED
  BY <1>1, <1>2, ZeroParts

LEMMA ZerovStore ==
  ASSUME NEW t, ZeroReads(t), NEW i, NEW a
  PROVE  ZeroReads(vStore(t, i, a))
<1>1. ZeroReads(checkWrite(t, a, 16))
  BY ZeroCheckWrite
<1>2. ZeroReads(WriteN(WriteN(checkWrite(t, a, 16), a, 8, Low(t.v[i.rd], XLEN)),
              Add(a, 8), 8, Lsr(t.v[i.rd], XLEN)))
  BY <1>1, ZeroTwoWrites
<1>3. ZeroReads(WriteN(t, a, i.sz, Low(t.v[i.rd], XLEN)))
  BY ZeroParts
<1> QED
  BY <1>2, <1>3 DEF vStore

\* Where a handler's results go
IntResults == {"opLdrOff", "opLdrReg", "opLoad", "opLoadPair", "opLdp64Off", "opLdxr", "opLdxp"}
Discards(i) ==
  /\ i.fn \in IntResults => i.rd # rZR
  /\ i.fn \in {"opLoadPair", "opLdp64Off", "opStxr", "opStxp"} => i.ra # rZR
  /\ i.fn = "opLdxp" => i.rm # rZR
  /\ i.rn = rZR => i.cond \notin {modePre, modePost} /\ (i.fn \in Multis => i.cond # modeReg)

LEMMA ZeroSingles ==
  ASSUME NEW s, ZeroReads(s), NEW i, Discards(i), NEW hit,
         i.fn \in {"opLdrOff", "opStrOff", "opLdrReg", "opStrReg", "opLoad", "opStore"}
  PROVE  ZeroReads(Exec(s, i, hit))
<1>1. \A a : i.rd # rZR => ZeroReads(HotLoad(s, i, a, hit))
  <2> TAKE a
  <2> HAVE i.rd # rZR
  <2> DEFINE t == IF hit /\ Inside(a, i.sz) THEN s ELSE Reads(s, a, i.sz)
  <2>1. ZeroReads(t)
    BY ZeroParts
  <2> HIDE DEF t
  <2>2. ZeroReads(SetR(t, i.rd, ReadN(s, a, i.sz)))
    BY <2>1, ZeroParts
  <2>3. ZeroReads(Done(SetR(t, i.rd, ReadN(s, a, i.sz))))
    BY <2>2, ZeroParts
  <2> QED
    BY <2>3 DEF HotLoad, t
<1>2. \A a : ZeroReads(HotStore(s, i, a, hit))
  <2> TAKE a
  <2> DEFINE t == IF hit /\ Inside(a, i.sz) THEN [s EXCEPT !.mem = storeN(s.mem, a, i.sz, s.r[i.rd])]
                                            ELSE WriteN(s, a, i.sz, s.r[i.rd])
  <2>1. ZeroReads(t)
    BY ZeroParts
  <2> HIDE DEF t
  <2>2. ZeroReads(Done(t))
    BY <2>1, ZeroParts
  <2> QED
    BY <2>2 DEF HotStore, t
<1>3. i.rd # rZR => ZeroReads(opLoad(s, i))
  <2> HAVE i.rd # rZR
  <2> DEFINE a == addrFor(s, i)
             t == Reads(s, a, i.sz)
             u == SetR(t, i.rd, Extended(i, ReadN(s, a, i.sz)))
  <2>1. ZeroReads(t)
    BY ZeroParts
  <2> HIDE DEF t
  <2>2. ZeroReads(u)
    BY <2>1, ZeroParts
  <2>3. opLoad(s, i) = Done(writeback(u, i, a))
    BY DEF opLoad, ldInt, t
  <2> HIDE DEF u
  <2> QED
    BY <2>2, <2>3, Zerowriteback DEF Discards
<1>4. ZeroReads(opStore(s, i))
  <2> DEFINE a == addrFor(s, i)
             t == WriteN(s, a, i.sz, s.r[i.rd])
  <2>1. ZeroReads(t)
    BY ZeroParts
  <2>2. opStore(s, i) = Done(writeback(t, i, a))
    BY DEF opStore
  <2> HIDE DEF t
  <2> QED
    BY <2>1, <2>2, Zerowriteback DEF Discards
<1>5. CASE i.fn = "opLdrOff"
  <2>1. Exec(s, i, hit) = HotLoad(s, i, Offset(s, i), hit)
    BY <1>5 DEF Exec, opLdrOff
  <2> QED
    BY <1>1, <1>5, <2>1 DEF Discards, IntResults
<1>6. CASE i.fn = "opLdrReg"
  <2>1. Exec(s, i, hit) = HotLoad(s, i, Indexed(s, i), hit)
    BY <1>6 DEF Exec, opLdrReg
  <2> QED
    BY <1>1, <1>6, <2>1 DEF Discards, IntResults
<1>7. CASE i.fn = "opStrOff"
  <2>1. Exec(s, i, hit) = HotStore(s, i, Offset(s, i), hit)
    BY <1>7 DEF Exec, opStrOff
  <2> QED
    BY <1>2, <2>1
<1>8. CASE i.fn = "opStrReg"
  <2>1. Exec(s, i, hit) = HotStore(s, i, Indexed(s, i), hit)
    BY <1>8 DEF Exec, opStrReg
  <2> QED
    BY <1>2, <2>1
<1>9. CASE i.fn = "opLoad"
  <2>1. Exec(s, i, hit) = opLoad(s, i)
    BY <1>9 DEF Exec
  <2> QED
    BY <1>3, <1>9, <2>1 DEF Discards, IntResults
<1>10. CASE i.fn = "opStore"
  <2>1. Exec(s, i, hit) = opStore(s, i)
    BY <1>10 DEF Exec
  <2> QED
    BY <1>4, <2>1
<1> QED
  BY <1>5, <1>6, <1>7, <1>8, <1>9, <1>10

LEMMA ZeroVectors ==
  ASSUME NEW s, ZeroReads(s), NEW i, Discards(i), NEW hit,
         i.fn \in {"opVLoad", "opVStore", "opVLoadPair", "opVStorePair"}
  PROVE  ZeroReads(Exec(s, i, hit))
<1> DEFINE a == addrFor(s, i)
           half == [i EXCEPT !.rd = i.ra]
<1>1. CASE i.fn = "opVLoad"
  <2>1. Exec(s, i, hit) = Done(writeback(vLoad(s, i, a), i, a))
    BY <1>1 DEF Exec, opVLoad
  <2>2. ZeroReads(vLoad(s, i, a))
    BY ZerovLoad
  <2> QED
    BY <2>1, <2>2, Zerowriteback DEF Discards
<1>2. CASE i.fn = "opVStore"
  <2>1. Exec(s, i, hit) = Done(writeback(vStore(s, i, a), i, a))
    BY <1>2 DEF Exec, opVStore
  <2>2. ZeroReads(vStore(s, i, a))
    BY ZerovStore
  <2> QED
    BY <2>1, <2>2, Zerowriteback DEF Discards
<1>3. CASE i.fn = "opVLoadPair"
  <2>1. Exec(s, i, hit) = Done(writeback(vLoad(vLoad(s, i, a), half, Add(a, i.sz)), i, a))
    BY <1>3 DEF Exec, opVLoadPair
  <2>2. ZeroReads(vLoad(vLoad(s, i, a), half, Add(a, i.sz)))
    BY ZerovLoad
  <2> QED
    BY <2>1, <2>2, Zerowriteback DEF Discards
<1>4. CASE i.fn = "opVStorePair"
  <2> DEFINE t == checkWrite(s, a, 2 * i.sz)
  <2>1. Exec(s, i, hit) = Done(writeback(vStore(vStore(t, i, a), half, Add(a, i.sz)), i, a))
    BY <1>4 DEF Exec, opVStorePair
  <2>2. ZeroReads(t)
    BY ZeroCheckWrite
  <2> HIDE DEF t
  <2>3. ZeroReads(vStore(vStore(t, i, a), half, Add(a, i.sz)))
    BY <2>2, ZerovStore
  <2> QED
    BY <2>1, <2>3, Zerowriteback DEF Discards
<1> QED
  BY <1>1, <1>2, <1>3, <1>4

LEMMA ZeroPairs ==
  ASSUME NEW s, ZeroReads(s), NEW i, Discards(i), NEW hit,
         i.fn \in {"opLoadPair", "opStorePair", "opLdp64Off", "opStp64Off"}
  PROVE  ZeroReads(Exec(s, i, hit))
<1> DEFINE a == addrFor(s, i)
<1>1. CASE i.fn = "opLoadPair"
  <2> DEFINE t == Reads(Reads(Check(s, "R", a), a, i.sz), Add(a, i.sz), i.sz)
             u == SetR(t, i.rd, Extended(i, ReadN(s, a, i.sz)))
             w == SetR(u, i.ra, Extended(i, ReadN(s, Add(a, i.sz), i.sz)))
  <2>1. Exec(s, i, hit) = Done(writeback(w, i, a))
    BY <1>1 DEF Exec, opLoadPair
  <2>2. i.rd # rZR /\ i.ra # rZR
    BY <1>1 DEF Discards, IntResults
  <2>3. ZeroReads(t)
    BY ZeroTwoReads
  <2> HIDE DEF t
  <2>4. ZeroReads(u)
    BY <2>2, <2>3, ZeroParts
  <2> HIDE DEF u
  <2>5. ZeroReads(w)
    BY <2>2, <2>4, ZeroParts
  <2> HIDE DEF w
  <2> QED
    BY <2>1, <2>5, Zerowriteback DEF Discards
<1>2. CASE i.fn = "opStorePair"
  <2> DEFINE t == checkWrite(s, a, 2 * i.sz)
             u == WriteN(WriteN(t, a, i.sz, s.r[i.rd]), Add(a, i.sz), i.sz, s.r[i.ra])
  <2>1. Exec(s, i, hit) = Done(writeback(u, i, a))
    BY <1>2 DEF Exec, opStorePair
  <2>2. ZeroReads(t)
    BY ZeroCheckWrite
  <2> HIDE DEF t
  <2>3. ZeroReads(u)
    BY <2>2, ZeroTwoWrites
  <2> HIDE DEF u
  <2> QED
    BY <2>1, <2>3, Zerowriteback DEF Discards
<1>3. CASE i.fn = "opLdp64Off"
  <2> DEFINE b == Add(a, 8)
             first == IF hit /\ Inside(a, 16) THEN s ELSE Reads(Check(s, "R", a), a, 8)
             t == SetR(first, i.rd, ReadN(s, a, 8))
             second == IF hit /\ Inside(a, 16) THEN t ELSE Reads(t, b, 8)
             u == SetR(second, i.ra, ReadN(s, b, 8))
  <2>1. Exec(s, i, hit) = Done(u)
    BY <1>3 DEF Exec, opLdp64Off
  <2>2. i.rd # rZR /\ i.ra # rZR
    BY <1>3 DEF Discards, IntResults
  <2>3. ZeroReads(first)
    <3>1. ZeroReads(Check(s, "R", a))
      BY ZeroParts
    <3>2. ZeroReads(Reads(Check(s, "R", a), a, 8))
      BY <3>1, ZeroParts
    <3> QED
      BY <3>2
  <2> HIDE DEF first
  <2>4. ZeroReads(t)
    BY <2>2, <2>3, ZeroParts
  <2> HIDE DEF t
  <2>5. ZeroReads(second)
    BY <2>4, ZeroParts
  <2> HIDE DEF second
  <2>6. ZeroReads(u)
    BY <2>2, <2>5, ZeroParts
  <2> HIDE DEF u
  <2> QED
    BY <2>1, <2>6, ZeroParts
<1>4. CASE i.fn = "opStp64Off"
  <2> DEFINE both(m) == storeN(storeN(m, a, 8, s.r[i.rd]), Add(a, 8), 8, s.r[i.ra])
             t == checkWrite(s, a, 16)
             u == WriteN(WriteN(t, a, 8, s.r[i.rd]), Add(a, 8), 8, s.r[i.ra])
             w == IF hit /\ Inside(a, 16) THEN [s EXCEPT !.mem = both(s.mem)] ELSE u
  <2>1. Exec(s, i, hit) = Done(w)
    BY <1>4 DEF Exec, opStp64Off
  <2>2. ZeroReads(t)
    BY ZeroCheckWrite
  <2> HIDE DEF t
  <2>3. ZeroReads(u)
    BY <2>2, ZeroTwoWrites
  <2> HIDE DEF u, both
  <2>4. ZeroReads(w)
    BY <2>3, ZeroParts
  <2> HIDE DEF w
  <2> QED
    BY <2>1, <2>4, ZeroParts
<1> QED
  BY <1>1, <1>2, <1>3, <1>4

LEMMA ZeroExclusives ==
  ASSUME NEW s, ZeroReads(s), NEW i, Discards(i), NEW hit,
         i.fn \in {"opLdxr", "opLdxp", "opStxr", "opStxp"}
  PROVE  ZeroReads(Exec(s, i, hit))
<1> DEFINE a == s.r[i.rn]
           x == ReadN(s, a, i.sz)
           y == ReadN(s, Add(a, i.sz), i.sz)
<1>1. CASE i.fn = "opLdxr"
  <2> DEFINE t == Reads(s, a, i.sz)
             u == SetR(t, i.rd, x)
             w == Monitor(u, a, i.sz, x, s.excl.val2)
  <2>1. Exec(s, i, hit) = Done(w)
    BY <1>1 DEF Exec, opLdxr
  <2>2. i.rd # rZR
    BY <1>1 DEF Discards, IntResults
  <2>3. ZeroReads(t)
    BY ZeroParts
  <2> HIDE DEF t
  <2>4. ZeroReads(u)
    BY <2>2, <2>3, ZeroParts
  <2> HIDE DEF u
  <2>5. ZeroReads(w)
    BY <2>4, ZeroParts
  <2> HIDE DEF w
  <2> QED
    BY <2>1, <2>5, ZeroParts
<1>2. CASE i.fn = "opLdxp"
  <2> DEFINE t == Reads(Reads(Check(s, "R", a), a, i.sz), Add(a, i.sz), i.sz)
             u == SetR(t, i.rd, x)
             z == SetR(u, i.rm, y)
             w == Monitor(z, a, 2 * i.sz, x, y)
  <2>1. Exec(s, i, hit) = Done(w)
    BY <1>2 DEF Exec, opLdxp
  <2>2. i.rd # rZR /\ i.rm # rZR
    BY <1>2 DEF Discards, IntResults
  <2>3. ZeroReads(t)
    BY ZeroTwoReads
  <2> HIDE DEF t
  <2>4. ZeroReads(u)
    BY <2>2, <2>3, ZeroParts
  <2> HIDE DEF u
  <2>5. ZeroReads(z)
    BY <2>2, <2>4, ZeroParts
  <2> HIDE DEF z
  <2>6. ZeroReads(w)
    BY <2>5, ZeroParts
  <2> HIDE DEF w
  <2> QED
    BY <2>1, <2>6, ZeroParts
<1>3. CASE i.fn = "opStxr"
  <2> DEFINE t == Cleared(s)
             u == WriteN(t, a, i.sz, s.r[i.rd])
             w == IF exclusiveOK(s, a, i.sz) THEN SetR(u, i.ra, 0) ELSE SetR(t, i.ra, 1)
  <2>1. Exec(s, i, hit) = Done(w)
    BY <1>3 DEF Exec, opStxr
  <2>2. i.ra # rZR
    BY <1>3 DEF Discards
  <2>3. ZeroReads(t)
    BY ZeroParts
  <2> HIDE DEF t
  <2>4. ZeroReads(u)
    BY <2>3, ZeroParts
  <2> HIDE DEF u
  <2>5. ZeroReads(SetR(u, i.ra, 0)) /\ ZeroReads(SetR(t, i.ra, 1))
    BY <2>2, <2>3, <2>4, ZeroParts
  <2>6. ZeroReads(w)
    BY <2>5
  <2> HIDE DEF w
  <2> QED
    BY <2>1, <2>6, ZeroParts
<1>4. CASE i.fn = "opStxp"
  <2> DEFINE c == Cleared(s)
             t == checkWrite(c, a, 2 * i.sz)
             u == WriteN(WriteN(t, a, i.sz, s.r[i.rd]), Add(a, i.sz), i.sz, s.r[i.rm])
             w == IF exclusiveOK(s, a, 2 * i.sz) THEN SetR(u, i.ra, 0) ELSE SetR(c, i.ra, 1)
  <2>1. Exec(s, i, hit) = Done(w)
    BY <1>4 DEF Exec, opStxp
  <2>2. i.ra # rZR
    BY <1>4 DEF Discards
  <2>3. ZeroReads(c)
    BY ZeroParts
  <2> HIDE DEF c
  <2>4. ZeroReads(t)
    BY <2>3, ZeroCheckWrite
  <2> HIDE DEF t
  <2>5. ZeroReads(u)
    BY <2>4, ZeroTwoWrites
  <2> HIDE DEF u
  <2>6. ZeroReads(SetR(u, i.ra, 0)) /\ ZeroReads(SetR(c, i.ra, 1))
    BY <2>2, <2>3, <2>5, ZeroParts
  <2>7. ZeroReads(w)
    BY <2>6
  <2> HIDE DEF w
  <2> QED
    BY <2>1, <2>7, ZeroParts
<1> QED
  BY <1>1, <1>2, <1>3, <1>4

LEMMA ZeroBlocks ==
  ASSUME NEW s, ZeroReads(s), NEW i, Discards(i), NEW hit,
         i.fn \in {"opSIMDLoadMulti", "opSIMDStoreMulti"}
  PROVE  ZeroReads(Exec(s, i, hit))
<1> DEFINE a == s.r[i.rn]
<1>0. ASSUME NEW t, ZeroReads(t), i.fn \in Multis
      PROVE  ZeroReads(Done(simdAdvance(t, i, a)))
  <2>1. ZeroReads(simdAdvance(t, i, a))
    BY <1>0, ZeroParts DEF simdAdvance, Discards
  <2> QED
    BY <2>1, ZeroParts
<1>1. CASE i.fn = "opSIMDLoadMulti"
  <2>1. \E v : Exec(s, i, hit) \in {Fault(s), Done(simdAdvance([s EXCEPT !.v = v], i, a))}
    BY <1>1 DEF Exec, opSIMDLoadMulti
  <2>2. PICK v : Exec(s, i, hit) \in {Fault(s), Done(simdAdvance([s EXCEPT !.v = v], i, a))}
    BY <2>1
  <2>3. ZeroReads([s EXCEPT !.v = v]) /\ ZeroReads(Fault(s))
    BY ZeroParts
  <2> QED
    BY <1>0, <1>1, <2>2, <2>3 DEF Multis
<1>2. CASE i.fn = "opSIMDStoreMulti"
  <2> DEFINE t == checkWrite(s, a, simdMultiParams(i).total)
  <2>1. \E m : Exec(s, i, hit) = Done(simdAdvance(IF t.fault THEN t ELSE [t EXCEPT !.mem = m], i, a))
    BY <1>2 DEF Exec, opSIMDStoreMulti
  <2>2. PICK m : Exec(s, i, hit) = Done(simdAdvance(IF t.fault THEN t ELSE [t EXCEPT !.mem = m], i, a))
    BY <2>1
  <2>3. ZeroReads(t)
    BY ZeroCheckWrite
  <2> HIDE DEF t
  <2>4. ZeroReads(IF t.fault THEN t ELSE [t EXCEPT !.mem = m])
    BY <2>3, ZeroParts
  <2> QED
    BY <1>0, <1>2, <2>2, <2>4 DEF Multis
<1> QED
  BY <1>1, <1>2

\* The handlers that write no register of their operands
LEMMA ZeroPlain ==
  ASSUME NEW s, ZeroReads(s), NEW i, NEW hit, i.fn \in {"opNop", "opClrex", "opUndef", "opDcZva"}
  PROVE  ZeroReads(Exec(s, i, hit))
<1>1. CASE i.fn \in {"opNop", "opClrex", "opUndef"}
  <2>1. Exec(s, i, hit) \in {Done(s), Done(Cleared(s)), Fault(s)}
    BY <1>1 DEF Exec, opClrex
  <2>2. ZeroReads(Cleared(s)) /\ ZeroReads(Done(s)) /\ ZeroReads(Fault(s))
    BY ZeroParts
  <2>3. ZeroReads(Done(Cleared(s)))
    BY <2>2, ZeroParts
  <2> QED
    BY <2>1, <2>2, <2>3
<1>2. CASE i.fn = "opDcZva"
  <2> DEFINE t == checkWrite(s, s.r[i.rn] - (s.r[i.rn] % dczvaBytes), dczvaBytes)
  <2>1. \E m : Exec(s, i, hit) = Done(IF t.fault THEN t ELSE [t EXCEPT !.mem = m])
    BY <1>2 DEF Exec, opDcZva
  <2>2. PICK m : Exec(s, i, hit) = Done(IF t.fault THEN t ELSE [t EXCEPT !.mem = m])
    BY <2>1
  <2>3. ZeroReads(t)
    BY ZeroCheckWrite
  <2> HIDE DEF t
  <2>4. ZeroReads(IF t.fault THEN t ELSE [t EXCEPT !.mem = m])
    BY <2>3, ZeroParts
  <2> QED
    BY <2>2, <2>4, ZeroParts
<1> QED
  BY <1>1, <1>2

LEMMA ZeroKept ==
  ASSUME NEW s, ZeroReads(s), NEW i, Discards(i), NEW hit, i.fn \in Handlers
  PROVE  ZeroReads(Exec(s, i, hit))
  BY ZeroPlain, ZeroSingles, ZeroVectors, ZeroPairs, ZeroExclusives, ZeroBlocks
     DEF Handlers, Singles, Pairs, VSingles, VPairs, Exclusives, Multis

LEMMA Destinations ==
  ASSUME NEW k
  PROVE  xw(k) # rZR /\ xsp(k) # rZR
  BY DEF xw, xsp, rZR, rSink, rSP

LEMMA UndefDiscards == Discards(Inst)
  BY DEF Discards, Inst, IntResults, Multis, modeOff, modePre, modePost

LEMMA LocatedDiscards ==
  ASSUME NEW e, NEW s, NEW j, Located(e, s, j), j.rn = rZR
  PROVE  j.cond \notin {modePre, modePost}
  BY Destinations DEF Located

LEMMA SingleDiscards ==
  ASSUME NEW e, NEW s, NEW j, Single(e, j), Located(e, s, j)
  PROVE  Discards(j)
<1>1. j.rn = rZR => j.cond \notin {modePre, modePost}
  BY LocatedDiscards
<1>2. j.fn \in {"opVLoad", "opVStore", "opLoad", "opLdrOff", "opLdrReg", "opStore", "opStrOff", "opStrReg"}
  BY DEF Single, IntLoads, IntStores
<1>3. j.fn \in {"opLoad", "opLdrOff", "opLdrReg"} => j.rd # rZR
  BY Destinations DEF Single, IntLoads, IntStores
<1> QED
  BY <1>1, <1>2, <1>3 DEF Discards, IntResults, Multis

LEMMA SingleClassDiscards ==
  ASSUME NEW e, NEW s, NEW j, DecodedSingle(e, j, Located(e, s, j))
  PROVE  Discards(j) \/ j.fn = "opNop"
<1>1. CASE ~Allocated(e)
  BY <1>1, UndefDiscards DEF DecodedSingle
<1>2. CASE Allocated(e) /\ Prefetch(e)
  BY <1>2 DEF DecodedSingle
<1>3. CASE Allocated(e) /\ ~Prefetch(e)
  BY <1>3, SingleDiscards DEF DecodedSingle
<1> QED
  BY <1>1, <1>2, <1>3

LEMMA PairDiscards ==
  ASSUME NEW e, NEW s, NEW j, Double(e, j), Located(e, s, j)
  PROVE  Discards(j)
<1>1. j.rn = rZR => j.cond \notin {modePre, modePost}
  BY LocatedDiscards
<1>2. j.fn \in {"opVLoadPair", "opVStorePair", "opLoadPair", "opLdp64Off", "opStorePair", "opStp64Off"}
  BY DEF Double
<1>3. j.fn \in {"opLoadPair", "opLdp64Off"} => j.rd # rZR /\ j.ra # rZR
  BY Destinations DEF Double
<1> QED
  BY <1>1, <1>2, <1>3 DEF Discards, IntResults, Multis

LEMMA ExclusiveDiscards ==
  ASSUME NEW e, NEW j, ExclusiveOf(e, j)
  PROVE  Discards(j)
<1>1. j.rn # rZR /\ j.fn \in {"opLdxp", "opStxp", "opLdxr", "opStxr"}
  BY Destinations DEF ExclusiveOf
<1>2. /\ j.fn \in {"opLdxp", "opLdxr"} => j.rd # rZR
      /\ j.fn \in {"opStxp", "opStxr"} => j.ra # rZR
      /\ j.fn = "opLdxp" => j.rm # rZR
  BY Destinations DEF ExclusiveOf
<1> QED
  BY <1>1, <1>2 DEF Discards, IntResults, Multis

LEMMA MultiDiscards ==
  ASSUME NEW e, NEW j, MultiOf(e, j)
  PROVE  Discards(j)
<1>1. j.rn # rZR /\ j.fn \in {"opSIMDLoadMulti", "opSIMDStoreMulti"}
  BY Destinations DEF MultiOf
<1> QED
  BY <1>1 DEF Discards, IntResults, Multis

LEMMA DecodedDiscards ==
  ASSUME NEW e, Encoding(e), NEW s \in CpuStates, s.r[rZR] = 0
  PROVE  LET j == decodeLdSt(e, s.pc) IN Discards(j) \/ j.fn \in {"opNop", "opClrex", "opDcZva"}
<1>1. CASE e.class = "register"
  BY <1>1, RegFormDecoded, SingleClassDiscards DEF decodeLdSt
<1>2. CASE e.class = "unsigned"
  BY <1>2, UnsignedDecoded, SingleClassDiscards DEF decodeLdSt
<1>3. CASE e.class = "literal"
  BY <1>3, LiteralDecoded, SingleClassDiscards DEF decodeLdSt
<1>4. CASE e.class = "pair"
  <2>1. decodeLdSt(e, s.pc) = decodePair(e)
    BY <1>4 DEF decodeLdSt
  <2> QED
    BY <1>4, <2>1, PairDecoded, PairDiscards, UndefDiscards
<1>5. CASE e.class = "exclusive"
  <2>1. decodeLdSt(e, s.pc) = decodeExclusive(e)
    BY <1>5 DEF decodeLdSt
  <2>2. e.o2 \in BOOLEAN
    BY <1>5 DEF Encoding
  <2> QED
    BY <1>5, <2>1, <2>2, ExclusiveDecoded, ExclusiveDiscards, SingleDiscards, UndefDiscards
<1>6. CASE e.class = "multi"
  <2>1. decodeLdSt(e, s.pc) = decodeSIMDMulti(e)
    BY <1>6 DEF decodeLdSt
  <2> QED
    BY <1>6, <2>1, MultiDecoded, MultiDiscards, UndefDiscards
<1>7. CASE e.class = "system"
  <2>1. decodeLdSt(e, s.pc) = decodeSystem(e)
    BY <1>7 DEF decodeLdSt
  <2>2. e.op \in {"clrex", "zva"}
    BY <1>7 DEF Encoding
  <2> QED
    BY <1>7, <2>1, <2>2, SystemDecoded
<1>8. CASE e.class = "atomic"
  <2>1. decodeLdSt(e, s.pc) = Inst
    BY <1>8 DEF decodeLdSt
  <2> QED
    BY <2>1, UndefDiscards
<1> QED
  BY <1>1, <1>2, <1>3, <1>4, <1>5, <1>6, <1>7, <1>8 DEF Encoding

ZeroInv == StatesInv /\ cpu.r[rZR] = 0

LEMMA ZeroInvHolds ==
  Spec => []ZeroInv
<1>1. Init => cpu.r[rZR] = 0
  <2> SUFFICES ASSUME NEW b \in Bases
               PROVE  FirstState(b).r[rZR] = 0
    BY DEF Init
  <2>1. rZR \in XRegs /\ rZR # 0
    BY ProgramsAssumption DEF rZR
  <2> QED
    BY <2>1 DEF FirstState
<1>2. StatesInv /\ cpu.r[rZR] = 0 /\ [Next]_vars => (cpu.r[rZR] = 0)'
  <2> SUFFICES ASSUME StatesInv, cpu.r[rZR] = 0, [Next]_vars
               PROVE  cpu'.r[rZR] = 0
    OBVIOUS
  <2>0. ZeroReads(cpu)
    BY ProgramsAssumption DEF ZeroReads, StatesInv, CpuStates
  <2>1. CASE Step
    <3>1. PICK e \in Programs[prog].insts, hit \in BOOLEAN : cpu' = Exec(cpu, decodeLdSt(e, cpu.pc), hit)
      BY <2>1 DEF Step
    <3> DEFINE j == decodeLdSt(e, cpu.pc)
    <3>2. Encoding(e)
      BY ProgramsAssumption DEF StatesInv
    <3>3. Discards(j) \/ j.fn \in {"opNop", "opClrex", "opDcZva"}
      BY <3>2, DecodedDiscards DEF StatesInv
    <3>4. j.fn \in Handlers
      <4>1. cpu.pc \in Int
        BY WordXLEN DEF StatesInv, CpuStates
      <4> QED
        BY <3>2, <4>1, Decoded DEF Operands, Insts
    <3> HIDE DEF j
    <3>5. ZeroReads(Exec(cpu, j, hit))
      BY <2>0, <3>3, <3>4, ZeroKept, ZeroPlain
    <3> QED
      BY <3>1, <3>5 DEF ZeroReads, j
  <2>2. CASE Mend
    BY <2>2 DEF Mend, StatesInv, CpuStates
  <2>3. CASE UNCHANGED vars
    BY <2>3 DEF vars
  <2> QED
    BY <2>1, <2>2, <2>3 DEF Next
<1> QED
  BY <1>1, <1>2, StatesInvHolds, PTL DEF Spec, ZeroInv

(* A load, store or exclusive faults exactly when the architecture says that    *)
(* it must: the encoding is not allocated, or a byte of the access lies where   *)
(* it is not allowed.  Whatever the decoder made of it, whichever handler it    *)
(* picked, whatever the TLB knows.                                              *)
THEOREM FaultsRight ==
  Spec => [][Step => (cpu'.fault <=> MustFault(last'.e, cpu))]_vars
<1>1. ZeroInv /\ [Next]_vars => [Step => (cpu'.fault <=> MustFault(last'.e, cpu))]_vars
  <2> SUFFICES ASSUME ZeroInv, Step
               PROVE  cpu'.fault <=> MustFault(last'.e, cpu)
    OBVIOUS
  <2> DEFINE i == decodeLdSt(last'.e, cpu.pc)
  <2>1. Encoding(last'.e) /\ Executed(cpu, i, cpu')
    BY StepExecutes DEF ZeroInv, StatesInv
  <2>2. Denied(cpu, i) <=> MustFault(last'.e, cpu)
    BY <2>1, FaultsMeant DEF ZeroInv, StatesInv
  <2> QED
    BY <2>1, <2>2 DEF Executed
<1> QED
  BY <1>1, ZeroInvHolds, PTL DEF Spec

\* What a value keeps of its bytes when it is cut or sign-extended
LEMMA ByteOfLow ==
  ASSUME NEW x \in Int, NEW k \in Nat, NEW n \in Nat, k < n, n <= 16
  PROVE  ByteOf(Low(x, ByteBits * n), k) = ByteOf(x, k)
<1>1. ByteBits \in Nat /\ 2 * XLEN = ByteBits * 16
  BY WordsAssumption DEF XLEN
<1>2. ByteBits * k \in Nat /\ ByteBits * n \in Nat
  BY <1>1
<1>3. ByteBits * k + ByteBits <= ByteBits * n
  <2>1. ByteBits * (k + 1) <= ByteBits * n
    BY <1>1
  <2> QED
    BY <2>1, <1>1
<1>4. ByteBits * n <= 2 * XLEN
  BY <1>1
<1> QED
  BY <1>1, <1>2, <1>3, <1>4, LsrLow DEF ByteOf

LEMMA ByteOfLsr ==
  ASSUME NEW x \in Int, NEW k \in Nat, NEW n \in Nat, k + n <= 16
  PROVE  ByteOf(Lsr(x, ByteBits * n), k) = ByteOf(x, n + k)
<1>1. ByteBits \in Nat /\ 2 * XLEN = ByteBits * 16
  BY WordsAssumption DEF XLEN
<1>2. ByteBits * k \in Nat /\ ByteBits * n \in Nat /\ ByteBits * n + ByteBits * k = ByteBits * (n + k)
  BY <1>1
<1>3. ByteBits * n + ByteBits * k <= 2 * XLEN
  <2>1. ByteBits * (n + k) <= ByteBits * 16
    BY <1>1
  <2> QED
    BY <2>1, <1>1, <1>2
<1> QED
  BY <1>1, <1>2, <1>3, LsrLsr DEF ByteOf

LEMMA LowSigned ==
  ASSUME NEW n \in 1 .. 2 * XLEN, NEW x \in Word(n)
  PROVE  Low(Signed(x, n), n) = x /\ Signed(x, n) \in Int
<1> DEFINE p == 2^n
<1>1. p \in Nat /\ p > 0
  BY Power
<1>2. x \in 0 .. p - 1 /\ Signed(x, n) \in {x, x - p} /\ Low(Signed(x, n), n) = Signed(x, n) % p
  BY DEF Word, Signed, Low
<1> HIDE DEF p
<1>3. (0 * p + x) % p = x /\ ((-1) * p + x) % p = x
  BY <1>1, <1>2, DivUnique
<1>4. 0 * p + x = x /\ (-1) * p + x = x - p
  BY <1>1, <1>2
<1> QED
  BY <1>1, <1>2, <1>3, <1>4

\* The bytes of a value read are those of memory
LEMMA ReadBytes ==
  ASSUME NEW s \in CpuStates, NEW a \in Word(XLEN), NEW n \in 0 .. 16, Span("R", a, n)
  PROVE  /\ ReadN(s, a, n) \in Word(ByteBits * n) /\ ReadN(s, a, n) \in Nat
         /\ \A k \in 0 .. n - 1 : ByteOf(ReadN(s, a, n), k) = s.mem[Add(a, k)]
<1> DEFINE pieces == [k \in 1 .. n |-> s.mem[Add(a, k - 1)]]
<1>1. ReadN(s, a, n) \in Word(ByteBits * n) /\ ReadN(s, a, n) \in Nat
  BY ByteOfMemory, Readable
<1>2. \A k \in 1 .. n : pieces[k] \in Word(ByteBits)
  <2>1. ASSUME NEW k \in 1 .. n
        PROVE  s.mem[Add(a, k - 1)] \in Word(ByteBits)
    <3>1. k - 1 \in 0 .. n - 1 /\ n \in 0 .. 64
      OBVIOUS
    <3>2. Add(a, k - 1) \in Cells
      BY <3>1, SpanInMemory
    <3> QED
      BY <3>2 DEF CpuStates
  <2> QED
    BY <2>1
<1>3. ByteBits \in Nat /\ ByteBits * n <= 2 * XLEN
  BY WordsAssumption DEF XLEN
<1>4. ReadN(s, a, n) = Gathered(pieces, n, ByteBits)
  BY DEF ReadN
<1> HIDE DEF pieces
<1>5. \A j \in 0 .. n - 1 : Low(Lsr(Gathered(pieces, n, ByteBits), ByteBits * j), ByteBits) = pieces[j + 1]
  BY <1>2, <1>3, GatheredWord
<1>6. \A j \in 0 .. n - 1 : pieces[j + 1] = s.mem[Add(a, j)]
  <2> TAKE j \in 0 .. n - 1
  <2>1. j + 1 \in 1 .. n /\ (j + 1) - 1 = j
    OBVIOUS
  <2> QED
    BY <2>1 DEF pieces
<1> QED
  BY <1>1, <1>4, <1>5, <1>6 DEF ByteOf

\* mem is old with the n bytes of x stored at a
Stores(mem, old, a, n, x) ==
  \A c \in Cells : mem[c] = IF Low(c - a, XLEN) < n THEN ByteOf(x, Low(c - a, XLEN)) ELSE old[c]

LEMMA storeNStores ==
  ASSUME NEW old, NEW a, NEW n, NEW x
  PROVE  Stores(storeN(old, a, n, x), old, a, n, x)
  BY DEF Stores, storeN, ByteOf

\* How far a byte is from the second half of an access
LEMMA SecondHalf ==
  ASSUME NEW c \in Int, NEW a \in Int, NEW n \in 1 .. 16
  PROVE  LET j == Low(c - a, XLEN)
             k == Low(c - Add(a, n), XLEN)
         IN /\ j \in 0 .. M - 1 /\ k \in 0 .. M - 1 /\ M >= 64
            /\ j < n => k >= n
            /\ j >= n => k = j - n
<1> DEFINE j == Low(c - a, XLEN)
           k == Low(c - Add(a, n), XLEN)
<1>1. M \in Nat /\ M > 0 /\ M >= 64
  <2>1. PageSize >= 64 /\ PageSize \in Nat /\ M \in Nat \ {0}
    BY WordXLEN, Widths
  <2>2. M % PageSize = 0
    BY PagesAssumption DEF M
  <2>3. M = (M \div PageSize) * PageSize /\ M \div PageSize \in Int
    BY <2>1, <2>2, Divided
  <2> DEFINE q == M \div PageSize
  <2>4. q > 0
    <3> HIDE DEF q
    <3> SUFFICES ASSUME q <= 0 PROVE FALSE
      BY <2>3 DEF q
    <3>1. q * PageSize <= 0
      BY <2>1, <2>3 DEF q
    <3> QED
      BY <3>1, <2>1, <2>3 DEF q
  <2> HIDE DEF q
  <2>5. q * PageSize >= PageSize
    BY <2>1, <2>3, <2>4 DEF q
  <2> QED
    BY <2>1, <2>3, <2>5 DEF q
<1>2. j = Add(c, -a) /\ Add(c, -a) \in 0 .. M - 1
  <2>1. c + (-a) = c - a
    OBVIOUS
  <2> QED
    BY <2>1, AddWord DEF Add
<1>3. k = Add(j, -n)
  <2> DEFINE b == Add(a, n)
  <2>1. b \in 0 .. M - 1
    BY AddWord
  <2>2. b = (a + n) % M /\ M = 2^XLEN
    BY DEF Add, Low, M
  <2>3. a + n = ((a + n) \div M) * M + b /\ (a + n) \div M \in Int
    BY <1>1, <2>2, Divided
  <2> DEFINE q == (a + n) \div M
  <2> HIDE DEF q, b
  <2>4. c - b = (c - (a + n)) + q * M
    BY <1>1, <2>1, <2>3 DEF q
  <2> DEFINE d == c - (a + n)
  <2>5. d \in Int /\ d = (d \div M) * M + (d % M) /\ d % M \in 0 .. M - 1 /\ d \div M \in Int
    BY <1>1, Divided
  <2> DEFINE u == d \div M
             w == d % M
  <2>6. c - b = (u + q) * M + w
    <3> HIDE DEF u, w
    <3>1. (u + q) * M = u * M + q * M
      BY <1>1, <2>3, <2>5 DEF q, u
    <3> QED
      BY <3>1, <2>4, <2>5, <1>1, <2>3, <2>1 DEF u, w, q
  <2>7. (c - b) % M = w
    <3> HIDE DEF u, w, d
    <3>1. u + q \in Int
      BY <2>3, <2>5 DEF u, q
    <3>2. ((u + q) * M + w) % M = w
      BY <3>1, <2>5, <1>1, DivUnique DEF w
    <3> QED
      BY <3>2, <2>6
  <2>8. k = w
    BY <2>7 DEF Low, M, b
  <2>9. Add(Add(c, -a), -n) = Add(c, (-a) + (-n))
    BY AddAdd
  <2>10. Add(c, (-a) + (-n)) = d % M
    <3>1. c + ((-a) + (-n)) = d
      OBVIOUS
    <3> QED
      BY <3>1 DEF Add, Low, M
  <2> QED
    BY <1>2, <2>8, <2>9, <2>10
<1> HIDE DEF j, k
<1>4. j < n => k >= n
  <2> SUFFICES ASSUME j < n PROVE k >= n
    OBVIOUS
  <2>1. Add(j - n, M) = j - n + M
    BY <1>1, <1>2, AddSmall
  <2>2. Add(j, -n) = Add(j - n, M)
    <3>1. j + (-n) = j - n /\ j - n \in Int
      BY <1>2
    <3>2. ((j - n) + M) % M = (j - n) % M
      <4>1. (j - n) + M \in 0 .. M - 1 /\ (j - n) = (-1) * M + ((j - n) + M)
        BY <1>1, <1>2
      <4>2. ((-1) * M + ((j - n) + M)) % M = (j - n) + M
        BY <4>1, <1>1, DivUnique
      <4>3. (0 * M + ((j - n) + M)) % M = (j - n) + M /\ 0 * M + ((j - n) + M) = (j - n) + M
        BY <4>1, <1>1, DivUnique
      <4> QED
        BY <4>1, <4>2, <4>3
    <3> QED
      BY <3>1, <3>2 DEF Add, Low, M
  <2> QED
    BY <1>1, <1>2, <1>3, <2>1, <2>2
<1>5. j >= n => k = j - n
  <2> SUFFICES ASSUME j >= n PROVE k = j - n
    OBVIOUS
  <2>1. j + (-n) = j - n /\ j - n \in 0 .. M - 1 /\ j \in Int /\ -n \in Int
    BY <1>1, <1>2
  <2>2. Add(j, -n) = j + (-n)
    BY <2>1, AddSmall
  <2> QED
    BY <1>3, <2>1, <2>2
<1>6. k \in 0 .. M - 1
  BY <1>2, <1>3, AddWord
<1> QED
  BY <1>1, <1>2, <1>4, <1>5, <1>6 DEF j, k

\* mem is old with the n bytes of x, then those of y, stored at a
StoresBoth(mem, old, a, n, x, y) ==
  \A c \in Cells :
    LET j == Low(c - a, XLEN)
    IN mem[c] = IF j < n THEN ByteOf(x, j) ELSE IF j < 2 * n THEN ByteOf(y, j - n) ELSE old[c]

LEMMA StoresTwice ==
  ASSUME NEW mem, NEW mid, NEW old, NEW a \in Int, NEW n \in 1 .. 16, NEW x, NEW y,
         Stores(mid, old, a, n, x), Stores(mem, mid, Add(a, n), n, y)
  PROVE  StoresBoth(mem, old, a, n, x, y)
<1> SUFFICES ASSUME NEW c \in Cells
             PROVE  LET j == Low(c - a, XLEN)
                    IN mem[c] = IF j < n THEN ByteOf(x, j) ELSE IF j < 2 * n THEN ByteOf(y, j - n) ELSE old[c]
  BY DEF StoresBoth
<1> DEFINE j == Low(c - a, XLEN)
           k == Low(c - Add(a, n), XLEN)
<1>1. c \in Int
  BY PagesAssumption DEF Cells
<1>2. /\ j \in Nat /\ k \in Nat
      /\ j < n => k >= n
      /\ j >= n => k = j - n
  <2>1. M \in Nat
    BY Widths
  <2>2. /\ j \in 0 .. M - 1 /\ k \in 0 .. M - 1
        /\ j < n => k >= n
        /\ j >= n => k = j - n
    BY <1>1, SecondHalf
  <2> HIDE DEF j, k
  <2> QED
    BY <2>1, <2>2
<1>3. /\ mid[c] = IF j < n THEN ByteOf(x, j) ELSE old[c]
      /\ mem[c] = IF k < n THEN ByteOf(y, k) ELSE mid[c]
  BY DEF Stores
<1> HIDE DEF j, k
<1>4. CASE j < n
  BY <1>2, <1>3, <1>4 DEF j
<1>5. CASE j >= n /\ j < 2 * n
  BY <1>2, <1>3, <1>5 DEF j
<1>6. CASE j >= 2 * n
  BY <1>2, <1>3, <1>6 DEF j
<1> QED
  BY <1>2, <1>4, <1>5, <1>6

-----------------------------------------------------------------------------
(* What a handler that does not fault makes of a state.                       *)

\* t has not faulted, and these are its parts
Is(t, r, v, pc, x, m) ==
  /\ "r" \in DOMAIN t /\ "v" \in DOMAIN t /\ "pc" \in DOMAIN t
  /\ "excl" \in DOMAIN t /\ "mem" \in DOMAIN t /\ "fault" \in DOMAIN t
  /\ t.fault = FALSE /\ t.r = r /\ t.v = v /\ t.pc = pc /\ t.excl = x /\ t.mem = m

\* The registers once the base has been written back
Back(r, i, a) ==
  CASE i.cond = modePre -> [r EXCEPT ![i.rn] = a]
    [] i.cond = modePost -> [r EXCEPT ![i.rn] = Add(a, i.imm)]
    [] OTHER -> r

LEMMA IsOf ==
  ASSUME NEW s \in CpuStates, ~s.fault
  PROVE  Is(s, s.r, s.v, s.pc, s.excl, s.mem)
  BY DEF Is, CpuStates

LEMMA IsParts ==
  ASSUME NEW t, NEW r, NEW v, NEW pc, NEW x, NEW m, Is(t, r, v, pc, x, m)
  PROVE  /\ \A k, y : Is(SetR(t, k, y), [r EXCEPT ![k] = y], v, pc, x, m)
         /\ \A k, y : Is(SetV(t, k, y), r, [v EXCEPT ![k] = y], pc, x, m)
         /\ Is(Done(t), r, v, Add(pc, 4), x, m)
         /\ \A a, n, y : Allowed("W", a, n) => Is(WriteN(t, a, n, y), r, v, pc, x, storeN(m, a, n, y))
         /\ \A a, n : Allowed("R", a, n) => Reads(t, a, n) = t
         /\ \A kind, a : guestPage(kind, a) => Check(t, kind, a) = t
         /\ \A a, n, y, z : Is(Monitor(t, a, n, y, z), r, v, pc,
                               [valid |-> TRUE, addr |-> a, size |-> n, val |-> y, val2 |-> z], m)
         /\ Is(Cleared(t), r, v, pc, [x EXCEPT !.valid = FALSE], m)
         /\ \A i, a : Is(writeback(t, i, a), Back(r, i, a), v, pc, x, m)
<1>1. t.fault = FALSE
  BY DEF Is
<1>2. \A k, y : Is(SetR(t, k, y), [r EXCEPT ![k] = y], v, pc, x, m)
  BY DEF SetR, Is
<1>3. \A k, y : Is(SetV(t, k, y), r, [v EXCEPT ![k] = y], pc, x, m)
  BY DEF SetV, Is
<1>4. Is(Done(t), r, v, Add(pc, 4), x, m)
  BY DEF Done, Is
<1>5. \A a, n, y : Allowed("W", a, n) => Is(WriteN(t, a, n, y), r, v, pc, x, storeN(m, a, n, y))
  BY DEF WriteN, Is
<1>6. \A a, n : Allowed("R", a, n) => Reads(t, a, n) = t
  BY <1>1 DEF Reads
<1>7. \A kind, a : guestPage(kind, a) => Check(t, kind, a) = t
  BY <1>1 DEF Check
<1>8. \A a, n, y, z : Is(Monitor(t, a, n, y, z), r, v, pc,
                         [valid |-> TRUE, addr |-> a, size |-> n, val |-> y, val2 |-> z], m)
  BY DEF Monitor, Is
<1>9. Is(Cleared(t), r, v, pc, [x EXCEPT !.valid = FALSE], m)
  BY DEF Cleared, Is
<1>10. \A i, a : Is(writeback(t, i, a), Back(r, i, a), v, pc, x, m)
  <2> TAKE i, a
  <2>1. modePre # modePost
    BY Modes
  <2>2. CASE i.cond = modePre
    <3>1. writeback(t, i, a) = SetR(t, i.rn, a) /\ Back(r, i, a) = [r EXCEPT ![i.rn] = a]
      BY <2>1, <2>2 DEF writeback, Back
    <3>2. Is(SetR(t, i.rn, a), [r EXCEPT ![i.rn] = a], v, pc, x, m)
      BY <1>2
    <3> QED
      BY <3>1, <3>2, Zenon
  <2>3. CASE i.cond = modePost
    <3>1. writeback(t, i, a) = SetR(t, i.rn, Add(a, i.imm)) /\ Back(r, i, a) = [r EXCEPT ![i.rn] = Add(a, i.imm)]
      BY <2>1, <2>3 DEF writeback, Back
    <3>2. Is(SetR(t, i.rn, Add(a, i.imm)), [r EXCEPT ![i.rn] = Add(a, i.imm)], v, pc, x, m)
      BY <1>2
    <3> QED
      BY <3>1, <3>2, Zenon
  <2>4. CASE i.cond # modePre /\ i.cond # modePost
    BY <2>4 DEF writeback, Back
  <2> QED
    BY <2>2, <2>3, <2>4
<1> QED
  BY <1>2, <1>3, <1>4, <1>5, <1>6, <1>7, <1>8, <1>9, <1>10

\* The checks of an allowed access
LEMMA AllowedParts ==
  ASSUME NEW kind, NEW a \in Word(XLEN), NEW n \in 1 .. 64, Span(kind, a, n)
  PROVE  Allowed(kind, a, n) /\ guestPage(kind, a) /\ guestPage(kind, Add(a, n - 1))
<1>1. Allowed(kind, a, n)
  BY SpanAllowed
<1>2. n - 1 \in 0 .. n - 1
  OBVIOUS
<1> QED
  BY <1>1, <1>2 DEF Span, Allowed

LEMMA AllowedHalves ==
  ASSUME NEW kind, NEW a \in Word(XLEN), NEW n \in 1 .. 32, Span(kind, a, 2 * n)
  PROVE  /\ Span(kind, a, n) /\ Span(kind, Add(a, n), n)
         /\ Allowed(kind, a, n) /\ Allowed(kind, Add(a, n), n) /\ guestPage(kind, a)
         /\ Add(a, n) \in Word(XLEN)
<1>1. n \in 1 .. 64 /\ a \in Int
  BY WordXLEN
<1>2. Add(a, n) \in Word(XLEN)
  BY <1>1, AddInWord
<1>3. Span(kind, a, n) /\ Span(kind, Add(a, n), n)
  BY <1>1, SpanSplit
<1> QED
  BY <1>1, <1>2, <1>3, AllowedParts

LEMMA IsChecked ==
  ASSUME NEW t, t.fault = FALSE, NEW a \in Word(XLEN), NEW n \in 1 .. 64, Span("W", a, n)
  PROVE  checkWrite(t, a, n) = t
<1>1. guestPage("W", a) /\ guestPage("W", Add(a, n - 1))
  BY AllowedParts
<1> QED
  BY <1>1 DEF checkWrite, Check

LEMMA IsRead ==
  ASSUME NEW t, t.fault = FALSE, NEW a \in Word(XLEN), NEW n \in 1 .. 32, Span("R", a, 2 * n)
  PROVE  Reads(Reads(Check(t, "R", a), a, n), Add(a, n), n) = t
<1>1. Allowed("R", a, n) /\ Allowed("R", Add(a, n), n) /\ guestPage("R", a)
  BY AllowedHalves
<1> QED
  BY <1>1 DEF Reads, Check

LEMMA IsWritten ==
  ASSUME NEW t, NEW r, NEW v, NEW pc, NEW x, NEW m, Is(t, r, v, pc, x, m),
         NEW a \in Word(XLEN), NEW n \in 1 .. 16, Span("W", a, 2 * n), NEW y, NEW z
  PROVE  LET m1 == storeN(m, a, n, y)
         IN Is(WriteN(WriteN(t, a, n, y), Add(a, n), n, z), r, v, pc, x, storeN(m1, Add(a, n), n, z))
<1>1. Allowed("W", a, n) /\ Allowed("W", Add(a, n), n)
  BY AllowedHalves
<1>2. Is(WriteN(t, a, n, y), r, v, pc, x, storeN(m, a, n, y))
  BY <1>1, IsParts
<1> QED
  BY <1>1, <1>2, IsParts

LEMMA IsvLoad ==
  ASSUME NEW t, NEW r, NEW v, NEW pc, NEW x, NEW m, Is(t, r, v, pc, x, m),
         NEW i, i.sz \in 1 .. 16, NEW a \in Word(XLEN), Span("R", a, i.sz)
  PROVE  Is(vLoad(t, i, a), r, [v EXCEPT ![i.rd] = ReadN(t, a, i.sz)], pc, x, m)
<1>1. t.fault = FALSE
  BY DEF Is
<1>2. CASE i.sz = 16
  <2>1. Span("R", a, 2 * 8) /\ 8 \in 1 .. 32
    BY <1>2
  <2>2. Reads(Reads(Check(t, "R", a), a, 8), Add(a, 8), 8) = t
    BY <1>1, <2>1, IsRead
  <2>3. vLoad(t, i, a) = SetV(t, i.rd, ReadN(t, a, i.sz))
    BY <1>2, <2>2 DEF vLoad
  <2>4. Is(SetV(t, i.rd, ReadN(t, a, i.sz)), r, [v EXCEPT ![i.rd] = ReadN(t, a, i.sz)], pc, x, m)
    BY IsParts
  <2> QED
    BY <2>3, <2>4, Zenon
<1>3. CASE i.sz # 16
  <2>1. Allowed("R", a, i.sz)
    <3>1. i.sz \in 1 .. 64
      OBVIOUS
    <3> QED
      BY <3>1, AllowedParts
  <2>2. Reads(t, a, i.sz) = t
    BY <2>1, IsParts
  <2>3. vLoad(t, i, a) = SetV(t, i.rd, ReadN(t, a, i.sz))
    BY <1>3, <2>2 DEF vLoad
  <2>4. Is(SetV(t, i.rd, ReadN(t, a, i.sz)), r, [v EXCEPT ![i.rd] = ReadN(t, a, i.sz)], pc, x, m)
    BY IsParts
  <2> QED
    BY <2>3, <2>4, Zenon
<1> QED
  BY <1>2, <1>3

\* A vector register is stored whole, in one piece or in two
LEMMA IsvStore ==
  ASSUME NEW t, NEW r, NEW v, NEW pc, NEW x, NEW m, Is(t, r, v, pc, x, m),
         NEW i, i.sz \in 1 .. 8 \/ i.sz = 16, NEW a \in Word(XLEN), Span("W", a, i.sz),
         v[i.rd] \in Nat
  PROVE  \E mem : Is(vStore(t, i, a), r, v, pc, x, mem) /\ Stores(mem, m, a, i.sz, v[i.rd])
<1> DEFINE y == v[i.rd]
<1>1. t.fault = FALSE /\ t.v = v
  BY DEF Is
<1>2. XLEN = ByteBits * 8 /\ a \in Int /\ XLEN \in Nat
  BY WordsAssumption, WordXLEN DEF XLEN
<1>0. ASSUME NEW c \in Cells PROVE Low(c - a, XLEN) \in Nat
  <2>1. c - a \in Int
    BY <1>2, PagesAssumption DEF Cells
  <2> QED
    BY <2>1, LowWord, Widths
<1>3. CASE i.sz = 16
  <2> DEFINE m1 == storeN(m, a, 8, Low(y, XLEN))
             mem == storeN(m1, Add(a, 8), 8, Lsr(y, XLEN))
  <2>1. Span("W", a, 2 * 8) /\ Span("W", a, 16) /\ 16 \in 1 .. 64 /\ 8 \in 1 .. 16
    BY <1>3
  <2>2. checkWrite(t, a, 16) = t
    BY <1>1, <2>1, IsChecked
  <2>3. vStore(t, i, a) = WriteN(WriteN(t, a, 8, Low(y, XLEN)), Add(a, 8), 8, Lsr(y, XLEN))
    BY <1>1, <1>3, <2>2 DEF vStore
  <2>4. Is(vStore(t, i, a), r, v, pc, x, mem)
    BY <2>1, <2>3, IsWritten
  <2>5. Stores(m1, m, a, 8, Low(y, XLEN)) /\ Stores(mem, m1, Add(a, 8), 8, Lsr(y, XLEN))
    BY storeNStores
  <2> HIDE DEF m1, mem, y
  <2>6. ASSUME NEW c \in Cells
        PROVE  mem[c] = IF Low(c - a, XLEN) < 16 THEN ByteOf(y, Low(c - a, XLEN)) ELSE m[c]
    <3> DEFINE j == Low(c - a, XLEN)
    <3>1. mem[c] = IF j < 8 THEN ByteOf(Low(y, XLEN), j)
                   ELSE IF j < 2 * 8 THEN ByteOf(Lsr(y, XLEN), j - 8) ELSE m[c]
      <4>1. StoresBoth(mem, m, a, 8, Low(y, XLEN), Lsr(y, XLEN))
        BY <1>2, <2>1, <2>5, StoresTwice
      <4> QED
        BY <4>1 DEF StoresBoth
    <3>2. j \in Nat
      BY <1>0
    <3> HIDE DEF j
    <3>3. j < 8 => ByteOf(Low(y, XLEN), j) = ByteOf(y, j)
      BY <1>2, <3>2, ByteOfLow DEF y
    <3>4. j >= 8 /\ j < 16 => ByteOf(Lsr(y, XLEN), j - 8) = ByteOf(y, j)
      <4> SUFFICES ASSUME j >= 8, j < 16 PROVE ByteOf(Lsr(y, XLEN), j - 8) = ByteOf(y, j)
        OBVIOUS
      <4>1. j - 8 \in Nat /\ (j - 8) + 8 <= 16 /\ 8 + (j - 8) = j
        BY <3>2
      <4> QED
        BY <1>2, <4>1, ByteOfLsr DEF y
    <3> QED
      BY <3>1, <3>2, <3>3, <3>4 DEF j
  <2> QED
    BY <1>3, <2>4, <2>6 DEF Stores, y
<1>4. CASE i.sz \in 1 .. 8
  <2> DEFINE mem == storeN(m, a, i.sz, Low(y, XLEN))
  <2>1. Allowed("W", a, i.sz)
    <3>1. i.sz \in 1 .. 64
      BY <1>4
    <3> QED
      BY <3>1, AllowedParts
  <2>2. vStore(t, i, a) = WriteN(t, a, i.sz, Low(y, XLEN))
    BY <1>1, <1>4 DEF vStore
  <2>3. Is(vStore(t, i, a), r, v, pc, x, mem)
    <3>1. Is(WriteN(t, a, i.sz, Low(y, XLEN)), r, v, pc, x, storeN(m, a, i.sz, Low(y, XLEN)))
      BY <2>1, IsParts
    <3> QED
      BY <2>2, <3>1, Zenon
  <2>4. Stores(mem, m, a, i.sz, Low(y, XLEN))
    BY storeNStores
  <2> HIDE DEF mem, y
  <2>5. ASSUME NEW c \in Cells
        PROVE  mem[c] = IF Low(c - a, XLEN) < i.sz THEN ByteOf(y, Low(c - a, XLEN)) ELSE m[c]
    <3> DEFINE j == Low(c - a, XLEN)
    <3>1. mem[c] = IF j < i.sz THEN ByteOf(Low(y, XLEN), j) ELSE m[c]
      BY <2>4 DEF Stores
    <3>2. j \in Nat
      BY <1>0
    <3> HIDE DEF j
    <3>3. j < 8 => ByteOf(Low(y, XLEN), j) = ByteOf(y, j)
      BY <1>2, <3>2, ByteOfLow DEF y
    <3> QED
      BY <1>4, <3>1, <3>2, <3>3 DEF j
  <2> QED
    BY <2>3, <2>5 DEF Stores, y
<1> QED
  BY <1>3, <1>4

LEMMA BackNone ==
  ASSUME NEW r, NEW i, i.cond \in {modeOff, modeReg}, NEW a
  PROVE  Back(r, i, a) = r
  BY Modes DEF Back

LEMMA LoadsIntoRegister ==
  ASSUME NEW s \in CpuStates, ~s.fault, NEW i, Operands(i), NEW hit, i.fn \in IntLoads,
         i.fn # "opLoad" => i.sh = extZero, Span("R", addrFor(s, i), i.sz)
  PROVE  LET a == addrFor(s, i)
             q == [s.r EXCEPT ![i.rd] = Extended(i, ReadN(s, a, i.sz))]
         IN Is(Exec(s, i, hit), Back(q, i, a), s.v, Add(s.pc, 4), s.excl, s.mem)
<1> DEFINE a == addrFor(s, i)
           w == ReadN(s, a, i.sz)
           y == Extended(i, w)
           q == [s.r EXCEPT ![i.rd] = y]
<1>1. i \in Insts /\ i.sz \in 1 .. 8 /\ Addressed(i) /\ i.sz \in 1 .. 64
  BY DEF Operands, Singles, IntLoads
<1>2. a \in Word(XLEN)
  BY <1>1, addrForWord
<1>3. Is(s, s.r, s.v, s.pc, s.excl, s.mem)
  BY IsOf
<1>4. Allowed("R", a, i.sz)
  BY <1>1, <1>2, AllowedParts
<1> HIDE DEF a, w
<1>5. Reads(s, a, i.sz) = s
  BY <1>3, <1>4, IsParts
<1>6. Is(SetR(s, i.rd, y), q, s.v, s.pc, s.excl, s.mem)
  BY <1>3, IsParts
<1> HIDE DEF q, y
<1>7. CASE i.fn = "opLoad"
  <2>1. Exec(s, i, hit) = Done(writeback(SetR(s, i.rd, y), i, a))
    BY <1>5, <1>7 DEF Exec, opLoad, ldInt, a, y, w
  <2>2. Is(writeback(SetR(s, i.rd, y), i, a), Back(q, i, a), s.v, s.pc, s.excl, s.mem)
    BY <1>6, IsParts
  <2>3. Is(Done(writeback(SetR(s, i.rd, y), i, a)), Back(q, i, a), s.v, Add(s.pc, 4), s.excl, s.mem)
    BY <2>2, IsParts
  <2> QED
    BY <2>1, <2>3 DEF a, q, y, w
<1>8. CASE i.fn # "opLoad"
  <2>1. y = w
    BY <1>8 DEF y, Extended, extZero, extSign, extSign32
  <2>2. i.fn \in {"opLdrOff", "opLdrReg"}
    BY <1>8 DEF IntLoads
  <2>3. Exec(s, i, hit) = HotLoad(s, i, a, hit)
    BY <2>2, HotAddress DEF Exec, opLdrOff, opLdrReg, a
  <2>4. Exec(s, i, hit) = Done(SetR(s, i.rd, y))
    BY <1>5, <2>1, <2>3 DEF HotLoad, w
  <2>5. Is(Done(SetR(s, i.rd, y)), q, s.v, Add(s.pc, 4), s.excl, s.mem)
    BY <1>6, IsParts
  <2>6. Back(q, i, a) = q
    BY <2>2, BackNone DEF Operands
  <2> QED
    BY <2>4, <2>5, <2>6 DEF a, q, y, w
<1> QED
  BY <1>7, <1>8

LEMMA StoresRegister ==
  ASSUME NEW s \in CpuStates, ~s.fault, NEW i, Operands(i), NEW hit, i.fn \in IntStores,
         Span("W", addrFor(s, i), i.sz)
  PROVE  LET a == addrFor(s, i)
         IN Is(Exec(s, i, hit), Back(s.r, i, a), s.v, Add(s.pc, 4), s.excl,
               storeN(s.mem, a, i.sz, s.r[i.rd]))
<1> DEFINE a == addrFor(s, i)
           y == s.r[i.rd]
           m == storeN(s.mem, a, i.sz, y)
           t == WriteN(s, a, i.sz, y)
<1>1. i \in Insts /\ i.sz \in 1 .. 8 /\ Addressed(i) /\ i.sz \in 1 .. 64
  BY DEF Operands, Singles, IntStores
<1>2. a \in Word(XLEN)
  BY <1>1, addrForWord
<1>3. Is(s, s.r, s.v, s.pc, s.excl, s.mem)
  BY IsOf
<1>4. Allowed("W", a, i.sz)
  BY <1>1, <1>2, AllowedParts
<1> HIDE DEF a, y
<1>5. Is(t, s.r, s.v, s.pc, s.excl, m)
  BY <1>3, <1>4, IsParts
<1>6. t = [s EXCEPT !.mem = m]
  BY <1>4 DEF WriteN
<1> HIDE DEF t
<1>7. CASE i.fn = "opStore"
  <2>1. Exec(s, i, hit) = Done(writeback(t, i, a))
    BY <1>7 DEF Exec, opStore, a, y, t
  <2> HIDE DEF m
  <2>2. Is(writeback(t, i, a), Back(s.r, i, a), s.v, s.pc, s.excl, m)
    BY <1>5, IsParts
  <2>3. Is(Done(writeback(t, i, a)), Back(s.r, i, a), s.v, Add(s.pc, 4), s.excl, m)
    BY <2>2, IsParts
  <2> QED
    BY <2>1, <2>3 DEF a, y, m
<1>8. CASE i.fn # "opStore"
  <2>1. i.fn \in {"opStrOff", "opStrReg"}
    BY <1>8 DEF IntStores
  <2>2. Exec(s, i, hit) = HotStore(s, i, a, hit)
    BY <2>1, HotAddress DEF Exec, opStrOff, opStrReg, a
  <2>3. Exec(s, i, hit) = Done(t)
    BY <1>6, <2>2 DEF HotStore, t, y
  <2> HIDE DEF m
  <2>4. Is(Done(t), s.r, s.v, Add(s.pc, 4), s.excl, m)
    BY <1>5, IsParts
  <2>5. Back(s.r, i, a) = s.r
    BY <2>1, BackNone DEF Operands
  <2> QED
    BY <2>3, <2>4, <2>5 DEF a, y, m
<1> QED
  BY <1>7, <1>8

LEMMA LoadsIntoVector ==
  ASSUME NEW s \in CpuStates, ~s.fault, NEW i, Operands(i), NEW hit, i.fn = "opVLoad",
         Span("R", addrFor(s, i), i.sz)
  PROVE  LET a == addrFor(s, i)
         IN Is(Exec(s, i, hit), Back(s.r, i, a), [s.v EXCEPT ![i.rd] = ReadN(s, a, i.sz)],
               Add(s.pc, 4), s.excl, s.mem)
<1> DEFINE a == addrFor(s, i)
           q == [s.v EXCEPT ![i.rd] = ReadN(s, a, i.sz)]
           t == vLoad(s, i, a)
<1>1. i \in Insts /\ i.sz \in 1 .. 16 /\ Addressed(i)
  BY DEF Operands, VSingles
<1>2. a \in Word(XLEN)
  BY <1>1, addrForWord
<1>3. Is(s, s.r, s.v, s.pc, s.excl, s.mem)
  BY IsOf
<1>4. Is(t, s.r, q, s.pc, s.excl, s.mem)
  BY <1>1, <1>2, <1>3, IsvLoad
<1>5. Exec(s, i, hit) = Done(writeback(t, i, a))
  BY DEF Exec, opVLoad
<1> HIDE DEF a, q, t
<1>6. Is(writeback(t, i, a), Back(s.r, i, a), q, s.pc, s.excl, s.mem)
  BY <1>4, IsParts
<1>7. Is(Done(writeback(t, i, a)), Back(s.r, i, a), q, Add(s.pc, 4), s.excl, s.mem)
  BY <1>6, IsParts
<1> QED
  BY <1>5, <1>7 DEF a, q

LEMMA StoresVector ==
  ASSUME NEW s \in CpuStates, ~s.fault, NEW i, Operands(i), NEW hit, i.fn = "opVStore",
         i.sz \in 1 .. 8 \/ i.sz = 16, Span("W", addrFor(s, i), i.sz)
  PROVE  LET a == addrFor(s, i)
         IN \E mem : /\ Is(Exec(s, i, hit), Back(s.r, i, a), s.v, Add(s.pc, 4), s.excl, mem)
                     /\ Stores(mem, s.mem, a, i.sz, s.v[i.rd])
<1> DEFINE a == addrFor(s, i)
           t == vStore(s, i, a)
<1>1. i \in Insts /\ Addressed(i) /\ i.rd \in VRegs
  BY DEF Operands, VSingles
<1>2. a \in Word(XLEN)
  BY <1>1, addrForWord
<1>3. Is(s, s.r, s.v, s.pc, s.excl, s.mem)
  BY IsOf
<1>4. s.v[i.rd] \in Nat
  <2>1. s.v[i.rd] \in Word(2 * XLEN) /\ 2^(2 * XLEN) \in Nat
    <3>1. 2 * XLEN \in 0 .. 2 * XLEN
      BY Widths
    <3> QED
      BY <1>1, <3>1, Power DEF CpuStates
  <2> QED
    BY <2>1 DEF Word
<1>5. PICK mem : Is(t, s.r, s.v, s.pc, s.excl, mem) /\ Stores(mem, s.mem, a, i.sz, s.v[i.rd])
  BY <1>1, <1>2, <1>3, <1>4, IsvStore
<1>6. Exec(s, i, hit) = Done(writeback(t, i, a))
  BY DEF Exec, opVStore
<1> HIDE DEF a, t
<1>7. Is(writeback(t, i, a), Back(s.r, i, a), s.v, s.pc, s.excl, mem)
  BY <1>5, IsParts
<1>8. Is(Done(writeback(t, i, a)), Back(s.r, i, a), s.v, Add(s.pc, 4), s.excl, mem)
  BY <1>7, IsParts
<1> QED
  BY <1>5, <1>6, <1>8 DEF a

LEMMA LoadsPair ==
  ASSUME NEW s \in CpuStates, ~s.fault, NEW i, Operands(i), NEW hit, i.fn \in {"opLoadPair", "opLdp64Off"},
         i.fn = "opLdp64Off" => i.sh = extZero, Span("R", addrFor(s, i), 2 * i.sz)
  PROVE  LET a == addrFor(s, i)
             y == Extended(i, ReadN(s, a, i.sz))
             z == Extended(i, ReadN(s, Add(a, i.sz), i.sz))
             q == [[s.r EXCEPT ![i.rd] = y] EXCEPT ![i.ra] = z]
         IN Is(Exec(s, i, hit), Back(q, i, a), s.v, Add(s.pc, 4), s.excl, s.mem)
<1> DEFINE a == addrFor(s, i)
           y == Extended(i, ReadN(s, a, i.sz))
           z == Extended(i, ReadN(s, Add(a, i.sz), i.sz))
           p == [s.r EXCEPT ![i.rd] = y]
           q == [p EXCEPT ![i.ra] = z]
           t == SetR(s, i.rd, y)
           u == SetR(t, i.ra, z)
<1>1. i \in Insts /\ i.sz \in 1 .. 8 /\ Addressed(i) /\ i.sz \in 1 .. 32
  BY DEF Operands, Pairs
<1>2. a \in Word(XLEN)
  BY <1>1, addrForWord
<1>3. Is(s, s.r, s.v, s.pc, s.excl, s.mem) /\ s.fault = FALSE
  BY IsOf DEF Is
<1>4. Is(t, p, s.v, s.pc, s.excl, s.mem)
  BY <1>3, IsParts
<1>5. Is(u, q, s.v, s.pc, s.excl, s.mem)
  <2> HIDE DEF p, t
  <2> QED
    BY <1>4, IsParts
<1>6. CASE i.fn = "opLoadPair"
  <2>1. Reads(Reads(Check(s, "R", a), a, i.sz), Add(a, i.sz), i.sz) = s
    BY <1>1, <1>2, <1>3, IsRead
  <2>2. Exec(s, i, hit) = Done(writeback(u, i, a))
    BY <1>6, <2>1 DEF Exec, opLoadPair
  <2> HIDE DEF a, p, q, t, u, y, z
  <2>3. Is(writeback(u, i, a), Back(q, i, a), s.v, s.pc, s.excl, s.mem)
    BY <1>5, IsParts
  <2>4. Is(Done(writeback(u, i, a)), Back(q, i, a), s.v, Add(s.pc, 4), s.excl, s.mem)
    BY <2>3, IsParts
  <2> QED
    BY <2>2, <2>4 DEF a, p, q, y, z
<1>7. CASE i.fn = "opLdp64Off"
  <2>1. i.sz = 8 /\ i.cond = modeOff
    BY <1>7 DEF Operands
  <2>2. y = ReadN(s, a, 8) /\ z = ReadN(s, Add(a, 8), 8)
    BY <1>7, <2>1 DEF Extended, extZero, extSign, extSign32
  <2>3. Allowed("R", a, 8) /\ Allowed("R", Add(a, 8), 8) /\ guestPage("R", a)
    <3>1. Span("R", a, 2 * i.sz) /\ i.sz = 8
      BY <2>1
    <3> QED
      BY <1>1, <1>2, <3>1, AllowedHalves
  <2>4. Reads(Check(s, "R", a), a, 8) = s
    BY <1>3, <2>3 DEF Reads, Check
  <2>5. Reads(t, Add(a, 8), 8) = t
    <3> HIDE DEF a, p, t
    <3> QED
      BY <1>4, <2>3, IsParts
  <2>6. Exec(s, i, hit) = Done(SetR(t, i.ra, z))
    BY <1>7, <2>2, <2>4, <2>5 DEF Exec, opLdp64Off
  <2>7. Back(q, i, a) = q
    BY <2>1, BackNone
  <2> HIDE DEF a, p, q, t, u, y, z
  <2>8. Is(Done(u), q, s.v, Add(s.pc, 4), s.excl, s.mem)
    BY <1>5, IsParts
  <2> QED
    BY <2>6, <2>7, <2>8 DEF a, p, q, u, y, z
<1> QED
  BY <1>6, <1>7

LEMMA StoresPair ==
  ASSUME NEW s \in CpuStates, ~s.fault, NEW i, Operands(i), NEW hit, i.fn \in {"opStorePair", "opStp64Off"},
         Span("W", addrFor(s, i), 2 * i.sz)
  PROVE  LET a == addrFor(s, i)
         IN \E mem : /\ Is(Exec(s, i, hit), Back(s.r, i, a), s.v, Add(s.pc, 4), s.excl, mem)
                     /\ StoresBoth(mem, s.mem, a, i.sz, s.r[i.rd], s.r[i.ra])
<1> DEFINE a == addrFor(s, i)
           y == s.r[i.rd]
           z == s.r[i.ra]
           m1 == storeN(s.mem, a, i.sz, y)
           mem == storeN(m1, Add(a, i.sz), i.sz, z)
           t == WriteN(WriteN(s, a, i.sz, y), Add(a, i.sz), i.sz, z)
<1>1. i \in Insts /\ i.sz \in 1 .. 8 /\ Addressed(i) /\ i.sz \in 1 .. 16 /\ 2 * i.sz \in 1 .. 64
  BY DEF Operands, Pairs
<1>2. a \in Word(XLEN) /\ a \in Int
  BY <1>1, addrForWord
<1>3. Is(s, s.r, s.v, s.pc, s.excl, s.mem) /\ s.fault = FALSE
  BY IsOf DEF Is
<1>4. StoresBoth(mem, s.mem, a, i.sz, y, z)
  BY <1>1, <1>2, storeNStores, StoresTwice
<1>5. Is(t, s.r, s.v, s.pc, s.excl, mem)
  BY <1>1, <1>2, <1>3, IsWritten
<1>6. checkWrite(s, a, 2 * i.sz) = s
  BY <1>1, <1>2, <1>3, IsChecked
<1>7. CASE i.fn = "opStorePair"
  <2>1. Exec(s, i, hit) = Done(writeback(t, i, a))
    BY <1>6, <1>7 DEF Exec, opStorePair
  <2> HIDE DEF a, mem, t
  <2>2. Is(writeback(t, i, a), Back(s.r, i, a), s.v, s.pc, s.excl, mem)
    BY <1>5, IsParts
  <2>3. Is(Done(writeback(t, i, a)), Back(s.r, i, a), s.v, Add(s.pc, 4), s.excl, mem)
    BY <2>2, IsParts
  <2> QED
    BY <1>4, <2>1, <2>3 DEF a
<1>8. CASE i.fn = "opStp64Off"
  <2>1. i.sz = 8 /\ i.cond = modeOff
    BY <1>8 DEF Operands
  <2>2. t = [s EXCEPT !.mem = mem]
    <3>1. Allowed("W", a, i.sz) /\ Allowed("W", Add(a, i.sz), i.sz)
      <4>1. i.sz \in 1 .. 32
        BY <1>1
      <4> QED
        BY <1>2, <4>1, AllowedHalves
    <3>2. WriteN(s, a, i.sz, y) = [s EXCEPT !.mem = m1]
      BY <1>3, <3>1 DEF WriteN
    <3> HIDE DEF m1
    <3> QED
      BY <1>3, <3>1, <3>2 DEF WriteN, CpuStates
  <2>3. Exec(s, i, hit) = Done(IF hit /\ Inside(a, 16) THEN [s EXCEPT !.mem = mem] ELSE t)
    BY <1>6, <1>8, <2>1 DEF Exec, opStp64Off
  <2>4. Exec(s, i, hit) = Done(t)
    BY <2>2, <2>3
  <2>5. Back(s.r, i, a) = s.r
    BY <2>1, BackNone
  <2> HIDE DEF a, mem, t
  <2>6. Is(Done(t), s.r, s.v, Add(s.pc, 4), s.excl, mem)
    BY <1>5, IsParts
  <2> QED
    BY <1>4, <2>4, <2>5, <2>6 DEF a
<1> QED
  BY <1>7, <1>8

LEMMA VectorNat ==
  ASSUME NEW s \in CpuStates, NEW x \in VRegs
  PROVE  s.v[x] \in Nat /\ s.v[x] \in Word(2 * XLEN)
<1>1. 2 * XLEN \in 0 .. 2 * XLEN
  BY Widths
<1>2. s.v[x] \in Word(2 * XLEN) /\ 2^(2 * XLEN) \in Nat
  BY <1>1, Power DEF CpuStates
<1> QED
  BY <1>2 DEF Word

LEMMA LoadsVectorPair ==
  ASSUME NEW s \in CpuStates, ~s.fault, NEW i, Operands(i), NEW hit, i.fn = "opVLoadPair",
         Span("R", addrFor(s, i), 2 * i.sz)
  PROVE  LET a == addrFor(s, i)
             q == [[s.v EXCEPT ![i.rd] = ReadN(s, a, i.sz)] EXCEPT ![i.ra] = ReadN(s, Add(a, i.sz), i.sz)]
         IN Is(Exec(s, i, hit), Back(s.r, i, a), q, Add(s.pc, 4), s.excl, s.mem)
<1> DEFINE a == addrFor(s, i)
           b == Add(a, i.sz)
           half == [i EXCEPT !.rd = i.ra]
           p == [s.v EXCEPT ![i.rd] = ReadN(s, a, i.sz)]
           q == [p EXCEPT ![i.ra] = ReadN(s, b, i.sz)]
           t == vLoad(s, i, a)
           u == vLoad(t, half, b)
<1>1. i \in Insts /\ i.sz \in 1 .. 16 /\ Addressed(i) /\ i.sz \in 1 .. 32
  BY DEF Operands, VPairs
<1>2. a \in Word(XLEN)
  BY <1>1, addrForWord
<1>3. Span("R", a, i.sz) /\ Span("R", b, i.sz) /\ b \in Word(XLEN)
  BY <1>1, <1>2, AllowedHalves
<1>4. half.sz = i.sz /\ half.rd = i.ra
  BY <1>1 DEF Insts
<1>5. Is(s, s.r, s.v, s.pc, s.excl, s.mem)
  BY IsOf
<1>6. Is(t, s.r, p, s.pc, s.excl, s.mem)
  BY <1>1, <1>2, <1>3, <1>5, IsvLoad
<1>7. Exec(s, i, hit) = Done(writeback(u, i, a))
  BY DEF Exec, opVLoadPair
<1>8. t.mem = s.mem
  BY <1>6 DEF Is
<1>9. ReadN(t, b, i.sz) = ReadN(s, b, i.sz)
  BY <1>8 DEF ReadN
<1> HIDE DEF a, b, half, p, t
<1>10. Is(u, s.r, [p EXCEPT ![half.rd] = ReadN(t, b, half.sz)], s.pc, s.excl, s.mem)
  BY <1>1, <1>3, <1>4, <1>6, IsvLoad
<1>11. Is(u, s.r, q, s.pc, s.excl, s.mem)
  BY <1>4, <1>9, <1>10
<1> HIDE DEF q, u
<1>12. Is(writeback(u, i, a), Back(s.r, i, a), q, s.pc, s.excl, s.mem)
  BY <1>11, IsParts
<1>13. Is(Done(writeback(u, i, a)), Back(s.r, i, a), q, Add(s.pc, 4), s.excl, s.mem)
  BY <1>12, IsParts
<1> QED
  BY <1>7, <1>13 DEF a, b, p, q

LEMMA StoresVectorPair ==
  ASSUME NEW s \in CpuStates, ~s.fault, NEW i, Operands(i), NEW hit, i.fn = "opVStorePair",
         i.sz \in 1 .. 8 \/ i.sz = 16, Span("W", addrFor(s, i), 2 * i.sz)
  PROVE  LET a == addrFor(s, i)
         IN \E mem : /\ Is(Exec(s, i, hit), Back(s.r, i, a), s.v, Add(s.pc, 4), s.excl, mem)
                     /\ StoresBoth(mem, s.mem, a, i.sz, s.v[i.rd], s.v[i.ra])
<1> DEFINE a == addrFor(s, i)
           b == Add(a, i.sz)
           half == [i EXCEPT !.rd = i.ra]
           t == vStore(s, i, a)
           u == vStore(t, half, b)
<1>1. i \in Insts /\ Addressed(i) /\ i.sz \in 1 .. 16 /\ i.sz \in 1 .. 32 /\ 2 * i.sz \in 1 .. 64
      /\ i.rd \in VRegs /\ i.ra \in VRegs
  BY DEF Operands, VPairs
<1>2. a \in Word(XLEN) /\ a \in Int
  BY <1>1, addrForWord
<1>3. Span("W", a, i.sz) /\ Span("W", b, i.sz) /\ b \in Word(XLEN)
  BY <1>1, <1>2, AllowedHalves
<1>4. half.sz = i.sz /\ half.rd = i.ra
  BY <1>1 DEF Insts
<1>5. Is(s, s.r, s.v, s.pc, s.excl, s.mem) /\ s.fault = FALSE
  BY IsOf DEF Is
<1>6. s.v[i.rd] \in Nat /\ s.v[i.ra] \in Nat
  BY <1>1, VectorNat
<1>7. checkWrite(s, a, 2 * i.sz) = s
  BY <1>1, <1>2, <1>5, IsChecked
<1>8. PICK m1 : Is(t, s.r, s.v, s.pc, s.excl, m1) /\ Stores(m1, s.mem, a, i.sz, s.v[i.rd])
  BY <1>2, <1>3, <1>5, <1>6, IsvStore
<1>9. Exec(s, i, hit) = Done(writeback(u, i, a))
  BY <1>7 DEF Exec, opVStorePair
<1> HIDE DEF a, b, half, t
<1>10. half.sz \in 1 .. 8 \/ half.sz = 16
  BY <1>4
<1>11. Span("W", b, half.sz) /\ s.v[half.rd] \in Nat
  BY <1>3, <1>4, <1>6
<1>12. PICK mem : Is(u, s.r, s.v, s.pc, s.excl, mem) /\ Stores(mem, m1, b, half.sz, s.v[half.rd])
  BY <1>3, <1>8, <1>10, <1>11, IsvStore
<1>13. Stores(mem, m1, Add(a, i.sz), i.sz, s.v[i.ra])
  BY <1>4, <1>12 DEF b
<1>14. StoresBoth(mem, s.mem, a, i.sz, s.v[i.rd], s.v[i.ra])
  BY <1>1, <1>2, <1>8, <1>13, StoresTwice
<1> HIDE DEF u
<1>15. Is(writeback(u, i, a), Back(s.r, i, a), s.v, s.pc, s.excl, mem)
  BY <1>12, IsParts
<1>16. Is(Done(writeback(u, i, a)), Back(s.r, i, a), s.v, Add(s.pc, 4), s.excl, mem)
  BY <1>15, IsParts
<1> QED
  BY <1>9, <1>14, <1>16 DEF a

\* The monitor as an exclusive load of n bytes at a sets it
Marks(x, a, n) == x.valid = TRUE /\ x.addr = a /\ x.size = n

LEMMA LoadsExclusiveOne ==
  ASSUME NEW s \in CpuStates, ~s.fault, NEW i, Operands(i), NEW hit, i.fn = "opLdxr",
         Span("R", s.r[i.rn], i.sz)
  PROVE  LET a == s.r[i.rn]
             q == [s.r EXCEPT ![i.rd] = ReadN(s, a, i.sz)]
         IN \E x : Is(Exec(s, i, hit), q, s.v, Add(s.pc, 4), x, s.mem) /\ Marks(x, a, i.sz)
<1> DEFINE a == s.r[i.rn]
           y == ReadN(s, a, i.sz)
           q == [s.r EXCEPT ![i.rd] = y]
           x == [valid |-> TRUE, addr |-> a, size |-> i.sz, val |-> y, val2 |-> s.excl.val2]
           t == SetR(s, i.rd, y)
           u == Monitor(t, a, i.sz, y, s.excl.val2)
<1>1. i.sz \in 1 .. 64 /\ i.rn \in XRegs
  BY DEF Operands, Exclusives
<1>2. a \in Word(XLEN)
  BY <1>1, RegisterWord
<1>3. Is(s, s.r, s.v, s.pc, s.excl, s.mem)
  BY IsOf
<1>4. Allowed("R", a, i.sz)
  BY <1>1, <1>2, AllowedParts
<1>5. Reads(s, a, i.sz) = s
  BY <1>3, <1>4, IsParts
<1>6. Exec(s, i, hit) = Done(u)
  BY <1>5 DEF Exec, opLdxr
<1>7. Marks(x, a, i.sz)
  BY DEF Marks
<1>8. Is(t, q, s.v, s.pc, s.excl, s.mem)
  BY <1>3, IsParts
<1> HIDE DEF a, y, q, t
<1>9. Is(u, q, s.v, s.pc, x, s.mem)
  BY <1>8, IsParts
<1> HIDE DEF u, x
<1>10. Is(Done(u), q, s.v, Add(s.pc, 4), x, s.mem)
  BY <1>9, IsParts
<1> QED
  BY <1>6, <1>7, <1>10 DEF a, q, y

LEMMA LoadsExclusivePair ==
  ASSUME NEW s \in CpuStates, ~s.fault, NEW i, Operands(i), NEW hit, i.fn = "opLdxp",
         Span("R", s.r[i.rn], 2 * i.sz)
  PROVE  LET a == s.r[i.rn]
             q == [[s.r EXCEPT ![i.rd] = ReadN(s, a, i.sz)] EXCEPT ![i.rm] = ReadN(s, Add(a, i.sz), i.sz)]
         IN \E x : Is(Exec(s, i, hit), q, s.v, Add(s.pc, 4), x, s.mem) /\ Marks(x, a, 2 * i.sz)
<1> DEFINE a == s.r[i.rn]
           y == ReadN(s, a, i.sz)
           z == ReadN(s, Add(a, i.sz), i.sz)
           p == [s.r EXCEPT ![i.rd] = y]
           q == [p EXCEPT ![i.rm] = z]
           x == [valid |-> TRUE, addr |-> a, size |-> 2 * i.sz, val |-> y, val2 |-> z]
           t == SetR(s, i.rd, y)
           w == SetR(t, i.rm, z)
           u == Monitor(w, a, 2 * i.sz, y, z)
<1>1. i.sz \in 1 .. 32 /\ i.rn \in XRegs
  BY DEF Operands, Exclusives
<1>2. a \in Word(XLEN)
  BY <1>1, RegisterWord
<1>3. Is(s, s.r, s.v, s.pc, s.excl, s.mem) /\ s.fault = FALSE
  BY IsOf DEF Is
<1>4. Reads(Reads(Check(s, "R", a), a, i.sz), Add(a, i.sz), i.sz) = s
  BY <1>1, <1>2, <1>3, IsRead
<1>5. Exec(s, i, hit) = Done(u)
  BY <1>4 DEF Exec, opLdxp
<1>6. Marks(x, a, 2 * i.sz)
  BY DEF Marks
<1>7. Is(t, p, s.v, s.pc, s.excl, s.mem)
  BY <1>3, IsParts
<1> HIDE DEF a, y, z, p, t
<1>8. Is(w, q, s.v, s.pc, s.excl, s.mem)
  BY <1>7, IsParts
<1> HIDE DEF q, w
<1>9. Is(u, q, s.v, s.pc, x, s.mem)
  BY <1>8, IsParts
<1> HIDE DEF u, x
<1>10. Is(Done(u), q, s.v, Add(s.pc, 4), x, s.mem)
  BY <1>9, IsParts
<1> QED
  BY <1>5, <1>6, <1>10 DEF a, q, p, y, z

LEMMA StoresExclusiveOne ==
  ASSUME NEW s \in CpuStates, ~s.fault, NEW i, Operands(i), NEW hit, i.fn = "opStxr",
         exclusiveOK(s, s.r[i.rn], i.sz) => Span("W", s.r[i.rn], i.sz)
  PROVE  LET a == s.r[i.rn]
             q(y) == [s.r EXCEPT ![i.ra] = y]
             x == [s.excl EXCEPT !.valid = FALSE]
         IN IF exclusiveOK(s, a, i.sz)
            THEN Is(Exec(s, i, hit), q(0), s.v, Add(s.pc, 4), x, storeN(s.mem, a, i.sz, s.r[i.rd]))
            ELSE Is(Exec(s, i, hit), q(1), s.v, Add(s.pc, 4), x, s.mem)
<1> DEFINE a == s.r[i.rn]
           q(y) == [s.r EXCEPT ![i.ra] = y]
           q0 == q(0)
           q1 == q(1)
           x == [s.excl EXCEPT !.valid = FALSE]
           m == storeN(s.mem, a, i.sz, s.r[i.rd])
           t == Cleared(s)
           w == WriteN(t, a, i.sz, s.r[i.rd])
<1>1. i.sz \in 1 .. 64 /\ i.rn \in XRegs
  BY DEF Operands, Exclusives
<1>2. a \in Word(XLEN)
  BY <1>1, RegisterWord
<1>3. Is(s, s.r, s.v, s.pc, s.excl, s.mem)
  BY IsOf
<1>4. Is(t, s.r, s.v, s.pc, x, s.mem)
  BY <1>3, IsParts
<1>5. Exec(s, i, hit) = Done(IF exclusiveOK(s, a, i.sz) THEN SetR(w, i.ra, 0) ELSE SetR(t, i.ra, 1))
  BY DEF Exec, opStxr
<1>6. CASE exclusiveOK(s, a, i.sz)
  <2>1. Allowed("W", a, i.sz)
    BY <1>1, <1>2, <1>6, AllowedParts
  <2>2. Is(w, s.r, s.v, s.pc, x, m)
    <3> HIDE DEF a, t, x
    <3> QED
      BY <1>4, <2>1, IsParts
  <2> HIDE DEF w, x, m
  <2>3. Is(SetR(w, i.ra, 0), q0, s.v, s.pc, x, m)
    BY <2>2, IsParts
  <2> HIDE DEF q0
  <2>4. Is(Done(SetR(w, i.ra, 0)), q0, s.v, Add(s.pc, 4), x, m)
    BY <2>3, IsParts
  <2>5. Exec(s, i, hit) = Done(SetR(w, i.ra, 0))
    BY <1>5, <1>6
  <2> QED
    BY <1>6, <2>4, <2>5 DEF q0, x, m
<1>7. CASE ~exclusiveOK(s, a, i.sz)
  <2> HIDE DEF t, x
  <2>1. Is(SetR(t, i.ra, 1), q1, s.v, s.pc, x, s.mem)
    BY <1>4, IsParts
  <2> HIDE DEF q1
  <2>2. Is(Done(SetR(t, i.ra, 1)), q1, s.v, Add(s.pc, 4), x, s.mem)
    BY <2>1, IsParts
  <2>3. Exec(s, i, hit) = Done(SetR(t, i.ra, 1))
    BY <1>5, <1>7
  <2> QED
    BY <1>7, <2>2, <2>3 DEF q1, x
<1> QED
  BY <1>6, <1>7

LEMMA StoresExclusivePair ==
  ASSUME NEW s \in CpuStates, ~s.fault, NEW i, Operands(i), NEW hit, i.fn = "opStxp",
         exclusiveOK(s, s.r[i.rn], 2 * i.sz) => Span("W", s.r[i.rn], 2 * i.sz)
  PROVE  LET a == s.r[i.rn]
             q(y) == [s.r EXCEPT ![i.ra] = y]
             x == [s.excl EXCEPT !.valid = FALSE]
         IN IF exclusiveOK(s, a, 2 * i.sz)
            THEN \E mem : /\ Is(Exec(s, i, hit), q(0), s.v, Add(s.pc, 4), x, mem)
                          /\ StoresBoth(mem, s.mem, a, i.sz, s.r[i.rd], s.r[i.rm])
            ELSE Is(Exec(s, i, hit), q(1), s.v, Add(s.pc, 4), x, s.mem)
<1> DEFINE a == s.r[i.rn]
           y == s.r[i.rd]
           z == s.r[i.rm]
           q(k) == [s.r EXCEPT ![i.ra] = k]
           q0 == q(0)
           q1 == q(1)
           x == [s.excl EXCEPT !.valid = FALSE]
           m1 == storeN(s.mem, a, i.sz, y)
           m == storeN(m1, Add(a, i.sz), i.sz, z)
           c == Cleared(s)
           t == checkWrite(c, a, 2 * i.sz)
           w == WriteN(WriteN(t, a, i.sz, y), Add(a, i.sz), i.sz, z)
<1>1. i.sz \in 1 .. 16 /\ 2 * i.sz \in 1 .. 64 /\ i.rn \in XRegs
  BY DEF Operands, Exclusives
<1>2. a \in Word(XLEN) /\ a \in Int
  BY <1>1, RegisterWord
<1>3. Is(s, s.r, s.v, s.pc, s.excl, s.mem)
  BY IsOf
<1>4. Is(c, s.r, s.v, s.pc, x, s.mem)
  BY <1>3, IsParts
<1>5. Exec(s, i, hit) = Done(IF exclusiveOK(s, a, 2 * i.sz) THEN SetR(w, i.ra, 0) ELSE SetR(c, i.ra, 1))
  BY DEF Exec, opStxp
<1>6. CASE exclusiveOK(s, a, 2 * i.sz)
  <2>0. Span("W", a, 2 * i.sz)
    BY <1>6
  <2>1. t = c
    <3>1. c.fault = FALSE
      BY <1>4 DEF Is
    <3> HIDE DEF c, a
    <3> QED
      BY <1>1, <1>2, <2>0, <3>1, IsChecked
  <2>2. Is(w, s.r, s.v, s.pc, x, m)
    <3>1. Is(t, s.r, s.v, s.pc, x, s.mem)
      BY <1>4, <2>1
    <3> HIDE DEF a, t, x, y, z
    <3> QED
      BY <1>1, <1>2, <2>0, <3>1, IsWritten
  <2>3. StoresBoth(m, s.mem, a, i.sz, y, z)
    BY <1>1, <1>2, storeNStores, StoresTwice
  <2> HIDE DEF w, x, m
  <2>4. Is(SetR(w, i.ra, 0), q0, s.v, s.pc, x, m)
    BY <2>2, IsParts
  <2> HIDE DEF q0
  <2>5. Is(Done(SetR(w, i.ra, 0)), q0, s.v, Add(s.pc, 4), x, m)
    BY <2>4, IsParts
  <2>6. Exec(s, i, hit) = Done(SetR(w, i.ra, 0))
    BY <1>5, <1>6
  <2> QED
    BY <1>6, <2>3, <2>5, <2>6 DEF q0, x
<1>7. CASE ~exclusiveOK(s, a, 2 * i.sz)
  <2> HIDE DEF c, x
  <2>1. Is(SetR(c, i.ra, 1), q1, s.v, s.pc, x, s.mem)
    BY <1>4, IsParts
  <2> HIDE DEF q1
  <2>2. Is(Done(SetR(c, i.ra, 1)), q1, s.v, Add(s.pc, 4), x, s.mem)
    BY <2>1, IsParts
  <2>3. Exec(s, i, hit) = Done(SetR(c, i.ra, 1))
    BY <1>5, <1>7
  <2> QED
    BY <1>7, <2>2, <2>3 DEF q1, x
<1> QED
  BY <1>6, <1>7

-----------------------------------------------------------------------------
(* Several registers at once.                                                 *)

\* The registers once the base has moved on
Advanced(r, i, a) ==
  CASE i.cond = modePost -> [r EXCEPT ![i.rn] = Add(a, i.imm)]
    [] i.cond = modeReg -> [r EXCEPT ![i.rn] = Add(a, r[i.rm])]
    [] OTHER -> r

LEMMA IsAdvanced ==
  ASSUME NEW t, NEW r, NEW v, NEW pc, NEW x, NEW m, Is(t, r, v, pc, x, m), NEW i, NEW a
  PROVE  Is(simdAdvance(t, i, a), Advanced(r, i, a), v, pc, x, m)
<1>1. modePost # modeReg /\ t.r = r
  BY Modes DEF Is
<1>2. CASE i.cond = modePost
  <2>1. simdAdvance(t, i, a) = SetR(t, i.rn, Add(a, i.imm)) /\ Advanced(r, i, a) = [r EXCEPT ![i.rn] = Add(a, i.imm)]
    BY <1>1, <1>2 DEF simdAdvance, Advanced
  <2>2. Is(SetR(t, i.rn, Add(a, i.imm)), [r EXCEPT ![i.rn] = Add(a, i.imm)], v, pc, x, m)
    BY IsParts
  <2> QED
    BY <2>1, <2>2, Zenon
<1>3. CASE i.cond = modeReg
  <2>1. simdAdvance(t, i, a) = SetR(t, i.rn, Add(a, r[i.rm])) /\ Advanced(r, i, a) = [r EXCEPT ![i.rn] = Add(a, r[i.rm])]
    BY <1>1, <1>3 DEF simdAdvance, Advanced
  <2>2. Is(SetR(t, i.rn, Add(a, r[i.rm])), [r EXCEPT ![i.rn] = Add(a, r[i.rm])], v, pc, x, m)
    BY IsParts
  <2> QED
    BY <2>1, <2>2, Zenon
<1>4. CASE i.cond # modePost /\ i.cond # modeReg
  BY <1>4 DEF simdAdvance, Advanced
<1> QED
  BY <1>2, <1>3, <1>4

\* The register, its lane and the byte of the lane that the j-th byte in memory is
LaneReg(i, j) ==
  LET m == j \div simdMultiParams(i).esize
  IN IF i.ra = 1 THEN m \div simdMultiParams(i).lanes ELSE m % i.sh
LaneIndex(i, j) ==
  LET m == j \div simdMultiParams(i).esize
  IN IF i.ra = 1 THEN m % simdMultiParams(i).lanes ELSE m \div i.sh
LaneByte(i, j) == j % simdMultiParams(i).esize

LEMMA LaneOfByte ==
  ASSUME NEW i, Operands(i), i.fn \in Multis, NEW j \in 0 .. simdMultiParams(i).total - 1
  PROVE  LET p == simdMultiParams(i)
         IN /\ LaneReg(i, j) \in 0 .. i.sh - 1 /\ LaneIndex(i, j) \in 0 .. p.lanes - 1
            /\ LaneByte(i, j) \in 0 .. p.esize - 1
            /\ Element(i, LaneReg(i, j), LaneIndex(i, j)) * p.esize + LaneByte(i, j) = j
<1> DEFINE p == simdMultiParams(i)
           e == p.esize
           n == p.lanes
           c == i.sh
           m == j \div e
           k == LaneReg(i, j)
           l == LaneIndex(i, j)
<1>1. /\ e \in {1, 2, 4, 8} /\ n \in 1 .. 16 /\ c \in 1 .. 4 /\ p.total = (c * n) * e /\ i.ra \in {1, c}
  BY MultiParams
<1>2. /\ k = IF i.ra = 1 THEN m \div n ELSE m % c
      /\ l = IF i.ra = 1 THEN m % n ELSE m \div c
      /\ LaneByte(i, j) = j % e
      /\ Element(i, k, l) = IF i.ra = 1 THEN k * n + l ELSE l * c + k
  BY DEF LaneReg, LaneIndex, LaneByte, Element
<1>3. e \in Nat /\ e > 0 /\ n \in Nat /\ n > 0 /\ c \in Nat /\ c > 0
  BY <1>1
<1> HIDE DEF e, n, c, p, k, l
<1>4. c * n \in Nat /\ c * n = n * c
  BY <1>3
<1>5. m \in 0 .. c * n - 1 /\ j % e \in 0 .. e - 1 /\ j = m * e + (j % e)
  <2> DEFINE q == c * n
  <2>1. q \in Nat /\ j \in 0 .. q * e - 1
    BY <1>1, <1>4 DEF p
  <2> HIDE DEF q
  <2>2. j \div e \in 0 .. q - 1 /\ j % e \in 0 .. e - 1 /\ j = (j \div e) * e + (j % e)
    BY <2>1, <1>3, Divides
  <2> QED
    BY <2>2 DEF q
<1> HIDE DEF m
<1>6. m \div n \in 0 .. c - 1 /\ m % n \in 0 .. n - 1 /\ m = (m \div n) * n + (m % n)
  BY <1>3, <1>5, Divides
<1>7. m \div c \in 0 .. n - 1 /\ m % c \in 0 .. c - 1 /\ m = (m \div c) * c + (m % c)
  BY <1>3, <1>4, <1>5, Divides
<1>8. CASE i.ra = 1
  <2>1. k = m \div n /\ l = m % n /\ Element(i, k, l) = m
    BY <1>2, <1>6, <1>8
  <2> QED
    BY <2>1, <1>2, <1>5, <1>6 DEF k, l, e, n, c, p
<1>9. CASE i.ra # 1
  <2>1. k = m % c /\ l = m \div c /\ Element(i, k, l) = m
    BY <1>2, <1>7, <1>9
  <2> QED
    BY <2>1, <1>2, <1>5, <1>7 DEF k, l, e, n, c, p
<1> QED
  BY <1>8, <1>9

\* A byte of a lane is a byte of the register
LEMMA ByteOfLane ==
  ASSUME NEW x \in Int, NEW e \in {1, 2, 4, 8}, NEW l \in Nat, NEW m \in 0 .. e - 1, l * e + e <= 16
  PROVE  ByteOf(Low(Lsr(x, ByteBits * e * l), ByteBits * e), m) = ByteOf(x, l * e + m)
<1>1. e \in Nat /\ e <= 16 /\ m \in Nat /\ m < e /\ ByteBits \in Nat
  BY WordsAssumption
<1>2. l * e \in Nat /\ l * e <= 16
  <2> DEFINE q == l * e
  <2>1. q \in Nat
    BY <1>1
  <2> HIDE DEF q
  <2>2. q + e <= 16
    BY DEF q
  <2>3. q <= 16
    BY <2>1, <2>2, <1>1
  <2> QED
    BY <2>1, <2>3 DEF q
<1>3. ByteBits * e * l = ByteBits * (l * e)
  BY <1>1
<1> DEFINE q == l * e
           y == Lsr(x, ByteBits * q)
<1>4. y \in Int
  <2>1. q \in 0 .. 16
    BY <1>2
  <2> HIDE DEF q
  <2>2. ByteBits * q \in 0 .. 2 * XLEN
    BY <2>1, ByteWidths
  <2> QED
    BY <2>2, LsrInt
<1>5. ByteOf(Low(y, ByteBits * e), m) = ByteOf(y, m)
  <2> HIDE DEF y
  <2> QED
    BY <1>1, <1>4, ByteOfLow
<1>6. ByteOf(y, m) = ByteOf(x, q + m)
  <2>1. q \in Nat /\ m + q <= 16
    BY <1>1, <1>2
  <2> HIDE DEF q
  <2> QED
    BY <1>1, <2>1, ByteOfLsr DEF y
<1> QED
  BY <1>3, <1>5, <1>6 DEF y

\* v holds what the lanes of i gather from the memory of s
Gathers(v, s, i) ==
  /\ \A x \in VRegs : (\A k \in 0 .. i.sh - 1 : x # VReg(i, k)) => v[x] = s.v[x]
  /\ \A k \in 0 .. i.sh - 1 : v[VReg(i, k)] \in Word(ByteBits * i.amt)
  /\ \A j \in 0 .. simdMultiParams(i).total - 1 :
       ByteOf(v[VReg(i, LaneReg(i, j))], LaneIndex(i, j) * simdMultiParams(i).esize + LaneByte(i, j))
         = s.mem[Add(s.r[i.rn], j)]

\* What a register gathers from lanes at these addresses
Gather(s, at, n, e) == Gathered([l \in 1 .. n |-> ReadN(s, at[l], e)], n, ByteBits * e)

LEMMA GatheredLanes ==
  ASSUME NEW s \in CpuStates, NEW e \in {1, 2, 4, 8}, NEW n \in 1 .. 16, n * e <= 16,
         NEW at, \A l \in 1 .. n : at[l] \in Word(XLEN) /\ Span("R", at[l], e)
  PROVE  LET y == Gather(s, at, n, e)
         IN /\ y \in Word(ByteBits * (n * e))
            /\ \A l \in 0 .. n - 1, m \in 0 .. e - 1 : ByteOf(y, l * e + m) = s.mem[Add(at[l + 1], m)]
<1> DEFINE pieces == [l \in 1 .. n |-> ReadN(s, at[l], e)]
           w == ByteBits * e
           y == Gathered(pieces, n, w)
<1>1. e \in 0 .. 16 /\ e \in Nat /\ n \in Nat /\ ByteBits \in Nat
  BY WordsAssumption
<1>2. ASSUME NEW l \in 1 .. n
      PROVE  /\ pieces[l] \in Word(w)
             /\ \A k \in 0 .. e - 1 : ByteOf(pieces[l], k) = s.mem[Add(at[l], k)]
  BY <1>1, ReadBytes
<1>3. w \in Nat /\ w * n = ByteBits * (n * e) /\ w * n <= 2 * XLEN
  <2>1. w \in Nat /\ w * n = ByteBits * (n * e)
    BY <1>1
  <2>2. n * e \in 0 .. 16
    <3> DEFINE q == n * e
    <3>1. q \in Nat
      BY <1>1
    <3> QED
      BY <3>1
  <2>3. ByteBits * (n * e) \in 0 .. 2 * XLEN
    BY <2>2, ByteWidths
  <2>4. 2 * XLEN \in Nat
    BY Widths
  <2> QED
    BY <2>1, <2>3, <2>4
<1> HIDE DEF pieces, w
<1>4. /\ y \in Word(w * n)
      /\ \A j \in 0 .. n - 1 : Low(Lsr(y, w * j), w) = pieces[j + 1]
  BY <1>1, <1>2, <1>3, GatheredWord
<1>5. y \in Int
  <2>1. w * n \in 0 .. 2 * XLEN
    BY <1>1, <1>3, Widths
  <2>2. 2^(w * n) \in Nat
    BY <2>1, Power
  <2> QED
    BY <1>4, <2>2 DEF Word
<1> HIDE DEF y
<1>6. ASSUME NEW l \in 0 .. n - 1, NEW m \in 0 .. e - 1
      PROVE  ByteOf(y, l * e + m) = s.mem[Add(at[l + 1], m)]
  <2>1. l + 1 \in 1 .. n /\ l \in Nat
    BY <1>1
  <2>2. l * e + e <= 16
    <3>1. (l + 1) * e <= n * e
      <4>1. CASE e = 1
        BY <4>1, <2>1
      <4>2. CASE e = 2
        BY <4>2, <2>1
      <4>3. CASE e = 4
        BY <4>3, <2>1
      <4>4. CASE e = 8
        BY <4>4, <2>1
      <4> QED
        BY <4>1, <4>2, <4>3, <4>4
    <3>2. (l + 1) * e = l * e + e
      BY <1>1, <2>1
    <3>3. n * e \in Nat /\ l * e + e \in Nat
      BY <1>1, <2>1
    <3> QED
      BY <3>1, <3>2, <3>3
  <2>3. ByteOf(Low(Lsr(y, w * l), w), m) = ByteOf(y, l * e + m)
    BY <1>5, <2>1, <2>2, ByteOfLane DEF w
  <2>4. ByteOf(pieces[l + 1], m) = s.mem[Add(at[l + 1], m)]
    BY <1>2, <2>1
  <2> QED
    BY <1>4, <2>3, <2>4
<1>7. Gather(s, at, n, e) = y
  BY DEF Gather, y, w, pieces
<1> QED
  BY <1>3, <1>4, <1>6, <1>7

LEMMA LoadsMulti ==
  ASSUME NEW s \in CpuStates, ~s.fault, NEW i, Operands(i), NEW hit, i.fn = "opSIMDLoadMulti",
         Span("R", s.r[i.rn], simdMultiParams(i).total)
  PROVE  \E v : /\ Is(Exec(s, i, hit), Advanced(s.r, i, s.r[i.rn]), v, Add(s.pc, 4), s.excl, s.mem)
                /\ Gathers(v, s, i)
<1> DEFINE a == s.r[i.rn]
           p == simdMultiParams(i)
           c == i.sh
           n == p.lanes
           e == p.esize
           at(k, l) == Add(a, Element(i, k, l) * e)
           readable == \A k \in 0 .. c - 1, l \in 0 .. n - 1 : Allowed("R", at(k, l), e)
           pieces(k) == [l \in 1 .. n |-> ReadN(s, at(k, l - 1), e)]
           out(k) == Gathered(pieces(k), n, ByteBits * e)
           moved == {VReg(i, k) : k \in 0 .. c - 1}
           v == [x \in VRegs |-> IF x \in moved THEN out((x - i.rd) % 32) ELSE s.v[x]]
           t == [s EXCEPT !.v = v]
<1>1. /\ e \in {1, 2, 4, 8} /\ n \in 1 .. 16 /\ n * e = i.amt /\ p.total = (c * n) * e
      /\ c \in 1 .. 4 /\ i.amt \in {8, 16} /\ i.rd \in 0 .. 31 /\ i.rn \in XRegs
      /\ i.fn \in Multis /\ \A k \in 0 .. c - 1 : VReg(i, k) \in VRegs
  BY MultiParams DEF Multis
<1>2. a \in Word(XLEN) /\ a \in Int
  BY <1>1, RegisterWord
<1>3. ASSUME NEW k \in 0 .. c - 1, NEW l \in 0 .. n - 1
      PROVE  at(k, l) \in Word(XLEN) /\ Allowed("R", at(k, l), e) /\ Span("R", at(k, l), e)
             /\ Element(i, k, l) \in Int
  <2>1. Element(i, k, l) \in 0 .. c * n - 1
    BY <1>1, Elements
  <2>2. c * n \in Nat /\ e \in 1 .. 64
    BY <1>1
  <2>3. at(k, l) \in Word(XLEN)
    <3>1. Element(i, k, l) * e \in Int
      BY <2>1, <2>2
    <3> HIDE DEF a, e
    <3> QED
      BY <3>1, <1>2, AddInWord
  <2>4. Allowed("R", at(k, l), e)
    <3> HIDE DEF a, c, n, e, p
    <3>1. Span("R", a, (c * n) * e)
      BY <1>1 DEF a, p
    <3>2. Span("R", a, (c * n) * e) <=> \A m \in 0 .. c * n - 1 : Allowed("R", Add(a, m * e), e)
      BY <1>1, <1>2, <2>2, SpanElements
    <3> QED
      BY <2>1, <3>1, <3>2
  <2> HIDE DEF at, e
  <2> QED
    BY <2>1, <2>2, <2>3, <2>4, SpanAllowed
<1>4. ASSUME NEW k \in 0 .. c - 1
      PROVE  /\ out(k) \in Word(ByteBits * i.amt)
             /\ \A l \in 0 .. n - 1, m \in 0 .. e - 1 : ByteOf(out(k), l * e + m) = s.mem[Add(at(k, l), m)]
  <2> DEFINE f == [l \in 1 .. n |-> at(k, l - 1)]
             g == [l \in 1 .. n |-> ReadN(s, f[l], e)]
  <2>1. \A l \in 1 .. n : f[l] \in Word(XLEN) /\ Span("R", f[l], e)
    <3> SUFFICES ASSUME NEW l \in 1 .. n
                 PROVE  f[l] \in Word(XLEN) /\ Span("R", f[l], e)
      OBVIOUS
    <3>1. l - 1 \in 0 .. n - 1
      BY <1>1
    <3> HIDE DEF at, e, n
    <3> QED
      BY <3>1, <1>3
  <2>2. g = pieces(k)
    <3> HIDE DEF at, e, n
    <3> QED
      OBVIOUS
  <2>3. \A l \in 0 .. n - 1 : f[l + 1] = at(k, l)
    <3> SUFFICES ASSUME NEW l \in 0 .. n - 1
                 PROVE  f[l + 1] = at(k, l)
      OBVIOUS
    <3>1. l + 1 \in 1 .. n /\ (l + 1) - 1 = l
      BY <1>1
    <3> HIDE DEF at, e, n
    <3> QED
      BY <3>1
  <2>4. n * e <= 16 /\ n * e = i.amt
    BY <1>1
  <2> HIDE DEF f, at, e, n, pieces
  <2>5. /\ Gather(s, f, n, e) \in Word(ByteBits * (n * e))
        /\ \A l \in 0 .. n - 1, m \in 0 .. e - 1 : ByteOf(Gather(s, f, n, e), l * e + m) = s.mem[Add(f[l + 1], m)]
    BY <1>1, <2>1, <2>4, GatheredLanes
  <2>6. Gather(s, f, n, e) = out(k)
    BY <2>2 DEF Gather
  <2> HIDE DEF out
  <2> QED
    BY <2>3, <2>4, <2>5, <2>6
<1>5. ASSUME NEW k \in 0 .. c - 1
      PROVE  v[VReg(i, k)] = out(k)
  <2>1. i.rd \in 0 .. 31 /\ k \in 0 .. 3 /\ k \in Int
    BY <1>1
  <2>2. (VReg(i, k) - i.rd) % 32 = k
    BY <2>1 DEF VReg
  <2>3. VReg(i, k) \in moved /\ VReg(i, k) \in VRegs
    BY <1>1
  <2> HIDE DEF out, moved
  <2> QED
    BY <2>2, <2>3
<1>6. ASSUME NEW j \in 0 .. p.total - 1
      PROVE  ByteOf(v[VReg(i, LaneReg(i, j))], LaneIndex(i, j) * e + LaneByte(i, j)) = s.mem[Add(a, j)]
  <2> DEFINE k == LaneReg(i, j)
             l == LaneIndex(i, j)
             m == LaneByte(i, j)
  <2>1. k \in 0 .. c - 1 /\ l \in 0 .. n - 1 /\ m \in 0 .. e - 1 /\ Element(i, k, l) * e + m = j
    BY <1>1, LaneOfByte
  <2> HIDE DEF k, l, m, out, v
  <2>2. ByteOf(v[VReg(i, k)], l * e + m) = s.mem[Add(at(k, l), m)]
    <3> HIDE DEF at, n, e, c
    <3> QED
      BY <2>1, <1>4, <1>5
  <2>3. Add(at(k, l), m) = Add(a, j)
    <3>1. Element(i, k, l) * e \in Int /\ m \in Int
      BY <2>1, <1>1, <1>3
    <3> HIDE DEF a, e
    <3> QED
      BY <2>1, <3>1, <1>2, AddAdd
  <2> QED
    BY <2>2, <2>3 DEF k, l, m
<1>7. ASSUME NEW x \in VRegs, \A k \in 0 .. c - 1 : x # VReg(i, k)
      PROVE  v[x] = s.v[x]
  <2>1. x \notin moved
    BY <1>7
  <2> HIDE DEF moved, out
  <2> QED
    BY <2>1
<1>8. Gathers(v, s, i)
  <2> HIDE DEF v, out
  <2> QED
    BY <1>4, <1>5, <1>6, <1>7 DEF Gathers
<1>9. readable
  BY <1>3
<1>10. Exec(s, i, hit) = Done(simdAdvance(t, i, a))
  BY <1>9 DEF Exec, opSIMDLoadMulti
<1> HIDE DEF a, v
<1>11. Is(t, s.r, v, s.pc, s.excl, s.mem)
  BY DEF Is, CpuStates
<1> HIDE DEF t
<1>12. Is(simdAdvance(t, i, a), Advanced(s.r, i, a), v, s.pc, s.excl, s.mem)
  BY <1>11, IsAdvanced
<1>13. Is(Done(simdAdvance(t, i, a)), Advanced(s.r, i, a), v, Add(s.pc, 4), s.excl, s.mem)
  BY <1>12, IsParts
<1> QED
  BY <1>8, <1>10, <1>13, Zenon DEF a

\* mem is the memory of s with what the lanes of i scatter
Scatters(mem, s, i) ==
  \A c \in Cells :
    LET j == Low(c - s.r[i.rn], XLEN)
    IN mem[c] = IF j < simdMultiParams(i).total
                THEN ByteOf(s.v[VReg(i, LaneReg(i, j))], LaneIndex(i, j) * simdMultiParams(i).esize + LaneByte(i, j))
                ELSE s.mem[c]

LEMMA StoresMulti ==
  ASSUME NEW s \in CpuStates, ~s.fault, NEW i, Operands(i), NEW hit, i.fn = "opSIMDStoreMulti",
         Span("W", s.r[i.rn], simdMultiParams(i).total)
  PROVE  \E mem : /\ Is(Exec(s, i, hit), Advanced(s.r, i, s.r[i.rn]), s.v, Add(s.pc, 4), s.excl, mem)
                  /\ Scatters(mem, s, i)
<1> DEFINE a == s.r[i.rn]
           p == simdMultiParams(i)
           e == p.esize
           lane(k, l) == Low(Lsr(s.v[VReg(i, k)], ByteBits * e * l), ByteBits * e)
           byte(j) == LET m == j \div e
                          k == IF i.ra = 1 THEN m \div p.lanes ELSE m % i.sh
                          l == IF i.ra = 1 THEN m % p.lanes ELSE m \div i.sh
                      IN Low(Lsr(lane(k, l), ByteBits * (j % e)), ByteBits)
           mem == [c \in Cells |-> LET j == Low(c - a, XLEN)
                                   IN IF j < p.total THEN byte(j) ELSE s.mem[c]]
           t == [s EXCEPT !.mem = mem]
<1>1. /\ e \in {1, 2, 4, 8} /\ p.lanes \in 1 .. 16 /\ p.lanes * e = i.amt
      /\ p.total \in 1 .. 64 /\ i.amt \in {8, 16} /\ i.rn \in XRegs
      /\ i.fn \in Multis /\ \A k \in 0 .. i.sh - 1 : VReg(i, k) \in VRegs
  BY MultiParams DEF Multis
<1>2. a \in Word(XLEN) /\ a \in Int
  BY <1>1, RegisterWord
<1>3. checkWrite(s, a, p.total) = s
  <2>1. s.fault = FALSE
    BY DEF CpuStates
  <2> HIDE DEF a, p
  <2> QED
    BY <1>1, <1>2, <2>1, IsChecked DEF a, p
<1>4. ASSUME NEW j \in 0 .. p.total - 1
      PROVE  byte(j) = ByteOf(s.v[VReg(i, LaneReg(i, j))], LaneIndex(i, j) * e + LaneByte(i, j))
  <2> DEFINE k == LaneReg(i, j)
             l == LaneIndex(i, j)
             x == s.v[VReg(i, k)]
  <2>1. k \in 0 .. i.sh - 1 /\ l \in 0 .. p.lanes - 1 /\ LaneByte(i, j) \in 0 .. e - 1
    BY <1>1, LaneOfByte
  <2>2. byte(j) = ByteOf(lane(k, l), LaneByte(i, j))
    BY DEF ByteOf, LaneReg, LaneIndex, LaneByte
  <2>3. x \in Int
    <3>1. x \in Nat
      BY <1>1, <2>1, VectorNat
    <3> QED
      BY <3>1
  <2>4. l \in Nat /\ l * e + e <= 16
    <3> HIDE DEF l, e
    <3> DEFINE n == p.lanes
    <3>0. n \in 1 .. 16 /\ n * e <= 16 /\ e \in {1, 2, 4, 8} /\ l \in 0 .. n - 1
      BY <1>1, <2>1 DEF l, e
    <3> HIDE DEF n, p
    <3>1. CASE e = 1
      BY <3>0, <3>1
    <3>2. CASE e = 2
      BY <3>0, <3>2
    <3>3. CASE e = 4
      BY <3>0, <3>3
    <3>4. CASE e = 8
      BY <3>0, <3>4
    <3> QED
      BY <3>0, <3>1, <3>2, <3>3, <3>4
  <2> HIDE DEF k, l, x, e, byte
  <2>5. ByteOf(lane(k, l), LaneByte(i, j)) = ByteOf(x, l * e + LaneByte(i, j))
    BY <1>1, <2>1, <2>3, <2>4, ByteOfLane DEF x
  <2> QED
    BY <2>2, <2>5 DEF k, l, x
<1>5. Scatters(mem, s, i)
  <2> SUFFICES ASSUME NEW c \in Cells
               PROVE  LET j == Low(c - a, XLEN)
                      IN mem[c] = IF j < p.total
                                  THEN ByteOf(s.v[VReg(i, LaneReg(i, j))], LaneIndex(i, j) * e + LaneByte(i, j))
                                  ELSE s.mem[c]
    BY DEF Scatters
  <2> DEFINE j == Low(c - a, XLEN)
  <2>1. j \in Nat
    <3>1. c - a \in Int
      BY <1>2, PagesAssumption DEF Cells
    <3> QED
      BY <3>1, LowWord, Widths
  <2>2. mem[c] = IF j < p.total THEN byte(j) ELSE s.mem[c]
    <3> HIDE DEF byte
    <3> QED
      OBVIOUS
  <2> HIDE DEF mem, byte, j
  <2>3. j < p.total => j \in 0 .. p.total - 1
    BY <1>1, <2>1
  <2> HIDE DEF e, p
  <2> QED
    BY <1>4, <2>2, <2>3 DEF j
<1>6. Exec(s, i, hit) = Done(simdAdvance(t, i, a))
  <2>1. opSIMDStoreMulti(s, i) = Done(simdAdvance(IF s.fault THEN s ELSE t, i, a))
    BY <1>3 DEF opSIMDStoreMulti
  <2> QED
    BY <2>1 DEF Exec
<1> HIDE DEF a, mem
<1>7. Is(t, s.r, s.v, s.pc, s.excl, mem)
  BY DEF Is, CpuStates
<1> HIDE DEF t
<1>8. Is(simdAdvance(t, i, a), Advanced(s.r, i, a), s.v, s.pc, s.excl, mem)
  BY <1>7, IsAdvanced
<1>9. Is(Done(simdAdvance(t, i, a)), Advanced(s.r, i, a), s.v, Add(s.pc, 4), s.excl, mem)
  BY <1>8, IsParts
<1> QED
  BY <1>5, <1>6, <1>9, Zenon DEF a

\* Prefetch and CLREX
\* What CLREX, and DC ZVA of the block at z, make of s
Opened(s) == [s EXCEPT !.excl.valid = FALSE, !.pc = Add(s.pc, 4)]
Zeroes(s, z) ==
  [s EXCEPT !.mem = [c \in Cells |-> IF Low(c - z, XLEN) < dczvaBytes THEN 0 ELSE s.mem[c]],
            !.pc = Add(s.pc, 4)]

LEMMA PlainResults ==
  ASSUME NEW s \in CpuStates, ~s.fault, NEW i, NEW hit
  PROVE  /\ i.fn = "opNop" => Exec(s, i, hit) = [s EXCEPT !.pc = Add(s.pc, 4)]
         /\ i.fn = "opClrex" => Exec(s, i, hit) = Opened(s)
<1>1. i.fn = "opNop" => Exec(s, i, hit) = Done(s)
  BY DEF Exec
<1>2. i.fn = "opClrex" => Exec(s, i, hit) = Done(Cleared(s))
  BY DEF Exec, opClrex
<1>3. Done(s) = [s EXCEPT !.pc = Add(s.pc, 4)]
  BY DEF Done
<1>4. Done(Cleared(s)) = Opened(s)
  BY DEF Done, Cleared, CpuStates, Opened
<1> QED
  BY <1>1, <1>2, <1>3, <1>4, Zenon

\* DC ZVA
LEMMA ZeroesBlock ==
  ASSUME NEW s \in CpuStates, ~s.fault, NEW i, Operands(i), NEW hit, i.fn = "opDcZva",
         Span("W", s.r[i.rn] - (s.r[i.rn] % dczvaBytes), dczvaBytes)
  PROVE  Exec(s, i, hit) = Zeroes(s, s.r[i.rn] - (s.r[i.rn] % dczvaBytes))
<1> DEFINE z == s.r[i.rn] - (s.r[i.rn] % dczvaBytes)
           zeroed == [c \in Cells |-> IF Low(c - z, XLEN) < dczvaBytes THEN 0 ELSE s.mem[c]]
           t == [s EXCEPT !.mem = zeroed]
<1>1. s.r[i.rn] \in Word(XLEN) /\ i.rn \in XRegs
  BY RegisterWord DEF Operands
<1>2. z \in Word(XLEN)
  <2> DEFINE x == s.r[i.rn]
  <2>1. x \in 0 .. M - 1 /\ M \in Nat
    BY <1>1, WordXLEN, Widths
  <2> HIDE DEF x
  <2>2. x - (x % 64) \in 0 .. M - 1
    BY <2>1
  <2> QED
    BY <2>2, WordXLEN DEF dczvaBytes, x
<1>3. checkWrite(s, z, dczvaBytes) = s
  <2>1. s.fault = FALSE /\ Span("W", z, dczvaBytes) /\ dczvaBytes \in 1 .. 64
    BY DEF CpuStates, dczvaBytes
  <2> HIDE DEF z
  <2> QED
    BY <1>2, <2>1, IsChecked
<1>4. Exec(s, i, hit) = Done(IF s.fault THEN s ELSE t)
  <2>1. opDcZva(s, i) = Done(IF s.fault THEN s ELSE t)
    BY <1>3 DEF opDcZva
  <2> QED
    BY <2>1 DEF Exec
<1> HIDE DEF zeroed
<1>5. Done(t) = [s EXCEPT !.mem = zeroed, !.pc = Add(s.pc, 4)]
  BY DEF Done, CpuStates
<1>6. Zeroes(s, z) = [s EXCEPT !.mem = zeroed, !.pc = Add(s.pc, 4)]
  BY DEF Zeroes, zeroed
<1> HIDE DEF z
<1> QED
  BY <1>4, <1>5, <1>6 DEF z

-----------------------------------------------------------------------------
(* What that is in the architecture's terms.                                  *)

OneOrTwo(e) == e.class \in {"register", "unsigned", "literal", "pair", "exclusive"}

LEMMA AccessSizes ==
  ASSUME NEW e, Encoding(e), Allocated(e), OneOrTwo(e)
  PROVE  /\ AccessSize(e) \in {1, 2, 4, 8, 16}
         /\ ~InVectors(e) => AccessSize(e) \in 1 .. 8
<1>1. CASE e.class \in {"register", "unsigned"}
  <2>1. e.size \in 0 .. 3 /\ e.opc \in 0 .. 3 /\ e.vec \in BOOLEAN
    BY <1>1 DEF Encoding
  <2>2. InVectors(e) <=> e.vec
    BY <1>1 DEF InVectors
  <2> QED
    BY <1>1, <2>1, <2>2, SizeOfKind
<1>2. CASE e.class = "exclusive"
  <2>1. e.size \in 0 .. 3
    BY <1>2 DEF Encoding
  <2>2. AccessSize(e) = 2^e.size
    BY <1>2 DEF AccessSize
  <2>3. 2^e.size \in {1, 2, 4, 8}
    BY <2>1, SizeBytes
  <2> QED
    BY <2>2, <2>3
<1>3. CASE e.class \in {"literal", "pair"}
  <2>1. e.opc \in 0 .. 3 /\ e.vec \in BOOLEAN /\ (e.vec => e.opc < 3)
    BY <1>3 DEF Encoding, Allocated
  <2>2. AccessSize(e) \in {4 * 2^e.opc} \/ (~e.vec /\ AccessSize(e) \in {4, 8})
    BY <1>3 DEF AccessSize
  <2>3. e.vec => AccessSize(e) = 4 * 2^e.opc
    BY <1>3 DEF AccessSize
  <2>4. ~e.vec => AccessSize(e) \in {4, 8}
    BY <1>3 DEF AccessSize
  <2>5. e.vec => e.opc \in 0 .. 2
    BY <2>1
  <2>6. e.vec => 4 * 2^e.opc \in {4, 8, 16}
    <3> SUFFICES ASSUME e.vec PROVE 4 * 2^e.opc \in {4, 8, 16}
      OBVIOUS
    <3>1. CASE e.opc = 0
      BY <3>1, Powers
    <3>2. CASE e.opc = 1
      BY <3>2, Powers
    <3>3. CASE e.opc = 2
      BY <3>3, Powers
    <3> QED
      BY <2>5, <3>1, <3>2, <3>3
  <2>7. InVectors(e) <=> e.vec
    BY <1>3 DEF InVectors
  <2> QED
    BY <2>1, <2>3, <2>4, <2>6, <2>7
<1> QED
  BY <1>1, <1>2, <1>3 DEF OneOrTwo

\* An extension leaves the bits it extends
LEMMA ExtendLow ==
  ASSUME NEW e, Encoding(e), Allocated(e), OneOrTwo(e), ~InVectors(e),
         NEW x \in Word(ByteBits * AccessSize(e))
  PROVE  Low(Extend(e, x), ByteBits * AccessSize(e)) = x /\ Extend(e, x) \in Int
<1> DEFINE n == AccessSize(e)
           w == ByteBits * n
<1>1. n \in 1 .. 8
  BY AccessSizes
<1>2. w \in 1 .. XLEN /\ XLEN \in Nat /\ WLEN \in Nat /\ WLEN <= 2 * XLEN
  <2>1. ByteBits \in Nat
    BY WordsAssumption
  <2>2. WLEN <= 2 * XLEN
    BY <2>1 DEF WLEN, XLEN
  <2> QED
    BY <1>1, <2>2, SizeInBits, Widths
<1>3. n <= 2 => w <= WLEN
  <2>1. ByteBits \in Nat
    BY WordsAssumption
  <2>2. CASE n = 1
    BY <2>1, <2>2 DEF WLEN
  <2>3. CASE n = 2
    BY <2>1, <2>3 DEF WLEN
  <2> QED
    BY <1>1, <2>2, <2>3
<1>4. e.class \in {"register", "unsigned"} /\ e.opc = 3 => n <= 2
  <2> SUFFICES ASSUME e.class \in {"register", "unsigned"}, e.opc = 3
               PROVE  n <= 2
    OBVIOUS
  <2>1. e.size \in 0 .. 3 /\ ~e.vec
    BY DEF Encoding, InVectors
  <2>2. e.size + e.opc <= 5 /\ (e.size = 2 => e.opc = 2)
    BY <2>1 DEF Allocated
  <2>3. e.size \in {0, 1}
    BY <2>1, <2>2
  <2>4. n = 2^e.size
    BY <2>1 DEF AccessSize
  <2>5. 2^e.size \in {1, 2}
    BY <2>3, Powers
  <2> QED
    BY <2>4, <2>5
<1>5. \/ Extend(e, x) = x
      \/ Extend(e, x) = Low(Signed(x, w), XLEN)
      \/ Extend(e, x) = Low(Signed(x, w), WLEN) /\ n <= 2
  BY <1>4 DEF Extend
<1> HIDE DEF n, w
<1>6. x \in Word(w)
  BY DEF w, n
<1>7. w \in 1 .. 2 * XLEN /\ w \in 0 .. 2 * XLEN /\ w \in Nat
  BY <1>2
<1>8. Low(Signed(x, w), w) = x /\ Signed(x, w) \in Int
  BY <1>6, <1>7, LowSigned
<1>9. CASE Extend(e, x) = x
  <2>1. x \in Int
    <3>1. 2^w \in Nat
      BY <1>7, Power
    <3> QED
      BY <3>1, <1>6 DEF Word
  <2>2. Low(x, w) = x
    BY <1>6, <1>7, LowOfWord
  <2> QED
    BY <2>1, <2>2, <1>9 DEF w, n
<1>10. CASE Extend(e, x) = Low(Signed(x, w), XLEN)
  <2>1. Low(Low(Signed(x, w), XLEN), w) = Low(Signed(x, w), w)
    BY <1>2, <1>7, <1>8, LowLow
  <2>2. XLEN \in 0 .. 2 * XLEN
    BY <1>2
  <2>3. Low(Signed(x, w), XLEN) \in Int
    BY <1>8, <2>2, LowWord
  <2> QED
    BY <2>1, <2>3, <1>8, <1>10 DEF w, n
<1>11. CASE Extend(e, x) = Low(Signed(x, w), WLEN) /\ n <= 2
  <2>1. Low(Low(Signed(x, w), WLEN), w) = Low(Signed(x, w), w)
    BY <1>2, <1>3, <1>7, <1>8, <1>11, LowLow
  <2>2. WLEN \in 0 .. 2 * XLEN
    BY <1>2
  <2>3. Low(Signed(x, w), WLEN) \in Int
    BY <1>8, <2>2, LowWord
  <2> QED
    BY <2>1, <2>3, <1>8, <1>11 DEF w, n
<1> QED
  BY <1>5, <1>9, <1>10, <1>11

\* Where the bytes of one or two registers lie
LEMMA PlaceIs ==
  ASSUME NEW e, e.class # "multi", AccessSize(e) \in 1 .. 16, NEW j \in 0 .. 2 * AccessSize(e) - 1
  PROVE  Place(e, j) = IF j < AccessSize(e) THEN <<1, j>> ELSE <<2, j - AccessSize(e)>>
<1> DEFINE n == AccessSize(e)
<1>1. Place(e, j) = <<(j \div n) + 1, j % n>>
  BY DEF Place
<1>2. n \in Nat /\ n > 0 /\ j \in Nat
  OBVIOUS
<1> HIDE DEF n
<1>3. CASE j < n
  <2>1. j = 0 * n + j /\ j \in 0 .. n - 1
    BY <1>2, <1>3
  <2>2. j \div n = 0 /\ j % n = j
    BY <1>2, <2>1, DivUnique
  <2> QED
    BY <1>1, <1>3, <2>2 DEF n
<1>4. CASE ~(j < n)
  <2>1. j = 1 * n + (j - n) /\ j - n \in 0 .. n - 1
    BY <1>2, <1>4 DEF n
  <2>2. j \div n = 1 /\ j % n = j - n
    BY <1>2, <2>1, DivUnique
  <2> QED
    BY <1>1, <1>4, <2>2 DEF n
<1> QED
  BY <1>3, <1>4

LEMMA HoldsPart ==
  ASSUME NEW e, Encoding(e), Allocated(e), OneOrTwo(e), NEW s \in CpuStates, NEW k \in {1, 2},
         Total(e) <= 2 * AccessSize(e), Total(e) \in Nat, NEW b \in Word(XLEN),
         Address(e, s) \in Int, b = Add(Address(e, s), IF k = 1 THEN 0 ELSE AccessSize(e)),
         Span("R", b, AccessSize(e)), NEW y,
         y = IF InVectors(e) THEN ReadN(s, b, AccessSize(e)) ELSE Extend(e, ReadN(s, b, AccessSize(e)))
  PROVE  Holds(e, s, k, y)
<1> DEFINE n == AccessSize(e)
           w == ReadN(s, b, n)
           first == IF k = 1 THEN 0 ELSE n
<1>1. n \in 1 .. 16 /\ n \in 0 .. 16 /\ n \in Nat
  BY AccessSizes
<1>2. ByteBits * n \in 0 .. 2 * XLEN
  BY <1>1, ByteWidths
<1>3. /\ w \in Word(ByteBits * n) /\ w \in Nat
      /\ \A m \in 0 .. n - 1 : ByteOf(w, m) = s.mem[Add(b, m)]
  BY <1>1, ReadBytes
<1> HIDE DEF w
<1>4. Low(y, ByteBits * n) = w /\ y \in Int
  <2>1. CASE InVectors(e)
    BY <1>2, <1>3, <2>1, LowOfWord DEF w
  <2>2. CASE ~InVectors(e)
    BY <1>3, <2>2, ExtendLow DEF w
  <2> QED
    BY <2>1, <2>2
<1>5. ASSUME NEW m \in 0 .. n - 1
      PROVE  ByteOf(y, m) = s.mem[Add(Address(e, s), first + m)]
  <2>1. m \in Nat /\ m < n /\ n <= 16
    BY <1>1
  <2>2. ByteOf(Low(y, ByteBits * n), m) = ByteOf(y, m)
    BY <1>1, <1>4, <2>1, ByteOfLow
  <2>3. Add(b, m) = Add(Address(e, s), first + m)
    <3>1. first \in Int /\ m \in Int
      BY <1>1, <2>1
    <3> HIDE DEF n
    <3> QED
      BY <3>1, AddAdd DEF n
  <2> QED
    BY <1>3, <1>4, <2>2, <2>3
<1>6. ASSUME NEW j \in 0 .. Total(e) - 1, Place(e, j)[1] = k
      PROVE  ByteOf(y, Place(e, j)[2]) = s.mem[Add(Address(e, s), j)]
  <2>1. j \in 0 .. 2 * n - 1 /\ j \in Nat /\ e.class # "multi"
    BY <1>1 DEF OneOrTwo
  <2>2. Place(e, j) = IF j < n THEN <<1, j>> ELSE <<2, j - n>>
    BY <1>1, <2>1, PlaceIs
  <2>3. CASE j < n
    <3>1. Place(e, j)[2] = j /\ k = 1 /\ j \in 0 .. n - 1 /\ first + j = j
      BY <1>1, <1>6, <2>1, <2>2, <2>3
    <3> QED
      BY <1>5, <3>1
  <2>4. CASE ~(j < n)
    <3>1. Place(e, j)[2] = j - n /\ k = 2
      BY <1>6, <2>2, <2>4
    <3>2. j - n \in 0 .. n - 1 /\ n + (j - n) = j
      <4> HIDE DEF n
      <4> QED
        BY <1>1, <2>1, <2>4
    <3>3. first + (j - n) = j
      BY <3>1, <3>2
    <3> QED
      BY <1>5, <3>1, <3>2, <3>3
  <2> QED
    BY <2>3, <2>4
<1>7. y = IF InVectors(e) THEN Low(y, ByteBits * n) ELSE Extend(e, Low(y, ByteBits * n))
  BY <1>4 DEF w
<1> QED
  BY <1>6, <1>7 DEF Holds

\* What a store of e takes from a register
Datum(e, s, x) == IF InVectors(e) THEN s.v[x] ELSE s.r[x]

LEMMA Offsets ==
  ASSUME NEW c \in Cells, NEW a \in Int
  PROVE  Low(c - a, XLEN) \in Nat
<1>1. c - a \in Int
  BY PagesAssumption DEF Cells
<1> QED
  BY <1>1, LowWord, Widths

LEMMA StoredOne ==
  ASSUME NEW e, NEW s, e.class # "multi", AccessSize(e) \in 1 .. 16, Total(e) = AccessSize(e),
         Moved(e) = <<e.rt>>, ~Loads(e), Succeeds(e, s), Address(e, s) \in Int,
         NEW mem, Stores(mem, s.mem, Address(e, s), AccessSize(e), Datum(e, s, e.rt))
  PROVE  \A c \in Cells : ByteRight(e, s, c, mem[c])
<1> SUFFICES ASSUME NEW c \in Cells PROVE ByteRight(e, s, c, mem[c])
  OBVIOUS
<1> DEFINE n == AccessSize(e)
           j == Low(c - Address(e, s), XLEN)
<1>1. j \in Nat
  BY Offsets
<1>2. mem[c] = IF j < n THEN ByteOf(Datum(e, s, e.rt), j) ELSE s.mem[c]
  BY DEF Stores
<1>3. ByteRight(e, s, c, mem[c]) <=> mem[c] = IF j < n THEN Stored(e, s, j) ELSE s.mem[c]
  BY DEF ByteRight
<1> HIDE DEF j
<1>4. j < n => Stored(e, s, j) = ByteOf(Datum(e, s, e.rt), j)
  <2> SUFFICES ASSUME j < n PROVE Stored(e, s, j) = ByteOf(Datum(e, s, e.rt), j)
    OBVIOUS
  <2>1. j \in 0 .. 2 * n - 1
    BY <1>1
  <2>2. Place(e, j) = <<1, j>>
    BY <2>1, PlaceIs
  <2> QED
    BY <2>2 DEF Stored, Datum
<1> QED
  BY <1>2, <1>3, <1>4

LEMMA StoredTwo ==
  ASSUME NEW e, NEW s, e.class # "multi", AccessSize(e) \in 1 .. 16, Total(e) = 2 * AccessSize(e),
         Moved(e) = <<e.rt, e.rt2>>, ~Loads(e), Succeeds(e, s), Address(e, s) \in Int,
         NEW mem, StoresBoth(mem, s.mem, Address(e, s), AccessSize(e), Datum(e, s, e.rt), Datum(e, s, e.rt2))
  PROVE  \A c \in Cells : ByteRight(e, s, c, mem[c])
<1> SUFFICES ASSUME NEW c \in Cells PROVE ByteRight(e, s, c, mem[c])
  OBVIOUS
<1> DEFINE n == AccessSize(e)
           j == Low(c - Address(e, s), XLEN)
<1>1. j \in Nat
  BY Offsets
<1>2. mem[c] = IF j < n THEN ByteOf(Datum(e, s, e.rt), j)
               ELSE IF j < 2 * n THEN ByteOf(Datum(e, s, e.rt2), j - n) ELSE s.mem[c]
  BY DEF StoresBoth
<1>3. ByteRight(e, s, c, mem[c]) <=> mem[c] = IF j < 2 * n THEN Stored(e, s, j) ELSE s.mem[c]
  BY DEF ByteRight
<1> HIDE DEF j
<1>4. j < 2 * n => Stored(e, s, j) = IF j < n THEN ByteOf(Datum(e, s, e.rt), j)
                                     ELSE ByteOf(Datum(e, s, e.rt2), j - n)
  <2> SUFFICES ASSUME j < 2 * n
               PROVE  Stored(e, s, j) = IF j < n THEN ByteOf(Datum(e, s, e.rt), j)
                                        ELSE ByteOf(Datum(e, s, e.rt2), j - n)
    OBVIOUS
  <2>1. j \in 0 .. 2 * n - 1
    BY <1>1
  <2>2. Place(e, j) = IF j < n THEN <<1, j>> ELSE <<2, j - n>>
    BY <2>1, PlaceIs
  <2>3. CASE j < n
    BY <2>2, <2>3 DEF Stored, Datum
  <2>4. CASE ~(j < n)
    BY <2>2, <2>4 DEF Stored, Datum
  <2> QED
    BY <2>3, <2>4
<1>5. j < n => j < 2 * n
  BY <1>1
<1> QED
  BY <1>2, <1>3, <1>4, <1>5

LEMMA MemoryKept ==
  ASSUME NEW e, NEW s, Loads(e) \/ ~Succeeds(e, s)
  PROVE  \A c \in Cells : ByteRight(e, s, c, s.mem[c])
  BY DEF ByteRight

\* The base register is written back as the encoding says
LEMMA BackRight ==
  ASSUME NEW e, NEW s, NEW j, Located(e, s, j), j.rn \in XRegs, NEW q, DOMAIN q = XRegs, NEW x \in XRegs
  PROVE  Back(q, j, addrFor(s, j))[x] = IF WritesBack(e) /\ x = xsp(e.rn) THEN NewBase(e, s) ELSE q[x]
<1>1. CASE ~WritesBack(e)
  <2>1. j.cond # modePre /\ j.cond # modePost
    BY <1>1 DEF Located
  <2>2. Back(q, j, addrFor(s, j)) = q
    BY <2>1 DEF Back
  <2> QED
    BY <1>1, <2>2
<1>2. CASE WritesBack(e)
  <2>1. j.rn = xsp(e.rn)
    BY <1>2 DEF Located
  <2>2. Back(q, j, addrFor(s, j)) = [q EXCEPT ![j.rn] = NewBase(e, s)]
    <3>1. CASE j.cond = modePre
      BY <1>2, <3>1, Modes DEF Located, Back
    <3>2. CASE j.cond # modePre
      BY <1>2, <3>2, Modes DEF Located, Back
    <3> QED
      BY <3>1, <3>2
  <2> QED
    BY <1>2, <2>1, <2>2
<1> QED
  BY <1>1, <1>2

\* r holds what is left of the registers p of s
Based(e, s, r, p) ==
  \A x \in XRegs : r[x] = IF WritesBack(e) /\ x = xsp(e.rn) THEN NewBase(e, s) ELSE p[x]

LEMMA GeneralKept ==
  ASSUME NEW e, NEW s, ~StoresExclusive(e), InVectors(e) \/ ~Loads(e), NEW r, Based(e, s, r, s.r)
  PROVE  \A x \in XRegs \ {rSink} : GeneralRight(e, s, x, r[x])
<1>1. ~InVectors(e) => \A x : Into(e, x) = {}
  BY DEF Into
<1> QED
  BY <1>1 DEF GeneralRight, Based

LEMMA GeneralOne ==
  ASSUME NEW e, NEW s, ~StoresExclusive(e), ~InVectors(e), Loads(e), Moved(e) = <<e.rt>>,
         NEW r, NEW y, Holds(e, s, 1, y), xw(e.rt) \in XRegs, DOMAIN s.r = XRegs,
         Based(e, s, r, [s.r EXCEPT ![xw(e.rt)] = y])
  PROVE  \A x \in XRegs \ {rSink} : GeneralRight(e, s, x, r[x])
<1> SUFFICES ASSUME NEW x \in XRegs, x # rSink PROVE GeneralRight(e, s, x, r[x])
  OBVIOUS
<1> DEFINE p == [s.r EXCEPT ![xw(e.rt)] = y]
<1>1. p[x] = IF x = xw(e.rt) THEN y ELSE s.r[x]
  OBVIOUS
<1>2. x = xw(e.rt) <=> x = e.rt /\ x # rZR
  BY DEF xw, rZR, rSink
<1>3. Into(e, x) = IF x = e.rt THEN {1} ELSE {}
  BY DEF Into
<1>4. r[x] = IF WritesBack(e) /\ x = xsp(e.rn) THEN NewBase(e, s) ELSE p[x]
  BY DEF Based
<1> HIDE DEF p
<1>5. CASE WritesBack(e) /\ x = xsp(e.rn)
  BY <1>4, <1>5 DEF GeneralRight
<1>6. CASE ~(WritesBack(e) /\ x = xsp(e.rn)) /\ x = e.rt /\ x # rZR
  <2>1. r[x] = y /\ 1 \in Into(e, x)
    BY <1>1, <1>2, <1>3, <1>4, <1>6
  <2>2. \E k \in Into(e, x) : Holds(e, s, k, r[x])
    BY <2>1
  <2> QED
    BY <1>6, <2>1, <2>2 DEF GeneralRight
<1>7. CASE ~(WritesBack(e) /\ x = xsp(e.rn)) /\ ~(x = e.rt /\ x # rZR)
  <2>1. r[x] = s.r[x] /\ (Into(e, x) = {} \/ x = rZR)
    BY <1>1, <1>2, <1>3, <1>4, <1>7
  <2> QED
    BY <1>7, <2>1 DEF GeneralRight
<1> QED
  BY <1>5, <1>6, <1>7

LEMMA GeneralTwo ==
  ASSUME NEW e, NEW s, ~StoresExclusive(e), ~InVectors(e), Loads(e), Moved(e) = <<e.rt, e.rt2>>,
         NEW r, NEW y, NEW z, Holds(e, s, 1, y), Holds(e, s, 2, z),
         xw(e.rt) \in XRegs, xw(e.rt2) \in XRegs, DOMAIN s.r = XRegs,
         Based(e, s, r, [[s.r EXCEPT ![xw(e.rt)] = y] EXCEPT ![xw(e.rt2)] = z])
  PROVE  \A x \in XRegs \ {rSink} : GeneralRight(e, s, x, r[x])
<1> SUFFICES ASSUME NEW x \in XRegs, x # rSink PROVE GeneralRight(e, s, x, r[x])
  OBVIOUS
<1> DEFINE p == [[s.r EXCEPT ![xw(e.rt)] = y] EXCEPT ![xw(e.rt2)] = z]
<1>1. p[x] = IF x = xw(e.rt2) THEN z ELSE IF x = xw(e.rt) THEN y ELSE s.r[x]
  OBVIOUS
<1>2. /\ x = xw(e.rt) <=> x = e.rt /\ x # rZR
      /\ x = xw(e.rt2) <=> x = e.rt2 /\ x # rZR
  BY DEF xw, rZR, rSink
<1>3. /\ x = e.rt => 1 \in Into(e, x)
      /\ x = e.rt2 => 2 \in Into(e, x)
      /\ x # e.rt /\ x # e.rt2 => Into(e, x) = {}
  BY DEF Into
<1>4. r[x] = IF WritesBack(e) /\ x = xsp(e.rn) THEN NewBase(e, s) ELSE p[x]
  BY DEF Based
<1> HIDE DEF p
<1>5. CASE WritesBack(e) /\ x = xsp(e.rn)
  BY <1>4, <1>5 DEF GeneralRight
<1>6. CASE ~(WritesBack(e) /\ x = xsp(e.rn)) /\ x \in {e.rt, e.rt2} /\ x # rZR
  <2>1. \/ r[x] = y /\ 1 \in Into(e, x)
        \/ r[x] = z /\ 2 \in Into(e, x)
    BY <1>1, <1>2, <1>3, <1>4, <1>6
  <2>2. Into(e, x) # {} /\ \E k \in Into(e, x) : Holds(e, s, k, r[x])
    BY <2>1
  <2> QED
    BY <1>6, <2>2 DEF GeneralRight
<1>7. CASE ~(WritesBack(e) /\ x = xsp(e.rn)) /\ ~(x \in {e.rt, e.rt2} /\ x # rZR)
  <2>1. r[x] = s.r[x] /\ (Into(e, x) = {} \/ x = rZR)
    BY <1>1, <1>2, <1>3, <1>4, <1>7
  <2> QED
    BY <1>7, <2>1 DEF GeneralRight
<1> QED
  BY <1>5, <1>6, <1>7

LEMMA VectorKept ==
  ASSUME NEW e, NEW s, ~InVectors(e) \/ ~Loads(e)
  PROVE  \A x \in VRegs : VectorRight(e, s, x, s.v[x])
  BY DEF VectorRight, Into

LEMMA VectorOne ==
  ASSUME NEW e, NEW s, InVectors(e), Loads(e), Moved(e) = <<e.rt>>, NEW y, Holds(e, s, 1, y),
         DOMAIN s.v = VRegs
  PROVE  \A x \in VRegs : VectorRight(e, s, x, [s.v EXCEPT ![e.rt] = y][x])
<1> SUFFICES ASSUME NEW x \in VRegs
             PROVE  VectorRight(e, s, x, [s.v EXCEPT ![e.rt] = y][x])
  OBVIOUS
<1>1. Into(e, x) = IF x = e.rt THEN {1} ELSE {}
  BY DEF Into
<1>2. [s.v EXCEPT ![e.rt] = y][x] = IF x = e.rt THEN y ELSE s.v[x]
  OBVIOUS
<1>3. CASE x = e.rt
  <2>1. \E k \in Into(e, x) : Holds(e, s, k, y)
    BY <1>1, <1>3
  <2> QED
    BY <1>1, <1>2, <1>3, <2>1 DEF VectorRight
<1>4. CASE x # e.rt
  BY <1>1, <1>2, <1>4 DEF VectorRight
<1> QED
  BY <1>3, <1>4

LEMMA VectorTwo ==
  ASSUME NEW e, NEW s, InVectors(e), Loads(e), Moved(e) = <<e.rt, e.rt2>>, NEW y, NEW z,
         Holds(e, s, 1, y), Holds(e, s, 2, z), DOMAIN s.v = VRegs
  PROVE  \A x \in VRegs : VectorRight(e, s, x, [[s.v EXCEPT ![e.rt] = y] EXCEPT ![e.rt2] = z][x])
<1> SUFFICES ASSUME NEW x \in VRegs
             PROVE  VectorRight(e, s, x, [[s.v EXCEPT ![e.rt] = y] EXCEPT ![e.rt2] = z][x])
  OBVIOUS
<1> DEFINE w == [[s.v EXCEPT ![e.rt] = y] EXCEPT ![e.rt2] = z][x]
<1>1. w = IF x = e.rt2 THEN z ELSE IF x = e.rt THEN y ELSE s.v[x]
  OBVIOUS
<1>2. /\ x = e.rt => 1 \in Into(e, x)
      /\ x = e.rt2 => 2 \in Into(e, x)
      /\ x # e.rt /\ x # e.rt2 => Into(e, x) = {}
  BY DEF Into
<1> HIDE DEF w
<1>3. CASE x \in {e.rt, e.rt2}
  <2>1. \/ w = y /\ 1 \in Into(e, x)
        \/ w = z /\ 2 \in Into(e, x)
    BY <1>1, <1>2, <1>3
  <2>2. Into(e, x) # {} /\ \E k \in Into(e, x) : Holds(e, s, k, w)
    BY <2>1
  <2>3. VectorRight(e, s, x, w)
    BY <2>2 DEF VectorRight
  <2> QED
    BY <2>3 DEF w
<1>4. CASE x \notin {e.rt, e.rt2}
  <2>1. VectorRight(e, s, x, w)
    BY <1>1, <1>2, <1>4 DEF VectorRight
  <2> QED
    BY <2>1 DEF w
<1> QED
  BY <1>3, <1>4

LEMMA BackBased ==
  ASSUME NEW e, NEW s, NEW j, Located(e, s, j), j.rn \in XRegs, NEW q, DOMAIN q = XRegs
  PROVE  Based(e, s, Back(q, j, addrFor(s, j)), q)
  BY BackRight DEF Based

\* The monitor x is what e leaves of that of s
MonitorRight(e, s, x) ==
  CASE LoadsExclusive(e) -> Marks(x, Address(e, s), Total(e))
    [] StoresExclusive(e) -> x.valid = FALSE
    [] OTHER -> x = s.excl

LEMMA IsAccessed ==
  ASSUME NEW e, NEW s, NEW t, ~Prefetch(e), NEW r, NEW v, NEW x, NEW m,
         Is(t, r, v, Add(s.pc, 4), x, m),
         \A k \in XRegs \ {rSink} : GeneralRight(e, s, k, r[k]),
         \A k \in VRegs : VectorRight(e, s, k, v[k]),
         \A c \in Cells : ByteRight(e, s, c, m[c]),
         MonitorRight(e, s, x)
  PROVE  ~t.fault /\ Accessed(e, s, t)
<1>1. t.fault = FALSE /\ t.r = r /\ t.v = v /\ t.pc = Add(s.pc, 4) /\ t.excl = x /\ t.mem = m
  BY DEF Is
<1>2. SameMonitor(e, s, t)
  <2>1. LoadsExclusive(e) => ~StoresExclusive(e)
    BY DEF LoadsExclusive, StoresExclusive
  <2>2. CASE LoadsExclusive(e)
    BY <1>1, <2>1, <2>2 DEF SameMonitor, MonitorRight, Marks
  <2>3. CASE StoresExclusive(e)
    BY <1>1, <2>1, <2>3 DEF SameMonitor, MonitorRight
  <2>4. CASE ~LoadsExclusive(e) /\ ~StoresExclusive(e)
    BY <1>1, <2>4 DEF SameMonitor, MonitorRight
  <2> QED
    BY <2>2, <2>3, <2>4
<1> QED
  BY <1>1, <1>2 DEF Accessed

\* An access that is not blocked may be made
LEMMA NotBlocked ==
  ASSUME NEW e, NEW s, ~Prefetch(e), ~Blocked(e, s), Succeeds(e, s)
  PROVE  Span(IF Loads(e) THEN "R" ELSE "W", Address(e, s), Total(e))
  BY BlockedIs

LEMMA StateShape ==
  ASSUME NEW s \in CpuStates
  PROVE  DOMAIN s.r = XRegs /\ DOMAIN s.v = VRegs
  BY DEF CpuStates

LEMMA ExtendedIs ==
  ASSUME NEW e, Encoding(e), Allocated(e), OneOrTwo(e), NEW s \in CpuStates, NEW j, Extends(e, j), ~InVectors(e),
         NEW a \in Word(XLEN), Span("R", a, AccessSize(e))
  PROVE  Extended(j, ReadN(s, a, AccessSize(e))) = Extend(e, ReadN(s, a, AccessSize(e)))
<1>1. AccessSize(e) \in 0 .. 16
  BY AccessSizes
<1>2. ReadN(s, a, AccessSize(e)) \in Word(ByteBits * AccessSize(e))
  BY <1>1, ReadBytes
<1> QED
  BY <1>2 DEF Extends

Plain(e) == ~StoresExclusive(e) /\ ~LoadsExclusive(e)

LEMMA SingleRight ==
  ASSUME NEW e, Encoding(e), Allocated(e), OneOrTwo(e), ~Prefetch(e), Plain(e),
         Total(e) = AccessSize(e), Moved(e) = <<e.rt>>, NEW s \in CpuStates, ~s.fault, ~Blocked(e, s),
         NEW j, Operands(j), Single(e, j), Extends(e, j), Located(e, s, j), NEW hit
  PROVE  ~Exec(s, j, hit).fault /\ Accessed(e, s, Exec(s, j, hit))
<1> DEFINE a == Address(e, s)
           n == AccessSize(e)
           w == ReadN(s, a, n)
           t == Exec(s, j, hit)
<1>1. /\ a = addrFor(s, j) /\ j.sz = n
      /\ j.fn \in IF InVectors(e) THEN {IF Loads(e) THEN "opVLoad" ELSE "opVStore"}
                  ELSE IF Loads(e) THEN IntLoads ELSE IntStores
      /\ j.rd = IF InVectors(e) THEN e.rt ELSE IF Loads(e) THEN xw(e.rt) ELSE xr(e.rt)
      /\ j.fn \notin {"opLoad", "opStore", "opVLoad", "opVStore"} => j.sh = extZero
  BY DEF Single, Located
<1>2. j.fn \in Singles \cup VSingles
  BY <1>1 DEF Singles, VSingles, IntLoads, IntStores
<1>3. j \in Insts /\ Addressed(j) /\ j.rn \in XRegs
  BY <1>2 DEF Operands, Addressed
<1>4. a \in Word(XLEN) /\ a \in Int /\ Add(a, 0) = a
  BY <1>1, <1>3, addrForWord, AddZero, WordXLEN
<1>5. n \in {1, 2, 4, 8, 16} /\ n \in 1 .. 16 /\ n \in Nat /\ n <= 2 * n
  BY AccessSizes
<1>6. Succeeds(e, s)
  BY DEF Succeeds, Plain
<1>7. Span(IF Loads(e) THEN "R" ELSE "W", a, n)
  BY <1>6, NotBlocked
<1>8. MonitorRight(e, s, s.excl)
  BY DEF MonitorRight, Plain
<1>9. DOMAIN s.r = XRegs /\ DOMAIN s.v = VRegs
  BY StateShape
<1>10. Based(e, s, Back(s.r, j, a), s.r)
  BY <1>1, <1>3, <1>9, BackBased
<1>11. e.class # "multi"
  BY DEF OneOrTwo
<1>12. \A y : Loads(e) /\ y = (IF InVectors(e) THEN w ELSE Extend(e, w)) => Holds(e, s, 1, y)
  <2> SUFFICES ASSUME NEW y, Loads(e), y = IF InVectors(e) THEN w ELSE Extend(e, w)
               PROVE  Holds(e, s, 1, y)
    OBVIOUS
  <2>1. Span("R", a, n)
    BY <1>7
  <2>2. 1 \in {1, 2} /\ a = Add(a, IF 1 = 1 THEN 0 ELSE n)
    BY <1>4
  <2>3. Total(e) <= 2 * n /\ Total(e) \in Nat
    BY <1>5
  <2> HIDE DEF a, n
  <2> QED
    BY <1>4, <2>1, <2>2, <2>3, HoldsPart DEF a, n
<1> HIDE DEF a, n, t
<1>13. CASE InVectors(e) /\ Loads(e)
  <2>1. Is(t, Back(s.r, j, a), [s.v EXCEPT ![j.rd] = w], Add(s.pc, 4), s.excl, s.mem)
    <3>1. j.fn = "opVLoad" /\ Span("R", addrFor(s, j), j.sz)
      BY <1>1, <1>7, <1>13
    <3> QED
      BY <1>1, <3>1, LoadsIntoVector DEF t
  <2>2. j.rd = e.rt
    BY <1>1, <1>13
  <2>3. \A x \in XRegs \ {rSink} : GeneralRight(e, s, x, Back(s.r, j, a)[x])
    BY <1>10, <1>13, GeneralKept DEF Plain
  <2>4. \A x \in VRegs : VectorRight(e, s, x, [s.v EXCEPT ![j.rd] = w][x])
    <3>1. Holds(e, s, 1, w)
      BY <1>12, <1>13
    <3> HIDE DEF w
    <3> QED
      BY <1>9, <1>13, <2>2, <3>1, VectorOne
  <2>5. \A c \in Cells : ByteRight(e, s, c, s.mem[c])
    BY <1>13, MemoryKept
  <2> HIDE DEF w
  <2> QED
    BY <1>8, <2>1, <2>3, <2>4, <2>5, IsAccessed DEF t
<1>14. CASE InVectors(e) /\ ~Loads(e)
  <2>1. j.fn = "opVStore" /\ Span("W", addrFor(s, j), j.sz) /\ (j.sz \in 1 .. 8 \/ j.sz = 16) /\ j.rd = e.rt
    BY <1>1, <1>5, <1>7, <1>14
  <2>2. PICK mem : /\ Is(t, Back(s.r, j, a), s.v, Add(s.pc, 4), s.excl, mem)
                   /\ Stores(mem, s.mem, a, n, s.v[e.rt])
    BY <1>1, <2>1, StoresVector DEF t
  <2>3. \A x \in XRegs \ {rSink} : GeneralRight(e, s, x, Back(s.r, j, a)[x])
    BY <1>10, <1>14, GeneralKept DEF Plain
  <2>4. \A x \in VRegs : VectorRight(e, s, x, s.v[x])
    BY <1>14, VectorKept
  <2>5. \A c \in Cells : ByteRight(e, s, c, mem[c])
    <3>1. Stores(mem, s.mem, a, n, Datum(e, s, e.rt))
      BY <1>14, <2>2 DEF Datum
    <3> QED
      BY <1>4, <1>5, <1>6, <1>11, <1>14, <3>1, StoredOne DEF a, n
  <2> QED
    BY <1>8, <2>2, <2>3, <2>4, <2>5, IsAccessed DEF t
<1>15. CASE ~InVectors(e) /\ Loads(e)
  <2> DEFINE y == Extended(j, w)
             q == [s.r EXCEPT ![j.rd] = y]
  <2>1. Is(t, Back(q, j, a), s.v, Add(s.pc, 4), s.excl, s.mem)
    <3>1. j.fn \in IntLoads /\ Span("R", addrFor(s, j), j.sz) /\ (j.fn # "opLoad" => j.sh = extZero)
      BY <1>1, <1>7, <1>15 DEF IntLoads
    <3> QED
      BY <1>1, <3>1, LoadsIntoRegister DEF t
  <2>2. j.rd = xw(e.rt) /\ j.rd \in XRegs
    <3>1. j.fn \in Singles
      BY <1>1, <1>15 DEF Singles, IntLoads
    <3> QED
      BY <1>1, <1>15, <3>1 DEF Operands
  <2>3. Holds(e, s, 1, y)
    <3>1. Span("R", a, n)
      BY <1>7, <1>15
    <3>2. y = Extend(e, w)
      BY <1>4, <1>15, <3>1, ExtendedIs DEF n
    <3> HIDE DEF w, y
    <3> QED
      BY <1>12, <1>15, <3>2
  <2>4. DOMAIN q = XRegs
    BY <1>9
  <2>5. Based(e, s, Back(q, j, a), q)
    <3> HIDE DEF q
    <3> QED
      BY <1>1, <1>3, <2>4, BackBased
  <2> HIDE DEF y
  <2>6. \A x \in XRegs \ {rSink} : GeneralRight(e, s, x, Back(q, j, a)[x])
    <3>1. Based(e, s, Back(q, j, a), [s.r EXCEPT ![xw(e.rt)] = y])
      BY <2>2, <2>5
    <3> HIDE DEF q
    <3> QED
      BY <1>9, <1>15, <2>2, <2>3, <3>1, GeneralOne DEF Plain
  <2>7. \A x \in VRegs : VectorRight(e, s, x, s.v[x])
    BY <1>15, VectorKept
  <2>8. \A c \in Cells : ByteRight(e, s, c, s.mem[c])
    BY <1>15, MemoryKept
  <2> HIDE DEF q
  <2> QED
    BY <1>8, <2>1, <2>6, <2>7, <2>8, IsAccessed DEF t
<1>16. CASE ~InVectors(e) /\ ~Loads(e)
  <2>1. j.fn \in IntStores /\ Span("W", addrFor(s, j), j.sz) /\ j.rd = e.rt
    BY <1>1, <1>7, <1>16 DEF xr
  <2> DEFINE mem == storeN(s.mem, a, n, s.r[e.rt])
  <2>2. Is(t, Back(s.r, j, a), s.v, Add(s.pc, 4), s.excl, mem)
    BY <1>1, <2>1, StoresRegister DEF t
  <2>3. \A x \in XRegs \ {rSink} : GeneralRight(e, s, x, Back(s.r, j, a)[x])
    BY <1>10, <1>16, GeneralKept DEF Plain
  <2>4. \A x \in VRegs : VectorRight(e, s, x, s.v[x])
    BY <1>16, VectorKept
  <2>5. \A c \in Cells : ByteRight(e, s, c, mem[c])
    <3>1. Stores(mem, s.mem, a, n, Datum(e, s, e.rt))
      BY <1>16, storeNStores DEF Datum
    <3> HIDE DEF mem
    <3> QED
      BY <1>4, <1>5, <1>6, <1>11, <1>16, <3>1, StoredOne DEF a, n
  <2> HIDE DEF mem
  <2> QED
    BY <1>8, <2>2, <2>3, <2>4, <2>5, IsAccessed DEF t
<1> QED
  BY <1>13, <1>14, <1>15, <1>16 DEF t

LEMMA PairRight ==
  ASSUME NEW e, Encoding(e), Allocated(e), e.class = "pair", NEW s \in CpuStates, ~s.fault, ~Blocked(e, s),
         NEW j, Operands(j), Double(e, j), Extends(e, j), Located(e, s, j), NEW hit
  PROVE  ~Exec(s, j, hit).fault /\ Accessed(e, s, Exec(s, j, hit))
<1> DEFINE a == Address(e, s)
           n == AccessSize(e)
           b == Add(a, n)
           t == Exec(s, j, hit)
<1>0. ~Prefetch(e) /\ Plain(e) /\ Succeeds(e, s) /\ OneOrTwo(e) /\ e.class # "multi"
      /\ (Loads(e) <=> e.l) /\ (InVectors(e) <=> e.vec) /\ e.l \in BOOLEAN /\ e.vec \in BOOLEAN
  BY DEF Prefetch, Plain, StoresExclusive, LoadsExclusive, Succeeds, OneOrTwo, Loads, InVectors, Encoding
<1>1. /\ a = addrFor(s, j) /\ j.sz = n
      /\ j.fn \in IF e.vec THEN {IF e.l THEN "opVLoadPair" ELSE "opVStorePair"}
                  ELSE IF e.l THEN {"opLoadPair", "opLdp64Off"} ELSE {"opStorePair", "opStp64Off"}
      /\ j.rd = IF e.vec THEN e.rt ELSE IF e.l THEN xw(e.rt) ELSE xr(e.rt)
      /\ j.ra = IF e.vec THEN e.rt2 ELSE IF e.l THEN xw(e.rt2) ELSE xr(e.rt2)
      /\ j.fn = "opLdp64Off" => j.sh = extZero
  BY DEF Double, Located
<1>2. j.fn \in Pairs \cup VPairs
  BY <1>0, <1>1 DEF Pairs, VPairs
<1>3. j \in Insts /\ Addressed(j) /\ j.rn \in XRegs
  BY <1>2 DEF Operands, Addressed
<1>4. a \in Word(XLEN) /\ a \in Int /\ Add(a, 0) = a
  BY <1>1, <1>3, addrForWord, AddZero, WordXLEN
<1>5. n \in {1, 2, 4, 8, 16} /\ n \in 1 .. 16 /\ n \in Nat
  BY <1>0, AccessSizes
<1>6. Moved(e) = <<e.rt, e.rt2>> /\ Total(e) = 2 * n
  BY MovedIs
<1>7. Span(IF Loads(e) THEN "R" ELSE "W", a, 2 * n)
  BY <1>0, <1>6, NotBlocked
<1>8. MonitorRight(e, s, s.excl)
  BY <1>0 DEF MonitorRight, Plain
<1>9. DOMAIN s.r = XRegs /\ DOMAIN s.v = VRegs
  BY StateShape
<1>10. Based(e, s, Back(s.r, j, a), s.r)
  BY <1>1, <1>3, <1>9, BackBased
<1>11. b \in Word(XLEN) /\ (Loads(e) => Span("R", a, n) /\ Span("R", b, n))
  <2>1. b \in Word(XLEN)
    <3> HIDE DEF a, n
    <3> QED
      BY <1>4, <1>5, AddInWord
  <2>2. Loads(e) => Span("R", a, n) /\ Span("R", b, n)
    <3> SUFFICES ASSUME Loads(e) PROVE Span("R", a, n) /\ Span("R", b, n)
      OBVIOUS
    <3>1. Span("R", a, 2 * n) /\ n \in 1 .. 32
      BY <1>5, <1>7
    <3> HIDE DEF a, n
    <3> QED
      BY <1>4, <3>1, AllowedHalves
  <2> QED
    BY <2>1, <2>2
<1> DEFINE w(k) == ReadN(s, IF k = 1 THEN a ELSE b, n)
<1>12. \A y : \A k \in {1, 2} : Loads(e) /\ y = (IF InVectors(e) THEN w(k) ELSE Extend(e, w(k))) => Holds(e, s, k, y)
  <2> SUFFICES ASSUME NEW y, NEW k \in {1, 2}, Loads(e), y = IF InVectors(e) THEN w(k) ELSE Extend(e, w(k))
               PROVE  Holds(e, s, k, y)
    OBVIOUS
  <2> DEFINE d == IF k = 1 THEN a ELSE b
  <2>1. Span("R", d, n) /\ d \in Word(XLEN)
    BY <1>4, <1>11
  <2>2. d = Add(a, IF k = 1 THEN 0 ELSE n)
    BY <1>4
  <2>3. Total(e) <= 2 * n /\ Total(e) \in Nat
    BY <1>5, <1>6
  <2>4. y = IF InVectors(e) THEN ReadN(s, d, n) ELSE Extend(e, ReadN(s, d, n))
    OBVIOUS
  <2> HIDE DEF a, n, d
  <2> QED
    BY <1>0, <1>4, <2>1, <2>2, <2>3, <2>4, HoldsPart DEF a, n
<1>13. w(1) = ReadN(s, a, n) /\ w(2) = ReadN(s, b, n)
  OBVIOUS
<1> HIDE DEF a, n, t, w
<1>14. CASE e.vec /\ e.l
  <2> DEFINE p == [s.v EXCEPT ![e.rt] = w(1)]
             v == [p EXCEPT ![e.rt2] = w(2)]
  <2>1. Is(t, Back(s.r, j, a), v, Add(s.pc, 4), s.excl, s.mem)
    <3>1. j.fn = "opVLoadPair" /\ Span("R", addrFor(s, j), 2 * j.sz) /\ j.rd = e.rt /\ j.ra = e.rt2
      BY <1>0, <1>1, <1>7, <1>14
    <3> QED
      BY <1>1, <1>13, <3>1, LoadsVectorPair DEF t
  <2>2. \A x \in XRegs \ {rSink} : GeneralRight(e, s, x, Back(s.r, j, a)[x])
    BY <1>0, <1>10, <1>14, GeneralKept DEF Plain
  <2>3. \A x \in VRegs : VectorRight(e, s, x, v[x])
    <3>1. Holds(e, s, 1, w(1)) /\ Holds(e, s, 2, w(2))
      BY <1>0, <1>12, <1>14
    <3> QED
      BY <1>0, <1>6, <1>9, <1>14, <3>1, VectorTwo
  <2>4. \A c \in Cells : ByteRight(e, s, c, s.mem[c])
    BY <1>0, <1>14, MemoryKept
  <2> HIDE DEF v
  <2> QED
    BY <1>0, <1>8, <2>1, <2>2, <2>3, <2>4, IsAccessed DEF t
<1>15. CASE e.vec /\ ~e.l
  <2>1. /\ j.fn = "opVStorePair" /\ Span("W", addrFor(s, j), 2 * j.sz) /\ (j.sz \in 1 .. 8 \/ j.sz = 16)
        /\ j.rd = e.rt /\ j.ra = e.rt2
    BY <1>0, <1>1, <1>5, <1>7, <1>15
  <2>2. PICK mem : /\ Is(t, Back(s.r, j, a), s.v, Add(s.pc, 4), s.excl, mem)
                   /\ StoresBoth(mem, s.mem, a, n, s.v[e.rt], s.v[e.rt2])
    BY <1>1, <2>1, StoresVectorPair DEF t
  <2>3. \A x \in XRegs \ {rSink} : GeneralRight(e, s, x, Back(s.r, j, a)[x])
    BY <1>0, <1>10, <1>15, GeneralKept DEF Plain
  <2>4. \A x \in VRegs : VectorRight(e, s, x, s.v[x])
    BY <1>0, <1>15, VectorKept
  <2>5. \A c \in Cells : ByteRight(e, s, c, mem[c])
    <3>1. StoresBoth(mem, s.mem, a, n, Datum(e, s, e.rt), Datum(e, s, e.rt2))
      BY <1>0, <1>15, <2>2 DEF Datum
    <3> QED
      BY <1>0, <1>4, <1>5, <1>6, <1>15, <3>1, StoredTwo DEF a, n
  <2> QED
    BY <1>0, <1>8, <2>2, <2>3, <2>4, <2>5, IsAccessed DEF t
<1>16. CASE ~e.vec /\ e.l
  <2> DEFINE y == Extended(j, w(1))
             z == Extended(j, w(2))
             p == [s.r EXCEPT ![xw(e.rt)] = y]
             q == [p EXCEPT ![xw(e.rt2)] = z]
  <2>1. j.fn \in {"opLoadPair", "opLdp64Off"} /\ Span("R", addrFor(s, j), 2 * j.sz)
        /\ j.rd = xw(e.rt) /\ j.ra = xw(e.rt2) /\ (j.fn = "opLdp64Off" => j.sh = extZero)
    BY <1>0, <1>1, <1>7, <1>16
  <2>2. Is(t, Back(q, j, a), s.v, Add(s.pc, 4), s.excl, s.mem)
    BY <1>1, <1>13, <2>1, LoadsPair DEF t
  <2>3. xw(e.rt) \in XRegs /\ xw(e.rt2) \in XRegs
    <3>1. j.fn \in Pairs
      BY <2>1 DEF Pairs
    <3> QED
      BY <2>1, <3>1 DEF Operands
  <2>4. Holds(e, s, 1, y) /\ Holds(e, s, 2, z)
    <3>1. Span("R", a, n) /\ Span("R", b, n)
      BY <1>0, <1>11, <1>16
    <3>2. y = Extend(e, w(1)) /\ z = Extend(e, w(2))
      BY <1>0, <1>4, <1>11, <1>13, <1>16, <3>1, ExtendedIs DEF n
    <3> HIDE DEF y, z
    <3> QED
      BY <1>0, <1>12, <1>16, <3>2
  <2>5. DOMAIN q = XRegs
    BY <1>9
  <2>6. Based(e, s, Back(q, j, a), q)
    <3> HIDE DEF q
    <3> QED
      BY <1>1, <1>3, <2>5, BackBased
  <2> HIDE DEF y, z
  <2>7. \A x \in XRegs \ {rSink} : GeneralRight(e, s, x, Back(q, j, a)[x])
    <3> DEFINE r == Back(q, j, a)
    <3>1. Based(e, s, r, [[s.r EXCEPT ![xw(e.rt)] = y] EXCEPT ![xw(e.rt2)] = z])
      BY <2>6
    <3> HIDE DEF r
    <3>2. \A x \in XRegs \ {rSink} : GeneralRight(e, s, x, r[x])
      BY <1>0, <1>6, <1>9, <1>16, <2>3, <2>4, <3>1, GeneralTwo DEF Plain
    <3> QED
      BY <3>2 DEF r
  <2>8. \A x \in VRegs : VectorRight(e, s, x, s.v[x])
    BY <1>0, <1>16, VectorKept
  <2>9. \A c \in Cells : ByteRight(e, s, c, s.mem[c])
    BY <1>0, <1>16, MemoryKept
  <2> HIDE DEF q
  <2> QED
    BY <1>0, <1>8, <2>2, <2>7, <2>8, <2>9, IsAccessed DEF t
<1>17. CASE ~e.vec /\ ~e.l
  <2>1. /\ j.fn \in {"opStorePair", "opStp64Off"} /\ Span("W", addrFor(s, j), 2 * j.sz)
        /\ j.rd = e.rt /\ j.ra = e.rt2
    BY <1>0, <1>1, <1>7, <1>17 DEF xr
  <2>2. PICK mem : /\ Is(t, Back(s.r, j, a), s.v, Add(s.pc, 4), s.excl, mem)
                   /\ StoresBoth(mem, s.mem, a, n, s.r[e.rt], s.r[e.rt2])
    BY <1>1, <2>1, StoresPair DEF t
  <2>3. \A x \in XRegs \ {rSink} : GeneralRight(e, s, x, Back(s.r, j, a)[x])
    BY <1>0, <1>10, <1>17, GeneralKept DEF Plain
  <2>4. \A x \in VRegs : VectorRight(e, s, x, s.v[x])
    BY <1>0, <1>17, VectorKept
  <2>5. \A c \in Cells : ByteRight(e, s, c, mem[c])
    <3>1. StoresBoth(mem, s.mem, a, n, Datum(e, s, e.rt), Datum(e, s, e.rt2))
      BY <1>0, <1>17, <2>2 DEF Datum
    <3> QED
      BY <1>0, <1>4, <1>5, <1>6, <1>17, <3>1, StoredTwo DEF a, n
  <2> QED
    BY <1>0, <1>8, <2>2, <2>3, <2>4, <2>5, IsAccessed DEF t
<1> QED
  BY <1>0, <1>14, <1>15, <1>16, <1>17 DEF t

\* The status register of a store-exclusive
LEMMA GeneralStatus ==
  ASSUME NEW e, NEW s, e.class = "exclusive", StoresExclusive(e), DOMAIN s.r = XRegs, xw(e.rs) \in XRegs,
         NEW y, y = IF Succeeds(e, s) THEN 0 ELSE 1
  PROVE  \A x \in XRegs \ {rSink} : GeneralRight(e, s, x, [s.r EXCEPT ![xw(e.rs)] = y][x])
<1> SUFFICES ASSUME NEW x \in XRegs, x # rSink
             PROVE  GeneralRight(e, s, x, [s.r EXCEPT ![xw(e.rs)] = y][x])
  OBVIOUS
<1> DEFINE w == [s.r EXCEPT ![xw(e.rs)] = y][x]
<1>1. w = IF x = xw(e.rs) THEN y ELSE s.r[x]
  OBVIOUS
<1>2. x = xw(e.rs) <=> x = e.rs /\ x # rZR
  BY DEF xw, rZR, rSink
<1>3. ~WritesBack(e)
  BY DEF WritesBack
<1>4. Into(e, x) = {}
  BY DEF Into, Loads, StoresExclusive
<1> HIDE DEF w
<1>5. GeneralRight(e, s, x, w)
  <2>1. CASE x = e.rs /\ x # rZR
    BY <1>1, <1>2, <1>3, <2>1 DEF GeneralRight
  <2>2. CASE ~(x = e.rs /\ x # rZR)
    BY <1>1, <1>2, <1>3, <1>4, <2>2 DEF GeneralRight
  <2> QED
    BY <2>1, <2>2
<1> QED
  BY <1>5 DEF w

LEMMA ExclusiveShape ==
  ASSUME NEW e, Encoding(e), Allocated(e), e.class = "exclusive", ~e.o2, NEW s \in CpuStates,
         NEW j, Operands(j), ExclusiveOf(e, j)
  PROVE  /\ ~Prefetch(e) /\ ~InVectors(e) /\ OneOrTwo(e) /\ e.class # "multi"
         /\ (Loads(e) <=> e.l) /\ e.l \in BOOLEAN /\ e.o1 \in BOOLEAN
         /\ (LoadsExclusive(e) <=> e.l) /\ (StoresExclusive(e) <=> ~e.l) /\ ~WritesBack(e)
         /\ Address(e, s) = s.r[j.rn] /\ Address(e, s) \in Word(XLEN) /\ Address(e, s) \in Int
         /\ Add(Address(e, s), 0) = Address(e, s)
         /\ AccessSize(e) \in 1 .. 16 /\ AccessSize(e) \in Nat /\ j.sz = AccessSize(e)
         /\ \A x : Extend(e, x) = x
         /\ Succeeds(e, s) <=> (~e.l => exclusiveOK(s, Address(e, s), Total(e)))
         /\ IF e.o1 THEN Moved(e) = <<e.rt, e.rt2>> /\ Total(e) = 2 * AccessSize(e)
                    ELSE Moved(e) = <<e.rt>> /\ Total(e) = AccessSize(e)
<1>1. /\ ~Prefetch(e) /\ ~InVectors(e) /\ OneOrTwo(e) /\ e.class # "multi"
      /\ (Loads(e) <=> e.l) /\ e.l \in BOOLEAN /\ e.o1 \in BOOLEAN
      /\ (LoadsExclusive(e) <=> e.l) /\ (StoresExclusive(e) <=> ~e.l) /\ ~WritesBack(e)
  BY DEF Prefetch, InVectors, OneOrTwo, Loads, Encoding, LoadsExclusive, StoresExclusive, WritesBack
<1>2. Address(e, s) = s.r[j.rn]
  <2>1. Address(e, s) = Base(s, e.rn)
    BY DEF Address, PostIndexed
  <2> QED
    BY <2>1, BaseRegister DEF ExclusiveOf
<1>3. j.rn \in XRegs
  <2>1. j.fn \in Exclusives
    BY DEF ExclusiveOf, Exclusives
  <2> QED
    BY <2>1 DEF Operands
<1>4. Address(e, s) \in Word(XLEN) /\ Address(e, s) \in Int
  BY <1>2, <1>3, RegisterWord
<1>5. AccessSize(e) \in 1 .. 16 /\ AccessSize(e) \in Nat
  BY <1>1, AccessSizes
<1>6. \A x : Extend(e, x) = x
  BY DEF Extend
<1>7. Succeeds(e, s) <=> (~e.l => exclusiveOK(s, Address(e, s), Total(e)))
  BY <1>1 DEF Succeeds, exclusiveOK
<1>8. IF e.o1 THEN Moved(e) = <<e.rt, e.rt2>> /\ Total(e) = 2 * AccessSize(e)
              ELSE Moved(e) = <<e.rt>> /\ Total(e) = AccessSize(e)
  BY <1>1, MovedIs
<1> QED
  BY <1>1, <1>2, <1>4, <1>5, <1>6, <1>7, <1>8, AddZero DEF ExclusiveOf

LEMMA ExclusiveLoadRight ==
  ASSUME NEW e, Encoding(e), Allocated(e), e.class = "exclusive", ~e.o2, e.l, NEW s \in CpuStates, ~s.fault,
         ~Blocked(e, s), NEW j, Operands(j), ExclusiveOf(e, j), NEW hit
  PROVE  ~Exec(s, j, hit).fault /\ Accessed(e, s, Exec(s, j, hit))
<1> DEFINE a == Address(e, s)
           n == AccessSize(e)
           b == Add(a, n)
           t == Exec(s, j, hit)
           y == ReadN(s, a, n)
           z == ReadN(s, b, n)
<1>1. /\ ~Prefetch(e) /\ ~InVectors(e) /\ OneOrTwo(e) /\ e.class # "multi" /\ Loads(e) /\ e.o1 \in BOOLEAN
      /\ LoadsExclusive(e) /\ ~StoresExclusive(e) /\ ~WritesBack(e)
      /\ a = s.r[j.rn] /\ a \in Word(XLEN) /\ a \in Int /\ Add(a, 0) = a
      /\ n \in 1 .. 16 /\ n \in Nat /\ j.sz = n /\ \A x : Extend(e, x) = x
      /\ Succeeds(e, s)
      /\ IF e.o1 THEN Moved(e) = <<e.rt, e.rt2>> /\ Total(e) = 2 * n
                 ELSE Moved(e) = <<e.rt>> /\ Total(e) = n
  BY ExclusiveShape
<1>2. Span("R", a, Total(e))
  BY <1>1, NotBlocked
<1>3. DOMAIN s.r = XRegs
  BY StateShape
<1>4. b \in Word(XLEN)
  <2> HIDE DEF a, n
  <2> QED
    BY <1>1, AddInWord
<1>5. /\ j.rd = xw(e.rt) /\ (e.o1 => j.rm = xw(e.rt2))
      /\ j.fn = IF e.o1 THEN "opLdxp" ELSE "opLdxr"
  BY DEF ExclusiveOf
<1>6. xw(e.rt) \in XRegs /\ (e.o1 => xw(e.rt2) \in XRegs)
  <2>1. j.fn \in Exclusives
    BY <1>5 DEF Exclusives
  <2> QED
    BY <1>5, <2>1 DEF Operands
<1>7. \A k \in VRegs : VectorRight(e, s, k, s.v[k])
  BY <1>1, VectorKept
<1>8. \A c \in Cells : ByteRight(e, s, c, s.mem[c])
  BY <1>1, MemoryKept
<1> HIDE DEF a, n, b, t, y, z
<1>9. CASE e.o1
  <2> DEFINE p == [s.r EXCEPT ![xw(e.rt)] = y]
             q == [p EXCEPT ![xw(e.rt2)] = z]
  <2>1. Span("R", a, 2 * n) /\ Span("R", a, n) /\ Span("R", b, n)
    <3>1. Span("R", a, 2 * n) /\ n \in 1 .. 32
      BY <1>1, <1>2, <1>9
    <3> QED
      BY <1>1, <3>1, AllowedHalves DEF b
  <2>2. PICK x : Is(t, q, s.v, Add(s.pc, 4), x, s.mem) /\ Marks(x, a, 2 * n)
    <3>1. j.fn = "opLdxp" /\ Span("R", s.r[j.rn], 2 * j.sz)
      BY <1>1, <1>5, <1>9, <2>1
    <3>2. \E m : Is(t, [[s.r EXCEPT ![j.rd] = ReadN(s, s.r[j.rn], j.sz)]
                          EXCEPT ![j.rm] = ReadN(s, Add(s.r[j.rn], j.sz), j.sz)],
                    s.v, Add(s.pc, 4), m, s.mem) /\ Marks(m, s.r[j.rn], 2 * j.sz)
      BY <3>1, LoadsExclusivePair DEF t
    <3>3. y = ReadN(s, s.r[j.rn], j.sz) /\ z = ReadN(s, Add(s.r[j.rn], j.sz), j.sz)
      BY <1>1 DEF y, z, b
    <3> QED
      BY <1>1, <1>5, <1>9, <3>2, <3>3
  <2>3. Holds(e, s, 1, y) /\ Holds(e, s, 2, z)
    <3>1. Total(e) <= 2 * n /\ Total(e) \in Nat
      BY <1>1, <1>9
    <3>2. \A w, k : k \in {1, 2} /\ w = ReadN(s, IF k = 1 THEN a ELSE b, n) => Holds(e, s, k, w)
      <4> SUFFICES ASSUME NEW w, NEW k \in {1, 2}, w = ReadN(s, IF k = 1 THEN a ELSE b, n)
                   PROVE  Holds(e, s, k, w)
        OBVIOUS
      <4> DEFINE d == IF k = 1 THEN a ELSE b
      <4>1. Span("R", d, n) /\ d \in Word(XLEN) /\ d = Add(a, IF k = 1 THEN 0 ELSE n)
        BY <1>1, <1>4, <2>1 DEF b
      <4>2. w = IF InVectors(e) THEN ReadN(s, d, n) ELSE Extend(e, ReadN(s, d, n))
        BY <1>1
      <4> HIDE DEF d
      <4> QED
        BY <1>1, <3>1, <4>1, <4>2, HoldsPart DEF a, n
    <3> QED
      BY <3>2 DEF y, z
  <2>4. Based(e, s, q, q)
    BY <1>1 DEF Based
  <2>5. \A k \in XRegs \ {rSink} : GeneralRight(e, s, k, q[k])
    <3> DEFINE r == q
    <3>1. Based(e, s, r, [[s.r EXCEPT ![xw(e.rt)] = y] EXCEPT ![xw(e.rt2)] = z])
      BY <2>4
    <3> HIDE DEF r
    <3>2. \A k \in XRegs \ {rSink} : GeneralRight(e, s, k, r[k])
      BY <1>1, <1>3, <1>6, <1>9, <2>3, <3>1, GeneralTwo
    <3> QED
      BY <3>2 DEF r
  <2>6. MonitorRight(e, s, x)
    BY <1>1, <1>9, <2>2 DEF MonitorRight, a, n
  <2> HIDE DEF q
  <2> QED
    BY <1>1, <1>7, <1>8, <2>2, <2>5, <2>6, IsAccessed DEF t
<1>10. CASE ~e.o1
  <2> DEFINE q == [s.r EXCEPT ![xw(e.rt)] = y]
  <2>1. PICK x : Is(t, q, s.v, Add(s.pc, 4), x, s.mem) /\ Marks(x, a, n)
    <3>1. j.fn = "opLdxr" /\ Span("R", s.r[j.rn], j.sz)
      BY <1>1, <1>2, <1>5, <1>10
    <3>2. \E m : Is(t, [s.r EXCEPT ![j.rd] = ReadN(s, s.r[j.rn], j.sz)], s.v, Add(s.pc, 4), m, s.mem)
                 /\ Marks(m, s.r[j.rn], j.sz)
      BY <3>1, LoadsExclusiveOne DEF t
    <3>3. y = ReadN(s, s.r[j.rn], j.sz)
      BY <1>1 DEF y
    <3> QED
      BY <1>1, <1>5, <3>2, <3>3
  <2>2. Holds(e, s, 1, y)
    <3>1. Total(e) <= 2 * n /\ Total(e) \in Nat /\ 1 \in {1, 2}
      BY <1>1, <1>10
    <3>2. Span("R", a, n) /\ a = Add(a, IF 1 = 1 THEN 0 ELSE n)
      BY <1>1, <1>2, <1>10
    <3>3. y = IF InVectors(e) THEN ReadN(s, a, n) ELSE Extend(e, ReadN(s, a, n))
      BY <1>1 DEF y
    <3> QED
      BY <1>1, <3>1, <3>2, <3>3, HoldsPart DEF a, n
  <2>3. Based(e, s, q, q)
    BY <1>1 DEF Based
  <2>4. \A k \in XRegs \ {rSink} : GeneralRight(e, s, k, q[k])
    <3> DEFINE r == q
    <3>1. Based(e, s, r, [s.r EXCEPT ![xw(e.rt)] = y])
      BY <2>3
    <3> HIDE DEF r
    <3>2. \A k \in XRegs \ {rSink} : GeneralRight(e, s, k, r[k])
      BY <1>1, <1>3, <1>6, <1>10, <2>2, <3>1, GeneralOne
    <3> QED
      BY <3>2 DEF r
  <2>5. MonitorRight(e, s, x)
    BY <1>1, <1>10, <2>1 DEF MonitorRight, a, n
  <2> HIDE DEF q
  <2> QED
    BY <1>1, <1>7, <1>8, <2>1, <2>4, <2>5, IsAccessed DEF t
<1> QED
  BY <1>1, <1>9, <1>10 DEF t

LEMMA ExclusiveStoreRight ==
  ASSUME NEW e, Encoding(e), Allocated(e), e.class = "exclusive", ~e.o2, ~e.l, NEW s \in CpuStates, ~s.fault,
         ~Blocked(e, s), NEW j, Operands(j), ExclusiveOf(e, j), NEW hit
  PROVE  ~Exec(s, j, hit).fault /\ Accessed(e, s, Exec(s, j, hit))
<1> DEFINE a == Address(e, s)
           n == AccessSize(e)
           t == Exec(s, j, hit)
           q(y) == [s.r EXCEPT ![xw(e.rs)] = y]
           x == [s.excl EXCEPT !.valid = FALSE]
<1>1. /\ ~Prefetch(e) /\ ~InVectors(e) /\ OneOrTwo(e) /\ e.class # "multi" /\ ~Loads(e) /\ e.o1 \in BOOLEAN
      /\ ~LoadsExclusive(e) /\ StoresExclusive(e) /\ ~WritesBack(e)
      /\ a = s.r[j.rn] /\ a \in Word(XLEN) /\ a \in Int
      /\ n \in 1 .. 16 /\ n \in Nat /\ j.sz = n
      /\ Succeeds(e, s) <=> exclusiveOK(s, a, Total(e))
      /\ IF e.o1 THEN Moved(e) = <<e.rt, e.rt2>> /\ Total(e) = 2 * n
                 ELSE Moved(e) = <<e.rt>> /\ Total(e) = n
  BY ExclusiveShape
<1>2. Succeeds(e, s) => Span("W", a, Total(e))
  BY <1>1, NotBlocked
<1>3. DOMAIN s.r = XRegs
  BY StateShape
<1>4. /\ j.rd = e.rt /\ j.ra = xw(e.rs) /\ (e.o1 => j.rm = e.rt2)
      /\ j.fn = IF e.o1 THEN "opStxp" ELSE "opStxr"
  BY DEF ExclusiveOf, xr
<1>5. xw(e.rs) \in XRegs
  BY DEF Encoding
<1>6. \A k \in VRegs : VectorRight(e, s, k, s.v[k])
  BY <1>1, VectorKept
<1>7. MonitorRight(e, s, x)
  <2>1. x.valid = FALSE
    BY DEF CpuStates
  <2> HIDE DEF x
  <2> QED
    BY <1>1, <2>1 DEF MonitorRight
<1>8. \A y : y = (IF Succeeds(e, s) THEN 0 ELSE 1) => \A k \in XRegs \ {rSink} : GeneralRight(e, s, k, q(y)[k])
  BY <1>1, <1>3, <1>5, GeneralStatus
<1> DEFINE q0 == q(0)
           q1 == q(1)
<1>9. /\ Succeeds(e, s) => \A k \in XRegs \ {rSink} : GeneralRight(e, s, k, q0[k])
      /\ ~Succeeds(e, s) => \A k \in XRegs \ {rSink} : GeneralRight(e, s, k, q1[k])
  <2> HIDE DEF q
  <2> QED
    BY <1>8
<1>10. Datum(e, s, e.rt) = s.r[e.rt] /\ Datum(e, s, e.rt2) = s.r[e.rt2]
  BY <1>1 DEF Datum
<1> HIDE DEF a, n, t
<1>11. CASE Succeeds(e, s) /\ e.o1
  <2>1. PICK mem : Is(t, q0, s.v, Add(s.pc, 4), x, mem) /\ StoresBoth(mem, s.mem, a, n, s.r[e.rt], s.r[e.rt2])
    <3>1. j.fn = "opStxp" /\ exclusiveOK(s, s.r[j.rn], 2 * j.sz) /\ Span("W", s.r[j.rn], 2 * j.sz)
      BY <1>1, <1>2, <1>4, <1>11
    <3>2. \E mem : /\ Is(t, [s.r EXCEPT ![j.ra] = 0], s.v, Add(s.pc, 4), x, mem)
                   /\ StoresBoth(mem, s.mem, s.r[j.rn], j.sz, s.r[j.rd], s.r[j.rm])
      BY <3>1, StoresExclusivePair DEF t
    <3> QED
      BY <1>1, <1>4, <1>11, <3>2
  <2>2. \A c \in Cells : ByteRight(e, s, c, mem[c])
    <3>1. StoresBoth(mem, s.mem, a, n, Datum(e, s, e.rt), Datum(e, s, e.rt2))
      BY <1>10, <2>1
    <3> QED
      BY <1>1, <1>11, <3>1, StoredTwo DEF a, n
  <2> HIDE DEF q0, x
  <2> QED
    BY <1>1, <1>6, <1>7, <1>9, <1>11, <2>1, <2>2, IsAccessed DEF t
<1>12. CASE Succeeds(e, s) /\ ~e.o1
  <2> DEFINE mem == storeN(s.mem, a, n, s.r[e.rt])
  <2>1. Is(t, q0, s.v, Add(s.pc, 4), x, mem)
    <3>1. j.fn = "opStxr" /\ exclusiveOK(s, s.r[j.rn], j.sz) /\ Span("W", s.r[j.rn], j.sz)
      BY <1>1, <1>2, <1>4, <1>12
    <3>2. Is(t, [s.r EXCEPT ![j.ra] = 0], s.v, Add(s.pc, 4), x, storeN(s.mem, s.r[j.rn], j.sz, s.r[j.rd]))
      BY <3>1, StoresExclusiveOne DEF t
    <3> QED
      BY <1>1, <1>4, <3>2
  <2>2. \A c \in Cells : ByteRight(e, s, c, mem[c])
    <3>1. Stores(mem, s.mem, a, n, Datum(e, s, e.rt))
      BY <1>10, storeNStores
    <3> HIDE DEF mem
    <3> QED
      BY <1>1, <1>12, <3>1, StoredOne DEF a, n
  <2> HIDE DEF q0, x, mem
  <2> QED
    BY <1>1, <1>6, <1>7, <1>9, <1>12, <2>1, <2>2, IsAccessed DEF t
<1>13. CASE ~Succeeds(e, s)
  <2>1. Is(t, q1, s.v, Add(s.pc, 4), x, s.mem)
    <3>1. CASE e.o1
      <4>1. j.fn = "opStxp" /\ ~exclusiveOK(s, s.r[j.rn], 2 * j.sz)
        BY <1>1, <1>4, <1>13, <3>1
      <4>2. Is(t, [s.r EXCEPT ![j.ra] = 1], s.v, Add(s.pc, 4), x, s.mem)
        BY <4>1, StoresExclusivePair DEF t
      <4> QED
        BY <1>4, <4>2
    <3>2. CASE ~e.o1
      <4>1. j.fn = "opStxr" /\ ~exclusiveOK(s, s.r[j.rn], j.sz)
        BY <1>1, <1>4, <1>13, <3>2
      <4>2. Is(t, [s.r EXCEPT ![j.ra] = 1], s.v, Add(s.pc, 4), x, s.mem)
        BY <4>1, StoresExclusiveOne DEF t
      <4> QED
        BY <1>4, <4>2
    <3> QED
      BY <3>1, <3>2
  <2>2. \A c \in Cells : ByteRight(e, s, c, s.mem[c])
    BY <1>13, MemoryKept
  <2> HIDE DEF q1, x
  <2> QED
    BY <1>1, <1>6, <1>7, <1>9, <1>13, <2>1, <2>2, IsAccessed DEF t
<1> QED
  BY <1>1, <1>11, <1>12, <1>13 DEF t

-----------------------------------------------------------------------------
(* Several registers at once.                                                 *)

\* The j-th byte in memory, in the architecture's terms and in the handler's
LEMMA PlaceOfLane ==
  ASSUME NEW e, Encoding(e), Allocated(e), e.class = "multi", NEW i, Operands(i), MultiOf(e, i),
         NEW j \in 0 .. simdMultiParams(i).total - 1
  PROVE  Place(e, j) = <<LaneReg(i, j) + 1, LaneIndex(i, j) * simdMultiParams(i).esize + LaneByte(i, j)>>
<1> DEFINE p == simdMultiParams(i)
           z == p.esize
           n == AccessSize(e)
           c == i.sh
           m == j \div z
<1>1. /\ i.sh = RegCount(e) /\ i.sz = e.size /\ i.amt = n
      /\ i.ra = IF e.opcode \in {0, 4, 8} THEN RegCount(e) ELSE 1
      /\ i.fn \in Multis
  BY DEF MultiOf, Multis
<1>2. /\ z \in {1, 2, 4, 8} /\ p.lanes \in 1 .. 16 /\ p.lanes * z = n /\ c \in 1 .. 4
      /\ p.total = (c * p.lanes) * z
  BY <1>1, MultiParams
<1>3. Len(Moved(e)) = c /\ e.opcode \in {0, 2, 4, 6, 7, 8, 10} /\ z = 2^e.size
  BY <1>1, MovedIs DEF Allocated, simdMultiParams
<1>4. CASE e.opcode \in {0, 4, 8}
  <2>1. c >= 2 /\ i.ra = c
    BY <1>1, <1>4, ShapeIs
  <2>2. LaneReg(i, j) = m % c /\ LaneIndex(i, j) = m \div c /\ LaneByte(i, j) = j % z
    BY <2>1 DEF LaneReg, LaneIndex, LaneByte
  <2>3. Place(e, j) = <<(m % c) + 1, (m \div c) * z + (j % z)>>
    BY <1>3, <1>4 DEF Place
  <2> QED
    BY <2>2, <2>3
<1>5. CASE e.opcode \notin {0, 4, 8}
  <2> DEFINE l == p.lanes
             k == m \div l
  <2>1. LaneReg(i, j) = m \div l /\ LaneIndex(i, j) = m % l /\ LaneByte(i, j) = j % z
    BY <1>1, <1>5 DEF LaneReg, LaneIndex, LaneByte
  <2>2. Place(e, j) = <<(j \div n) + 1, j % n>>
    BY <1>5 DEF Place
  <2>3. z \in Nat /\ z > 0 /\ l \in Nat /\ l > 0 /\ c \in Nat /\ n = l * z
    BY <1>2
  <2>4. j \in 0 .. (c * l) * z - 1
    BY <1>2
  <2> HIDE DEF z, l, c, n, m, p
  <2>5. m \in 0 .. c * l - 1 /\ j % z \in 0 .. z - 1 /\ j = m * z + (j % z)
    <3> DEFINE w == c * l
    <3>1. w \in Nat /\ j \in 0 .. w * z - 1
      BY <2>3, <2>4
    <3> HIDE DEF w
    <3>2. j \div z \in 0 .. w - 1 /\ j % z \in 0 .. z - 1 /\ j = (j \div z) * z + (j % z)
      BY <2>3, <3>1, Divides
    <3> QED
      BY <3>2 DEF w, m
  <2>6. m \div l \in 0 .. c - 1 /\ m % l \in 0 .. l - 1 /\ m = (m \div l) * l + (m % l)
    BY <2>3, <2>5, Divides
  <2> DEFINE u == m % l
             d == j % z
  <2>7. k \in Nat /\ u \in 0 .. l - 1 /\ d \in 0 .. z - 1 /\ j = (k * l + u) * z + d
    BY <2>5, <2>6
  <2> HIDE DEF k, u, d
  <2>8. j = k * n + (u * z + d)
    <3>1. (k * l + u) * z = k * (l * z) + u * z
      BY <2>3, <2>7
    <3>2. u * z \in Nat /\ k * (l * z) \in Nat
      BY <2>3, <2>7
    <3> QED
      BY <2>3, <2>7, <3>1, <3>2
  <2>9. u * z + d \in 0 .. n - 1
    <3>1. (u + 1) * z <= l * z
      <4>1. u + 1 \in Nat /\ u + 1 <= l
        BY <2>3, <2>7
      <4> DEFINE f == l - (u + 1)
      <4>2. f \in Nat /\ l = (u + 1) + f
        BY <2>3, <2>7, <4>1
      <4> HIDE DEF f
      <4>3. l * z = (u + 1) * z + f * z /\ f * z \in Nat /\ (u + 1) * z \in Nat
        BY <2>3, <4>1, <4>2
      <4>4. l * z \in Nat
        BY <2>3
      <4> QED
        BY <4>3, <4>4
    <3>2. (u + 1) * z = u * z + z /\ u * z \in Nat /\ l * z \in Nat
      BY <2>3, <2>7
    <3> QED
      BY <2>3, <2>7, <3>1, <3>2
  <2>10. j \div n = k /\ j % n = u * z + d
    <3> DEFINE g == u * z + d
    <3>3. g \in 0 .. n - 1 /\ n \in Nat
      <4>1. l * z \in Nat
        BY <2>3
      <4> QED
        BY <2>3, <2>9, <4>1
    <3> HIDE DEF g
    <3>1. n \in Nat /\ n > 0
      BY <3>3
    <3>2. (k * n + g) \div n = k /\ (k * n + g) % n = g
      BY <2>7, <3>1, <3>3, DivUnique
    <3> QED
      BY <2>8, <3>2 DEF g
  <2>11. Place(e, j) = <<k + 1, u * z + d>>
    BY <2>2, <2>10
  <2>12. LaneReg(i, j) = k /\ LaneIndex(i, j) = u /\ LaneByte(i, j) = d
    BY <2>1 DEF k, u, d
  <2>13. simdMultiParams(i).esize = z
    BY DEF z, p
  <2> QED
    BY <2>11, <2>12, <2>13
<1> QED
  BY <1>4, <1>5

\* The base moves on as the encoding says
LEMMA AdvancedBased ==
  ASSUME NEW e, Encoding(e), Allocated(e), e.class = "multi", NEW s \in CpuStates,
         NEW j, Operands(j), MultiOf(e, j)
  PROVE  Based(e, s, Advanced(s.r, j, s.r[j.rn]), s.r)
<1> DEFINE a == s.r[j.rn]
           total == RegCount(e) * AccessSize(e)
<1>1. j.rn = xsp(e.rn) /\ j.rn \in XRegs /\ DOMAIN s.r = XRegs
  <2>1. j.fn \in Multis
    BY DEF MultiOf, Multis
  <2> QED
    BY <2>1, StateShape DEF MultiOf, Operands
<1>2. NewBase(e, s) = Add(a, IF e.rm = 31 THEN total ELSE s.r[e.rm])
  BY <1>1, BaseRegister, MovedIs DEF NewBase
<1>3. WritesBack(e) <=> e.post
  BY DEF WritesBack
<1>4. CASE ~e.post
  <2>1. j.cond # modePost /\ j.cond # modeReg
    BY <1>4, Modes DEF MultiOf
  <2>2. Advanced(s.r, j, a) = s.r
    BY <2>1 DEF Advanced
  <2> QED
    BY <1>3, <1>4, <2>2 DEF Based
<1>5. CASE e.post /\ e.rm = 31
  <2>1. j.cond = modePost /\ j.imm = total
    BY <1>5 DEF MultiOf
  <2> HIDE DEF total, a
  <2>2. Advanced(s.r, j, a) = [s.r EXCEPT ![j.rn] = Add(a, total)]
    BY <2>1, Modes DEF Advanced
  <2>3. NewBase(e, s) = Add(a, total)
    BY <1>2, <1>5
  <2> HIDE DEF NewBase
  <2> QED
    BY <1>1, <1>3, <1>5, <2>2, <2>3 DEF Based, a
<1>6. CASE e.post /\ e.rm # 31
  <2>1. j.cond = modeReg /\ j.rm = e.rm
    BY <1>6 DEF MultiOf
  <2> HIDE DEF total, a
  <2>2. Advanced(s.r, j, a) = [s.r EXCEPT ![j.rn] = Add(a, s.r[e.rm])]
    BY <2>1, Modes DEF Advanced
  <2>3. NewBase(e, s) = Add(a, s.r[e.rm])
    BY <1>2, <1>6
  <2> QED
    BY <1>1, <1>3, <1>6, <2>2, <2>3 DEF Based, a
<1> QED
  BY <1>4, <1>5, <1>6

LEMMA MultiIs ==
  ASSUME NEW e, Encoding(e), Allocated(e), e.class = "multi", NEW s \in CpuStates,
         NEW j, Operands(j), MultiOf(e, j)
  PROVE  /\ ~Prefetch(e) /\ InVectors(e) /\ Plain(e) /\ (Loads(e) <=> e.l) /\ Succeeds(e, s)
         /\ j.fn = (IF e.l THEN "opSIMDLoadMulti" ELSE "opSIMDStoreMulti") /\ j.fn \in Multis
         /\ Address(e, s) = s.r[j.rn] /\ Address(e, s) \in Word(XLEN)
         /\ Total(e) = simdMultiParams(j).total /\ Total(e) \in 1 .. 64 /\ AccessSize(e) = j.amt
         /\ j.sh \in 1 .. 4 /\ Moved(e) = [k \in 1 .. j.sh |-> VReg(j, k - 1)]
<1>1. ~Prefetch(e) /\ InVectors(e) /\ Plain(e) /\ (Loads(e) <=> e.l) /\ Succeeds(e, s)
  BY DEF Prefetch, InVectors, Plain, Loads, Succeeds, StoresExclusive, LoadsExclusive
<1>2. j.fn = (IF e.l THEN "opSIMDLoadMulti" ELSE "opSIMDStoreMulti") /\ j.fn \in Multis
  BY DEF MultiOf, Multis
<1>3. Address(e, s) = s.r[j.rn]
  <2>1. Address(e, s) = Base(s, e.rn)
    BY DEF Address, PostIndexed
  <2> QED
    BY <2>1, BaseRegister DEF MultiOf
<1>4. simdMultiParams(j).total \in 1 .. 64 /\ j.sh \in 1 .. 4 /\ j.rd \in 0 .. 31 /\ j.rn \in XRegs
      /\ simdMultiParams(j).total = j.sh * j.amt
  BY <1>2, MultiParams
<1>5. j.sh = RegCount(e) /\ j.amt = AccessSize(e) /\ j.rd = e.rt
  BY DEF MultiOf
<1>6. Moved(e) = [k \in 1 .. j.sh |-> (e.rt + k - 1) % 32] /\ Total(e) = RegCount(e) * AccessSize(e)
  BY <1>5, MovedIs
<1>7. \A k \in 1 .. j.sh : (e.rt + k - 1) % 32 = VReg(j, k - 1)
  <2> SUFFICES ASSUME NEW k \in 1 .. j.sh PROVE (e.rt + k - 1) % 32 = VReg(j, k - 1)
    OBVIOUS
  <2>1. e.rt + k - 1 = j.rd + (k - 1)
    BY <1>4, <1>5
  <2> QED
    BY <2>1 DEF VReg
<1> QED
  BY <1>1, <1>2, <1>3, <1>4, <1>5, <1>6, <1>7, RegisterWord

\* What a block load leaves in the vector registers is right
LEMMA GathersRight ==
  ASSUME NEW e, Encoding(e), Allocated(e), e.class = "multi", e.l, NEW s \in CpuStates,
         NEW j, Operands(j), MultiOf(e, j), NEW v, Gathers(v, s, j)
  PROVE  \A x \in VRegs : VectorRight(e, s, x, v[x])
<1> DEFINE p == simdMultiParams(j)
<1>1. /\ InVectors(e) /\ Loads(e) /\ j.fn \in Multis
      /\ Address(e, s) = s.r[j.rn] /\ Total(e) = p.total /\ AccessSize(e) = j.amt
      /\ j.sh \in 1 .. 4 /\ Moved(e) = [k \in 1 .. j.sh |-> VReg(j, k - 1)]
  BY MultiIs
<1>2. p.total \in 1 .. 64 /\ j.rd \in 0 .. 31 /\ j.amt \in {8, 16}
  BY <1>1, MultiParams
<1> SUFFICES ASSUME NEW x \in VRegs PROVE VectorRight(e, s, x, v[x])
  OBVIOUS
<1>3. Into(e, x) = {k \in 1 .. j.sh : VReg(j, k - 1) = x}
  BY <1>1 DEF Into
<1>4. CASE \A k \in 0 .. j.sh - 1 : x # VReg(j, k)
  <2>1. v[x] = s.v[x]
    BY <1>4 DEF Gathers
  <2>2. Into(e, x) = {}
    <3>1. \A k \in 1 .. j.sh : k - 1 \in 0 .. j.sh - 1
      BY <1>1
    <3> QED
      BY <1>3, <1>4, <3>1
  <2> QED
    BY <2>1, <2>2 DEF VectorRight
<1>5. ASSUME NEW k \in 0 .. j.sh - 1, x = VReg(j, k)
      PROVE  VectorRight(e, s, x, v[x])
  <2>1. k + 1 \in Into(e, x)
    <3>1. k + 1 \in 1 .. j.sh /\ (k + 1) - 1 = k
      BY <1>1
    <3> QED
      BY <1>3, <1>5, <3>1
  <2>2. Low(v[x], ByteBits * AccessSize(e)) = v[x]
    <3>1. v[x] \in Word(ByteBits * j.amt)
      BY <1>5 DEF Gathers
    <3>2. ByteBits * j.amt \in 0 .. 2 * XLEN
      <4>1. j.amt \in 0 .. 16
        BY <1>2
      <4> QED
        BY <4>1, ByteWidths
    <3> QED
      BY <1>1, <3>1, <3>2, LowOfWord
  <2>3. ASSUME NEW b \in 0 .. Total(e) - 1, Place(e, b)[1] = k + 1
        PROVE  ByteOf(v[x], Place(e, b)[2]) = s.mem[Add(Address(e, s), b)]
    <3>1. b \in 0 .. p.total - 1
      BY <1>1
    <3> DEFINE at == LaneIndex(j, b) * p.esize + LaneByte(j, b)
    <3>2. Place(e, b) = <<LaneReg(j, b) + 1, at>>
      BY <3>1, PlaceOfLane
    <3>3. LaneReg(j, b) \in 0 .. j.sh - 1
      BY <1>1, <3>1, LaneOfByte
    <3>4. ByteOf(v[VReg(j, LaneReg(j, b))], at) = s.mem[Add(s.r[j.rn], b)]
      BY <3>1 DEF Gathers
    <3> HIDE DEF at
    <3>5. LaneReg(j, b) + 1 = k + 1 /\ Place(e, b)[2] = at
      BY <2>3, <3>2
    <3>6. LaneReg(j, b) = k
      BY <1>1, <3>3, <3>5
    <3> QED
      BY <1>1, <1>5, <3>4, <3>5, <3>6
  <2>4. Holds(e, s, k + 1, v[x])
    BY <1>1, <2>2, <2>3 DEF Holds
  <2> QED
    BY <1>1, <2>1, <2>4 DEF VectorRight
<1> QED
  BY <1>4, <1>5

\* What a block store leaves in memory is right
LEMMA ScattersRight ==
  ASSUME NEW e, Encoding(e), Allocated(e), e.class = "multi", ~e.l, NEW s \in CpuStates,
         NEW j, Operands(j), MultiOf(e, j), NEW mem, Scatters(mem, s, j)
  PROVE  \A c \in Cells : ByteRight(e, s, c, mem[c])
<1> DEFINE p == simdMultiParams(j)
<1>1. /\ InVectors(e) /\ ~Loads(e) /\ Succeeds(e, s) /\ j.fn \in Multis
      /\ Address(e, s) = s.r[j.rn] /\ Address(e, s) \in Int /\ Total(e) = p.total
      /\ j.sh \in 1 .. 4 /\ Moved(e) = [k \in 1 .. j.sh |-> VReg(j, k - 1)]
  BY MultiIs, WordXLEN
<1>2. p.total \in 1 .. 64
  BY <1>1, MultiParams
<1> SUFFICES ASSUME NEW c \in Cells PROVE ByteRight(e, s, c, mem[c])
  OBVIOUS
<1> DEFINE b == Low(c - s.r[j.rn], XLEN)
           at == LaneIndex(j, b) * p.esize + LaneByte(j, b)
<1>3. b \in Nat
  BY <1>1, Offsets
<1>4. mem[c] = IF b < p.total THEN ByteOf(s.v[VReg(j, LaneReg(j, b))], at) ELSE s.mem[c]
  BY DEF Scatters
<1>5. ByteRight(e, s, c, mem[c]) <=> mem[c] = IF b < p.total THEN Stored(e, s, b) ELSE s.mem[c]
  BY <1>1 DEF ByteRight
<1> HIDE DEF b
<1>6. ASSUME b < p.total
      PROVE  Stored(e, s, b) = ByteOf(s.v[VReg(j, LaneReg(j, b))], at)
  <2>1. b \in 0 .. p.total - 1
    BY <1>2, <1>3, <1>6
  <2>2. Place(e, b) = <<LaneReg(j, b) + 1, at>>
    BY <2>1, PlaceOfLane
  <2>3. LaneReg(j, b) \in 0 .. j.sh - 1
    BY <1>1, <2>1, LaneOfByte
  <2> DEFINE k == LaneReg(j, b)
  <2> HIDE DEF at, k
  <2>4. k + 1 \in 1 .. j.sh /\ (k + 1) - 1 = k
    BY <1>1, <2>3 DEF k
  <2>5. Moved(e)[k + 1] = VReg(j, k)
    BY <1>1, <2>4
  <2> QED
    BY <1>1, <2>2, <2>5 DEF Stored, k
<1> HIDE DEF at
<1> QED
  BY <1>4, <1>5, <1>6

LEMMA MultiRight ==
  ASSUME NEW e, Encoding(e), Allocated(e), e.class = "multi", NEW s \in CpuStates, ~s.fault,
         ~Blocked(e, s), NEW j, Operands(j), MultiOf(e, j), NEW hit
  PROVE  ~Exec(s, j, hit).fault /\ Accessed(e, s, Exec(s, j, hit))
<1> DEFINE t == Exec(s, j, hit)
           q == Advanced(s.r, j, s.r[j.rn])
<1>1. /\ ~Prefetch(e) /\ InVectors(e) /\ Plain(e) /\ (Loads(e) <=> e.l) /\ Succeeds(e, s)
      /\ j.fn = (IF e.l THEN "opSIMDLoadMulti" ELSE "opSIMDStoreMulti")
      /\ Address(e, s) = s.r[j.rn] /\ Total(e) = simdMultiParams(j).total
  BY MultiIs
<1>2. Span(IF e.l THEN "R" ELSE "W", s.r[j.rn], simdMultiParams(j).total)
  BY <1>1, NotBlocked
<1>3. \A x \in XRegs \ {rSink} : GeneralRight(e, s, x, q[x])
  <2>1. Based(e, s, q, s.r)
    BY AdvancedBased
  <2> HIDE DEF q
  <2> QED
    BY <1>1, <2>1, GeneralKept DEF Plain
<1>4. MonitorRight(e, s, s.excl)
  BY <1>1 DEF MonitorRight, Plain
<1> HIDE DEF q
<1>5. CASE e.l
  <2>1. PICK v : Is(t, q, v, Add(s.pc, 4), s.excl, s.mem) /\ Gathers(v, s, j)
    BY <1>1, <1>2, <1>5, LoadsMulti DEF t, q
  <2>2. \A x \in VRegs : VectorRight(e, s, x, v[x])
    BY <1>5, <2>1, GathersRight
  <2>3. \A c \in Cells : ByteRight(e, s, c, s.mem[c])
    BY <1>1, <1>5, MemoryKept
  <2> HIDE DEF t
  <2> QED
    BY <1>1, <1>3, <1>4, <2>1, <2>2, <2>3, IsAccessed DEF t
<1>6. CASE ~e.l
  <2>1. PICK mem : Is(t, q, s.v, Add(s.pc, 4), s.excl, mem) /\ Scatters(mem, s, j)
    BY <1>1, <1>2, <1>6, StoresMulti DEF t, q
  <2>2. \A x \in VRegs : VectorRight(e, s, x, s.v[x])
    BY <1>1, <1>6, VectorKept
  <2>3. \A c \in Cells : ByteRight(e, s, c, mem[c])
    BY <1>6, <2>1, ScattersRight
  <2> HIDE DEF t
  <2> QED
    BY <1>1, <1>3, <1>4, <2>1, <2>2, <2>3, IsAccessed DEF t
<1> QED
  BY <1>5, <1>6

-----------------------------------------------------------------------------
(* One instruction, whatever its class.                                       *)

\* How far a byte of memory lies from the block tells whether it is in it
LEMMA InBlock ==
  ASSUME NEW z \in Int, NEW n \in 1 .. 64, NEW c \in Cells
  PROVE  c \in {Add(z, j) : j \in 0 .. n - 1} <=> Low(c - z, XLEN) < n
<1>1. c \in 0 .. M - 1
  BY PagesAssumption, Widths DEF Cells, M
<1>2. c - z \in Int /\ Low(c - z, XLEN) \in Nat /\ z + (c - z) = c
  <2>1. Low(c - z, XLEN) \in Nat
    BY Offsets
  <2>2. c \in Int /\ M \in Nat
    BY <1>1, Widths
  <2> QED
    BY <2>1, <2>2
<1>3. M >= 64
  <2>1. PageOf(0) * PageSize + PageSize <= M /\ PageOf(0) \in Nat
    BY PageFits, Widths
  <2> DEFINE q == PageOf(0) * PageSize
  <2>2. q \in Nat
    BY <2>1, Widths
  <2> HIDE DEF q
  <2> QED
    BY <2>1, <2>2, Widths, WordXLEN DEF q
<1>4. ASSUME Low(c - z, XLEN) < n
      PROVE  \E j \in 0 .. n - 1 : c = Add(z, j)
  <2> DEFINE j == Low(c - z, XLEN)
  <2>1. Add(z, j) = Add(z, c - z)
    BY <1>2, AddLow
  <2>2. Add(z, c - z) = c
    BY <1>1, <1>2, AddSmall
  <2>3. j \in 0 .. n - 1
    BY <1>2, <1>4
  <2> HIDE DEF j
  <2> QED
    BY <2>1, <2>2, <2>3
<1>5. ASSUME NEW j \in 0 .. n - 1, c = Add(z, j)
      PROVE  Low(c - z, XLEN) < n
  <2>1. Low(c - z, XLEN) = Add(c, 0 - z)
    BY <1>1, <1>2 DEF Add
  <2>2. Add(Add(z, j), 0 - z) = Add(z, j + (0 - z))
    BY AddAdd
  <2>3. z + (j + (0 - z)) = j /\ j \in 0 .. M - 1
    BY <1>3, Widths
  <2>4. Add(z, j + (0 - z)) = j
    BY <2>3, AddSmall
  <2> QED
    BY <1>5, <2>1, <2>2, <2>4
<1> QED
  BY <1>4, <1>5

\* DC ZVA and CLREX
LEMMA SystemIsRight ==
  ASSUME NEW e, Encoding(e), e.class = "system", NEW s \in CpuStates, ~s.fault, NEW j, Operands(j),
         e.op = "clrex" => j.fn = "opClrex", e.op = "zva" => j.fn = "opDcZva" /\ j.rn = e.rt,
         NEW hit, Exec(s, j, hit).fault <=> MustFault(e, s)
  PROVE  SystemRight(e, s, Exec(s, j, hit))
<1> DEFINE z == ZeroedBlock(e, s)
           block == {Add(z, k) : k \in 0 .. dczvaBytes - 1}
           t == Exec(s, j, hit)
           near(c) == Low(c - z, XLEN) < dczvaBytes
<1>1. CASE e.op = "clrex"
  <2>1. t = [s EXCEPT !.excl.valid = FALSE, !.pc = Add(s.pc, 4)]
    <3>1. t = Opened(s)
      BY <1>1, PlainResults
    <3> HIDE DEF t
    <3> QED
      BY <3>1 DEF Opened
  <2> HIDE DEF t
  <2> QED
    BY <1>1, <2>1 DEF SystemRight, t
<1>2. CASE e.op = "zva" /\ ~Span("W", z, dczvaBytes)
  <2>1. t.fault
    BY <1>2 DEF MustFault
  <2>2. \E a \in block : ~guestPage("W", a)
    <3> HIDE DEF z
    <3> QED
      BY <1>2 DEF Span
  <2>3. SystemRight(e, s, t) <=> t.fault
    <3>1. e.op # "clrex"
      BY <1>2
    <3> HIDE DEF t
    <3> QED
      BY <3>1, <2>2 DEF SystemRight
  <2> QED
    BY <2>1, <2>3
<1>3. CASE e.op = "zva" /\ Span("W", z, dczvaBytes)
  <2>1. z = s.r[j.rn] - (s.r[j.rn] % dczvaBytes) /\ j.fn = "opDcZva" /\ j.rn = e.rt /\ j.rn \in XRegs
    BY <1>3 DEF ZeroedBlock, Operands
  <2>2. z \in Int
    <3>1. s.r[j.rn] \in Nat
      BY <2>1, RegisterWord
    <3> DEFINE x == s.r[j.rn]
    <3> HIDE DEF x
    <3>2. x - (x % 64) \in Int
      BY <3>1 DEF x
    <3> QED
      BY <2>1, <3>2 DEF x, dczvaBytes
  <2> DEFINE zeroed == [c \in Cells |-> IF near(c) THEN 0 ELSE s.mem[c]]
             meant == [c \in Cells |-> IF c \in block THEN 0 ELSE s.mem[c]]
  <2>3. t = [s EXCEPT !.mem = zeroed, !.pc = Add(s.pc, 4)]
    <3>1. t = Zeroes(s, z)
      <4>1. Span("W", s.r[j.rn] - (s.r[j.rn] % dczvaBytes), dczvaBytes)
        BY <1>3, <2>1
      <4>2. t = Zeroes(s, s.r[j.rn] - (s.r[j.rn] % dczvaBytes))
        BY <2>1, <4>1, ZeroesBlock
      <4> HIDE DEF t, z
      <4> QED
        BY <2>1, <4>2
    <3> HIDE DEF t
    <3> QED
      BY <3>1 DEF Zeroes
  <2>4. \A c \in Cells : c \in block <=> near(c)
    <3>1. dczvaBytes \in 1 .. 64
      BY DEF dczvaBytes
    <3> HIDE DEF z
    <3> QED
      BY <2>2, <3>1, InBlock
  <2>5. zeroed = meant
    <3> HIDE DEF block, near
    <3> QED
      BY <2>4
  <2>6. ~ \E a \in block : ~guestPage("W", a)
    <3> HIDE DEF z
    <3> QED
      BY <1>3 DEF Span
  <2>7. e.op # "clrex"
    BY <1>3
  <2>8. SystemRight(e, s, t) <=> t = [s EXCEPT !.mem = meant, !.pc = Add(s.pc, 4)]
    <3> HIDE DEF t
    <3> QED
      BY <2>6, <2>7 DEF SystemRight
  <2> HIDE DEF t, zeroed, meant
  <2> QED
    BY <2>3, <2>5, <2>8 DEF t
<1>4. e.op \in {"clrex", "zva"}
  BY DEF Encoding
<1> QED
  BY <1>1, <1>2, <1>3, <1>4

\* A load or store of one register by immediate, register or literal address
LEMMA SingleClassRight ==
  ASSUME NEW e, Encoding(e), Allocated(e), e.class \in {"register", "unsigned", "literal"},
         NEW s \in CpuStates, ~s.fault, ~Blocked(e, s), NEW j, Operands(j),
         DecodedSingle(e, j, Located(e, s, j)), NEW hit
  PROVE  ~Exec(s, j, hit).fault /\ Accessed(e, s, Exec(s, j, hit))
<1> DEFINE t == Exec(s, j, hit)
<1>1. CASE Prefetch(e)
  <2>1. t = [s EXCEPT !.pc = Add(s.pc, 4)]
    BY <1>1, PlainResults DEF DecodedSingle
  <2>2. t.fault = FALSE
    <3>1. s.fault = FALSE
      BY DEF CpuStates
    <3> HIDE DEF t
    <3> QED
      BY <2>1, <3>1 DEF CpuStates
  <2> HIDE DEF t
  <2> QED
    BY <1>1, <2>1, <2>2 DEF Accessed, t
<1>2. CASE ~Prefetch(e)
  <2>1. OneOrTwo(e) /\ Plain(e)
    BY DEF OneOrTwo, Plain, StoresExclusive, LoadsExclusive
  <2>2. Moved(e) = <<e.rt>> /\ Total(e) = AccessSize(e)
    BY MovedIs
  <2>3. Single(e, j) /\ Extends(e, j) /\ Located(e, s, j)
    BY <1>2 DEF DecodedSingle
  <2> QED
    BY <1>2, <2>1, <2>2, <2>3, SingleRight
<1> QED
  BY <1>1, <1>2

\* Load-acquire, store-release and the exclusives
LEMMA ExclusiveRight ==
  ASSUME NEW e, Encoding(e), Allocated(e), e.class = "exclusive", NEW s \in CpuStates, ~s.fault, ~Blocked(e, s),
         NEW j, Operands(j), e.o2 => Single(e, j) /\ Extends(e, j) /\ Located(e, s, j),
         ~e.o2 => ExclusiveOf(e, j), NEW hit
  PROVE  ~Exec(s, j, hit).fault /\ Accessed(e, s, Exec(s, j, hit))
<1>1. CASE e.o2
  <2>1. OneOrTwo(e) /\ Plain(e) /\ ~Prefetch(e)
    BY <1>1 DEF OneOrTwo, Plain, StoresExclusive, LoadsExclusive, Prefetch
  <2>2. Moved(e) = <<e.rt>> /\ Total(e) = AccessSize(e)
    BY <1>1, MovedIs
  <2> QED
    BY <1>1, <2>1, <2>2, SingleRight
<1>2. CASE ~e.o2 /\ e.l
  BY <1>2, ExclusiveLoadRight
<1>3. CASE ~e.o2 /\ ~e.l
  BY <1>3, ExclusiveStoreRight
<1> QED
  BY <1>1, <1>2, <1>3

\* What an instruction does is right if it faults exactly when it must
LEMMA ExecRight ==
  ASSUME NEW e, Encoding(e), NEW s \in CpuStates, ~s.fault, s.r[rZR] = 0, Operands(decodeLdSt(e, s.pc)),
         NEW hit, Exec(s, decodeLdSt(e, s.pc), hit).fault <=> MustFault(e, s)
  PROVE  AccessRight(e, s, Exec(s, decodeLdSt(e, s.pc), hit))
<1> DEFINE i == decodeLdSt(e, s.pc)
           t == Exec(s, i, hit)
           access == ~t.fault /\ Accessed(e, s, t)
<1>1. CASE e.class = "system"
  <2>1. i = decodeSystem(e)
    BY <1>1 DEF decodeLdSt
  <2>2. /\ e.op = "clrex" => i.fn = "opClrex"
        /\ e.op = "zva" => i.fn = "opDcZva" /\ i.rn = e.rt
    BY <1>1, <2>1, SystemDecoded
  <2> HIDE DEF i
  <2>3. SystemRight(e, s, t)
    BY <1>1, <2>2, SystemIsRight DEF i
  <2> HIDE DEF t
  <2> QED
    BY <1>1, <2>3 DEF AccessRight, i, t
<1>2. CASE e.class # "system" /\ (~Allocated(e) \/ Blocked(e, s))
  <2>1. t.fault
    BY <1>2 DEF MustFault
  <2> HIDE DEF t
  <2> QED
    BY <1>2, <2>1 DEF AccessRight, t
<1>3. CASE e.class # "system" /\ Allocated(e) /\ ~Blocked(e, s)
  <2>1. ASSUME e.class = "register" PROVE access
    <3>1. i = decodeRegForm(e)
      BY <2>1 DEF decodeLdSt
    <3>2. DecodedSingle(e, i, Located(e, s, i))
      BY <2>1, <3>1, RegFormDecoded
    <3> HIDE DEF i
    <3> QED
      BY <1>3, <2>1, <3>2, SingleClassRight DEF i
  <2>2. ASSUME e.class = "unsigned" PROVE access
    <3>1. i = decodeUnsignedImm(e)
      BY <2>2 DEF decodeLdSt
    <3>2. DecodedSingle(e, i, Located(e, s, i))
      BY <2>2, <3>1, UnsignedDecoded
    <3> HIDE DEF i
    <3> QED
      BY <1>3, <2>2, <3>2, SingleClassRight DEF i
  <2>3. ASSUME e.class = "literal" PROVE access
    <3>1. i = decodeLiteral(e, s.pc)
      BY <2>3 DEF decodeLdSt
    <3>2. DecodedSingle(e, i, Located(e, s, i))
      BY <2>3, <3>1, LiteralDecoded
    <3> HIDE DEF i
    <3> QED
      BY <1>3, <2>3, <3>2, SingleClassRight DEF i
  <2>4. ASSUME e.class = "pair" PROVE access
    <3>1. i = decodePair(e)
      BY <2>4 DEF decodeLdSt
    <3>2. Double(e, i) /\ Extends(e, i) /\ Located(e, s, i)
      BY <1>3, <2>4, <3>1, PairDecoded
    <3> HIDE DEF i
    <3> QED
      BY <1>3, <2>4, <3>2, PairRight DEF i
  <2>5. ASSUME e.class = "exclusive" PROVE access
    <3>1. i = decodeExclusive(e)
      BY <2>5 DEF decodeLdSt
    <3>2. /\ e.o2 => Single(e, i) /\ Extends(e, i) /\ Located(e, s, i)
          /\ ~e.o2 => ExclusiveOf(e, i)
      BY <1>3, <2>5, <3>1, ExclusiveDecoded
    <3> HIDE DEF i
    <3> QED
      BY <1>3, <2>5, <3>2, ExclusiveRight DEF i
  <2>6. ASSUME e.class = "multi" PROVE access
    <3>1. i = decodeSIMDMulti(e)
      BY <2>6 DEF decodeLdSt
    <3>2. MultiOf(e, i)
      BY <1>3, <2>6, <3>1, MultiDecoded
    <3> HIDE DEF i
    <3> QED
      BY <1>3, <2>6, <3>2, MultiRight DEF i
  <2>7. e.class \in {"register", "unsigned", "literal", "pair", "exclusive", "multi"}
    <3>1. e.class # "atomic"
      BY <1>3 DEF Allocated
    <3> QED
      BY <1>3, <3>1 DEF Encoding
  <2>8. access
    <3> HIDE DEF access
    <3> QED
      BY <2>1, <2>2, <2>3, <2>4, <2>5, <2>6, <2>7 DEF access
  <2> HIDE DEF t
  <2> QED
    BY <1>3, <2>8 DEF AccessRight, t
<1> QED
  BY <1>1, <1>2, <1>3

(* A load, store or exclusive does what the architecture says: it moves exactly *)
(* the bytes the encoding names between exactly the registers and the memory it *)
(* names, extends what it loads, writes the base back, sets or clears the       *)
(* monitor -- and faults instead when, and only when, a byte lies where it is   *)
(* not allowed.  Whichever handler the decoder picked, with its page in the TLB *)
(* or not, the access inside a page or across two.                              *)
THEOREM AccessesRightAlways == Spec => AccessesRight
<1>1. ZeroInv /\ [Next]_vars => [~cpu.fault => AccessRight(last'.e, cpu, cpu')]_vars
  <2> SUFFICES ASSUME ZeroInv, [Next]_vars, ~UNCHANGED vars, ~cpu.fault
               PROVE  AccessRight(last'.e, cpu, cpu')
    OBVIOUS
  <2>1. Step
    BY DEF Next, Mend
  <2>2. cpu \in CpuStates /\ prog \in DOMAIN Programs /\ cpu.r[rZR] = 0
    BY DEF ZeroInv, StatesInv
  <2> DEFINE i == decodeLdSt(last'.e, cpu.pc)
  <2>3. Encoding(last'.e) /\ Operands(i) /\ (cpu'.fault <=> Denied(cpu, i))
    BY <2>1, <2>2, StepExecutes DEF Executed
  <2>4. Denied(cpu, i) <=> MustFault(last'.e, cpu)
    BY <2>2, <2>3, FaultsMeant
  <2>5. PICK hit \in BOOLEAN : cpu' = Exec(cpu, i, hit)
    <3>1. PICK e \in Programs[prog].insts, hit \in BOOLEAN :
            cpu' = Exec(cpu, decodeLdSt(e, cpu.pc), hit) /\ last' = [e |-> e, hit |-> hit]
      BY <2>1 DEF Step
    <3>2. last'.e = e
      BY <3>1
    <3> QED
      BY <3>1, <3>2
  <2>6. AccessRight(last'.e, cpu, Exec(cpu, i, hit))
    BY <2>2, <2>3, <2>4, <2>5, ExecRight
  <2> HIDE DEF i
  <2> QED
    BY <2>5, <2>6
<1> QED
  BY <1>1, ZeroInvHolds, PTL DEF Spec, AccessesRight
=============================================================================
