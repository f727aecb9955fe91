----------------------------- MODULE LoopProof -----------------------------
(***************************************************************************)
(* The list of timers is traversed safely, pointers never dangle, expiries *)
(* are exact and poll() sleeps past no timer: for any users, delays and    *)
(* number of addresses, and any length of a second and a millisecond.      *)
(* With that, the loop implements TimerSet.                                *)
(***************************************************************************)
EXTENDS Loop, WellFoundedInduction, TLAPS

Timespec == [sec : Int, nsec : Int]

TimerType ==
  [address : Addresses, user : User, removed : BOOLEAN, expiry : Timespec,
   asked : Int]

\* A list as the set of its elements.
Elements(s) == {s[i] : i \in 1 .. Len(s)}
Taken(s)    == {t.address : t \in Elements(s)}

\* No two elements of a list have the same address.
Distinct(s) ==
  \A i, j \in 1 .. Len(s) : s[i].address = s[j].address => i = j

-----------------------------------------------------------------------------
\* Elements with the same address are the same.
LEMMA DistinctElements ==
  ASSUME NEW s \in Seq(TimerType), Distinct(s), NEW x \in Elements(s),
         NEW y \in Elements(s), x.address = y.address
  PROVE  x = y
BY DEF Distinct, Elements

LEMMA ElementTypes ==
  ASSUME NEW s \in Seq(TimerType)
  PROVE  /\ Elements(s) \subseteq TimerType
         /\ Taken(s) \subseteq Addresses
<1>1. Elements(s) \subseteq TimerType
  BY DEF Elements
<1>2. \A t \in TimerType : t.address \in Addresses
  BY DEF TimerType
<1> QED
  BY <1>1, <1>2 DEF Taken

\* wl_list_remove() takes out the element and keeps the others.
LEMMA WithoutList ==
  ASSUME NEW s \in Seq(TimerType), Distinct(s), NEW a \in Taken(s)
  PROVE  /\ Without(s, a) \in Seq(TimerType)
         /\ Distinct(Without(s, a))
         /\ Elements(Without(s, a)) = {t \in Elements(s) : t.address # a}
<1> DEFINE k == CHOOSE i \in DOMAIN s : s[i].address = a
           w == Without(s, a)
           n == Len(s) - 1
<1>1. k \in 1 .. Len(s) /\ s[k].address = a
  BY DEF Taken, Elements
<1>2. n \in Nat /\ w = [i \in 1 .. n |-> s[IF i < k THEN i ELSE i + 1]]
  BY <1>1 DEF Without
<1> HIDE DEF k, w
<1>3. /\ \A i \in 1 .. n : w[i] \in TimerType
      /\ \A i \in 1 .. n : w[i] = s[IF i < k THEN i ELSE i + 1]
  BY <1>1, <1>2
<1>4. w \in Seq(TimerType) /\ Len(w) = n
  BY <1>2, <1>3
<1>5. Distinct(w)
  <2> DEFINE at(i) == IF i < k THEN i ELSE i + 1
  <2> SUFFICES ASSUME NEW i \in 1 .. n, NEW j \in 1 .. n,
                      w[i].address = w[j].address
               PROVE  i = j
    BY <1>4 DEF Distinct
  <2>1. at(i) \in 1 .. Len(s) /\ at(j) \in 1 .. Len(s)
    BY <1>1
  <2>2. s[at(i)].address = s[at(j)].address
    BY <1>3
  <2>3. at(i) = at(j)
    <3> HIDE DEF at
    <3> QED
      BY <2>1, <2>2 DEF Distinct
  <2> QED
    BY <1>1, <2>3
<1>6. ASSUME NEW t \in Elements(w)
      PROVE  t \in Elements(s) /\ t.address # a
  <2>1. PICK i \in 1 .. n : t = w[i]
    BY <1>4 DEF Elements
  <2>2. PICK j \in 1 .. Len(s) : t = s[j] /\ j # k
    BY <1>1, <1>3, <2>1
  <2> QED
    BY <1>1, <2>2 DEF Elements, Distinct
<1>7. ASSUME NEW t \in Elements(s), t.address # a
      PROVE  t \in Elements(w)
  <2>1. PICK j \in 1 .. Len(s) : t = s[j]
    BY DEF Elements
  <2>2. j # k
    BY <1>1, <1>7, <2>1
  <2>3. CASE j < k
    <3>1. j \in 1 .. n /\ w[j] = s[j]
      BY <1>1, <1>3, <2>3
    <3> QED
      BY <1>4, <2>1, <3>1 DEF Elements
  <2>4. CASE j > k
    <3>1. j - 1 \in 1 .. n /\ w[j - 1] = s[j]
      BY <1>1, <1>3, <2>4
    <3> QED
      BY <1>4, <2>1, <3>1 DEF Elements
  <2> QED
    BY <1>1, <2>2, <2>3, <2>4
<1> QED
  BY <1>4, <1>5, <1>6, <1>7 DEF w

\* loop_remove_timer() marks the element and changes nothing else.
LEMMA RemovedList ==
  ASSUME NEW s \in Seq(TimerType), Distinct(s), NEW a
  PROVE  /\ Removed(s, a) \in Seq(TimerType)
         /\ Distinct(Removed(s, a))
         /\ Taken(Removed(s, a)) = Taken(s)
         /\ \A t \in Elements(s) :
              IF t.address = a
                THEN [t EXCEPT !.removed = TRUE] \in Elements(Removed(s, a))
                ELSE t \in Elements(Removed(s, a))
         /\ \A x \in Elements(Removed(s, a)) :
              IF x.address = a
                THEN \E t \in Elements(s) : x = [t EXCEPT !.removed = TRUE]
                ELSE x \in Elements(s)
<1> DEFINE r == Removed(s, a)
           mark(t) == [t EXCEPT !.removed = TRUE]
<1>1. r = [i \in 1 .. Len(s) |-> IF s[i].address = a THEN mark(s[i]) ELSE s[i]]
  BY DEF Removed
<1> HIDE DEF r
<1>2. \A t \in TimerType : mark(t) \in TimerType /\ mark(t).address = t.address
  BY DEF TimerType
<1>3. \A i \in 1 .. Len(s) : s[i] \in TimerType
  OBVIOUS
<1> HIDE DEF mark
<1>4. \A i \in 1 .. Len(s) :
        /\ r[i] = IF s[i].address = a THEN mark(s[i]) ELSE s[i]
        /\ r[i] \in TimerType
        /\ r[i].address = s[i].address
  BY <1>1, <1>2, <1>3
<1>5. r \in Seq(TimerType) /\ Len(r) = Len(s)
  BY <1>1, <1>4
<1>6. Distinct(r)
  BY <1>4, <1>5 DEF Distinct
<1>7. Taken(r) = Taken(s)
  BY <1>4, <1>5 DEF Taken, Elements
<1>8. \A t \in Elements(s) :
        IF t.address = a THEN mark(t) \in Elements(r) ELSE t \in Elements(r)
  BY <1>4, <1>5 DEF Elements
<1>9. \A x \in Elements(r) :
        IF x.address = a THEN \E t \in Elements(s) : x = mark(t)
                         ELSE x \in Elements(s)
  BY <1>4, <1>5 DEF Elements
<1> QED
  BY <1>5, <1>6, <1>7, <1>8, <1>9 DEF r, mark

\* wl_list_insert() puts a timer at the head.
LEMMA AddedList ==
  ASSUME NEW s \in Seq(TimerType), Distinct(s), NEW r \in TimerType,
         r.address \notin Taken(s)
  PROVE  /\ <<r>> \o s \in Seq(TimerType)
         /\ Distinct(<<r>> \o s)
         /\ Elements(<<r>> \o s) = {r} \cup Elements(s)
<1> DEFINE l == <<r>> \o s
<1>1. /\ l \in Seq(TimerType) /\ Len(l) = Len(s) + 1
      /\ l[1] = r /\ \A i \in 1 .. Len(s) : l[i + 1] = s[i]
  OBVIOUS
<1>2. \A i \in 1 .. Len(l) : i # 1 => i - 1 \in 1 .. Len(s) /\ l[i] = s[i - 1]
  BY <1>1
<1> HIDE DEF l
<1>3. Distinct(l)
  <2>1. \A i \in 1 .. Len(s) : s[i].address # r.address
    BY DEF Taken, Elements
  <2> SUFFICES ASSUME NEW i \in 1 .. Len(l), NEW j \in 1 .. Len(l),
                      l[i].address = l[j].address
               PROVE  i = j
    BY DEF Distinct
  <2>2. CASE i = 1 \/ j = 1
    BY <1>1, <1>2, <2>1, <2>2
  <2>3. CASE i # 1 /\ j # 1
    <3>1. /\ i - 1 \in 1 .. Len(s) /\ j - 1 \in 1 .. Len(s)
          /\ s[i - 1].address = s[j - 1].address
      BY <1>2, <2>3
    <3>2. i - 1 = j - 1
      BY <3>1 DEF Distinct
    <3> QED
      BY <1>1, <3>2
  <2> QED
    BY <2>2, <2>3
<1>4. Elements(l) \subseteq {r} \cup Elements(s)
  BY <1>1, <1>2 DEF Elements
<1>5. r \in Elements(l)
  BY <1>1 DEF Elements
<1>6. ASSUME NEW t \in Elements(s)
      PROVE  t \in Elements(l)
  <2>1. PICK i \in 1 .. Len(s) : t = s[i]
    BY DEF Elements
  <2>2. i + 1 \in 1 .. Len(l) /\ l[i + 1] = t
    BY <1>1, <2>1
  <2> QED
    BY <2>2 DEF Elements
<1> QED
  BY <1>1, <1>3, <1>4, <1>5, <1>6 DEF l

\* The element after another one is a different one, or there is none.
LEMMA AfterList ==
  ASSUME NEW s \in Seq(TimerType), Distinct(s), NEW a \in Taken(s)
  PROVE  After(s, a) \in (Taken(s) \ {a}) \cup {None}
<1> DEFINE later == {i \in 2 .. Len(s) : s[i - 1].address = a}
<1>1. CASE later = {}
  BY <1>1 DEF After
<1>2. CASE later # {}
  <2> DEFINE i == CHOOSE i \in later : TRUE
  <2>1. i \in later
    BY <1>2
  <2>2. After(s, a) = s[i].address
    BY <1>2 DEF After
  <2> HIDE DEF i
  <2>3. i \in 1 .. Len(s) /\ i - 1 \in 1 .. Len(s) /\ s[i - 1].address = a
    BY <2>1
  <2>4. s[i].address # a
    BY <2>3 DEF Distinct
  <2> QED
    BY <2>2, <2>3, <2>4 DEF Taken, Elements
<1> QED
  BY <1>1, <1>2

-----------------------------------------------------------------------------
\* Seconds and nanoseconds.

LEMMA SecondPositive == NsPerSec \in Nat \ {0}
BY LoopAssumption DEF NsPerSec

LEMMA SecNsec ==
  ASSUME NEW t \in Int
  PROVE  /\ Sec(t) \in Int /\ Nsec(t) \in 0 .. NsPerSec - 1
         /\ t = Sec(t) * NsPerSec + Nsec(t)
BY SecondPositive DEF Sec, Nsec

\* The division of C rounds towards zero.
LEMMA CDivision ==
  ASSUME NEW a \in Int, NEW b \in Nat \ {0}
  PROVE  /\ CDiv(a, b) \in Int
         /\ CMod(a, b) \in Int
         /\ a = b * CDiv(a, b) + CMod(a, b)
         /\ a >= 0 => CMod(a, b) \in 0 .. b - 1
         /\ a < 0 => CMod(a, b) \in 1 - b .. 0
<1>1. CASE a >= 0
  BY <1>1 DEF CDiv, CMod
<1>2. CASE a < 0
  <2> DEFINE q == (-a) \div b
  <2>1. /\ q \in Int /\ (-a) - b * q \in 0 .. b - 1
    BY <1>2
  <2>2. CDiv(a, b) = -q
    BY <1>2 DEF CDiv
  <2> HIDE DEF q
  <2>3. CMod(a, b) = a + b * q
    BY <2>1, <2>2 DEF CMod
  <2> QED
    BY <1>2, <2>1, <2>2, <2>3
<1> QED
  BY <1>1, <1>2

\* A number of milliseconds below a second is less than a second of
\* nanoseconds.
LEMMA MsBelowSec ==
  ASSUME NEW m \in 1 - MsPerSec .. MsPerSec - 1
  PROVE  /\ m * NsPerMs \in 1 - NsPerSec .. NsPerSec - 1
         /\ m >= 0 => m * NsPerMs >= 0
<1>1. MsPerSec \in Nat \ {0} /\ NsPerMs \in Nat \ {0}
  BY LoopAssumption
<1>2. \A x \in Nat, y \in Nat, z \in Nat \ {0} : x < y => x * z < y * z /\ x * z >= 0
  OBVIOUS
<1>3. CASE m >= 0
  BY <1>1, <1>2, <1>3 DEF NsPerSec
<1>4. CASE m < 0
  <2>1. -m \in Nat /\ -m < MsPerSec
    BY <1>1, <1>4
  <2>2. (-m) * NsPerMs < NsPerSec /\ (-m) * NsPerMs >= 0
    BY <1>1, <1>2, <2>1 DEF NsPerSec
  <2>3. (-m) * NsPerMs = -(m * NsPerMs)
    BY <1>1
  <2> QED
    BY <1>1, <1>4, <2>2, <2>3, SecondPositive
<1> QED
  BY <1>1, <1>3, <1>4

\* loop_add_timer(): the expiry is the instant asked for, and its nanoseconds
\* are normalised if the delay is not negative.
LEMMA ExpiryIs ==
  ASSUME NEW t \in Int, NEW ms \in Int
  PROVE  LET e == Expiry(t, ms)
         IN  /\ e \in Timespec
             /\ e.sec * NsPerSec + e.nsec = t + ms * NsPerMs
             /\ e.nsec < NsPerSec
             /\ ms >= 0 => e.nsec >= 0
<1> DEFINE d == CDiv(ms, MsPerSec)
           m == CMod(ms, MsPerSec)
           n == m * NsPerMs
           r == Nsec(t)
           carry == r + n >= NsPerSec
           e == Expiry(t, ms)
<1>1. /\ MsPerSec \in Nat \ {0} /\ NsPerMs \in Nat \ {0}
      /\ NsPerSec \in Nat \ {0}
  BY LoopAssumption, SecondPositive
<1>2. /\ d \in Int /\ m \in Int /\ ms = MsPerSec * d + m
      /\ m \in 1 - MsPerSec .. MsPerSec - 1
      /\ ms >= 0 => m >= 0
  BY <1>1, CDivision
<1>3. /\ n \in Int /\ n < NsPerSec
      /\ ms >= 0 => n >= 0
  BY <1>1, <1>2, MsBelowSec
<1>4. /\ Sec(t) \in Int /\ r \in 0 .. NsPerSec - 1
      /\ t = Sec(t) * NsPerSec + r
  BY SecNsec
<1>5. /\ e.sec = Sec(t) + d + (IF carry THEN 1 ELSE 0)
      /\ e.nsec = r + n - (IF carry THEN NsPerSec ELSE 0)
      /\ e = [sec |-> e.sec, nsec |-> e.nsec]
  BY DEF Expiry
<1>6. ms * NsPerMs = d * NsPerSec + n
  <2>1. \A x, y, z, k \in Int : (y * x + z) * k = x * (y * k) + z * k
    OBVIOUS
  <2> HIDE DEF d, m
  <2> QED
    BY <1>1, <1>2, <2>1 DEF NsPerSec
<1> HIDE DEF d, m, n, r, e
<1>7. e.sec \in Int /\ e.nsec \in Int /\ e.nsec < NsPerSec
      /\ (ms >= 0 => e.nsec >= 0)
  BY <1>1, <1>2, <1>3, <1>4, <1>5
<1>8. e \in Timespec
  BY <1>5, <1>7 DEF Timespec
<1>9. e.sec * NsPerSec + e.nsec = t + ms * NsPerMs
  <2>1. CASE carry
    BY <1>1, <1>2, <1>3, <1>4, <1>5, <1>6, <2>1
  <2>2. CASE ~carry
    BY <1>1, <1>2, <1>3, <1>4, <1>5, <1>6, <2>2
  <2> QED
    BY <2>1, <2>2
<1> QED
  BY <1>7, <1>8, <1>9 DEF e

\* loop_poll(): the milliseconds until an expiry are less than a millisecond
\* too many.
LEMMA MsUntilIs ==
  ASSUME NEW e \in Timespec, NEW t \in Int
  PROVE  /\ MsUntil(e, t) \in Int
         /\ t + MsUntil(e, t) * NsPerMs
              < e.sec * NsPerSec + e.nsec + NsPerMs
<1> DEFINE x == e.nsec - Nsec(t)
           c == CDiv(x, NsPerMs)
           s == e.sec - Sec(t)
<1>1. /\ MsPerSec \in Nat \ {0} /\ NsPerMs \in Nat \ {0}
      /\ NsPerSec \in Nat \ {0}
  BY LoopAssumption, SecondPositive
<1>2. /\ Sec(t) \in Int /\ Nsec(t) \in Int
      /\ t = Sec(t) * NsPerSec + Nsec(t)
  BY SecNsec
<1>3. e.sec \in Int /\ e.nsec \in Int
  BY DEF Timespec
<1>4. x \in Int /\ s \in Int
  BY <1>2, <1>3
<1>5. c \in Int /\ NsPerMs * c < x + NsPerMs
  <2> HIDE DEF x
  <2>1. /\ c \in Int /\ CMod(x, NsPerMs) \in Int
        /\ x = NsPerMs * c + CMod(x, NsPerMs)
        /\ x >= 0 => CMod(x, NsPerMs) \in 0 .. NsPerMs - 1
        /\ x < 0 => CMod(x, NsPerMs) \in 1 - NsPerMs .. 0
    BY <1>1, <1>4, CDivision
  <2> HIDE DEF c
  <2> QED
    BY <1>1, <1>4, <2>1
<1>6. MsUntil(e, t) = s * MsPerSec + c
  BY DEF MsUntil
<1> HIDE DEF c
<1>7. MsUntil(e, t) * NsPerMs = s * NsPerSec + NsPerMs * c
  BY <1>1, <1>4, <1>5, <1>6 DEF NsPerSec
<1>8. s * NsPerSec = e.sec * NsPerSec - Sec(t) * NsPerSec
  BY <1>1, <1>2, <1>3
<1>9. MsUntil(e, t) \in Int
  BY <1>1, <1>4, <1>5, <1>6
<1> QED
  BY <1>1, <1>2, <1>3, <1>5, <1>7, <1>8, <1>9

\* loop_poll(): an expiry that has passed lies before the clock.
LEMMA PastIs ==
  ASSUME NEW e \in Timespec, NEW t \in Int, e.nsec < NsPerSec, IsPast(e, t)
  PROVE  e.sec * NsPerSec + e.nsec < t
<1>1. NsPerSec \in Nat \ {0}
  BY SecondPositive
<1>2. /\ Sec(t) \in Int /\ Nsec(t) \in 0 .. NsPerSec - 1
      /\ t = Sec(t) * NsPerSec + Nsec(t)
  BY SecNsec
<1>3. e.sec \in Int /\ e.nsec \in Int
  BY DEF Timespec
<1>4. CASE e.sec < Sec(t)
  <2>1. \A x, y \in Int : x <= y => x * NsPerSec <= y * NsPerSec
    BY <1>1
  <2>2. (e.sec + 1) * NsPerSec <= Sec(t) * NsPerSec
    BY <1>2, <1>3, <1>4, <2>1
  <2> QED
    BY <1>1, <1>2, <1>3, <2>2
<1>5. CASE e.sec = Sec(t) /\ e.nsec < Nsec(t)
  BY <1>1, <1>2, <1>3, <1>5
<1> QED
  BY <1>4, <1>5 DEF IsPast

-----------------------------------------------------------------------------
\* Least elements.

LEMMA LeastNat ==
  ASSUME NEW T \in SUBSET Nat, T # {}
  PROVE  Min(T) \in T /\ \A m \in T : Min(T) <= m
<1> DEFINE less == OpToRel(<, Nat)
<1>1. \A x, y \in Nat : <<x, y>> \in less <=> x < y
  BY DEF OpToRel
<1>2. IsWellFoundedOn(less, Nat)
  BY NatLessThanWellFounded
<1> HIDE DEF less
<1>3. PICK x \in T : \A y \in T : ~ (<<y, x>> \in less)
  BY <1>2, WFMin, Zenon
<1>4. \A y \in T : ~ (y < x)
  BY <1>1, <1>3, Zenon
<1>5. \A y \in T : x <= y
  BY <1>4
<1> QED
  BY <1>5 DEF Min

\* A non-empty list of integers has a least one: the shortest beginning of
\* the list without a least element would be one element longer than one that
\* has it.
LEMMA LeastOfList ==
  ASSUME NEW n \in Nat \ {0}, NEW f \in [1 .. n -> Int]
  PROVE  LET S == {f[i] : i \in 1 .. n}
         IN  Min(S) \in S /\ \A x \in S : Min(S) <= x
<1> DEFINE least(k) == \E j \in 1 .. k : \A i \in 1 .. k : f[j] <= f[i]
           bad == {k \in 1 .. n : ~least(k)}
           S == {f[i] : i \in 1 .. n}
<1>1. bad = {}
  <2>1. bad \in SUBSET Nat /\ bad \subseteq 1 .. n
    OBVIOUS
  <2>2. \A k \in 1 .. n : k \in bad <=> ~least(k)
    OBVIOUS
  <2> HIDE DEF bad
  <2> SUFFICES ASSUME bad # {} PROVE FALSE
    OBVIOUS
  <2>3. PICK k \in bad : \A m \in bad : k <= m
    BY <2>1, LeastNat
  <2>4. k \in 1 .. n /\ ~least(k)
    BY <2>1, <2>2
  <2>5. k # 1
    BY <2>4
  <2>6. k - 1 \in 1 .. n /\ k - 1 \notin bad
    BY <2>3, <2>4, <2>5
  <2>7. least(k - 1)
    <3> HIDE DEF least
    <3> QED
      BY <2>2, <2>6
  <2>8. PICK j \in 1 .. k - 1 : \A i \in 1 .. k - 1 : f[j] <= f[i]
    BY <2>7
  <2>9. j \in 1 .. k /\ f[j] \in Int /\ f[k] \in Int
    BY <2>4, <2>6
  <2>10. \A i \in 1 .. k : i = k \/ i \in 1 .. k - 1
    BY <2>4
  <2>11. CASE f[j] <= f[k]
    BY <2>4, <2>8, <2>9, <2>10, <2>11
  <2>12. CASE f[k] < f[j]
    <3>1. \A i \in 1 .. k : f[k] <= f[i]
      BY <2>4, <2>8, <2>9, <2>10, <2>12
    <3> QED
      BY <2>4, <3>1
  <2> QED
    BY <2>9, <2>11, <2>12
<1>2. least(n)
  <2> HIDE DEF least
  <2> QED
    BY <1>1
<1>3. PICK j \in 1 .. n : \A i \in 1 .. n : f[j] <= f[i]
  BY <1>2
<1>4. f[j] \in S /\ \A x \in S : f[j] <= x
  BY <1>3
<1> HIDE DEF S
<1>5. Min(S) \in S /\ \A x \in S : Min(S) <= x
  BY <1>4 DEF Min
<1> QED
  BY <1>5 DEF S

LEMMA MaxOfTwo ==
  ASSUME NEW a \in Int, NEW b \in Int
  PROVE  Max({a, b}) = IF a >= b THEN a ELSE b
<1>1. Max({a, b}) \in {a, b} /\ \A y \in {a, b} : Max({a, b}) >= y
  <2>1. \E x \in {a, b} : \A y \in {a, b} : x >= y
    <3>1. CASE a >= b
      BY <3>1
    <3>2. CASE ~(a >= b)
      BY <3>2
    <3> QED
      BY <3>1, <3>2
  <2> QED
    BY <2>1 DEF Max
<1> QED
  BY <1>1

-----------------------------------------------------------------------------
\* The invariant.

LoopTypeOK ==
  /\ now \in Nat /\ seen \in Nat /\ seen <= now
  /\ timers \in Seq(TimerType) /\ Distinct(timers)
  /\ pointer \in [User -> Addresses \cup {None}]
  /\ phase \in Phase

\* The timers of Live.
LiveTimers ==
  {t \in Elements(timers) : ~t.removed /\ ~(phase = "call" /\ t.address = cur)}

\* PointersLive, said of timers in place of their positions.
PointersOK ==
  /\ \A u \in User : pointer[u] # None =>
       \E t \in LiveTimers : t.address = pointer[u] /\ t.user = u
  /\ \A t \in LiveTimers : pointer[t.user] = t.address

\* tmp_timer is not the timer that is about to be freed.
CursorOK ==
  phase \in {"walk", "call"} =>
    cur \in Taken(timers) /\ nxt \in (Taken(timers) \ {cur}) \cup {None}

\* Also for a negative delay the nanoseconds are below a second.
IsExact(t) ==
  /\ t.expiry.sec * NsPerSec + t.expiry.nsec = t.asked
  /\ t.expiry.nsec < NsPerSec
  /\ Delays \subseteq Nat => t.expiry.nsec >= 0

ExactOK == \A t \in Elements(timers) : IsExact(t)

\* Removed timers are counted too.
SleepOK ==
  phase = "poll" =>
    \A t \in Elements(timers) :
      wake \in Int /\ (wake < t.asked + NsPerMs \/ wake <= now)

LoopInv == LoopTypeOK /\ PointersOK /\ CursorOK /\ ExactOK /\ SleepOK

-----------------------------------------------------------------------------
LEMMA InListIs == InList = Taken(timers)
BY DEF InList, Indices, Taken, Elements

\* The timer at an address that is in the list.
LEMMA TimerIs ==
  ASSUME LoopTypeOK, NEW a \in Taken(timers)
  PROVE  Timer(a) \in Elements(timers) /\ Timer(a).address = a
<1>1. \E i \in Indices : timers[i].address = a
  BY DEF Taken, Elements, Indices
<1>2. Index(a) \in Indices /\ timers[Index(a)].address = a
  BY <1>1 DEF Index
<1> QED
  BY <1>2 DEF Timer, Elements, Indices

\* It is the only one there.
LEMMA TimerOf ==
  ASSUME LoopTypeOK, NEW t \in Elements(timers)
  PROVE  Timer(t.address) = t
<1>1. t.address \in Taken(timers)
  BY DEF Taken
<1>2. Timer(t.address) \in Elements(timers) /\ Timer(t.address).address = t.address
  BY <1>1, TimerIs
<1> QED
  BY <1>2, DistinctElements DEF LoopTypeOK

LEMMA ElementFields ==
  ASSUME LoopTypeOK, NEW t \in Elements(timers)
  PROVE  /\ t.address \in Addresses /\ t.address # None /\ t.address \in Taken(timers)
         /\ t.user \in User
         /\ t.removed \in BOOLEAN
         /\ t.expiry \in Timespec /\ t.asked \in Int
<1>1. t \in TimerType
  BY ElementTypes DEF LoopTypeOK
<1>2. /\ t.address \in Addresses /\ t.user \in User /\ t.removed \in BOOLEAN
      /\ t.expiry \in Timespec /\ t.asked \in Int
  BY <1>1 DEF TimerType
<1>3. t.address # None
  <2>1. Addresses \subseteq Int /\ None \notin Int
    BY LoopAssumption
  <2> QED
    BY <1>2, <2>1
<1>4. t.address \in Taken(timers)
  BY DEF Taken
<1> QED
  BY <1>2, <1>3, <1>4

\* A user has one live timer at most.
LEMMA OneLive ==
  ASSUME LoopTypeOK, PointersOK, NEW x \in LiveTimers, NEW y \in LiveTimers,
         x.user = y.user
  PROVE  x = y
<1>1. x.address = y.address
  BY DEF PointersOK
<1> QED
  BY <1>1, DistinctElements DEF LoopTypeOK, LiveTimers

\* Positions and timers.
LEMMA LiveIs ==
  /\ \A i \in Live : timers[i] \in LiveTimers
  /\ \A t \in LiveTimers : \E i \in Live : timers[i] = t
BY DEF Live, LiveTimers, Indices, Elements

LEMMA InvImplies ==
  ASSUME LoopInv
  PROVE  PointersLive /\ TraversalSafe /\ ExpiryExact /\ SleepsNoLonger
<1> USE DEF LoopInv
<1>1. PointersLive
  BY LiveIs DEF PointersOK, PointersLive
<1>2. TraversalSafe
  BY InListIs DEF CursorOK, TraversalSafe
<1>3. ExpiryExact
  <2> SUFFICES ASSUME NEW i \in Indices
               PROVE  LET e == timers[i].expiry
                      IN  /\ e.sec * NsPerSec + e.nsec = timers[i].asked
                          /\ Delays \subseteq Nat => e.nsec \in 0 .. NsPerSec - 1
    BY DEF ExpiryExact
  <2>1. timers[i] \in Elements(timers)
    BY DEF Elements, Indices
  <2>2. IsExact(timers[i]) /\ timers[i].expiry \in Timespec
    BY <2>1, ElementFields DEF ExactOK
  <2>3. timers[i].expiry.nsec \in Int
    BY <2>2 DEF Timespec
  <2> QED
    BY <2>2, <2>3, SecondPositive DEF IsExact
<1>4. SleepsNoLonger
  BY LiveIs, LoopAssumption DEF SleepOK, SleepsNoLonger, LiveTimers
<1> QED
  BY <1>1, <1>2, <1>3, <1>4

-----------------------------------------------------------------------------
\* The steps of callbacks.

\* Removing the timer a user points to ends the user's live timer, and no
\* other.
LEMMA RemovedEffect ==
  ASSUME LoopInv, NEW u \in User
  PROVE  LET m == Removed(timers, pointer[u])
         IN  /\ m \in Seq(TimerType) /\ Distinct(m) /\ Taken(m) = Taken(timers)
             /\ \A t \in Elements(m) : IsExact(t)
             /\ \A t \in Elements(timers) :
                  \E x \in Elements(m) : x.address = t.address /\ x.user = t.user
             /\ {t \in Elements(m) :
                   ~t.removed /\ ~(phase = "call" /\ t.address = cur)}
                  = {t \in LiveTimers : t.user # u}
<1> DEFINE a == pointer[u]
           m == Removed(timers, a)
           mark(t) == [t EXCEPT !.removed = TRUE]
           dead(t) == t.removed \/ (phase = "call" /\ t.address = cur)
<1> USE DEF LoopInv
<1>1. timers \in Seq(TimerType) /\ Distinct(timers)
  BY DEF LoopTypeOK
<1>2. /\ m \in Seq(TimerType) /\ Distinct(m) /\ Taken(m) = Taken(timers)
      /\ \A t \in Elements(timers) :
           IF t.address = a THEN mark(t) \in Elements(m) ELSE t \in Elements(m)
      /\ \A x \in Elements(m) :
           IF x.address = a THEN \E t \in Elements(timers) : x = mark(t)
                            ELSE x \in Elements(timers)
  BY <1>1, RemovedList
<1>3. \A t \in Elements(timers) :
        /\ mark(t).removed = TRUE /\ mark(t).expiry = t.expiry
        /\ mark(t).asked = t.asked /\ mark(t).address = t.address
        /\ mark(t).user = t.user
  <2>1. Elements(timers) \subseteq TimerType
    BY <1>1, ElementTypes
  <2> QED
    BY <2>1 DEF TimerType
<1> HIDE DEF m, mark
<1>4. ASSUME NEW x \in Elements(m)
      PROVE  IsExact(x)
  <2>1. PICK t \in Elements(timers) : x.expiry = t.expiry /\ x.asked = t.asked
    BY <1>2, <1>3
  <2>2. IsExact(t)
    BY DEF ExactOK
  <2> QED
    BY <2>1, <2>2 DEF IsExact
<1>5. ASSUME NEW x \in Elements(m), ~dead(x)
      PROVE  x \in LiveTimers /\ x.user # u
  <2>1. x.address # a /\ x \in Elements(timers)
    BY <1>2, <1>3, <1>5
  <2>2. x \in LiveTimers
    BY <1>5, <2>1 DEF LiveTimers
  <2> QED
    BY <2>1, <2>2 DEF PointersOK
<1>6. ASSUME NEW x \in LiveTimers, x.user # u
      PROVE  x \in Elements(m) /\ ~dead(x)
  <2>1. x \in Elements(timers) /\ ~dead(x)
    BY DEF LiveTimers
  <2>2. x.address # a
    <3> SUFFICES ASSUME x.address = a PROVE FALSE
      OBVIOUS
    <3>1. a # None
      BY <2>1, ElementFields
    <3>2. PICK y \in LiveTimers : y.address = a /\ y.user = u
      BY <3>1 DEF PointersOK
    <3>3. x = y
      BY <1>1, <2>1, <3>2, DistinctElements DEF LiveTimers
    <3> QED
      BY <1>6, <3>2, <3>3
  <2> QED
    BY <1>2, <2>1, <2>2
<1>7. {t \in Elements(m) :
         ~t.removed /\ ~(phase = "call" /\ t.address = cur)}
        = {t \in LiveTimers : t.user # u}
  BY <1>5, <1>6
<1>8. \A t \in Elements(timers) :
        \E x \in Elements(m) : x.address = t.address /\ x.user = t.user
  BY <1>2, <1>3
<1> QED
  BY <1>2, <1>4, <1>7, <1>8 DEF m

\* What becomes of pointers when a user's timer is no longer live.
LEMMA PointerCleared ==
  ASSUME LoopTypeOK, PointersOK, NEW u \in User,
         pointer' = [pointer EXCEPT ![u] = None],
         LiveTimers' = {t \in LiveTimers : t.user # u}
  PROVE  PointersOK'
<1>1. \A v \in User : pointer'[v] = IF v = u THEN None ELSE pointer[v]
  BY DEF LoopTypeOK
<1>2. \A t \in LiveTimers : t.user \in User
  BY ElementFields DEF LiveTimers
<1> QED
  BY <1>1, <1>2 DEF PointersOK

LEMMA PointerReplaced ==
  ASSUME LoopTypeOK, PointersOK, NEW u \in User, NEW r, r.user = u,
         pointer' = [pointer EXCEPT ![u] = r.address],
         LiveTimers' = {t \in LiveTimers : t.user # u} \cup {r}
  PROVE  PointersOK'
<1>1. \A v \in User : pointer'[v] = IF v = u THEN r.address ELSE pointer[v]
  BY DEF LoopTypeOK
<1>2. \A t \in LiveTimers : t.user \in User
  BY ElementFields DEF LiveTimers
<1> QED
  BY <1>1, <1>2 DEF PointersOK

LEMMA CancelKeeps ==
  ASSUME LoopInv, NEW u \in User, CancelTimer(u)
  PROVE  /\ LoopInv'
         /\ LiveTimers' = {t \in LiveTimers : t.user # u}
         /\ \A t \in Elements(timers) :
              \E x \in Elements(timers') : x.address = t.address /\ x.user = t.user
<1> USE DEF LoopInv
<1>1. /\ timers' = Removed(timers, pointer[u])
      /\ pointer' = [pointer EXCEPT ![u] = None]
      /\ UNCHANGED <<now, phase, wake, seen, cur, nxt>>
      /\ phase \in {"fds", "call"}
  BY DEF CancelTimer, InCallback
<1>2. /\ timers' \in Seq(TimerType) /\ Distinct(timers')
      /\ Taken(timers') = Taken(timers)
      /\ \A t \in Elements(timers') : IsExact(t)
      /\ {t \in Elements(timers') :
            ~t.removed /\ ~(phase = "call" /\ t.address = cur)}
           = {t \in LiveTimers : t.user # u}
  BY <1>1, RemovedEffect
<1>3. LiveTimers' = {t \in LiveTimers : t.user # u}
  BY <1>1, <1>2 DEF LiveTimers, Elements
<1>4. LoopTypeOK'
  BY <1>1, <1>2 DEF LoopTypeOK, Distinct
<1>5. PointersOK'
  BY <1>1, <1>3, PointerCleared
<1>6. CursorOK'
  BY <1>1, <1>2 DEF CursorOK, Taken, Elements
<1>7. ExactOK' /\ SleepOK'
  BY <1>1, <1>2 DEF ExactOK, IsExact, SleepOK, Elements
<1>8. \A t \in Elements(timers) :
        \E x \in Elements(timers') : x.address = t.address /\ x.user = t.user
  BY <1>1, RemovedEffect
<1> QED
  BY <1>3, <1>4, <1>5, <1>6, <1>7, <1>8

LEMMA ScheduleKeeps ==
  ASSUME LoopInv, NEW u \in User, NEW ms \in Delays, ScheduleTimer(u, ms)
  PROVE  /\ LoopInv'
         /\ \E r : r.user = u /\ LiveTimers' = {t \in LiveTimers : t.user # u} \cup {r}
         /\ \A t \in Elements(timers) :
              \E x \in Elements(timers') : x.address = t.address /\ x.user = t.user
<1> DEFINE a == Min(Free)
           m == Removed(timers, pointer[u])
           r == [address |-> a, user |-> u, removed |-> FALSE,
                 expiry |-> Expiry(now, ms), asked |-> now + ms * NsPerMs]
<1> USE DEF LoopInv
<1>1. /\ timers' = <<r>> \o m
      /\ pointer' = [pointer EXCEPT ![u] = a]
      /\ UNCHANGED <<now, phase, wake, seen, cur, nxt>>
      /\ phase \in {"fds", "call"}
      /\ Free # {}
  BY DEF ScheduleTimer, InCallback, Added
<1>2. a \in Addresses /\ a \notin Taken(timers)
  <2>1. Free \in SUBSET Nat
    BY LoopAssumption DEF Free
  <2>2. a \in Free
    BY <1>1, <2>1, LeastNat
  <2> QED
    BY <2>2, InListIs DEF Free
<1>3. ms \in Int /\ now \in Int /\ NsPerMs \in Int
      /\ (Delays \subseteq Nat => ms >= 0)
  BY LoopAssumption DEF LoopTypeOK
<1>4. /\ Expiry(now, ms) \in Timespec
      /\ Expiry(now, ms).sec * NsPerSec + Expiry(now, ms).nsec = now + ms * NsPerMs
      /\ Expiry(now, ms).nsec < NsPerSec
      /\ ms >= 0 => Expiry(now, ms).nsec >= 0
  BY <1>3, ExpiryIs
<1>5. r \in TimerType
  BY <1>2, <1>3, <1>4 DEF TimerType
<1>6. /\ r.address = a /\ r.user = u /\ r.removed = FALSE
      /\ r.expiry = Expiry(now, ms) /\ r.asked = now + ms * NsPerMs
  OBVIOUS
<1> HIDE DEF a, m, r
<1>7. IsExact(r)
  BY <1>3, <1>4, <1>6 DEF IsExact
<1>8. /\ m \in Seq(TimerType) /\ Distinct(m) /\ Taken(m) = Taken(timers)
      /\ \A t \in Elements(m) : IsExact(t)
      /\ {t \in Elements(m) :
            ~t.removed /\ ~(phase = "call" /\ t.address = cur)}
           = {t \in LiveTimers : t.user # u}
  BY RemovedEffect DEF m
<1>9. /\ timers' \in Seq(TimerType) /\ Distinct(timers')
      /\ Elements(timers') = {r} \cup Elements(m)
  BY <1>1, <1>2, <1>5, <1>6, <1>8, AddedList
<1>10. ~(phase = "call" /\ r.address = cur)
  BY <1>2, <1>6 DEF CursorOK
<1>11. LiveTimers' = {t \in LiveTimers : t.user # u} \cup {r}
  <2>1. LiveTimers' = {t \in {r} \cup Elements(m) :
                         ~t.removed /\ ~(phase = "call" /\ t.address = cur)}
    BY <1>1, <1>9 DEF LiveTimers, Elements
  <2> QED
    BY <1>6, <1>8, <1>10, <2>1
<1>12. LoopTypeOK'
  <2>1. pointer' \in [User -> Addresses \cup {None}]
    BY <1>1, <1>2 DEF LoopTypeOK
  <2> QED
    BY <1>1, <1>9, <2>1 DEF LoopTypeOK, Distinct
<1>13. PointersOK'
  BY <1>1, <1>6, <1>11, PointerReplaced
<1>14. CursorOK'
  <2>1. Taken(timers) \subseteq Taken(timers')
    BY <1>8, <1>9 DEF Taken
  <2> QED
    BY <1>1, <2>1 DEF CursorOK, Taken, Elements
<1>15. ExactOK' /\ SleepOK'
  BY <1>1, <1>7, <1>8, <1>9 DEF ExactOK, IsExact, SleepOK, Elements
<1>16. \A t \in Elements(timers) :
        \E x \in Elements(timers') : x.address = t.address /\ x.user = t.user
  BY <1>9, RemovedEffect DEF m
<1> QED
  BY <1>6, <1>11, <1>12, <1>13, <1>14, <1>15, <1>16

-----------------------------------------------------------------------------
\* The steps of loop_poll().

\* The traversal goes on in a list from which at most the current timer, one
\* that is not live, was taken.
LEMMA AdvanceKeeps ==
  ASSUME LoopInv, phase \in {"walk", "call"}, Advance,
         UNCHANGED <<now, pointer, wake, seen>>,
         \/ timers' = timers /\ phase = "walk"
         \/ timers' = Without(timers, cur) /\ (phase = "call" \/ Timer(cur).removed)
  PROVE  LoopInv' /\ LiveTimers' = LiveTimers
<1> USE DEF LoopInv
<1>1. /\ cur \in Taken(timers)
      /\ nxt \in (Taken(timers) \ {cur}) \cup {None}
      /\ timers \in Seq(TimerType) /\ Distinct(timers)
  BY DEF CursorOK, LoopTypeOK
<1>2. Timer(cur) \in Elements(timers) /\ Timer(cur).address = cur
  BY <1>1, TimerIs
<1>3. /\ timers' \in Seq(TimerType) /\ Distinct(timers')
      /\ Elements(timers') \subseteq Elements(timers)
      /\ \A t \in Elements(timers) : t \in Elements(timers') \/ t.address = cur
  BY <1>1, WithoutList
<1>4. /\ cur' = nxt
      /\ nxt' = IF nxt = None THEN None ELSE After(timers', nxt)
      /\ phase' = IF nxt = None THEN "flush" ELSE "walk"
  BY DEF Advance
<1>5. LiveTimers' = LiveTimers
  <2>1. LiveTimers' = {t \in Elements(timers') : ~t.removed}
    BY <1>4 DEF LiveTimers, Elements
  <2>2. CASE timers' = timers /\ phase = "walk"
    BY <2>1, <2>2 DEF LiveTimers
  <2>3. CASE timers' = Without(timers, cur) /\ (phase = "call" \/ Timer(cur).removed)
    <3>1. Elements(timers') = {t \in Elements(timers) : t.address # cur}
      BY <1>1, <2>3, WithoutList
    <3>2. \A t \in Elements(timers) : t.address = cur => t = Timer(cur)
      BY TimerOf
    <3> QED
      BY <1>2, <2>1, <2>3, <3>1, <3>2 DEF LiveTimers
  <2> QED
    BY <2>2, <2>3
<1>6. LoopTypeOK'
  BY <1>3, <1>4 DEF LoopTypeOK, Distinct, Phase
<1>7. PointersOK'
  BY <1>5 DEF PointersOK
<1>8. CursorOK'
  <2> SUFFICES ASSUME nxt # None
               PROVE  /\ nxt \in Taken(timers')
                      /\ After(timers', nxt) \in (Taken(timers') \ {nxt}) \cup {None}
    BY <1>4 DEF CursorOK, Taken, Elements
  <2>1. nxt \in Taken(timers')
    BY <1>1, <1>3 DEF Taken
  <2> QED
    BY <1>3, <2>1, AfterList
<1>9. ExactOK' /\ SleepOK'
  <2>1. \A t \in Elements(timers') : IsExact(t)
    BY <1>3 DEF ExactOK
  <2> QED
    BY <1>4, <2>1 DEF ExactOK, IsExact, SleepOK, Elements
<1> QED
  BY <1>5, <1>6, <1>7, <1>8, <1>9

\* The callback is called: the timer is the one its user points to.
LEMMA FireKeeps ==
  ASSUME LoopInv, Fire
  PROVE  /\ LoopInv'
         /\ Timer(cur) \in LiveTimers /\ Timer(cur).asked < now
         /\ LiveTimers' = {t \in LiveTimers : t.user # Timer(cur).user}
<1> DEFINE x == Timer(cur)
<1> USE DEF LoopInv
<1>1. /\ phase = "walk" /\ ~x.removed /\ IsPast(x.expiry, seen) /\ phase' = "call"
      /\ pointer' = [pointer EXCEPT ![x.user] = None]
      /\ UNCHANGED <<now, timers, wake, seen, cur, nxt>>
  BY DEF Fire
<1>2. x \in Elements(timers) /\ x.address = cur
  BY <1>1, TimerIs DEF CursorOK
<1>3. x \in LiveTimers
  BY <1>1, <1>2 DEF LiveTimers
<1>4. x.asked < now
  <2>1. IsExact(x) /\ x.expiry \in Timespec /\ x.asked \in Int
    BY <1>2, ElementFields DEF ExactOK
  <2>2. x.asked < seen
    BY <1>1, <2>1, PastIs DEF IsExact, LoopTypeOK
  <2> QED
    BY <2>1, <2>2 DEF LoopTypeOK
<1>5. x.user \in User
  BY <1>2, ElementFields
<1>6. LiveTimers' = {t \in LiveTimers : t.user # x.user}
  <2>1. LiveTimers' = {t \in Elements(timers) : ~t.removed /\ t.address # cur}
    BY <1>1 DEF LiveTimers
  <2>2. LiveTimers = {t \in Elements(timers) : ~t.removed}
    BY <1>1 DEF LiveTimers
  <2>3. \A t \in LiveTimers : t.address = cur <=> t.user = x.user
    BY <1>2, <1>3, <2>2, OneLive, TimerOf
  <2> QED
    BY <2>1, <2>2, <2>3
<1> HIDE DEF x
<1>7. LoopTypeOK'
  BY <1>1, <1>5 DEF LoopTypeOK, Phase
<1>8. PointersOK'
  BY <1>1, <1>5, <1>6, PointerCleared
<1>9. CursorOK' /\ ExactOK' /\ SleepOK'
  BY <1>1 DEF CursorOK, ExactOK, SleepOK, Taken, Elements, IsExact
<1> QED
  BY <1>3, <1>4, <1>6, <1>7, <1>8, <1>9 DEF x

\* The traversal begins.
LEMMA WalkKeeps ==
  ASSUME LoopInv, Walk
  PROVE  LoopInv' /\ LiveTimers' = LiveTimers
<1> USE DEF LoopInv
<1>1. /\ phase = "fds" /\ seen' = now /\ UNCHANGED <<now, timers, pointer, wake>>
      /\ phase' \in {"flush", "walk"}
      /\ phase' = "walk" => /\ timers # <<>>
                            /\ cur' = timers[1].address
                            /\ nxt' = After(timers, timers[1].address)
  BY DEF Walk
<1>2. LiveTimers' = LiveTimers
  BY <1>1 DEF LiveTimers
<1>3. LoopTypeOK' /\ PointersOK' /\ ExactOK' /\ SleepOK'
  BY <1>1, <1>2 DEF LoopTypeOK, PointersOK, ExactOK, SleepOK, Phase
<1>4. CursorOK'
  <2> SUFFICES ASSUME phase' = "walk"
               PROVE  /\ cur' \in Taken(timers)
                      /\ nxt' \in (Taken(timers) \ {cur'}) \cup {None}
    BY <1>1 DEF CursorOK
  <2>1. timers[1].address \in Taken(timers)
    <3>1. timers[1] \in Elements(timers)
      BY <1>1 DEF LoopTypeOK, Elements
    <3> QED
      BY <3>1 DEF Taken
  <2> QED
    BY <1>1, <2>1, AfterList DEF LoopTypeOK
<1> QED
  BY <1>2, <1>3, <1>4

\* The sleep ends no later than the first expiry, but for a millisecond.
LEMMA SleepKeeps ==
  ASSUME LoopInv, Sleep
  PROVE  LoopInv' /\ LiveTimers' = LiveTimers
<1> DEFINE n == Len(timers)
           left == [i \in 1 .. n |-> MsUntil(timers[i].expiry, now)]
           ms == {left[i] : i \in 1 .. n}
<1> USE DEF LoopInv
<1>1. /\ phase = "flush" /\ phase' = "poll"
      /\ wake' = IF ms = {} THEN None ELSE now + Max({0, Min(ms)}) * NsPerMs
      /\ UNCHANGED <<now, timers, pointer, seen, cur, nxt>>
  <2>1. ms = {MsUntil(timers[i].expiry, now) : i \in Indices}
    BY DEF Indices
  <2> QED
    BY <2>1 DEF Sleep
<1>2. now \in Int /\ n \in Nat /\ NsPerMs \in Nat \ {0}
  BY LoopAssumption DEF LoopTypeOK
<1>3. \A i \in 1 .. n : timers[i].expiry \in Timespec /\ timers[i].asked \in Int
                         /\ timers[i] \in Elements(timers)
  BY ElementFields DEF Elements
<1>4. \A i \in 1 .. n :
        /\ left[i] \in Int
        /\ now + left[i] * NsPerMs < timers[i].asked + NsPerMs
  <2> SUFFICES ASSUME NEW i \in 1 .. n
               PROVE  /\ left[i] \in Int
                      /\ now + left[i] * NsPerMs < timers[i].asked + NsPerMs
    OBVIOUS
  <2>1. left[i] = MsUntil(timers[i].expiry, now)
    OBVIOUS
  <2>2. timers[i].expiry.sec * NsPerSec + timers[i].expiry.nsec = timers[i].asked
    BY <1>3 DEF ExactOK, IsExact
  <2> QED
    BY <1>2, <1>3, <2>1, <2>2, MsUntilIs
<1>5. ASSUME NEW t \in Elements(timers)
      PROVE  wake' \in Int /\ (wake' < t.asked + NsPerMs \/ wake' <= now)
  <2>1. PICK i \in 1 .. n : t = timers[i]
    BY DEF Elements
  <2>2. n # 0 /\ left \in [1 .. n -> Int]
    BY <1>4, <2>1
  <2> HIDE DEF left
  <2>3. Min(ms) \in ms /\ \A x \in ms : Min(ms) <= x
    BY <1>2, <2>2, LeastOfList
  <2>4. Min(ms) \in Int /\ Min(ms) <= left[i] /\ ms # {}
    BY <1>4, <2>1, <2>3
  <2> HIDE DEF ms
  <2>5. CASE Min(ms) <= 0
    <3>1. Max({0, Min(ms)}) = 0
      BY <2>4, <2>5, MaxOfTwo
    <3> QED
      BY <1>1, <1>2, <2>4, <3>1
  <2>6. CASE Min(ms) > 0
    <3>1. Max({0, Min(ms)}) = Min(ms)
      BY <2>4, <2>6, MaxOfTwo
    <3>2. wake' = now + Min(ms) * NsPerMs
      BY <1>1, <2>4, <3>1
    <3>3. Min(ms) * NsPerMs <= left[i] * NsPerMs
      <4>1. \A x, y \in Int : x <= y => x * NsPerMs <= y * NsPerMs
        BY <1>2
      <4> QED
        BY <1>4, <2>4, <4>1
    <3>4. left[i] * NsPerMs \in Int /\ Min(ms) * NsPerMs \in Int
      BY <1>2, <1>4, <2>4
    <3>5. t.asked \in Int /\ now \in Int
      BY <1>2, <1>3, <2>1
    <3>6. now + left[i] * NsPerMs < t.asked + NsPerMs
      BY <1>4, <2>1
    <3> DEFINE p == Min(ms) * NsPerMs
               q == left[i] * NsPerMs
    <3>7. /\ p \in Int /\ q \in Int /\ p <= q
          /\ wake' = now + p /\ now + q < t.asked + NsPerMs
      BY <3>2, <3>3, <3>4, <3>6
    <3> HIDE DEF p, q
    <3> QED
      BY <1>2, <3>5, <3>7
  <2> QED
    BY <2>4, <2>5, <2>6
<1>6. LiveTimers' = LiveTimers
  BY <1>1 DEF LiveTimers
<1>7. LoopTypeOK' /\ PointersOK' /\ ExactOK' /\ CursorOK'
  BY <1>1, <1>6 DEF LoopTypeOK, PointersOK, ExactOK, CursorOK, Phase
<1>8. SleepOK'
  BY <1>1, <1>5 DEF SleepOK
<1> QED
  BY <1>6, <1>7, <1>8

\* poll() returns, or fails and ends the process.
LEMMA WakeKeeps ==
  ASSUME LoopInv, Wake \/ PollFailed
  PROVE  LoopInv' /\ LiveTimers' = LiveTimers
<1>1. phase = "poll" /\ phase' \in {"fds", "exited"}
      /\ UNCHANGED <<now, timers, pointer, seen, cur, nxt>>
      /\ wake' \in {None, wake}
  BY DEF Wake, PollFailed
<1>2. LiveTimers' = LiveTimers
  BY <1>1 DEF LiveTimers
<1> QED
  BY <1>1, <1>2
  DEF LoopInv, LoopTypeOK, PointersOK, CursorOK, ExactOK, SleepOK, Phase

LEMMA TickKeeps ==
  ASSUME LoopInv, Tick
  PROVE  LoopInv' /\ LiveTimers' = LiveTimers
<1>1. /\ now \in Nat /\ now' = now + 1
      /\ UNCHANGED <<timers, pointer, phase, wake, seen, cur, nxt>>
  BY DEF Tick, LoopInv, LoopTypeOK
<1>2. LiveTimers' = LiveTimers
  BY <1>1 DEF LiveTimers
<1> QED
  BY <1>1, <1>2
  DEF LoopInv, LoopTypeOK, PointersOK, CursorOK, ExactOK, SleepOK

LEMMA LoopStep ==
  ASSUME LoopInv, Next
  PROVE  LoopInv'
<1>1. ASSUME NEW u \in User, CancelTimer(u)
      PROVE  LoopInv'
  BY <1>1, CancelKeeps
<1>2. ASSUME NEW u \in User, NEW ms \in Delays, ScheduleTimer(u, ms)
      PROVE  LoopInv'
  BY <1>2, ScheduleKeeps
<1>3. CASE Sleep
  BY <1>3, SleepKeeps
<1>4. CASE Wake \/ PollFailed
  BY <1>4, WakeKeeps
<1>5. CASE Walk
  BY <1>5, WalkKeeps
<1>6. CASE Reap
  BY <1>6, AdvanceKeeps DEF Reap
<1>7. CASE Skip
  BY <1>7, AdvanceKeeps DEF Skip
<1>8. CASE Fire
  BY <1>8, FireKeeps
<1>9. CASE CallbackReturns
  BY <1>9, AdvanceKeeps DEF CallbackReturns
<1>10. CASE Tick
  BY <1>10, TickKeeps
<1>11. CASE Ended
  BY <1>11 DEF Ended, vars, LoopInv, LoopTypeOK, PointersOK, CursorOK, ExactOK,
     SleepOK, LiveTimers
<1> QED
  BY <1>1, <1>2, <1>3, <1>4, <1>5, <1>6, <1>7, <1>8, <1>9, <1>10, <1>11 DEF Next

THEOREM LoopInvariance == Spec => []LoopInv
<1>1. Init => LoopInv
  <2> SUFFICES ASSUME Init PROVE LoopInv
    OBVIOUS
  <2>1. timers = <<>> /\ Elements(timers) = {}
    BY DEF Init, Elements
  <2>2. LoopTypeOK
    BY <2>1 DEF Init, LoopTypeOK, Distinct, Phase
  <2>3. PointersOK
    BY <2>1 DEF Init, PointersOK, LiveTimers
  <2>4. CursorOK /\ ExactOK /\ SleepOK
    BY <2>1 DEF Init, CursorOK, ExactOK, SleepOK
  <2> QED
    BY <2>2, <2>3, <2>4 DEF LoopInv
<1>2. LoopInv /\ [Next]_vars => LoopInv'
  <2>1. ASSUME LoopInv, UNCHANGED vars
        PROVE  LoopInv'
    BY <2>1
    DEF vars, LoopInv, LoopTypeOK, PointersOK, CursorOK, ExactOK, SleepOK,
        LiveTimers
  <2> QED
    BY <2>1, LoopStep
<1> QED
  BY <1>1, <1>2, PTL DEF Spec

(***************************************************************************)
(* No pointer of a user dangles and no live timer is forgotten, although   *)
(* loop_remove_timer() only marks, callbacks add and remove timers while   *)
(* the list is traversed, and freed addresses are used again.              *)
(***************************************************************************)
THEOREM PointersNeverDangle == Spec => []PointersLive
<1>1. LoopInv => PointersLive
  BY InvImplies
<1> QED
  BY <1>1, LoopInvariance, PTL

(***************************************************************************)
(* loop_poll() traverses the list without touching a freed timer, whatever *)
(* the callback of a timer does.                                           *)
(***************************************************************************)
THEOREM TraversalIsSafe == Spec => []TraversalSafe
<1>1. LoopInv => TraversalSafe
  BY InvImplies
<1> QED
  BY <1>1, LoopInvariance, PTL

(***************************************************************************)
(* The seconds and nanoseconds loop_add_timer() computes are the instant   *)
(* asked for, with 1000 and 1000000 or any other positive factors.         *)
(***************************************************************************)
THEOREM ExpiriesExact == Spec => []ExpiryExact
<1>1. LoopInv => ExpiryExact
  BY InvImplies
<1> QED
  BY <1>1, LoopInvariance, PTL

(***************************************************************************)
(* The timeout loop_poll() hands to poll() ends less than a millisecond    *)
(* after the first live timer is due.                                      *)
(***************************************************************************)
THEOREM NeverOversleeps == Spec => []SleepsNoLonger
<1>1. LoopInv => SleepsNoLonger
  BY InvImplies
<1> QED
  BY <1>1, LoopInvariance, PTL

-----------------------------------------------------------------------------
\* Refinement: the list, its marks and the traversal are one timer per user.

DueOK ==
  /\ Due = [u \in User |-> Due[u]]
  /\ \A t \in LiveTimers : t.user \in User /\ t.asked \in Int
                             /\ Due[t.user] = t.asked
  /\ \A u \in User : (\A t \in LiveTimers : t.user # u) => Due[u] = None

RunningOK ==
  /\ phase # "call" => Running = None
  /\ phase = "call" => /\ Running \in User
                       /\ \A t \in Elements(timers) :
                            t.address = cur => Running = t.user

LEMMA DueIs == LoopInv => DueOK /\ RunningOK
<1> SUFFICES ASSUME LoopInv PROVE DueOK /\ RunningOK
  OBVIOUS
<1> USE DEF LoopInv
<1>1. ASSUME NEW t \in LiveTimers
      PROVE  t.user \in User /\ t.asked \in Int /\ Due[t.user] = t.asked
  <2>1. t.user \in User /\ t.asked \in Int
    BY ElementFields DEF LiveTimers
  <2>2. \E i \in Live : timers[i].user = t.user
    BY LiveIs
  <2> DEFINE k == CHOOSE i \in Live : timers[i].user = t.user
  <2>3. k \in Live /\ timers[k].user = t.user
    BY <2>2
  <2>4. Due[t.user] = timers[k].asked
    BY <2>1, <2>2 DEF Due
  <2> HIDE DEF k
  <2>5. timers[k] = t
    BY <2>3, LiveIs, OneLive
  <2> QED
    BY <2>1, <2>4, <2>5
<1>2. ASSUME NEW u \in User, \A t \in LiveTimers : t.user # u
      PROVE  Due[u] = None
  BY <1>2, LiveIs DEF Due
<1>3. Due = [u \in User |-> Due[u]]
  BY DEF Due
<1>4. phase = "call" => /\ Running \in User
                       /\ \A t \in Elements(timers) :
                            t.address = cur => Running = t.user
  <2> SUFFICES ASSUME phase = "call"
               PROVE  /\ Timer(cur).user \in User
                      /\ \A t \in Elements(timers) :
                           t.address = cur => Timer(cur).user = t.user
    BY DEF Running
  <2>1. Timer(cur) \in Elements(timers)
    BY TimerIs DEF CursorOK
  <2> QED
    BY <2>1, ElementFields, TimerOf
<1>5. phase # "call" => Running = None
  BY DEF Running
<1> QED
  BY <1>1, <1>2, <1>3, <1>4, <1>5 DEF DueOK, RunningOK

\* What the others are due is not affected by the timer of u.
LEMMA DueOnly ==
  ASSUME LoopInv, LoopInv', NEW u \in User,
         {t \in LiveTimers' : t.user # u} = {t \in LiveTimers : t.user # u}
  PROVE  Due' = [Due EXCEPT ![u] = Due'[u]]
<1>1. DueOK /\ DueOK'
  BY DueIs, PTL
<1>2. ASSUME NEW v \in User, v # u
      PROVE  Due'[v] = Due[v]
  <2>1. CASE \E t \in LiveTimers : t.user = v
    BY <1>1, <1>2, <2>1 DEF DueOK
  <2>2. CASE \A t \in LiveTimers : t.user # v
    BY <1>1, <1>2, <2>2 DEF DueOK
  <2> QED
    BY <2>1, <2>2
<1>3. Due = [v \in User |-> Due[v]] /\ Due' = [v \in User |-> Due'[v]]
  BY <1>1 DEF DueOK
<1> QED
  BY <1>2, <1>3

LEMMA DueSame ==
  ASSUME LoopInv, LoopInv', LiveTimers' = LiveTimers
  PROVE  Due' = Due
<1>1. DueOK /\ DueOK'
  BY DueIs, PTL
<1>2. ASSUME NEW v \in User
      PROVE  Due'[v] = Due[v]
  <2>1. CASE \E t \in LiveTimers : t.user = v
    BY <1>1, <2>1 DEF DueOK
  <2>2. CASE \A t \in LiveTimers : t.user # v
    BY <1>1, <2>2 DEF DueOK
  <2> QED
    BY <2>1, <2>2
<1>3. Due = [v \in User |-> Due[v]] /\ Due' = [v \in User |-> Due'[v]]
  BY <1>1 DEF DueOK
<1> QED
  BY <1>2, <1>3

\* A step outside a callback that leaves the live timers and the clock alone
\* is none that a user sees.
LEMMA QuietStep ==
  ASSUME LoopInv, LoopInv', LiveTimers' = LiveTimers, phase # "call",
         phase' # "call", now' = now
  PROVE  UNCHANGED Promise!timerSetVars
<1>1. Due' = Due
  BY DueSame
<1>2. RunningOK /\ RunningOK'
  BY DueIs, PTL
<1> QED
  BY <1>1, <1>2 DEF RunningOK, Promise!timerSetVars

\* What a callback does with its timers does not change whose callback it is.
LEMMA CallbackStep ==
  ASSUME LoopInv, LoopInv', NEW u \in User,
         {t \in LiveTimers' : t.user # u} = {t \in LiveTimers : t.user # u},
         UNCHANGED <<now, phase, cur>>,
         \A t \in Elements(timers) :
           \E x \in Elements(timers') : x.address = t.address /\ x.user = t.user
  PROVE  Promise!Change(u)
<1>1. Due' = [Due EXCEPT ![u] = Due'[u]]
  BY DueOnly
<1>2. RunningOK /\ RunningOK'
  BY DueIs, PTL
<1>3. Running' = Running
  <2>1. CASE phase # "call"
    BY <1>2, <2>1 DEF RunningOK
  <2>2. CASE phase = "call"
    <3>1. PICK t \in Elements(timers) : t.address = cur
      BY <2>2 DEF LoopInv, CursorOK, Taken
    <3>2. PICK x \in Elements(timers') : x.address = t.address /\ x.user = t.user
      OBVIOUS
    <3>3. Running = t.user
      BY <1>2, <2>2, <3>1 DEF RunningOK
    <3>4. Running' = x.user
      <4>1. \A y \in Elements(timers') : y.address = cur' => Running' = y.user
        BY <1>2, <2>2 DEF RunningOK, Elements
      <4> QED
        BY <3>1, <3>2, <4>1
    <3> QED
      BY <3>2, <3>3, <3>4
  <2> QED
    BY <2>1, <2>2
<1> QED
  BY <1>1, <1>3 DEF Promise!Change, Promise!Only

LEMMA LoopStepRefines ==
  ASSUME LoopInv, Next
  PROVE  [Promise!TimerSetNext]_(Promise!timerSetVars)
<1> USE DEF Promise!TimerSetNext
<1>1. LoopInv'
  BY LoopStep
<1>2. DueOK /\ DueOK' /\ RunningOK /\ RunningOK'
  BY <1>1, DueIs, PTL
<1>3. ASSUME NEW u \in User, CancelTimer(u)
      PROVE  \E v \in User : Promise!Change(v)
  <2>1. /\ LiveTimers' = {t \in LiveTimers : t.user # u}
        /\ \A t \in Elements(timers) :
             \E x \in Elements(timers') : x.address = t.address /\ x.user = t.user
    BY <1>3, CancelKeeps
  <2>2. UNCHANGED <<now, phase, cur>>
    BY <1>3 DEF CancelTimer
  <2>3. {t \in LiveTimers' : t.user # u} = {t \in LiveTimers : t.user # u}
    BY <2>1
  <2> QED
    BY <1>1, <2>1, <2>2, <2>3, CallbackStep
<1>4. ASSUME NEW u \in User, NEW ms \in Delays, ScheduleTimer(u, ms)
      PROVE  \E v \in User : Promise!Change(v)
  <2>1. /\ \E r : r.user = u /\ LiveTimers' = {t \in LiveTimers : t.user # u} \cup {r}
        /\ \A t \in Elements(timers) :
             \E x \in Elements(timers') : x.address = t.address /\ x.user = t.user
    BY <1>4, ScheduleKeeps
  <2>2. UNCHANGED <<now, phase, cur>>
    BY <1>4 DEF ScheduleTimer
  <2>3. {t \in LiveTimers' : t.user # u} = {t \in LiveTimers : t.user # u}
    BY <2>1
  <2> QED
    BY <1>1, <2>1, <2>2, <2>3, CallbackStep
<1>5. CASE Sleep
  <2>1. phase # "call" /\ phase' # "call" /\ now' = now
    BY <1>5 DEF Sleep
  <2> QED
    BY <1>1, <1>5, <2>1, SleepKeeps, QuietStep
<1>6. CASE Wake \/ PollFailed
  <2>1. phase # "call" /\ phase' # "call" /\ now' = now
    BY <1>6 DEF Wake, PollFailed
  <2> QED
    BY <1>1, <1>6, <2>1, WakeKeeps, QuietStep
<1>7. CASE Walk
  <2>1. phase # "call" /\ phase' # "call" /\ now' = now
    BY <1>7 DEF Walk
  <2> QED
    BY <1>1, <1>7, <2>1, WalkKeeps, QuietStep
<1>8. CASE Reap
  <2>1. phase # "call" /\ phase' # "call" /\ now' = now
    BY <1>8 DEF Reap, Advance
  <2>2. LiveTimers' = LiveTimers
    BY <1>8, AdvanceKeeps DEF Reap
  <2> QED
    BY <1>1, <2>1, <2>2, QuietStep
<1>9. CASE Skip
  <2>1. phase # "call" /\ phase' # "call" /\ now' = now
    BY <1>9 DEF Skip, Advance
  <2>2. LiveTimers' = LiveTimers
    BY <1>9, AdvanceKeeps DEF Skip
  <2> QED
    BY <1>1, <2>1, <2>2, QuietStep
<1>10. CASE Fire
  <2> DEFINE x == Timer(cur)
  <2>1. /\ phase = "walk" /\ phase' = "call" /\ UNCHANGED <<now, timers, cur>>
    BY <1>10 DEF Fire
  <2>2. /\ x \in LiveTimers /\ x.asked < now
        /\ LiveTimers' = {t \in LiveTimers : t.user # x.user}
    BY <1>10, FireKeeps
  <2>3. x.user \in User /\ Due[x.user] = x.asked /\ x.asked \in Int
    BY <1>2, <2>2 DEF DueOK
  <2>4. now > Due[x.user] /\ Due[x.user] # None
    <3>1. None \notin Int /\ now \in Nat
      BY LoopAssumption DEF LoopInv, LoopTypeOK
    <3> QED
      BY <2>2, <2>3, <3>1
  <2>5. Running = None /\ Running' = x.user
    BY <1>2, <2>1 DEF RunningOK, Running, Timer, Index, Indices
  <2>6. Due' = [Due EXCEPT ![x.user] = Due'[x.user]]
    <3>1. {t \in LiveTimers' : t.user # x.user} = {t \in LiveTimers : t.user # x.user}
      BY <2>2
    <3> QED
      BY <1>1, <2>3, <3>1, DueOnly
  <2> HIDE DEF x
  <2>7. Promise!Call(x.user)
    BY <2>1, <2>4, <2>5, <2>6 DEF Promise!Call, Promise!Only
  <2> QED
    BY <2>3, <2>7
<1>11. CASE CallbackReturns
  <2>1. phase = "call" /\ phase' # "call" /\ now' = now
    BY <1>11 DEF CallbackReturns, Advance
  <2>2. LiveTimers' = LiveTimers
    BY <1>11, AdvanceKeeps DEF CallbackReturns
  <2>3. Due' = Due
    BY <1>1, <2>2, DueSame
  <2>4. Running # None /\ Running' = None
    BY <1>2, <2>1, LoopAssumption DEF RunningOK
  <2> QED
    BY <2>1, <2>3, <2>4 DEF Promise!Finish
<1>12. CASE Tick
  <2>1. /\ now' > now
        /\ UNCHANGED <<timers, phase, cur>>
    BY <1>12 DEF Tick, LoopInv, LoopTypeOK
  <2>2. Running' = Running /\ Due' = Due
    BY <2>1 DEF Running, Due, Live, Timer, Index, Indices
  <2> QED
    BY <2>1, <2>2 DEF Promise!Pass
<1>13. CASE Ended
  BY <1>13
  DEF Ended, vars, Promise!timerSetVars, Due, Live, Indices, Running, Timer, Index
<1> QED
  BY <1>3, <1>4, <1>5, <1>6, <1>7, <1>8, <1>9, <1>10, <1>11, <1>12, <1>13 DEF Next

(***************************************************************************)
(* loop.c keeps what TimerSet promises its users: a callback runs only for *)
(* a timer that is due and was not cancelled, and no step on the list      *)
(* touches the timer of another user.                                      *)
(***************************************************************************)
THEOREM LoopRefinement == Spec => KeepsPromise
<1>1. Init => Promise!TimerSetInit
  BY DEF Init, Promise!TimerSetInit, Due, Live, Indices, Running
<1>2. LoopInv /\ [Next]_vars => [Promise!TimerSetNext]_(Promise!timerSetVars)
  <2>1. ASSUME UNCHANGED vars
        PROVE  UNCHANGED Promise!timerSetVars
    BY <2>1
    DEF vars, Promise!timerSetVars, Due, Live, Indices, Running, Timer, Index
  <2> QED
    BY <2>1, LoopStepRefines
<1> QED
  BY <1>1, <1>2, LoopInvariance, PTL DEF Spec, KeepsPromise, Promise!TimerSetSpec
=============================================================================
