----------------------------- MODULE BytesProof -----------------------------
(***************************************************************************)
(* The two places where the program handles bytes one by one, for any      *)
(* size, any contents and any history.                                     *)
(*                                                                         *)
(* PasswordBuffer: what is in the buffer and in the frame of a submission  *)
(* is the concatenation of the encodings of what was typed, and no         *)
(* password is in memory that may be paged out.                            *)
(*                                                                         *)
(* CommFrame: however read() and write() cut the bytes, and wherever a     *)
(* process dies, comm_read() returns the frames that comm_write() wrote.   *)
(***************************************************************************)
EXTENDS PasswordBuffer, CommFrame, SequenceTheorems, FiniteSetTheorems,
        FunctionTheorems, WellFoundedInduction, TLAPS

Running == step \notin {"create", "exited"}

(***************************************************************************)
(* Why NeverPagedOut holds: once the process runs the buffer is locked for *)
(* good, and a copy exists only between the mlock() that let it be made    *)
(* and the munlock() that comes after its clearing.                        *)
(***************************************************************************)
LockedInv ==
  /\ step \in Step
  /\ ~Running => len = 0
  /\ Running /\ mlock_supported => "buffer" \in locked
  /\ step = "clear" /\ mlock_supported => "copy" \in locked
  /\ step # "clear" => \A i \in DOMAIN copy : copy[i] = 0

LEMMA LockedStep ==
  ASSUME LockedInv, [Next]_vars
  PROVE  LockedInv'
<1> USE DEF LockedInv, Running, Step
<1>1. CASE \E ch \in Codepoints : append_ch(ch)
  BY <1>1 DEF append_ch
<1>2. CASE backspace
  BY <1>2 DEF backspace
<1>3. CASE Clear
  BY <1>3 DEF Clear, clear_password_buffer
<1>4. CASE Submit
  BY <1>4 DEF Submit
<1>5. CASE clear_buffer
  BY <1>5 DEF clear_buffer
<1>6. CASE Free
  BY <1>6 DEF Free
<1>7. ASSUME NotCreated, UNCHANGED <<locked, mlock_supported>>
      PROVE  LockedInv'
  BY <1>7 DEF NotCreated, clear_password_buffer
<1>8. CASE posix_memalign_fails \/ mlock_fails
  BY <1>7, <1>8 DEF posix_memalign_fails, mlock_fails
<1>9. CASE mlock_EAGAIN
  BY <1>7, <1>9 DEF mlock_EAGAIN
<1>10. CASE mlock_succeeds
  BY <1>10 DEF mlock_succeeds, Created, clear_password_buffer, Area
<1>11. CASE mlock_EPERM
  BY <1>11 DEF mlock_EPERM, Created, clear_password_buffer
<1>12. CASE UNCHANGED vars
  BY <1>12 DEF vars
<1> QED
  BY <1>1, <1>2, <1>3, <1>4, <1>5, <1>6, <1>8, <1>9, <1>10, <1>11, <1>12 DEF Next

\* A password is never in memory that may be paged out.
THEOREM PagedOutNever == Spec => []NeverPagedOut
<1>1. Init => LockedInv
  BY DEF Init, LockedInv, Running, Step
<1>2. LockedInv /\ [Next]_vars => LockedInv'
  BY LockedStep
<1>3. LockedInv => NeverPagedOut
  BY DEF LockedInv, NeverPagedOut, Running
<1> QED
  BY <1>1, <1>2, <1>3, PTL DEF Spec

-----------------------------------------------------------------------------
\* unicode.c: sizes and bytes.

\* utf8_chsize() and utf8_encode() agree on the size, and these are the bytes.
LEMMA EncodeCases ==
  ASSUME NEW ch \in Codepoints
  PROVE  LET n == utf8_chsize(ch)
             b == utf8_encode(ch)
         IN  /\ ch \in Nat /\ ch > 0
             /\ DOMAIN b = 1 .. n
             /\ \/ n = 1 /\ ch < 128 /\ b[1] = ch
                \/ /\ n = 2 /\ ch >= 128 /\ ch < 2048
                   /\ b[1] = 192 + ch \div 64 /\ b[2] = 128 + (ch % 64)
                \/ /\ n = 3 /\ ch >= 2048 /\ ch < 65536
                   /\ b[1] = 224 + ch \div 4096
                   /\ b[2] = 128 + ((ch \div 64) % 64) /\ b[3] = 128 + (ch % 64)
                \/ /\ n = 4 /\ ch >= 65536
                   /\ b[1] = 240 + ch \div 262144 /\ b[2] = 128 + ((ch \div 4096) % 64)
                   /\ b[3] = 128 + ((ch \div 64) % 64) /\ b[4] = 128 + (ch % 64)
<1> DEFINE n == utf8_chsize(ch)
           b == utf8_encode(ch)
<1>1. ch \in Nat /\ ch > 0
  BY BufferAssumption, SMT
<1>2. /\ n \in {1, 2, 3, 4}
      /\ n = 1 => ch < 128
      /\ n = 2 => ch >= 128 /\ ch < 2048
      /\ n = 3 => ch >= 2048 /\ ch < 65536
      /\ n = 4 => ch >= 65536
  BY <1>1, SMT DEF utf8_chsize
<1>3. b = [i \in 1 .. n |-> IF i = 1 THEN <<0, 192, 224, 240>>[n] + ch \div 64 ^ (n - 1)
                            ELSE 128 + ((ch \div 64 ^ (n - i)) % 64)]
  BY SMT DEF utf8_encode, utf8_chsize
<1>4. 64 ^ 0 = 1 /\ 64 ^ 1 = 64 /\ 64 ^ 2 = 4096 /\ 64 ^ 3 = 262144
  BY SMT
<1> HIDE DEF n, b
<1>5. /\ DOMAIN b = 1 .. n
      /\ b[1] = <<0, 192, 224, 240>>[n] + ch \div 64 ^ (n - 1)
      /\ n >= 2 => b[2] = 128 + ((ch \div 64 ^ (n - 2)) % 64)
      /\ n >= 3 => b[3] = 128 + ((ch \div 64 ^ (n - 3)) % 64)
      /\ n >= 4 => b[4] = 128 + ((ch \div 64 ^ (n - 4)) % 64)
  BY <1>2, <1>3, SMT
<1>6. ch \div 1 = ch
  BY <1>1, SMT
<1>7. CASE n = 1
  <2>1. b[1] = 0 + ch \div 64 ^ 0
    BY <1>5, <1>7, SMT
  <2> QED BY <1>1, <1>2, <1>4, <1>5, <1>6, <1>7, <2>1, SMT DEF n, b
<1>8. CASE n = 2
  <2>1. b[1] = 192 + ch \div 64 ^ 1 /\ b[2] = 128 + ((ch \div 64 ^ 0) % 64)
    BY <1>2, <1>5, <1>8, SMT
  <2> QED BY <1>1, <1>2, <1>4, <1>5, <1>6, <1>8, <2>1, SMT DEF n, b
<1>9. CASE n = 3
  <2>1. /\ b[1] = 224 + ch \div 64 ^ 2 /\ b[2] = 128 + ((ch \div 64 ^ 1) % 64)
        /\ b[3] = 128 + ((ch \div 64 ^ 0) % 64)
    BY <1>2, <1>5, <1>9, SMT
  <2> QED BY <1>1, <1>2, <1>4, <1>5, <1>6, <1>9, <2>1, SMT DEF n, b
<1>10. CASE n = 4
  <2>1. /\ b[1] = 240 + ch \div 64 ^ 3 /\ b[2] = 128 + ((ch \div 64 ^ 2) % 64)
        /\ b[3] = 128 + ((ch \div 64 ^ 1) % 64) /\ b[4] = 128 + ((ch \div 64 ^ 0) % 64)
    BY <1>2, <1>5, <1>10, SMT
  <2> QED BY <1>1, <1>2, <1>4, <1>5, <1>6, <1>10, <2>1, SMT DEF n, b
<1> QED
  BY <1>2, <1>7, <1>8, <1>9, <1>10, SMT

\* The first byte begins a character, the others continue it, none is zero.
LEMMA EncodeBytes ==
  ASSUME NEW ch \in Codepoints
  PROVE  /\ utf8_chsize(ch) \in 1 .. 4
         /\ DOMAIN utf8_encode(ch) = 1 .. utf8_chsize(ch)
         /\ ~IsContinuation(utf8_encode(ch)[1])
         /\ \A i \in 2 .. utf8_chsize(ch) : IsContinuation(utf8_encode(ch)[i])
         /\ \A i \in 1 .. utf8_chsize(ch) : /\ utf8_encode(ch)[i] # 0
                                            /\ utf8_encode(ch)[i] \in Nat
<1> DEFINE n == utf8_chsize(ch)
           b == utf8_encode(ch)
<1>1. /\ ch \in Nat /\ ch > 0
      /\ DOMAIN b = 1 .. n
      /\ \/ n = 1 /\ ch < 128 /\ b[1] = ch
         \/ /\ n = 2 /\ ch >= 128 /\ ch < 2048
            /\ b[1] = 192 + ch \div 64 /\ b[2] = 128 + (ch % 64)
         \/ /\ n = 3 /\ ch >= 2048 /\ ch < 65536
            /\ b[1] = 224 + ch \div 4096
            /\ b[2] = 128 + ((ch \div 64) % 64) /\ b[3] = 128 + (ch % 64)
         \/ /\ n = 4 /\ ch >= 65536
            /\ b[1] = 240 + ch \div 262144 /\ b[2] = 128 + ((ch \div 4096) % 64)
            /\ b[3] = 128 + ((ch \div 64) % 64) /\ b[4] = 128 + (ch % 64)
  BY EncodeCases, SMT
<1> HIDE DEF n, b
<1>2. n \in 1 .. 4
  BY <1>1, SMT
<1>3. b[1] \in Nat /\ b[1] # 0 /\ ~IsContinuation(b[1])
  <2>1. /\ ch \div 64 \in Nat /\ ch \div 4096 \in Nat /\ ch \div 262144 \in Nat
    BY <1>1, SMT
  <2>2. b[1] \in Nat /\ (b[1] >= 192 \/ (b[1] < 128 /\ b[1] > 0))
    BY <1>1, <2>1
  <2> QED BY <2>2 DEF IsContinuation
<1>4. ASSUME NEW i \in 2 .. n
      PROVE  b[i] \in 128 .. 191
  <2>1. \A x \in Nat : 128 + (x % 64) \in 128 .. 191
    BY SMT
  <2>2. ch \div 64 \in Nat /\ ch \div 4096 \in Nat
    BY <1>1, SMT
  <2>3. /\ 128 + (ch % 64) \in 128 .. 191
        /\ 128 + ((ch \div 64) % 64) \in 128 .. 191
        /\ 128 + ((ch \div 4096) % 64) \in 128 .. 191
    BY <1>1, <2>1, <2>2
  <2>4. /\ n \in {2, 3, 4} => b[n] = 128 + (ch % 64)
        /\ n \in {3, 4} => b[n - 1] = 128 + ((ch \div 64) % 64)
        /\ n = 4 => b[2] = 128 + ((ch \div 4096) % 64)
    BY <1>1
  <2>5. \/ i = n /\ n \in {2, 3, 4}
        \/ i = n - 1 /\ n \in {3, 4}
        \/ i = 2 /\ n = 4
    BY <1>2
  <2> QED BY <2>3, <2>4, <2>5
<1>5. ASSUME NEW i \in 2 .. n
      PROVE  IsContinuation(b[i]) /\ b[i] # 0 /\ b[i] \in Nat
  BY <1>4, SMT DEF IsContinuation
<1>6. ASSUME NEW i \in 1 .. n
      PROVE  b[i] # 0 /\ b[i] \in Nat
  <2>1. i = 1 \/ i \in 2 .. n
    BY <1>2, SMT
  <2> QED BY <1>3, <1>5, <2>1
<1> QED
  BY <1>1, <1>2, <1>3, <1>5, <1>6 DEF n, b

-----------------------------------------------------------------------------
\* Text: characters one after another.

\* The character ch is in memory after position "at".
CharAt(b, at, ch) ==
  \A j \in 1 .. utf8_chsize(ch) : b[at + j] = utf8_encode(ch)[j]

\* The first n bytes of b are the characters of t, and e[k] is where the k-th
\* of them ends.
Encodes(b, n, t, e) ==
  /\ e \in [0 .. Len(t) -> Nat]
  /\ e[0] = 0 /\ e[Len(t)] = n
  /\ \A j, k \in 0 .. Len(t) : j <= k => e[j] <= e[k]
  /\ \A k \in 1 .. Len(t) : /\ e[k] = e[k - 1] + utf8_chsize(t[k])
                            /\ CharAt(b, e[k - 1], t[k])

IsEncodingOf(b, n, t) == \E e : Encodes(b, n, t, e)

\* Only the first n bytes matter.
LEMMA SamePrefix ==
  ASSUME NEW t \in Seq(Codepoints), NEW n \in Nat, NEW b, NEW c, NEW e,
         Encodes(b, n, t, e), \A i \in 1 .. n : c[i] = b[i]
  PROVE  Encodes(c, n, t, e)
<1> SUFFICES ASSUME NEW k \in 1 .. Len(t), NEW j \in 1 .. utf8_chsize(t[k])
             PROVE  c[e[k - 1] + j] = b[e[k - 1] + j]
  BY DEF Encodes, CharAt
<1>1. Len(t) \in Nat /\ t[k] \in Codepoints
  OBVIOUS
<1>2. utf8_chsize(t[k]) \in 1 .. 4
  BY <1>1, EncodeBytes
<1>3. /\ k - 1 \in 0 .. Len(t) /\ k \in 0 .. Len(t) /\ Len(t) \in 0 .. Len(t)
      /\ k <= Len(t)
  BY <1>1
<1>4. /\ e[k - 1] \in Nat /\ e[k] <= n
      /\ e[k] = e[k - 1] + utf8_chsize(t[k])
  BY <1>3 DEF Encodes
<1> QED
  BY <1>2, <1>4

\* append_ch()
LEMMA OneMore ==
  ASSUME NEW t \in Seq(Codepoints), NEW ch \in Codepoints, NEW n \in Nat,
         NEW b, IsEncodingOf(b, n, t), CharAt(b, n, ch)
  PROVE  IsEncodingOf(b, n + utf8_chsize(ch), Append(t, ch))
<1> DEFINE size == utf8_chsize(ch)
           m    == Len(t)
           u    == Append(t, ch)
<1>1. PICK e : Encodes(b, n, t, e)
  BY DEF IsEncodingOf
<1> DEFINE f == [k \in 0 .. m + 1 |-> IF k <= m THEN e[k] ELSE n + size]
<1>2. size \in 1 .. 4 /\ m \in Nat
  BY EncodeBytes
<1>3. /\ Len(u) = m + 1 /\ u[m + 1] = ch
      /\ \A k \in 1 .. m : u[k] = t[k]
  OBVIOUS
<1>4. /\ e \in [0 .. m -> Nat] /\ e[0] = 0 /\ e[m] = n
      /\ \A j, k \in 0 .. m : j <= k => e[j] <= e[k]
      /\ \A k \in 1 .. m : /\ e[k] = e[k - 1] + utf8_chsize(t[k])
                           /\ CharAt(b, e[k - 1], t[k])
  BY <1>1 DEF Encodes
<1> HIDE DEF size, u, m
<1>5. /\ f \in [0 .. m + 1 -> Nat]
      /\ \A k \in 0 .. m : f[k] = e[k]
      /\ f[m + 1] = n + size
  BY <1>2, <1>4
<1> HIDE DEF f
<1>6. f[0] = 0 /\ f[m] = n
  BY <1>2, <1>4, <1>5
<1>7. ASSUME NEW j \in 0 .. m + 1, NEW k \in 0 .. m + 1, j <= k
      PROVE  f[j] <= f[k]
  <2>1. CASE k <= m
    BY <1>2, <1>4, <1>5, <1>7, <2>1
  <2>2. CASE k = m + 1 /\ j <= m
    <3>1. j \in 0 .. m /\ m \in 0 .. m
      BY <1>2, <2>2
    <3>2. f[j] = e[j] /\ e[j] <= n /\ e[j] \in Nat
      BY <1>4, <1>5, <2>2, <3>1
    <3> QED BY <1>2, <1>5, <2>2, <3>2
  <2>3. CASE k = m + 1 /\ j = m + 1
    BY <1>2, <1>5, <2>3
  <2> QED BY <1>2, <1>7, <2>1, <2>2, <2>3
<1>8. ASSUME NEW k \in 1 .. m + 1
      PROVE  /\ f[k] = f[k - 1] + utf8_chsize(u[k])
             /\ CharAt(b, f[k - 1], u[k])
  <2>1. CASE k <= m
    <3>1. k \in 1 .. m /\ k \in 0 .. m /\ k - 1 \in 0 .. m
      BY <1>2, <2>1
    <3> QED BY <1>3, <1>4, <1>5, <3>1, Zenon DEF m
  <2>2. CASE k = m + 1
    <3>1. k - 1 = m
      BY <1>2, <2>2
    <3>2. u[k] = ch
      BY <1>3, <2>2 DEF m
    <3> QED BY <1>5, <1>6, <2>2, <3>1, <3>2, Zenon DEF size
  <2> QED BY <1>2, <2>1, <2>2
<1>9. Encodes(b, n + size, u, f)
  BY <1>3, <1>5, <1>6, <1>7, <1>8 DEF Encodes, m
<1> QED
  BY <1>9 DEF IsEncodingOf, size, u

\* backspace(): where the last character begins.
LEMMA LastChar ==
  ASSUME NEW t \in Seq(Codepoints), NEW n \in Nat \ {0}, NEW b,
         IsEncodingOf(b, n, t)
  PROVE  \E at \in 0 .. n - 1 :
           /\ IsEncodingOf(b, at, SubSeq(t, 1, Len(t) - 1))
           /\ ~IsContinuation(b[at + 1])
           /\ \A i \in at + 2 .. n : IsContinuation(b[i])
<1> DEFINE m == Len(t)
           u == SubSeq(t, 1, m - 1)
<1>1. PICK e : Encodes(b, n, t, e)
  BY DEF IsEncodingOf
<1>2. m \in Nat
  OBVIOUS
<1>3. /\ e \in [0 .. m -> Nat] /\ e[0] = 0 /\ e[m] = n
      /\ \A j, k \in 0 .. m : j <= k => e[j] <= e[k]
      /\ \A k \in 1 .. m : /\ e[k] = e[k - 1] + utf8_chsize(t[k])
                           /\ CharAt(b, e[k - 1], t[k])
  BY <1>1 DEF Encodes
<1>4. m # 0
  BY <1>3
<1>5. m \in 1 .. m /\ t[m] \in Codepoints
  BY <1>2, <1>4
<1> DEFINE at   == e[m - 1]
           last == t[m]
           size == utf8_chsize(last)
<1>6. at \in Nat /\ n = at + size /\ CharAt(b, at, last)
  <2>1. m - 1 \in 0 .. m
    BY <1>2, <1>4
  <2> QED BY <1>3, <1>5, <2>1
<1>7. /\ size \in 1 .. 4
      /\ ~IsContinuation(utf8_encode(last)[1])
      /\ \A i \in 2 .. size : IsContinuation(utf8_encode(last)[i])
  BY <1>5, EncodeBytes
<1>8. /\ Len(u) = m - 1
      /\ \A k \in 1 .. m - 1 : u[k] = t[k]
  BY <1>2, <1>4
<1> HIDE DEF m, u
<1>9. IsEncodingOf(b, at, u)
  <2> DEFINE f == [k \in 0 .. m - 1 |-> e[k]]
  <2>1. \A k \in 0 .. m - 1 : k \in 0 .. m
    BY <1>2
  <2>2. \A k \in 1 .. m - 1 : /\ k \in 1 .. m
                              /\ k \in 0 .. m - 1
                              /\ k - 1 \in 0 .. m - 1
    BY <1>2
  <2>3. 0 \in 0 .. m - 1 /\ m - 1 \in 0 .. m - 1
    BY <1>2, <1>4
  <2>4. f \in [0 .. m - 1 -> Nat] /\ \A k \in 0 .. m - 1 : f[k] = e[k]
    BY <1>3, <2>1
  <2> HIDE DEF f
  <2>5. f[0] = 0 /\ f[m - 1] = at
    BY <1>3, <2>3, <2>4
  <2>6. \A j, k \in 0 .. m - 1 : j <= k => f[j] <= f[k]
    BY <1>3, <2>1, <2>4
  <2>7. \A k \in 1 .. m - 1 : /\ f[k] = f[k - 1] + utf8_chsize(u[k])
                              /\ CharAt(b, f[k - 1], u[k])
    BY <1>3, <1>8, <2>2, <2>4, Zenon
  <2>8. Encodes(b, at, u, f)
    BY <1>8, <2>4, <2>5, <2>6, <2>7 DEF Encodes
  <2> QED BY <2>8 DEF IsEncodingOf
<1> HIDE DEF at, size, last
<1>10. at \in 0 .. n - 1
  BY <1>6, <1>7
<1>11. ~IsContinuation(b[at + 1])
  <2>1. 1 \in 1 .. size
    BY <1>7
  <2>2. b[at + 1] = utf8_encode(last)[1]
    BY <1>6, <2>1 DEF CharAt, size
  <2> QED BY <1>7, <2>2
<1>12. ASSUME NEW i \in at + 2 .. n
       PROVE  IsContinuation(b[i])
  <2>1. i - at \in 2 .. size /\ i - at \in 1 .. size /\ at + (i - at) = i
    BY <1>6, <1>7
  <2>2. b[at + (i - at)] = utf8_encode(last)[i - at]
    BY <1>6, <2>1 DEF CharAt, size
  <2> QED BY <1>7, <2>1, <2>2
<1> QED
  BY <1>9, <1>10, <1>11, <1>12 DEF u, m

-----------------------------------------------------------------------------
\* Reading back.

\* A character's bytes are read back as that character.
LEMMA ReadBack ==
  ASSUME NEW ch \in Codepoints, NEW b, NEW at \in Nat, CharAt(b, at, ch)
  PROVE  Char(b, at + 1, utf8_chsize(ch)) = ch
<1> DEFINE n == utf8_chsize(ch)
           c == utf8_encode(ch)
           bits(i) == Bits(b[at + 1 + i])
<1>1. /\ ch \in Nat /\ ch > 0
      /\ \/ n = 1 /\ ch < 128 /\ c[1] = ch
         \/ /\ n = 2 /\ ch >= 128 /\ ch < 2048
            /\ c[1] = 192 + ch \div 64 /\ c[2] = 128 + (ch % 64)
         \/ /\ n = 3 /\ ch >= 2048 /\ ch < 65536
            /\ c[1] = 224 + ch \div 4096
            /\ c[2] = 128 + ((ch \div 64) % 64) /\ c[3] = 128 + (ch % 64)
         \/ /\ n = 4 /\ ch >= 65536
            /\ c[1] = 240 + ch \div 262144 /\ c[2] = 128 + ((ch \div 4096) % 64)
            /\ c[3] = 128 + ((ch \div 64) % 64) /\ c[4] = 128 + (ch % 64)
  BY EncodeCases, SMT
<1>2. \A j \in 1 .. n : b[at + j] = c[j]
  BY DEF CharAt
<1>3. Char(b, at + 1, n) =
        CASE n = 1 -> bits(0)
          [] n = 2 -> bits(0) * 64 + bits(1)
          [] n = 3 -> bits(0) * 4096 + bits(1) * 64 + bits(2)
          [] n = 4 -> bits(0) * 262144 + bits(1) * 4096 + bits(2) * 64 + bits(3)
          [] OTHER -> 0
  BY DEF Char
<1> HIDE DEF n, c
<1>4. /\ ch \div 64 \in Nat /\ ch \div 4096 \in Nat /\ ch \div 262144 \in Nat
      /\ ch % 64 \in 0 .. 63 /\ (ch \div 64) % 64 \in 0 .. 63
      /\ (ch \div 4096) % 64 \in 0 .. 63
  BY <1>1, SMT
<1>5. \A x \in 0 .. 63 : Bits(128 + x) = x
  BY DEF Bits
<1>6. ASSUME NEW j \in 1 .. n
      PROVE  bits(j - 1) = Bits(c[j])
  <2>1. at + 1 + (j - 1) = at + j
    BY <1>1
  <2> QED BY <1>2, <2>1
<1> HIDE DEF bits
<1>7. CASE n = 1
  <2>1. bits(1 - 1) = Bits(c[1])
    BY <1>6, <1>7
  <2>2. bits(0) = ch
    BY <1>1, <1>7, <2>1 DEF Bits
  <2> QED BY <1>3, <1>7, <2>2 DEF n
<1>8. CASE n = 2
  <2>1. bits(1 - 1) = Bits(c[1]) /\ bits(2 - 1) = Bits(c[2])
    BY <1>6, <1>8
  <2>2. Bits(c[1]) = ch \div 64
    <3>1. ch \div 64 < 32
      BY <1>1, <1>8, SMT
    <3> QED BY <1>1, <1>4, <1>8, <3>1 DEF Bits
  <2>3. Bits(c[2]) = ch % 64
    BY <1>1, <1>4, <1>5, <1>8
  <2>4. Char(b, at + 1, n) = (ch \div 64) * 64 + (ch % 64)
    BY <1>3, <1>8, <2>1, <2>2, <2>3
  <2> QED BY <1>1, <2>4, SMT DEF n
<1>9. CASE n = 3
  <2>1. /\ bits(1 - 1) = Bits(c[1]) /\ bits(2 - 1) = Bits(c[2])
        /\ bits(3 - 1) = Bits(c[3])
    BY <1>6, <1>9
  <2>2. Bits(c[1]) = ch \div 4096
    <3>1. ch \div 4096 < 16
      BY <1>1, <1>9, SMT
    <3> QED BY <1>1, <1>4, <1>9, <3>1 DEF Bits
  <2>3. Bits(c[2]) = (ch \div 64) % 64 /\ Bits(c[3]) = ch % 64
    BY <1>1, <1>4, <1>5, <1>9
  <2>4. Char(b, at + 1, n) =
          (ch \div 4096) * 4096 + ((ch \div 64) % 64) * 64 + (ch % 64)
    BY <1>3, <1>9, <2>1, <2>2, <2>3
  <2> QED BY <1>1, <2>4, SMT DEF n
<1>10. CASE n = 4
  <2>1. /\ bits(1 - 1) = Bits(c[1]) /\ bits(2 - 1) = Bits(c[2])
        /\ bits(3 - 1) = Bits(c[3]) /\ bits(4 - 1) = Bits(c[4])
    BY <1>6, <1>10
  <2>2. Bits(c[1]) = ch \div 262144
    BY <1>1, <1>4, <1>10 DEF Bits
  <2>3. /\ Bits(c[2]) = (ch \div 4096) % 64
        /\ Bits(c[3]) = (ch \div 64) % 64 /\ Bits(c[4]) = ch % 64
    BY <1>1, <1>4, <1>5, <1>10
  <2>4. Char(b, at + 1, n) =
          (ch \div 262144) * 262144 + ((ch \div 4096) % 64) * 4096
            + ((ch \div 64) % 64) * 64 + (ch % 64)
    BY <1>3, <1>10, <2>1, <2>2, <2>3
  <2>5. ch = (ch \div 64) * 64 + (ch % 64)
    BY <1>1, SMT
  <2>6. ch \div 64 = (ch \div 4096) * 64 + ((ch \div 64) % 64)
    BY <1>1, SMT
  <2>7. ch \div 4096 = (ch \div 262144) * 64 + ((ch \div 4096) % 64)
    BY <1>1, SMT
  <2>8. \A p, q, r, s, v, w \in Int :
          p * 64 + q = r /\ r * 64 + s = v /\ v * 64 + w = ch
            => p * 262144 + q * 4096 + s * 64 + w = ch
    BY <1>1, SMT
  <2> QED BY <1>1, <1>4, <2>4, <2>5, <2>6, <2>7, <2>8, SMT DEF n
<1>11. n = 1 \/ n = 2 \/ n = 3 \/ n = 4
  BY <1>1, SMT
<1> QED
  BY <1>7, <1>8, <1>9, <1>10, <1>11

LEMMA Least ==
  ASSUME NEW T \in SUBSET Nat, T # {}
  PROVE  \E x \in T : \A y \in T : x <= y
<1> DEFINE less == OpToRel(<, Nat)
<1>1. \A x, y \in Nat : <<x, y>> \in less <=> x < y
  BY DEF OpToRel
<1>2. IsWellFoundedOn(less, Nat)
  BY NatLessThanWellFounded
<1> HIDE DEF less
<1>3. PICK x \in T : \A y \in T : ~ (<<y, x>> \in less)
  BY <1>2, WFMin, Zenon
<1>4. \A y \in T : ~ (y < x)
  BY <1>1, <1>3, Zenon
<1> QED
  BY <1>4

\* Characters have bytes: where they end increases.
LEMMA EndsIncrease ==
  ASSUME NEW t \in Seq(Codepoints), NEW n \in Nat, NEW b, NEW e,
         Encodes(b, n, t, e)
  PROVE  /\ \A k \in 1 .. Len(t) :
              /\ e[k - 1] \in Nat /\ e[k] \in Nat
              /\ e[k - 1] < e[k] /\ e[k] <= n
              /\ t[k] \in Codepoints /\ utf8_chsize(t[k]) \in 1 .. 4
              /\ e[k] = e[k - 1] + utf8_chsize(t[k])
         /\ \A j, k \in 1 .. Len(t) : j < k => e[j] <= e[k - 1] /\ e[j - 1] < e[k - 1]
<1>1. Len(t) \in Nat /\ \A k \in 1 .. Len(t) : t[k] \in Codepoints
  OBVIOUS
<1>2. /\ e \in [0 .. Len(t) -> Nat] /\ e[Len(t)] = n
      /\ \A j, k \in 0 .. Len(t) : j <= k => e[j] <= e[k]
      /\ \A k \in 1 .. Len(t) : e[k] = e[k - 1] + utf8_chsize(t[k])
  BY DEF Encodes
<1>3. ASSUME NEW k \in 1 .. Len(t)
      PROVE  /\ e[k - 1] \in Nat /\ e[k] \in Nat
             /\ e[k - 1] < e[k] /\ e[k] <= n
             /\ t[k] \in Codepoints /\ utf8_chsize(t[k]) \in 1 .. 4
             /\ e[k] = e[k - 1] + utf8_chsize(t[k])
  <2>1. t[k] \in Codepoints /\ utf8_chsize(t[k]) \in 1 .. 4
    BY <1>1, EncodeBytes
  <2>2. k - 1 \in 0 .. Len(t) /\ k \in 0 .. Len(t) /\ Len(t) \in 0 .. Len(t) /\ k <= Len(t)
    BY <1>1
  <2>3. e[k - 1] \in Nat /\ e[k] \in Nat /\ e[k] <= n
    BY <1>2, <2>2
  <2> QED BY <1>2, <2>1, <2>3
<1>4. ASSUME NEW j \in 1 .. Len(t), NEW k \in 1 .. Len(t), j < k
      PROVE  e[j] <= e[k - 1] /\ e[j - 1] < e[k - 1]
  <2>1. j \in 0 .. Len(t) /\ k - 1 \in 0 .. Len(t) /\ j <= k - 1
    BY <1>1, <1>4
  <2>2. e[j] <= e[k - 1]
    BY <1>2, <2>1
  <2>3. e[k - 1] \in Nat /\ e[j] \in Nat /\ e[j - 1] \in Nat /\ e[j - 1] < e[j]
    BY <1>3
  <2> QED BY <2>2, <2>3
<1> QED
  BY <1>3, <1>4

\* A byte begins a character exactly where a character that was typed begins.
LEMMA BeginsAre ==
  ASSUME NEW t \in Seq(Codepoints), NEW n \in Nat, NEW b, NEW e,
         DOMAIN b = 1 .. n, Encodes(b, n, t, e)
  PROVE  Begins(b) = {e[k - 1] + 1 : k \in 1 .. Len(t)}
<1> DEFINE m == Len(t)
<1>1. m \in Nat
  OBVIOUS
<1>2. /\ e \in [0 .. m -> Nat] /\ e[0] = 0 /\ e[m] = n
      /\ \A k \in 1 .. m : CharAt(b, e[k - 1], t[k])
  BY DEF Encodes
<1>3. \A k \in 1 .. m : /\ e[k - 1] \in Nat /\ e[k] \in Nat
                        /\ e[k - 1] < e[k] /\ e[k] <= n
                        /\ t[k] \in Codepoints /\ utf8_chsize(t[k]) \in 1 .. 4
                        /\ e[k] = e[k - 1] + utf8_chsize(t[k])
  BY EndsIncrease
<1> HIDE DEF m
<1>4. ASSUME NEW k \in 1 .. m
      PROVE  e[k - 1] + 1 \in 1 .. n /\ ~IsContinuation(b[e[k - 1] + 1])
  <2>1. e[k - 1] + 1 \in 1 .. n /\ 1 \in 1 .. utf8_chsize(t[k])
    BY <1>3
  <2>2. b[e[k - 1] + 1] = utf8_encode(t[k])[1]
    BY <1>2, <2>1 DEF CharAt
  <2> QED BY <1>3, <2>1, <2>2, EncodeBytes
<1>5. ASSUME NEW i \in 1 .. n, ~IsContinuation(b[i])
      PROVE  \E k \in 1 .. m : i = e[k - 1] + 1
  <2> DEFINE after == {k \in 0 .. m : i <= e[k]}
  <2>1. after \in SUBSET Nat /\ m \in after
    BY <1>1, <1>2
  <2>2. PICK k \in after : \A j \in after : k <= j
    BY <2>1, Least
  <2>3. k \in 1 .. m /\ k - 1 \in 0 .. m
    BY <1>1, <1>2, <2>2
  <2>4. k - 1 \notin after
    BY <2>2, <2>3
  <2>5. e[k - 1] < i /\ i <= e[k]
    BY <1>2, <1>3, <2>2, <2>3, <2>4
  <2>6. i - e[k - 1] \in 1 .. utf8_chsize(t[k]) /\ e[k - 1] + (i - e[k - 1]) = i
    <3>1. /\ e[k - 1] \in Nat /\ e[k] \in Nat /\ utf8_chsize(t[k]) \in Nat
          /\ e[k] = e[k - 1] + utf8_chsize(t[k])
      BY <1>3, <2>3
    <3> QED BY <2>5, <3>1
  <2>7. b[e[k - 1] + (i - e[k - 1])] = utf8_encode(t[k])[i - e[k - 1]]
    BY <1>2, <2>3, <2>6 DEF CharAt
  <2>8. i - e[k - 1] \notin 2 .. utf8_chsize(t[k])
    BY <1>3, <1>5, <2>3, <2>6, <2>7, EncodeBytes
  <2>9. i = e[k - 1] + 1
    BY <1>3, <2>3, <2>6, <2>8
  <2> QED BY <2>3, <2>9
<1> QED
  BY <1>4, <1>5 DEF Begins, m

\* Counting an increasing list of numbers.
LEMMA Counting ==
  ASSUME NEW m \in Nat, NEW p \in [1 .. m -> Nat],
         \A j, k \in 1 .. m : j < k => p[j] < p[k],
         NEW k \in 0 .. m
  PROVE  Cardinality({p[j] : j \in 1 .. k}) = k
<1> DEFINE S == {p[j] : j \in 1 .. k}
           f == [j \in 1 .. k |-> p[j]]
<1>1. \A j \in 1 .. k : j \in 1 .. m /\ f[j] = p[j] /\ p[j] \in Nat
  OBVIOUS
<1>2. \A i, j \in 1 .. k : f[i] = f[j] => i = j
  <2> SUFFICES ASSUME NEW i \in 1 .. k, NEW j \in 1 .. k, i # j
               PROVE  p[i] # p[j]
    BY <1>1
  <2>1. i < j \/ j < i
    OBVIOUS
  <2> QED BY <1>1, <2>1
<1>3. f \in [1 .. k -> S]
  OBVIOUS
<1>4. \A x \in S : \E j \in 1 .. k : f[j] = x
  OBVIOUS
<1>5. f \in Bijection(1 .. k, S)
  <2> HIDE DEF f, S
  <2> QED BY <1>2, <1>3, <1>4 DEF Bijection, Injection, Surjection, IsInjective
<1>6. ExistsBijection(1 .. k, S)
  BY <1>5 DEF ExistsBijection
<1> QED
  <2> HIDE DEF f, S
  <2>1. Cardinality(S) = k
    BY <1>6, FS_CountingElements
  <2> QED BY <2>1 DEF S

\* What was typed is read back.
LEMMA DecodeText ==
  ASSUME NEW t \in Seq(Codepoints), NEW n \in Nat, NEW b, Len(b) = n,
         DOMAIN b = 1 .. n, IsEncodingOf(b, n, t)
  PROVE  Decode(b) = t
<1> DEFINE m == Len(t)
<1>1. PICK e : Encodes(b, n, t, e)
  BY DEF IsEncodingOf
<1> DEFINE p == [k \in 1 .. m |-> e[k - 1] + 1]
<1>2. m \in Nat /\ e[m] = n /\ \A k \in 1 .. m : CharAt(b, e[k - 1], t[k])
  BY <1>1 DEF Encodes
<1>3. /\ \A k \in 1 .. m :
           /\ e[k - 1] \in Nat /\ e[k] \in Nat
           /\ e[k - 1] < e[k] /\ e[k] <= n
           /\ t[k] \in Codepoints /\ utf8_chsize(t[k]) \in 1 .. 4
           /\ e[k] = e[k - 1] + utf8_chsize(t[k])
      /\ \A j, k \in 1 .. m : j < k => e[j] <= e[k - 1] /\ e[j - 1] < e[k - 1]
  BY <1>1, EndsIncrease
<1>4. /\ p \in [1 .. m -> Nat]
      /\ \A k \in 1 .. m : p[k] = e[k - 1] + 1
      /\ \A j, k \in 1 .. m : j < k => p[j] < p[k]
  <2> HIDE DEF m
  <2> QED BY <1>3
<1>5. Begins(b) = {p[k] : k \in 1 .. m}
  <2>1. Begins(b) = {e[k - 1] + 1 : k \in 1 .. m}
    BY <1>1, BeginsAre
  <2> HIDE DEF p
  <2> QED BY <1>4, <2>1
<1> HIDE DEF m, p
<1>6. Cardinality(Begins(b)) = m
  <2>1. m \in 0 .. m
    BY <1>2
  <2> QED BY <1>2, <1>4, <1>5, <2>1, Counting
<1>7. ASSUME NEW k \in 1 .. m
      PROVE  Cardinality({j \in Begins(b) : j <= p[k]}) = k
  <2>1. {j \in Begins(b) : j <= p[k]} = {p[j] : j \in 1 .. k}
    <3>1. \A j \in 1 .. m : p[j] <= p[k] <=> j <= k
      <4> SUFFICES ASSUME NEW j \in 1 .. m
                   PROVE  p[j] <= p[k] <=> j <= k
        OBVIOUS
      <4>1. p[j] \in Nat /\ p[k] \in Nat
        BY <1>4
      <4>2. CASE j = k
        BY <4>1, <4>2
      <4>3. CASE j < k
        BY <1>4, <4>1, <4>3
      <4>4. CASE k < j
        BY <1>4, <4>1, <4>4
      <4> QED BY <1>2, <4>2, <4>3, <4>4
    <3>2. \A j : j \in 1 .. k <=> j \in 1 .. m /\ j <= k
      BY <1>2
    <3> QED BY <1>5, <3>1, <3>2
  <2>2. k \in 0 .. m
    BY <1>2
  <2> QED BY <1>2, <1>4, <2>1, <2>2, Counting
<1>8. ASSUME NEW k \in 1 .. m
      PROVE  Nth(b, k) = p[k]
  <2>1. p[k] \in Begins(b) /\ Cardinality({j \in Begins(b) : j <= p[k]}) = k
    BY <1>5, <1>7
  <2>2. ASSUME NEW i \in Begins(b), Cardinality({j \in Begins(b) : j <= i}) = k
        PROVE  i = p[k]
    <3>1. PICK l \in 1 .. m : i = p[l]
      BY <1>5
    <3>2. l = k
      BY <1>7, <2>2, <3>1
    <3> QED BY <3>1, <3>2
  <2> QED BY <2>1, <2>2 DEF Nth
<1>9. ASSUME NEW k \in 1 .. m
      PROVE  End(b, k) = e[k]
  <2>1. CASE k = m
    BY <1>2, <1>6, <2>1 DEF End
  <2>2. CASE k # m
    <3>1. k + 1 \in 1 .. m
      BY <1>2, <2>2
    <3>2. Nth(b, k + 1) = e[(k + 1) - 1] + 1
      BY <1>4, <1>8, <3>1
    <3>3. (k + 1) - 1 = k /\ e[k] \in Nat
      BY <1>3
    <3> QED BY <1>6, <2>2, <3>2, <3>3 DEF End
  <2> QED BY <2>1, <2>2
<1>10. ASSUME NEW k \in 1 .. m
       PROVE  Char(b, Nth(b, k), End(b, k) - Nth(b, k) + 1) = t[k]
  <2>1. Nth(b, k) = e[k - 1] + 1 /\ End(b, k) = e[k]
    BY <1>4, <1>8, <1>9
  <2>2. e[k] - (e[k - 1] + 1) + 1 = utf8_chsize(t[k])
    <3>1. /\ e[k - 1] \in Nat /\ e[k] \in Nat /\ utf8_chsize(t[k]) \in Nat
          /\ e[k] = e[k - 1] + utf8_chsize(t[k])
      BY <1>3
    <3> QED BY <3>1
  <2>3. Char(b, e[k - 1] + 1, utf8_chsize(t[k])) = t[k]
    BY <1>2, <1>3, ReadBack
  <2> QED BY <2>1, <2>2, <2>3
<1>11. Decode(b) = [k \in 1 .. m |-> t[k]]
  BY <1>6, <1>10 DEF Decode
<1>12. t = [k \in 1 .. m |-> t[k]]
  BY DEF m
<1> QED
  BY <1>11, <1>12

-----------------------------------------------------------------------------
(***************************************************************************)
(* Why HoldsTyped holds.  The bytes before the end are the characters one  *)
(* after another, and nothing behind the end begins a character: so        *)
(* backspace(), which reads only bytes, finds the last character that was  *)
(* typed, and the next one that is appended does not run into a rest.      *)
(***************************************************************************)
Memory == Nat \cup {Junk}

TextIn(b, n, t) ==
  /\ n + 1 \in Positions /\ b[n + 1] = 0
  /\ \A i \in 1 .. n : b[i] # 0
  /\ \A i \in n + 1 .. BufferLen : b[i] \in {0, Junk} \/ IsContinuation(b[i])
  /\ IsEncodingOf(b, n, t)

Frame(r) ==
  /\ r.typed \in Seq(Codepoints)
  /\ r.bytes \in Seq(Memory) /\ r.bytes # <<>>
  /\ r.bytes[Len(r.bytes)] = 0
  /\ IsEncodingOf(r.bytes, Len(r.bytes) - 1, r.typed)

TextInv ==
  /\ step \in Step
  /\ buffer \in [Positions -> Memory]
  /\ len \in Nat /\ typed \in Seq(Codepoints)
  /\ IF Running THEN TextIn(buffer, len, typed)
     ELSE len = 0 /\ typed = <<>> /\ \A i \in Positions : buffer[i] = Junk
  /\ Frame(received)

\* The first n of the bytes in memory, as a sequence of their own.
LEMMA Prefix ==
  ASSUME NEW b, NEW n \in Nat, \A i \in 1 .. n : b[i] \in Memory
  PROVE  LET c == SubSeq(b, 1, n)
         IN  /\ c \in Seq(Memory) /\ Len(c) = n /\ DOMAIN c = 1 .. n
             /\ \A i \in 1 .. n : c[i] = b[i]
<1> DEFINE c == SubSeq(b, 1, n)
<1>1. /\ c \in Seq(Memory)
      /\ Len(c) = IF 1 <= n THEN n - 1 + 1 ELSE 0
      /\ \A i \in 1 .. n - 1 + 1 : c[i] = b[1 + i - 1]
  BY SubSeqProperties
<1> HIDE DEF c
<1>2. n - 1 + 1 = n /\ \A i \in 1 .. n : 1 + i - 1 = i
  OBVIOUS
<1>3. Len(c) = n /\ \A i \in 1 .. n : c[i] = b[i]
  BY <1>1, <1>2
<1>4. DOMAIN c = 1 .. n
  BY <1>1, <1>3, LenProperties
<1> QED
  BY <1>1, <1>3, <1>4 DEF c

LEMMA PrefixDecodes ==
  ASSUME NEW b, NEW n \in Nat, NEW t \in Seq(Codepoints), IsEncodingOf(b, n, t),
         NEW c, Len(c) = n, DOMAIN c = 1 .. n, \A i \in 1 .. n : c[i] = b[i]
  PROVE  Decode(c) = t
<1>1. PICK e : Encodes(b, n, t, e)
  BY DEF IsEncodingOf
<1>2. Encodes(c, n, t, e)
  BY <1>1, SamePrefix
<1> QED
  BY <1>2, DecodeText DEF IsEncodingOf

LEMMA NoText ==
  ASSUME NEW b
  PROVE  IsEncodingOf(b, 0, <<>>)
<1> DEFINE e == [k \in 0 .. 0 |-> 0]
<1>1. Encodes(b, 0, <<>>, e)
  BY DEF Encodes
<1> QED
  BY <1>1 DEF IsEncodingOf

\* clear_password_buffer()
LEMMA Cleared ==
  /\ [i \in Positions |-> 0] \in [Positions -> Memory]
  /\ TextIn([i \in Positions |-> 0], 0, <<>>)
<1> DEFINE b == [i \in Positions |-> 0]
<1>1. b \in [Positions -> Memory]
  BY DEF Memory
<1>2. 0 + 1 \in Positions /\ \A i \in 0 + 1 .. BufferLen : b[i] = 0
  BY BufferAssumption DEF Positions
<1> HIDE DEF b
<1>3. b[0 + 1] = 0
  BY <1>2 DEF Positions
<1>4. TextIn(b, 0, <<>>)
  BY <1>2, <1>3, NoText DEF TextIn
<1> QED
  BY <1>1, <1>4 DEF b

\* append_ch()
LEMMA Appended ==
  ASSUME NEW b \in [Positions -> Memory], NEW n \in Nat, NEW t \in Seq(Codepoints),
         TextIn(b, n, t), NEW ch \in Codepoints, NEW size, size = utf8_chsize(ch),
         n + size + 1 < BufferLen, NEW c,
         c = [i \in Positions |->
                IF i = n + size + 1 THEN 0
                ELSE IF i - n \in DOMAIN utf8_encode(ch) THEN utf8_encode(ch)[i - n]
                ELSE b[i]]
  PROVE  /\ c \in [Positions -> Memory]
         /\ TextIn(c, n + size, Append(t, ch))
<1>1. /\ size \in 1 .. 4 /\ BufferLen \in Nat
      /\ DOMAIN utf8_encode(ch) = 1 .. size
      /\ \A i \in 1 .. size : utf8_encode(ch)[i] # 0 /\ utf8_encode(ch)[i] \in Nat
  BY EncodeBytes, BufferAssumption
<1>2. /\ DOMAIN c = Positions
      /\ \A i \in Positions :
           c[i] = IF i = n + size + 1 THEN 0
                  ELSE IF i - n \in 1 .. size THEN utf8_encode(ch)[i - n]
                  ELSE b[i]
  BY <1>1
<1>3. c \in [Positions -> Memory]
  <2>1. ASSUME NEW i \in Positions
        PROVE  c[i] \in Memory
    BY <1>1, <1>2 DEF Memory
  <2> QED BY <1>2, <2>1
<1>4. n + size + 1 \in Positions /\ c[n + size + 1] = 0
  <2>1. n + size + 1 \in Positions
    BY <1>1 DEF Positions
  <2> QED BY <1>2, <2>1
<1>5. ASSUME NEW i \in 1 .. n
      PROVE  c[i] = b[i]
  <2>1. i \in Positions /\ i # n + size + 1 /\ i - n \notin 1 .. size
    BY <1>1 DEF Positions
  <2> QED BY <1>2, <2>1
<1>6. ASSUME NEW j \in 1 .. size
      PROVE  c[n + j] = utf8_encode(ch)[j]
  <2>1. n + j \in Positions /\ n + j # n + size + 1 /\ (n + j) - n = j
    BY <1>1 DEF Positions
  <2> QED BY <1>2, <2>1
<1>7. ASSUME NEW i \in n + size + 1 .. BufferLen
      PROVE  c[i] \in {0, Junk} \/ IsContinuation(c[i])
  <2>1. i \in Positions /\ i - n \notin 1 .. size /\ i \in n + 1 .. BufferLen
    BY <1>1 DEF Positions
  <2>2. c[i] = 0 \/ c[i] = b[i]
    BY <1>2, <2>1
  <2> QED BY <2>1, <2>2 DEF TextIn
<1>8. ASSUME NEW i \in 1 .. n + size
      PROVE  c[i] # 0
  <2>1. CASE i <= n
    <3>1. i \in 1 .. n
      BY <2>1
    <3> QED BY <1>5, <3>1 DEF TextIn
  <2>2. CASE n < i
    <3>1. i - n \in 1 .. size /\ n + (i - n) = i
      BY <1>1, <2>2
    <3>2. c[n + (i - n)] # 0
      BY <1>1, <1>6, <3>1
    <3> QED BY <3>1, <3>2
  <2> QED BY <2>1, <2>2
<1>9. IsEncodingOf(c, n, t)
  <2>1. PICK e : Encodes(b, n, t, e)
    BY DEF TextIn, IsEncodingOf
  <2>2. Encodes(c, n, t, e)
    BY <1>5, <2>1, SamePrefix
  <2> QED BY <2>2 DEF IsEncodingOf
<1>10. CharAt(c, n, ch)
  BY <1>6 DEF CharAt
<1>11. IsEncodingOf(c, n + size, Append(t, ch))
  BY <1>9, <1>10, OneMore
<1> QED
  BY <1>3, <1>4, <1>7, <1>8, <1>11 DEF TextIn

\* strlen() agrees with password.len.
LEMMA LengthKnown ==
  ASSUME TextInv, TextIn(buffer, len, typed)
  PROVE  strlen = len
<1> DEFINE zeros == {i \in Positions : buffer[i] = 0}
<1>1. len \in Nat /\ BufferLen \in Nat
  BY BufferAssumption DEF TextInv
<1>2. len + 1 \in zeros
  BY DEF TextIn
<1>3. \A i \in zeros : i \in Nat /\ len + 1 <= i
  BY <1>1 DEF TextIn, Positions
<1> HIDE DEF zeros
<1>4. Min(zeros) = len + 1
  <2>1. Min(zeros) \in zeros /\ \A y \in zeros : Min(zeros) <= y
    BY <1>2, <1>3 DEF Min
  <2> QED BY <1>1, <1>2, <1>3, <2>1
<1> QED
  BY <1>1, <1>4 DEF strlen, zeros

\* backspace() finds the last character that was typed.
LEMMA LastFound ==
  ASSUME TextInv, TextIn(buffer, len, typed), len # 0
  PROVE  LET at == len - utf8_last_size
         IN  /\ at \in 0 .. len - 1
             /\ IsEncodingOf(buffer, at, SubSeq(typed, 1, Len(typed) - 1))
             /\ \A i \in at + 2 .. len : IsContinuation(buffer[i])
<1>1. len \in Nat \ {0} /\ typed \in Seq(Codepoints) /\ IsEncodingOf(buffer, len, typed)
  BY DEF TextInv, TextIn
<1>2. strlen = len
  BY LengthKnown
<1>3. PICK at \in 0 .. len - 1 :
        /\ IsEncodingOf(buffer, at, SubSeq(typed, 1, Len(typed) - 1))
        /\ ~IsContinuation(buffer[at + 1])
        /\ \A i \in at + 2 .. len : IsContinuation(buffer[i])
  BY <1>1, LastChar
<1> DEFINE begins == {i \in 1 .. len : ~IsContinuation(buffer[i])}
<1>4. at + 1 \in begins
  BY <1>1, <1>3
<1>5. \A i \in begins : i \in Nat /\ i <= at + 1
  BY <1>1, <1>3
<1> HIDE DEF begins
<1>6. Max(begins) = at + 1
  <2>1. Max(begins) \in begins /\ \A y \in begins : Max(begins) >= y
    BY <1>1, <1>4, <1>5 DEF Max
  <2> QED BY <1>1, <1>4, <1>5, <2>1
<1>7. utf8_last_size = len - (at + 1) + 1
  BY <1>2, <1>4, <1>6 DEF utf8_last_size, begins
<1>8. len - utf8_last_size = at
  BY <1>1, <1>3, <1>7
<1> QED
  BY <1>3, <1>8

\* backspace()
LEMMA TakenBack ==
  ASSUME TextInv, Running, backspace
  PROVE  /\ buffer' \in [Positions -> Memory] /\ len' \in Nat
         /\ typed' \in Seq(Codepoints) /\ TextIn(buffer', len', typed')
<1> DEFINE at == len - utf8_last_size
           u  == SubSeq(typed, 1, Len(typed) - 1)
           c  == [buffer EXCEPT ![at + 1] = 0]
<1>1. /\ TextIn(buffer, len, typed) /\ len # 0 /\ len \in Nat /\ BufferLen \in Nat
      /\ typed \in Seq(Codepoints) /\ buffer \in [Positions -> Memory]
  BY BufferAssumption DEF TextInv, backspace
<1>2. len' = at /\ buffer' = c /\ typed' = u
  BY DEF backspace
<1>3. /\ at \in 0 .. len - 1
      /\ IsEncodingOf(buffer, at, u)
      /\ \A i \in at + 2 .. len : IsContinuation(buffer[i])
  BY <1>1, LastFound
<1>4. u \in Seq(Codepoints)
  BY <1>1
<1> HIDE DEF at, u
<1>5. len + 1 \in Positions
  BY <1>1 DEF TextIn
<1>6. at + 1 \in Positions /\ at \in Nat
  BY <1>1, <1>3, <1>5 DEF Positions
<1>7. /\ c \in [Positions -> Memory] /\ c[at + 1] = 0
      /\ \A i \in Positions : i # at + 1 => c[i] = buffer[i]
  BY <1>1, <1>6 DEF Memory
<1> HIDE DEF c
<1>8. ASSUME NEW i \in 1 .. at
      PROVE  c[i] = buffer[i] /\ c[i] # 0
  <2>1. i \in 1 .. len /\ i # at + 1
    BY <1>1, <1>3
  <2>2. i \in Positions
    BY <1>1, <1>5, <2>1 DEF Positions
  <2> QED BY <1>1, <1>7, <2>1, <2>2 DEF TextIn
<1>9. ASSUME NEW i \in at + 1 .. BufferLen
      PROVE  c[i] \in {0, Junk} \/ IsContinuation(c[i])
  <2>1. i \in Positions
    BY <1>1, <1>3 DEF Positions
  <2>2. CASE i = at + 1
    BY <1>7, <2>2
  <2>3. CASE i # at + 1 /\ i <= len
    <3>1. i \in at + 2 .. len
      BY <1>1, <1>3, <2>3
    <3> QED BY <1>3, <1>7, <2>1, <2>3, <3>1
  <2>4. CASE i # at + 1 /\ len < i
    <3>1. i \in len + 1 .. BufferLen
      BY <1>1, <1>3, <2>4
    <3> QED BY <1>1, <1>7, <2>1, <2>4, <3>1 DEF TextIn
  <2> QED BY <1>1, <1>3, <2>2, <2>3, <2>4
<1>10. IsEncodingOf(c, at, u)
  <2>1. PICK e : Encodes(buffer, at, u, e)
    BY <1>3 DEF IsEncodingOf
  <2>2. Encodes(c, at, u, e)
    BY <1>4, <1>6, <1>8, <2>1, SamePrefix
  <2> QED BY <2>2 DEF IsEncodingOf
<1>11. TextIn(c, at, u)
  BY <1>6, <1>7, <1>8, <1>9, <1>10 DEF TextIn
<1> QED
  BY <1>2, <1>4, <1>6, <1>7, <1>11

\* write_comm_password(): the copy with its terminating zero.
LEMMA Copied ==
  ASSUME TextInv, Running
  PROVE  Frame([bytes |-> SubSeq(buffer, 1, len + 1), typed |-> typed])
<1> DEFINE c == SubSeq(buffer, 1, len + 1)
<1>1. /\ TextIn(buffer, len, typed) /\ len \in Nat /\ BufferLen \in Nat
      /\ typed \in Seq(Codepoints) /\ buffer \in [Positions -> Memory]
  BY BufferAssumption DEF TextInv
<1>2. len + 1 \in Positions /\ \A i \in 1 .. len + 1 : buffer[i] \in Memory
  BY <1>1 DEF TextIn, Positions
<1>3. c \in Seq(Memory) /\ Len(c) = len + 1 /\ \A i \in 1 .. len + 1 : c[i] = buffer[i]
  <2>1. len + 1 \in Nat
    BY <1>1
  <2> QED BY <1>2, <2>1, Prefix
<1> HIDE DEF c
<1>4. c # <<>> /\ c[Len(c)] = 0 /\ Len(c) - 1 = len
  BY <1>1, <1>3 DEF TextIn
<1>5. IsEncodingOf(c, len, typed)
  <2>1. PICK e : Encodes(buffer, len, typed, e)
    BY <1>1 DEF TextIn, IsEncodingOf
  <2>2. \A i \in 1 .. len : c[i] = buffer[i]
    BY <1>1, <1>3
  <2>3. Encodes(c, len, typed, e)
    BY <1>1, <2>1, <2>2, SamePrefix
  <2> QED BY <2>3 DEF IsEncodingOf
<1> QED
  BY <1>1, <1>3, <1>4, <1>5 DEF Frame, c

LEMMA EmptyFrame == Frame(Nothing)
<1>1. /\ Nothing.bytes = <<0>> /\ Nothing.typed = <<>>
      /\ Len(<<0>>) = 1 /\ <<0>>[1] = 0 /\ <<0>> \in Seq(Memory) /\ 1 - 1 = 0
      /\ <<0>> # <<>>
  BY DEF Nothing, Memory
<1>2. IsEncodingOf(<<0>>, 0, <<>>)
  BY NoText
<1> QED
  BY <1>1, <1>2 DEF Frame

LEMMA TextStep ==
  ASSUME TextInv, [Next]_vars
  PROVE  TextInv'
<1> USE DEF Step
<1>0. /\ buffer \in [Positions -> Memory] /\ len \in Nat /\ typed \in Seq(Codepoints)
      /\ step \in Step /\ Frame(received)
      /\ Running => TextIn(buffer, len, typed)
      /\ ~Running => len = 0 /\ typed = <<>> /\ \A i \in Positions : buffer[i] = Junk
  BY DEF TextInv
<1>1. ASSUME NEW ch \in Codepoints, append_ch(ch)
      PROVE  TextInv'
  <2>1. Running /\ Running' /\ step' = step /\ received' = received
    BY <1>1 DEF append_ch, Running
  <2>2. CASE UNCHANGED <<buffer, len, typed>>
    BY <1>0, <2>1, <2>2 DEF TextInv
  <2>3. CASE ~UNCHANGED <<buffer, len, typed>>
    <3> DEFINE size == utf8_chsize(ch)
    <3>1. /\ ~(len + size + 1 >= BufferLen)
          /\ buffer' = [i \in Positions |->
                IF i = len + size + 1 THEN 0
                ELSE IF i - len \in DOMAIN utf8_encode(ch) THEN utf8_encode(ch)[i - len]
                ELSE buffer[i]]
          /\ len' = len + size /\ typed' = Append(typed, ch)
      BY <1>1, <2>3 DEF append_ch
    <3>2. size \in 1 .. 4 /\ BufferLen \in Nat
      BY EncodeBytes, BufferAssumption
    <3>3. len + size + 1 < BufferLen
      BY <1>0, <3>1, <3>2
    <3>4. /\ buffer' \in [Positions -> Memory]
          /\ TextIn(buffer', len', typed')
      BY <1>0, <2>1, <3>1, <3>3, Appended
    <3>5. len' \in Nat /\ typed' \in Seq(Codepoints)
      BY <1>0, <3>1, <3>2
    <3> QED BY <1>0, <2>1, <3>4, <3>5 DEF TextInv
  <2> QED BY <2>2, <2>3
<1>2. CASE backspace
  <2>1. Running /\ Running' /\ step' = step /\ received' = received
    BY <1>2 DEF backspace, Running
  <2> QED BY <1>0, <1>2, <2>1, TakenBack DEF TextInv
<1>3. ASSUME clear_password_buffer, Running', step' \in Step, Frame(received')
      PROVE  TextInv'
  <2>1. /\ buffer' \in [Positions -> Memory] /\ TextIn(buffer', len', typed')
        /\ len' \in Nat /\ typed' \in Seq(Codepoints)
    BY <1>3, Cleared DEF clear_password_buffer
  <2> QED BY <1>3, <2>1 DEF TextInv
<1>4. CASE Clear
  <2>1. clear_password_buffer /\ Running' /\ step' = step /\ received' = received
    BY <1>4 DEF Clear, Running
  <2> QED BY <1>0, <1>3, <2>1
<1>5. ASSUME UNCHANGED <<buffer, len, typed>>, Running' <=> Running,
             step' \in Step, Frame(received')
      PROVE  TextInv'
  BY <1>0, <1>5 DEF TextInv
<1>6. CASE Submit
  BY <1>0, <1>5, <1>6 DEF Submit, Running
<1>7. CASE clear_buffer
  <2>1. /\ UNCHANGED <<buffer, len, typed>> /\ (Running' <=> Running) /\ step' \in Step
        /\ received' = Nothing
    BY <1>7 DEF clear_buffer, Running
  <2> QED BY <1>5, <2>1, EmptyFrame
<1>8. CASE Free
  BY <1>0, <1>5, <1>8 DEF Free, Running
<1>9. ASSUME Created
      PROVE  TextInv'
  <2>1. CASE step = "create"
    <3>1. /\ buffer' = [buffer EXCEPT ![1] = 0]
          /\ step' = "edit" /\ UNCHANGED <<len, typed, received>>
      BY <1>9, <2>1 DEF Created
    <3>2. ~Running /\ Running' /\ len = 0 /\ typed = <<>>
      BY <1>0, <2>1, <3>1 DEF Running
    <3>3. 0 + 1 \in Positions /\ 1 \in Positions /\ BufferLen \in Nat
      BY BufferAssumption DEF Positions
    <3>4. buffer' \in [Positions -> Memory] /\ buffer'[0 + 1] = 0
      BY <1>0, <3>1, <3>3 DEF Memory
    <3>5. \A i \in 0 + 1 .. BufferLen : buffer'[i] \in {0, Junk}
      BY <1>0, <3>1, <3>2, <3>3 DEF Positions
    <3>6. TextIn(buffer', 0, <<>>)
      BY <3>3, <3>4, <3>5, NoText DEF TextIn
    <3> QED BY <1>0, <3>1, <3>2, <3>4, <3>6 DEF TextInv
  <2>2. CASE step = "copy"
    <3>1. /\ received' = [bytes |-> SubSeq(buffer, 1, len + 1), typed |-> typed]
          /\ clear_password_buffer /\ step' = "clear"
      BY <1>9, <2>2 DEF Created
    <3>2. Running /\ Running'
      BY <2>2, <3>1 DEF Running
    <3> QED BY <1>3, <3>1, <3>2, Copied
  <2> QED BY <1>9, <2>1, <2>2 DEF Created
<1>10. ASSUME NotCreated, received' = received
       PROVE  TextInv'
  <2>1. CASE step = "create"
    BY <1>0, <1>5, <1>10, <2>1 DEF NotCreated, Running
  <2>2. CASE step = "copy"
    <3>1. clear_password_buffer /\ step' = "edit"
      BY <1>10, <2>2 DEF NotCreated
    <3> QED BY <1>0, <1>3, <1>10, <3>1 DEF Running
  <2> QED BY <1>10, <2>1, <2>2 DEF NotCreated
<1>11. CASE posix_memalign_fails \/ mlock_fails
  BY <1>10, <1>11 DEF posix_memalign_fails, mlock_fails
<1>12. CASE mlock_succeeds \/ mlock_EPERM
  BY <1>9, <1>12 DEF mlock_succeeds, mlock_EPERM
<1>13. CASE mlock_EAGAIN
  <2>1. NotCreated \/ UNCHANGED <<step, buffer, len, copy, typed>>
    BY <1>13 DEF mlock_EAGAIN
  <2>2. received' = received
    BY <1>13 DEF mlock_EAGAIN
  <2> QED BY <1>0, <1>5, <1>10, <2>1, <2>2 DEF Running
<1>14. CASE UNCHANGED vars
  BY <1>0, <1>5, <1>14 DEF vars, Running
<1> QED
  BY <1>1, <1>2, <1>4, <1>6, <1>7, <1>8, <1>11, <1>12, <1>13, <1>14 DEF Next

(***************************************************************************)
(* Whatever is typed, taken back, cleared and submitted, in a buffer of    *)
(* any size: the buffer and the frame of a submission, read back as UTF-8, *)
(* are what the user typed and did not take back, and the string ends      *)
(* where password.len says.                                                *)
(***************************************************************************)
THEOREM TypedIsHeld == Spec => []HoldsTyped
<1>1. Init => TextInv
  <2> SUFFICES ASSUME Init PROVE TextInv
    OBVIOUS
  <2>1. /\ buffer \in [Positions -> Memory] /\ \A i \in Positions : buffer[i] = Junk
        /\ len = 0 /\ typed = <<>> /\ step = "create" /\ received = Nothing
    BY DEF Init, Memory
  <2> QED BY <2>1, EmptyFrame DEF TextInv, Step, Running
<1>2. TextInv /\ [Next]_vars => TextInv'
  BY TextStep
<1>3. TextInv => HoldsTyped
  <2> SUFFICES ASSUME TextInv PROVE HoldsTyped
    OBVIOUS
  <2>1. ASSUME step \in {"edit", "copy"}
        PROVE  /\ strlen = len
               /\ Decode(SubSeq(buffer, 1, len)) = typed
               /\ \A i \in len + 1 .. BufferLen :
                    buffer[i] \in {0, Junk} \/ IsContinuation(buffer[i])
    <3> DEFINE c == SubSeq(buffer, 1, len)
    <3>1. /\ TextIn(buffer, len, typed) /\ len \in Nat /\ BufferLen \in Nat
          /\ typed \in Seq(Codepoints) /\ buffer \in [Positions -> Memory]
      BY <2>1, BufferAssumption DEF TextInv, Running
    <3>2. \A i \in 1 .. len : buffer[i] \in Memory
      BY <3>1 DEF TextIn, Positions
    <3>3. Len(c) = len /\ DOMAIN c = 1 .. len /\ \A i \in 1 .. len : c[i] = buffer[i]
      BY <3>1, <3>2, Prefix
    <3>4. Decode(c) = typed
      <4> HIDE DEF c
      <4> QED BY <3>1, <3>3, PrefixDecodes DEF TextIn
    <3> QED BY <3>1, <3>4, LengthKnown DEF TextIn
  <2>2. LET n == Len(received.bytes) IN
        /\ received.bytes[n] = 0
        /\ Decode(SubSeq(received.bytes, 1, n - 1)) = received.typed
    <3> DEFINE b == received.bytes
               n == Len(b) - 1
               c == SubSeq(b, 1, n)
    <3>1. Frame(received)
      BY DEF TextInv
    <3>2. /\ b \in Seq(Memory) /\ n \in Nat /\ b[Len(b)] = 0
          /\ received.typed \in Seq(Codepoints) /\ IsEncodingOf(b, n, received.typed)
      BY <3>1 DEF Frame
    <3>3. \A i \in 1 .. n : b[i] \in Memory
      BY <3>2
    <3>4. Len(c) = n /\ DOMAIN c = 1 .. n /\ \A i \in 1 .. n : c[i] = b[i]
      <4> HIDE DEF b, n
      <4> QED BY <3>2, <3>3, Prefix
    <3>5. Decode(c) = received.typed
      <4> HIDE DEF b, n, c
      <4> QED BY <3>2, <3>4, PrefixDecodes
    <3> QED BY <3>2, <3>5
  <2> QED BY <2>1, <2>2 DEF HoldsTyped
<1> QED
  BY <1>1, <1>2, <1>3, PTL DEF Spec

-----------------------------------------------------------------------------
(***************************************************************************)
(* CommFrame.  First the arithmetic of the length field.                   *)
(***************************************************************************)
LEMMA DivMod ==
  ASSUME NEW x \in Nat, NEW d \in Nat, d > 0
  PROVE  /\ x \div d \in Nat /\ x % d \in 0 .. d - 1
         /\ x = d * (x \div d) + (x % d)
BY SMT

LEMMA Product ==
  ASSUME NEW a \in Int, NEW b \in Int, NEW d \in Nat, a < b
  PROVE  d * a + d <= d * b
BY SMT

LEMMA DivUnique ==
  ASSUME NEW x \in Nat, NEW d \in Nat, d > 0, NEW q \in Int, NEW r \in 0 .. d - 1,
         x = d * q + r
  PROVE  x \div d = q
<1> DEFINE p == x \div d
           s == x % d
<1>1. p \in Nat /\ s \in 0 .. d - 1 /\ x = d * p + s
  BY DivMod
<1> HIDE DEF p, s
<1>2. CASE p < q
  <2>1. d * p + d <= d * q
    BY <1>1, <1>2, Product
  <2> QED BY <1>1, <2>1
<1>3. CASE q < p
  <2>1. d * q + d <= d * p
    BY <1>1, <1>3, Product
  <2> QED BY <1>1, <2>1
<1> QED
  BY <1>1, <1>2, <1>3 DEF p

LEMMA DivDiv ==
  ASSUME NEW x \in Nat, NEW a \in Nat, NEW b \in Nat, a > 0, b > 0
  PROVE  x \div (a * b) = (x \div a) \div b
<1> DEFINE q == x \div a
           r == x % a
           p == q \div b
           s == q % b
<1>1. q \in Nat /\ r \in 0 .. a - 1 /\ x = a * q + r
  BY DivMod
<1>2. p \in Nat /\ s \in 0 .. b - 1 /\ q = b * p + s
  <2> HIDE DEF q
  <2> QED BY <1>1, DivMod
<1> HIDE DEF q, r, p, s
<1>3. a * b \in Nat /\ a * b > 0
  BY SMT
<1>4. x = (a * b) * p + (a * s + r)
  BY <1>1, <1>2, SMT
<1>5. a * s + r \in 0 .. a * b - 1
  <2>1. a * s + a <= a * b
    BY <1>2, Product
  <2>2. a * s \in Nat
    BY <1>2, SMT
  <2> QED BY <1>1, <1>3, <2>1, <2>2
<1>6. x \div (a * b) = p
  BY <1>2, <1>3, <1>4, <1>5, DivUnique
<1> QED
  BY <1>6 DEF p, q

LEMMA Shifts ==
  /\ Base \in Nat /\ Base > 1 /\ LenBytes \in {1, 2, 3, 4} /\ Header \in Nat
  /\ Shift[1] = 1 /\ Shift[2] = Base /\ Shift[3] = Base * Base
  /\ Shift[4] = Base * Base * Base /\ Shift[5] = Base * Base * Base * Base
  /\ Base * Base \in Nat /\ Base * Base > 0
  /\ Base * Base * Base \in Nat /\ Base * Base * Base > 0
  /\ Base * Base * Base * Base \in Nat
<1>1. /\ Base \in Nat /\ Base > 1 /\ LenBytes \in {1, 2, 3, 4} /\ LenBytes \in Nat
  BY CommFrameAssumption
<1>2. /\ Base * Base \in Nat /\ Base * Base > 0
  BY <1>1, SMT
<1>3. /\ Base * Base * Base \in Nat /\ Base * Base * Base > 0
  BY <1>1, <1>2, SMT
<1>4. Base * Base * Base * Base \in Nat
  BY <1>1, <1>3, SMT
<1> QED
  BY <1>1, <1>2, <1>3, <1>4 DEF Shift, Header

\* load_le32() reads what store_le32() wrote.
LEMMA LengthReadBack ==
  ASSUME NEW n \in Nat, n < Shift[LenBytes + 1], NEW b,
         \A i \in 1 .. LenBytes : b[i] = store_le32(n)[i]
  PROVE  load_le32(b) = n
<1> DEFINE q2 == n \div Base
           q3 == q2 \div Base
           q4 == q3 \div Base
           q5 == q4 \div Base
           d1 == n % Base
           d2 == q2 % Base
           d3 == q3 % Base
           d4 == q4 % Base
<1> USE Shifts
<1>1. q2 \in Nat /\ d1 \in Nat /\ n = Base * q2 + d1
  BY DivMod
<1>2. q3 \in Nat /\ d2 \in Nat /\ q2 = Base * q3 + d2
  <2> HIDE DEF q2
  <2> QED BY <1>1, DivMod
<1>3. q4 \in Nat /\ d3 \in Nat /\ q3 = Base * q4 + d3
  <2> HIDE DEF q3
  <2> QED BY <1>2, DivMod
<1>4. q5 \in Nat /\ d4 \in Nat /\ q4 = Base * q5 + d4
  <2> HIDE DEF q4
  <2> QED BY <1>3, DivMod
<1>5. n \div (Base * Base) = q3
  BY DivDiv
<1>6. n \div (Base * Base * Base) = q4
  <2>1. n \div ((Base * Base) * Base) = (n \div (Base * Base)) \div Base
    BY DivDiv
  <2> QED BY <1>5, <2>1
<1>7. n \div 1 = n
  BY SMT
<1>8. /\ b[1] = d1
      /\ LenBytes >= 2 => b[2] = d2
      /\ LenBytes >= 3 => b[3] = d3
      /\ LenBytes >= 4 => b[4] = d4
  <2>1. /\ b[1] = (n \div Shift[1]) % Base
        /\ LenBytes >= 2 => b[2] = (n \div Shift[2]) % Base
        /\ LenBytes >= 3 => b[3] = (n \div Shift[3]) % Base
        /\ LenBytes >= 4 => b[4] = (n \div Shift[4]) % Base
    BY DEF store_le32
  <2> QED BY <1>5, <1>6, <1>7, <2>1
<1>9. n \div (Base * Base * Base * Base) = q5
  <2>1. n \div ((Base * Base * Base) * Base) = (n \div (Base * Base * Base)) \div Base
    BY DivDiv
  <2> QED BY <1>6, <2>1
<1>10. ASSUME NEW d \in Nat, n < d
       PROVE  n \div d = 0
  <2>1. n = d * 0 + n /\ n \in 0 .. d - 1 /\ d > 0
    BY <1>10
  <2> QED BY <2>1, DivUnique
<1> HIDE DEF q3, q4, q5, d1, d2, d3, d4
<1>11. CASE LenBytes = 1
  <2>1. q2 = 0
    BY <1>10, <1>11
  <2>2. load_le32(b) = d1 * 1 + 0 + 0 + 0
    BY <1>8, <1>11 DEF load_le32
  <2> QED BY <1>1, <2>1, <2>2
<1> HIDE DEF q2
<1>12. CASE LenBytes = 2
  <2>1. q3 = 0
    BY <1>5, <1>10, <1>12
  <2>2. load_le32(b) = d1 * 1 + d2 * Base + 0 + 0
    BY <1>8, <1>12 DEF load_le32
  <2>3. q2 = d2
    BY <1>2, <2>1
  <2> QED BY <1>1, <1>2, <2>2, <2>3, SMT
<1>13. CASE LenBytes = 3
  <2>1. q4 = 0
    BY <1>6, <1>10, <1>13
  <2>2. load_le32(b) = d1 * 1 + d2 * Base + d3 * (Base * Base) + 0
    BY <1>8, <1>13 DEF load_le32
  <2>3. q3 = d3
    BY <1>3, <2>1
  <2>4. n = Base * (Base * d3 + d2) + d1
    BY <1>1, <1>2, <2>3
  <2> QED BY <1>1, <1>2, <1>3, <2>2, <2>4, SMT
<1>14. CASE LenBytes = 4
  <2>1. q5 = 0
    BY <1>9, <1>10, <1>14
  <2>2. load_le32(b) = d1 * 1 + d2 * Base + d3 * (Base * Base) + d4 * (Base * Base * Base)
    BY <1>8, <1>14 DEF load_le32
  <2>3. q4 = d4
    BY <1>4, <2>1
  <2>4. n = Base * (Base * (Base * d4 + d3) + d2) + d1
    BY <1>1, <1>2, <1>3, <2>3
  <2> QED BY <1>1, <1>2, <1>3, <1>4, <2>2, <2>4, SMT
<1> QED
  BY <1>11, <1>12, <1>13, <1>14

-----------------------------------------------------------------------------
\* Frames as bytes.

Size(f) == Header + Len(f.payload)

LEMMA EncodeIs ==
  ASSUME NEW w \in Proc, NEW f \in Frames[w]
  PROVE  /\ f.payload \in Seq(Byte) /\ Len(f.payload) \in Nat
         /\ Len(f.payload) < Shift[LenBytes + 1]
         /\ f = [type |-> f.type, payload |-> f.payload]
         /\ Size(f) \in Nat /\ Size(f) > 0 /\ Header <= Size(f)
         /\ Encode(f) \in Seq(Byte) /\ Len(Encode(f)) = Size(f)
         /\ Encode(f)[1] = f.type
         /\ \A i \in 1 .. LenBytes : Encode(f)[1 + i] = store_le32(Len(f.payload))[i]
         /\ \A i \in 1 .. Len(f.payload) : Encode(f)[Header + i] = f.payload[i]
<1> DEFINE n == Len(f.payload)
           l == store_le32(n)
<1>1. /\ f \in [type: Byte \ {0}, payload: Seq(Byte)]
      /\ n < Shift[LenBytes + 1]
  BY CommFrameAssumption
<1>2. /\ f.type \in Byte /\ f.payload \in Seq(Byte) /\ n \in Nat
      /\ f = [type |-> f.type, payload |-> f.payload]
  BY <1>1
<1>3. LenBytes \in Nat /\ LenBytes > 0 /\ Header = 1 + LenBytes
  BY Shifts DEF Header
<1>4. l \in Seq(Byte) /\ Len(l) = LenBytes
  <2>1. ASSUME NEW i \in 1 .. LenBytes
        PROVE  (n \div Shift[i]) % Base \in Byte
    <3>1. Shift[i] \in Nat /\ Shift[i] > 0
      BY Shifts
    <3>2. n \div Shift[i] \in Nat
      <4> HIDE DEF n
      <4> QED BY <1>2, <3>1, DivMod
    <3> QED BY <3>2, Shifts, DivMod DEF Byte
  <2>2. l \in [1 .. LenBytes -> Byte]
    BY <2>1 DEF store_le32
  <2> HIDE DEF l
  <2> QED BY <1>3, <2>2
<1> HIDE DEF n, l
<1>5. <<f.type>> \in Seq(Byte) /\ Len(<<f.type>>) = 1 /\ <<f.type>>[1] = f.type
  BY <1>2
<1> DEFINE h == <<f.type>> \o l
<1>6. /\ h \in Seq(Byte) /\ Len(h) = Header /\ h[1] = f.type
      /\ \A i \in 1 .. LenBytes : h[1 + i] = l[i]
  BY <1>3, <1>4, <1>5
<1> HIDE DEF h
<1>7. Encode(f) = h \o f.payload
  BY DEF Encode, h, l, n
<1>8. /\ h \o f.payload \in Seq(Byte)
      /\ Len(h \o f.payload) = Header + n
      /\ (h \o f.payload)[1] = f.type
      /\ \A i \in 1 .. LenBytes : (h \o f.payload)[1 + i] = l[i]
      /\ \A i \in 1 .. n : (h \o f.payload)[Header + i] = f.payload[i]
  <2> DEFINE a == f.payload
             c == h \o a
  <2>1. a \in Seq(Byte) /\ Len(a) = n
    BY <1>2 DEF n
  <2>2. /\ c \in Seq(Byte) /\ Len(c) = Len(h) + Len(a)
        /\ \A i \in 1 .. Len(h) + Len(a) :
             c[i] = IF i <= Len(h) THEN h[i] ELSE a[i - Len(h)]
    BY <1>6, <2>1, ConcatProperties
  <2> HIDE DEF a, c
  <2>3. c[1] = f.type
    BY <1>2, <1>3, <1>6, <2>1, <2>2
  <2>4. \A i \in 1 .. LenBytes : c[1 + i] = l[i]
    BY <1>2, <1>3, <1>6, <2>1, <2>2
  <2>5. ASSUME NEW i \in 1 .. n
        PROVE  c[Header + i] = a[i]
    <3>1. /\ Header + i \in 1 .. Len(h) + Len(a) /\ ~(Header + i <= Len(h))
          /\ (Header + i) - Len(h) = i
      BY <1>2, <1>3, <1>6, <2>1
    <3> QED BY <2>2, <3>1
  <2> QED BY <1>6, <2>1, <2>2, <2>3, <2>4, <2>5 DEF a, c
<1>9. Size(f) = Header + n /\ Size(f) \in Nat /\ Size(f) > 0 /\ Header <= Size(f)
  BY <1>2, <1>3 DEF Size, n
<1>10. /\ Encode(f) \in Seq(Byte) /\ Len(Encode(f)) = Size(f)
       /\ Encode(f)[1] = f.type
       /\ \A i \in 1 .. LenBytes : Encode(f)[1 + i] = l[i]
       /\ \A i \in 1 .. n : Encode(f)[Header + i] = f.payload[i]
  <2> HIDE DEF h
  <2> QED BY <1>7, <1>8, <1>9
<1>11. n = Len(f.payload) /\ l = store_le32(n)
  BY DEF n, l
<1> QED
  BY <1>1, <1>2, <1>9, <1>10, <1>11, Zenon

\* The header tells the length of the payload.
LEMMA HeaderReadBack ==
  ASSUME NEW w \in Proc, NEW f \in Frames[w], NEW b \in Seq(Byte),
         Header <= Len(b), \A i \in 1 .. Header : b[i] = Encode(f)[i]
  PROVE  PayloadLen(b) = Len(f.payload)
<1> DEFINE n == Len(f.payload)
           c == SubSeq(b, 2, Header)
<1>1. /\ LenBytes \in Nat /\ LenBytes > 0 /\ Header = 1 + LenBytes /\ Header \in Nat
      /\ Len(b) \in Nat
  BY Shifts DEF Header
<1>n. n \in Nat /\ n < Shift[LenBytes + 1]
  BY EncodeIs
<1> HIDE DEF n
<1>2. \A i \in 1 .. LenBytes : c[i] = b[1 + i]
  <2>1. \A i \in 2 .. Header : b[i] \in Byte
    BY <1>1
  <2>2. \A i \in 1 .. Header - 2 + 1 : c[i] = b[2 + i - 1]
    BY <1>1, <2>1, SubSeqProperties
  <2>3. Header - 2 + 1 = LenBytes /\ \A i \in 1 .. LenBytes : 2 + i - 1 = 1 + i
    BY <1>1
  <2> QED BY <2>2, <2>3
<1>3. \A i \in 1 .. LenBytes : 1 + i \in 1 .. Header
  BY <1>1
<1>4. \A i \in 1 .. LenBytes : c[i] = store_le32(n)[i]
  <2> HIDE DEF c
  <2>1. \A i \in 1 .. LenBytes : Encode(f)[1 + i] = store_le32(n)[i]
    BY EncodeIs DEF n
  <2> QED BY <1>2, <1>3, <2>1
<1> HIDE DEF c
<1>5. load_le32(c) = n
  BY <1>n, <1>4, LengthReadBack
<1> QED
  BY <1>5 DEF PayloadLen, c, n

\* The whole frame is read back.
LEMMA FrameReadBack ==
  ASSUME NEW w \in Proc, NEW f \in Frames[w], NEW b \in Seq(Byte), Len(b) = Size(f),
         \A i \in 1 .. Len(b) : b[i] = Encode(f)[i]
  PROVE  DecodeFrame(b) = f
<1> DEFINE n == Len(f.payload)
           c == SubSeq(b, Header + 1, Len(b))
<1>0. /\ Header \in Nat /\ Header > 0 /\ Size(f) = Header + n /\ n \in Nat
  <2>1. LenBytes \in Nat /\ Header = 1 + LenBytes
    BY Shifts DEF Header
  <2> QED BY <2>1, EncodeIs DEF Size
<1>1. /\ Header \in Nat /\ Header > 0 /\ Len(b) = Header + n /\ n \in Nat
  BY <1>0
<1> HIDE DEF n
<1>2. /\ c \in Seq(Byte)
      /\ Len(c) = IF Header + 1 <= Len(b) THEN Len(b) - (Header + 1) + 1 ELSE 0
      /\ \A i \in 1 .. Len(b) - (Header + 1) + 1 : c[i] = b[Header + 1 + i - 1]
  <2>1. \A i \in Header + 1 .. Len(b) : b[i] \in Byte
    BY <1>1
  <2> QED BY <1>1, <2>1, SubSeqProperties
<1> HIDE DEF c
<1>3. Len(b) - (Header + 1) + 1 = n /\ \A i \in 1 .. n : Header + 1 + i - 1 = Header + i
  BY <1>1
<1>4. Len(c) = n
  BY <1>1, <1>2
<1>5. ASSUME NEW i \in 1 .. n
      PROVE  c[i] = f.payload[i]
  <2>1. Header + i \in 1 .. Len(b)
    BY <1>1
  <2>2. c[i] = b[Header + i]
    BY <1>2, <1>3
  <2> QED BY <2>1, <2>2, EncodeIs DEF n
<1>6. c = f.payload
  BY <1>2, <1>4, <1>5, EncodeIs, SeqEqual DEF n
<1>7. b[1] = f.type
  <2>1. 1 \in 1 .. Len(b)
    BY <1>1
  <2> QED BY <2>1, EncodeIs
<1> QED
  BY <1>6, <1>7, EncodeIs DEF DecodeFrame, c

-----------------------------------------------------------------------------
(***************************************************************************)
(* Streams.  The bytes b are the frames of fs that come after the first g, *)
(* one after another, and e[k] is where the k-th of them ends.             *)
(***************************************************************************)
Streams(b, fs, g, e) ==
  /\ g \in 0 .. Len(fs)
  /\ e \in [g .. Len(fs) -> Nat]
  /\ e[g] = 0 /\ e[Len(fs)] = Len(b)
  /\ \A j, k \in g .. Len(fs) : j <= k => e[j] <= e[k]
  /\ \A k \in g + 1 .. Len(fs) :
       /\ e[k] = e[k - 1] + Size(fs[k])
       /\ \A j \in 1 .. Size(fs[k]) : b[e[k - 1] + j] = Encode(fs[k])[j]

IsStream(b, fs, g) == \E e : Streams(b, fs, g, e)

\* comm_write(): one more frame is to be written.
LEMMA FrameAdded ==
  ASSUME NEW w \in Proc, NEW fs \in Seq(Frames[w]), NEW f \in Frames[w],
         NEW b \in Seq(Byte), NEW g, IsStream(b, fs, g)
  PROVE  IsStream(b \o Encode(f), Append(fs, f), g)
<1> DEFINE m == Len(fs)
           n == Len(b)
           c == b \o Encode(f)
           u == Append(fs, f)
<1>1. PICK e : Streams(b, fs, g, e)
  BY DEF IsStream
<1>2. /\ m \in Nat /\ n \in Nat /\ Len(u) = m + 1 /\ u[m + 1] = f
      /\ \A k \in 1 .. m : u[k] = fs[k] /\ fs[k] \in Frames[w]
  OBVIOUS
<1>3. /\ g \in 0 .. m /\ e \in [g .. m -> Nat] /\ e[g] = 0 /\ e[m] = n
      /\ \A j, k \in g .. m : j <= k => e[j] <= e[k]
      /\ \A k \in g + 1 .. m :
           /\ e[k] = e[k - 1] + Size(fs[k])
           /\ \A j \in 1 .. Size(fs[k]) : b[e[k - 1] + j] = Encode(fs[k])[j]
  BY <1>1 DEF Streams
<1>4. Size(f) \in Nat /\ Encode(f) \in Seq(Byte) /\ Len(Encode(f)) = Size(f)
  BY EncodeIs
<1>5. /\ Len(c) = n + Size(f)
      /\ \A i \in 1 .. n : c[i] = b[i]
      /\ \A j \in 1 .. Size(f) : c[n + j] = Encode(f)[j]
  <2>1. /\ Len(c) = Len(b) + Len(Encode(f))
        /\ \A i \in 1 .. Len(b) + Len(Encode(f)) :
             c[i] = IF i <= Len(b) THEN b[i] ELSE Encode(f)[i - Len(b)]
    BY <1>4, ConcatProperties
  <2> HIDE DEF c, n
  <2>2. ASSUME NEW j \in 1 .. Size(f)
        PROVE  c[n + j] = Encode(f)[j]
    <3>1. /\ n + j \in 1 .. Len(b) + Len(Encode(f)) /\ ~(n + j <= Len(b))
          /\ (n + j) - Len(b) = j
      BY <1>2, <1>4 DEF n
    <3> QED BY <2>1, <3>1
  <2> QED BY <1>2, <1>4, <2>1, <2>2 DEF n
<1> DEFINE h == [k \in g .. m + 1 |-> IF k <= m THEN e[k] ELSE n + Size(f)]
<1> HIDE DEF m, n, c, u
<1>6. /\ h \in [g .. m + 1 -> Nat] /\ h[m + 1] = n + Size(f)
      /\ \A k \in g .. m : h[k] = e[k]
  <2>1. \A k \in g .. m + 1 : k <= m => k \in g .. m
    BY <1>2, <1>3
  <2> QED BY <1>2, <1>3, <1>4, <2>1
<1> HIDE DEF h
<1>7. /\ h[g] = 0 /\ h[m] = n /\ m \in g .. m /\ g \in g .. m
      /\ \A j \in g .. m : e[j] \in Nat /\ e[j] <= n
  <2>1. m \in g .. m /\ g \in g .. m
    BY <1>2, <1>3
  <2>2. h[g] = 0 /\ h[m] = n
    BY <1>3, <1>6, <2>1
  <2>3. ASSUME NEW j \in g .. m
        PROVE  e[j] \in Nat /\ e[j] <= n
    <3>1. j <= m
      BY <1>2, <1>3
    <3> QED BY <1>3, <2>1, <3>1
  <2> QED BY <2>1, <2>2, <2>3
<1>8. ASSUME NEW j \in g .. m + 1, NEW k \in g .. m + 1, j <= k
      PROVE  h[j] <= h[k]
  <2>1. CASE k <= m
    <3>1. j \in g .. m /\ k \in g .. m
      BY <1>2, <1>3, <1>8, <2>1
    <3> QED BY <1>3, <1>6, <1>8, <3>1
  <2>2. CASE k = m + 1 /\ j <= m
    <3>1. j \in g .. m
      BY <1>2, <1>3, <2>2
    <3>2. h[j] \in Nat /\ h[j] <= n
      BY <1>6, <1>7, <3>1
    <3> QED BY <1>2, <1>4, <1>6, <2>2, <3>2
  <2>3. CASE k = m + 1 /\ j = m + 1
    BY <1>2, <1>4, <1>6, <2>3
  <2> QED BY <1>2, <1>3, <1>8, <2>1, <2>2, <2>3
<1>9. ASSUME NEW k \in g + 1 .. m + 1
      PROVE  /\ h[k] = h[k - 1] + Size(u[k])
             /\ \A j \in 1 .. Size(u[k]) : c[h[k - 1] + j] = Encode(u[k])[j]
  <2>1. CASE k <= m
    <3>1. k \in g + 1 .. m /\ k \in g .. m /\ k - 1 \in g .. m /\ k \in 1 .. m
      BY <1>2, <1>3, <2>1
    <3>2. /\ h[k] = e[k] /\ h[k - 1] = e[k - 1] /\ u[k] = fs[k] /\ u[k] \in Frames[w]
          /\ e[k] = e[k - 1] + Size(fs[k]) /\ e[k] \in Nat /\ e[k - 1] \in Nat /\ e[k] <= n
      BY <1>2, <1>3, <1>6, <1>7, <3>1
    <3>3. Size(u[k]) \in Nat
      BY <3>2, EncodeIs
    <3>4. ASSUME NEW j \in 1 .. Size(u[k])
          PROVE  c[h[k - 1] + j] = Encode(u[k])[j]
      <4>1. e[k - 1] + j \in 1 .. n
        BY <1>2, <3>2, <3>3
      <4>2. b[e[k - 1] + j] = Encode(fs[k])[j]
        BY <1>3, <3>1, <3>2
      <4> QED BY <1>5, <3>2, <4>1, <4>2
    <3> QED BY <3>2, <3>4
  <2>2. CASE k = m + 1
    <3>1. k - 1 = m /\ u[k] = f
      BY <1>2, <2>2
    <3> QED BY <1>5, <1>6, <1>7, <2>2, <3>1
  <2> QED BY <1>2, <1>3, <2>1, <2>2
<1>10. g \in 0 .. m + 1
  BY <1>2, <1>3
<1>11. Streams(c, u, g, h)
  <2>1. Len(u) = m + 1 /\ Len(c) = n + Size(f)
    BY <1>2, <1>5
  <2> QED BY <1>6, <1>7, <1>8, <1>9, <1>10, <2>1 DEF Streams
<1> QED
  BY <1>11 DEF IsStream, c, u

\* What comm_read() finds.
LEMMA FirstFrame ==
  ASSUME NEW w \in Proc, NEW fs \in Seq(Frames[w]),
         NEW b \in Seq(Byte), NEW g, IsStream(b, fs, g), b # <<>>
  PROVE  /\ g \in Nat /\ g + 1 \in 1 .. Len(fs) /\ fs[g + 1] \in Frames[w]
         /\ Size(fs[g + 1]) <= Len(b)
         /\ g + 1 = Len(fs) => Size(fs[g + 1]) = Len(b)
         /\ \A i \in 1 .. Size(fs[g + 1]) : b[i] = Encode(fs[g + 1])[i]
<1> DEFINE m == Len(fs)
           f == fs[g + 1]
<1>1. PICK e : Streams(b, fs, g, e)
  BY DEF IsStream
<1>2. m \in Nat /\ Len(b) \in Nat /\ Len(b) > 0
  OBVIOUS
<1>3. /\ g \in 0 .. m /\ e \in [g .. m -> Nat] /\ e[g] = 0 /\ e[m] = Len(b)
      /\ \A j, k \in g .. m : j <= k => e[j] <= e[k]
      /\ \A k \in g + 1 .. m :
           /\ e[k] = e[k - 1] + Size(fs[k])
           /\ \A j \in 1 .. Size(fs[k]) : b[e[k - 1] + j] = Encode(fs[k])[j]
  BY <1>1 DEF Streams
<1>4. g # m
  BY <1>2, <1>3
<1>5. /\ g + 1 \in 1 .. m /\ g + 1 \in g + 1 .. m /\ g + 1 \in g .. m /\ m \in g .. m
      /\ (g + 1) - 1 = g /\ g + 1 <= m
  BY <1>2, <1>3, <1>4
<1>6. f \in Frames[w]
  BY <1>5
<1>7. Size(f) \in Nat
  BY <1>6, EncodeIs
<1> HIDE DEF f
<1>8. /\ e[g + 1] = 0 + Size(f)
      /\ \A j \in 1 .. Size(f) : b[0 + j] = Encode(f)[j]
  BY <1>3, <1>5 DEF f
<1>9. e[g + 1] <= Len(b) /\ (g + 1 = m => e[g + 1] = Len(b))
  BY <1>3, <1>5
<1>10. \A j \in 1 .. Size(f) : 0 + j = j
  BY <1>7
<1> QED
  BY <1>3, <1>5, <1>6, <1>7, <1>8, <1>9, <1>10 DEF f

\* comm_read() returns a frame.
LEMMA FrameTaken ==
  ASSUME NEW w \in Proc, NEW fs \in Seq(Frames[w]),
         NEW b \in Seq(Byte), NEW g, IsStream(b, fs, g), b # <<>>,
         NEW c \in Seq(Byte), Len(c) = Len(b) - Size(fs[g + 1]),
         \A i \in 1 .. Len(c) : c[i] = b[Size(fs[g + 1]) + i]
  PROVE  IsStream(c, fs, g + 1)
<1> DEFINE m == Len(fs)
           s == Size(fs[g + 1])
<1>1. PICK e : Streams(b, fs, g, e)
  BY DEF IsStream
<1>2. m \in Nat /\ Len(b) \in Nat /\ Len(c) \in Nat
  OBVIOUS
<1>3. /\ g \in 0 .. m /\ e \in [g .. m -> Nat] /\ e[g] = 0 /\ e[m] = Len(b)
      /\ \A j, k \in g .. m : j <= k => e[j] <= e[k]
      /\ \A k \in g + 1 .. m :
           /\ e[k] = e[k - 1] + Size(fs[k])
           /\ \A j \in 1 .. Size(fs[k]) : b[e[k - 1] + j] = Encode(fs[k])[j]
  BY <1>1 DEF Streams
<1>4. g + 1 \in 1 .. m /\ s \in Nat
  <2>1. g + 1 \in 1 .. m /\ fs[g + 1] \in Frames[w]
    BY FirstFrame
  <2> QED BY <2>1, EncodeIs
<1>5. g + 1 \in g .. m /\ g + 1 \in g + 1 .. m /\ m \in g + 1 .. m /\ (g + 1) - 1 = g
  BY <1>2, <1>3, <1>4
<1>6. e[g + 1] = s
  <2>1. e[g + 1] = 0 + Size(fs[g + 1])
    BY <1>3, <1>5
  <2> QED BY <1>4, <2>1
<1>7. \A i \in 1 .. Len(c) : c[i] = b[s + i]
  OBVIOUS
<1>8. Len(c) = Len(b) - s
  OBVIOUS
<1> HIDE DEF m, s
<1>9. \A k \in g + 1 .. m : k \in g .. m /\ e[k] \in Nat /\ s <= e[k] /\ e[k] <= Len(b)
  <2> SUFFICES ASSUME NEW k \in g + 1 .. m
               PROVE  k \in g .. m /\ e[k] \in Nat /\ s <= e[k] /\ e[k] <= Len(b)
    OBVIOUS
  <2>1. k \in g .. m /\ m \in g .. m /\ g + 1 <= k /\ k <= m
    BY <1>2, <1>3
  <2>2. e[k] \in Nat
    BY <1>3, <2>1
  <2>3. e[g + 1] <= e[k]
    BY <1>3, <1>5, <2>1
  <2>4. e[k] <= e[m]
    BY <1>3, <2>1
  <2> QED BY <1>3, <1>6, <2>1, <2>2, <2>3, <2>4
<1> DEFINE h == [k \in g + 1 .. m |-> e[k] - s]
<1>10. h \in [g + 1 .. m -> Nat] /\ \A k \in g + 1 .. m : h[k] = e[k] - s
  BY <1>4, <1>9
<1> HIDE DEF h
<1>11. h[g + 1] = 0 /\ h[m] = Len(c)
  BY <1>2, <1>3, <1>4, <1>5, <1>6, <1>8, <1>10
<1>12. \A j, k \in g + 1 .. m : j <= k => h[j] <= h[k]
  BY <1>3, <1>4, <1>9, <1>10
<1>13. ASSUME NEW k \in (g + 1) + 1 .. m
       PROVE  /\ h[k] = h[k - 1] + Size(fs[k])
              /\ \A j \in 1 .. Size(fs[k]) : c[h[k - 1] + j] = Encode(fs[k])[j]
  <2>1. k \in g + 1 .. m /\ k - 1 \in g + 1 .. m /\ k \in 1 .. m
    BY <1>2, <1>3
  <2>2. fs[k] \in Frames[w]
    BY <2>1 DEF m
  <2>3. Size(fs[k]) \in Nat
    BY <2>2, EncodeIs
  <2>4. /\ e[k] = e[k - 1] + Size(fs[k]) /\ h[k] = e[k] - s /\ h[k - 1] = e[k - 1] - s
        /\ e[k] \in Nat /\ e[k - 1] \in Nat /\ s <= e[k - 1] /\ e[k] <= Len(b)
    BY <1>3, <1>9, <1>10, <2>1
  <2>5. h[k] = h[k - 1] + Size(fs[k])
    BY <1>4, <2>3, <2>4
  <2>6. ASSUME NEW j \in 1 .. Size(fs[k])
        PROVE  c[h[k - 1] + j] = Encode(fs[k])[j]
    <3>1. /\ (e[k - 1] - s) + j \in 1 .. Len(c)
          /\ s + ((e[k - 1] - s) + j) = e[k - 1] + j
      <4>1. \A x, y, z, n \in Nat :
              s <= x /\ x + z <= n /\ y \in 1 .. z
                => (x - s) + y \in 1 .. n - s /\ s + ((x - s) + y) = x + y
        BY <1>4
      <4>2. j \in Nat /\ e[k - 1] + Size(fs[k]) <= Len(b)
        BY <2>3, <2>4
      <4>3. e[k - 1] \in Nat /\ s <= e[k - 1] /\ Size(fs[k]) \in Nat /\ Len(b) \in Nat
        BY <1>2, <2>3, <2>4
      <4>4. /\ (e[k - 1] - s) + j \in 1 .. Len(b) - s
            /\ s + ((e[k - 1] - s) + j) = e[k - 1] + j
        BY <4>1, <4>2, <4>3, Zenon
      <4> QED BY <1>8, <4>4, Zenon
    <3>2. b[e[k - 1] + j] = Encode(fs[k])[j]
      BY <1>3, <2>1
    <3> QED BY <1>7, <2>4, <3>1, <3>2
  <2> QED BY <2>5, <2>6
<1>14. g + 1 \in 0 .. m
  BY <1>2, <1>3, <1>4
<1>15. Streams(c, fs, g + 1, h)
  BY <1>10, <1>11, <1>12, <1>13, <1>14 DEF Streams, m
<1> QED
  BY <1>15 DEF IsStream

\* The frame that is being written is the last one.
LEMMA LastFrame ==
  ASSUME NEW w \in Proc, NEW fs \in Seq(Frames[w]),
         NEW b \in Seq(Byte), NEW g, IsStream(b, fs, g), g < Len(fs)
  PROVE  /\ fs[Len(fs)] \in Frames[w]
         /\ Size(fs[Len(fs)]) \in Nat /\ Size(fs[Len(fs)]) > 0
         /\ Size(fs[Len(fs)]) <= Len(b)
         /\ g + 1 < Len(fs) => Size(fs[Len(fs)]) < Len(b)
<1> DEFINE m == Len(fs)
           s == Size(fs[m])
<1>1. PICK e : Streams(b, fs, g, e)
  BY DEF IsStream
<1>2. m \in Nat /\ Len(b) \in Nat
  OBVIOUS
<1>3. /\ g \in 0 .. m /\ e \in [g .. m -> Nat] /\ e[g] = 0 /\ e[m] = Len(b)
      /\ \A j, k \in g .. m : j <= k => e[j] <= e[k]
      /\ \A k \in g + 1 .. m : e[k] = e[k - 1] + Size(fs[k])
  BY <1>1 DEF Streams
<1>4. m \in 1 .. m /\ m \in g + 1 .. m /\ m - 1 \in g .. m
  BY <1>2, <1>3
<1>5. fs[m] \in Frames[w]
  BY <1>4
<1>6. s \in Nat /\ s > 0
  BY <1>5, EncodeIs
<1>7. Len(b) = e[m - 1] + s /\ e[m - 1] \in Nat
  BY <1>3, <1>4
<1>8. ASSUME g + 1 < m
      PROVE  e[m - 1] > 0
  <2>1. /\ g + 1 \in 1 .. m /\ g + 1 \in g + 1 .. m /\ g + 1 \in g .. m
        /\ g + 1 <= m - 1 /\ (g + 1) - 1 = g
    BY <1>2, <1>3, <1>8
  <2>2. fs[g + 1] \in Frames[w]
    BY <2>1
  <2>3. Size(fs[g + 1]) \in Nat /\ Size(fs[g + 1]) > 0
    BY <2>2, EncodeIs
  <2>4. e[g + 1] = 0 + Size(fs[g + 1]) /\ e[g + 1] <= e[m - 1]
    BY <1>3, <1>4, <2>1
  <2> QED BY <1>7, <2>3, <2>4
<1> HIDE DEF s
<1> QED
  BY <1>2, <1>5, <1>6, <1>7, <1>8 DEF s

-----------------------------------------------------------------------------
LEMMA Associative ==
  \A a, b, c \in Seq(Byte) : (a \o b) \o c = a \o (b \o c)
BY ConcatAssociative

\* write() moves the first k bytes of o, or read() the first k bytes of p.
LEMMA BytesMoved ==
  ASSUME NEW a \in Seq(Byte), NEW o \in Seq(Byte), NEW k \in 1 .. Len(o)
  PROVE  /\ SubSeq(o, 1, k) \in Seq(Byte) /\ SubSeq(o, k + 1, Len(o)) \in Seq(Byte)
         /\ Len(SubSeq(o, k + 1, Len(o))) < Len(o)
         /\ a \o SubSeq(o, 1, k) \in Seq(Byte) /\ a \o SubSeq(o, 1, k) # <<>>
         /\ (a \o SubSeq(o, 1, k)) \o SubSeq(o, k + 1, Len(o)) = a \o o
<1> DEFINE h == SubSeq(o, 1, k)
           t == SubSeq(o, k + 1, Len(o))
<1>1. Len(o) \in Nat /\ k \in Nat /\ k > 0 /\ k <= Len(o)
  OBVIOUS
<1>2. h \in Seq(Byte) /\ Len(h) = k
  <2>1. \A i \in 1 .. k : o[i] \in Byte
    BY <1>1
  <2>2. h \in Seq(Byte) /\ Len(h) = IF 1 <= k THEN k - 1 + 1 ELSE 0
    BY <1>1, <2>1, SubSeqProperties
  <2> QED BY <1>1, <2>2
<1>3. t \in Seq(Byte) /\ Len(t) < Len(o)
  <2>1. \A i \in k + 1 .. Len(o) : o[i] \in Byte
    BY <1>1
  <2>2. t \in Seq(Byte) /\ Len(t) = IF k + 1 <= Len(o) THEN Len(o) - (k + 1) + 1 ELSE 0
    BY <1>1, <2>1, SubSeqProperties
  <2> QED BY <1>1, <2>2
<1>4. h \o t = o
  <2>1. /\ 1 \in 1 .. Len(o) + 1 /\ k \in 1 - 1 .. Len(o) /\ Len(o) \in k .. Len(o)
    BY <1>1
  <2>2. h \o t = SubSeq(o, 1, Len(o))
    BY <2>1, ConcatAdjacentSubSeq
  <2>3. SubSeq(o, 1, Len(o)) = o
    OBVIOUS
  <2> QED BY <2>2, <2>3
<1> HIDE DEF h, t
<1>5. a \o h \in Seq(Byte) /\ Len(a \o h) = Len(a) + k /\ Len(a) \in Nat
  BY <1>2, ConcatProperties
<1>6. a \o h # <<>>
  <2> DEFINE c == a \o h
  <2>1. Len(c) > 0
    BY <1>1, <1>5
  <2> HIDE DEF c
  <2>2. c # <<>>
    BY <2>1
  <2> QED BY <2>2 DEF c
<1>7. (a \o h) \o t = a \o o
  <2>1. (a \o h) \o t = a \o (h \o t)
    BY <1>2, <1>3, Associative
  <2> QED BY <1>4, <2>1, Zenon
<1> QED
  BY <1>2, <1>3, <1>5, <1>6, <1>7 DEF h, t

\* The same with bounded quantifiers, for bytes that are parts of the state.
LEMMA BytesMovedBy ==
  \A a, o \in Seq(Byte) : \A k \in 1 .. Len(o) :
    /\ SubSeq(o, k + 1, Len(o)) \in Seq(Byte)
    /\ a \o SubSeq(o, 1, k) \in Seq(Byte) /\ a \o SubSeq(o, 1, k) # <<>>
    /\ (a \o SubSeq(o, 1, k)) \o SubSeq(o, k + 1, Len(o)) = a \o o
BY BytesMoved

LEMMA FrameAppended ==
  \A w \in Proc : \A s \in Seq(Frames[w]) : \A f \in Frames[w] :
    /\ Append(s, f) \in Seq(Frames[w]) /\ Len(Append(s, f)) = Len(s) + 1
    /\ \A i \in 1 .. Len(s) : Append(s, f)[i] = s[i]
    /\ Append(s, f)[Len(s) + 1] = f
BY AppendProperties

\* What a complete frame in front of the stream is.
LEMMA FrameComplete ==
  ASSUME NEW w \in Proc, NEW fs \in Seq(Frames[w]), NEW g,
         NEW b \in Seq(Byte), NEW c \in Seq(Byte), IsStream(b \o c, fs, g),
         b # <<>>, Header <= Len(b), Len(b) = Header + PayloadLen(b)
  PROVE  /\ g \in Nat /\ g + 1 \in 1 .. Len(fs) /\ DecodeFrame(b) = fs[g + 1]
         /\ IsStream(c, fs, g + 1)
         /\ g + 1 = Len(fs) => c = <<>>
<1> DEFINE d == b \o c
           f == fs[g + 1]
<1>1. /\ d \in Seq(Byte) /\ Len(d) = Len(b) + Len(c)
      /\ \A i \in 1 .. Len(b) + Len(c) : d[i] = IF i <= Len(b) THEN b[i] ELSE c[i - Len(b)]
  BY ConcatProperties
<1>2. Len(b) \in Nat /\ Len(c) \in Nat /\ Len(b) > 0 /\ Header \in Nat
  BY Shifts
<1>3. IsStream(d, fs, g)
  OBVIOUS
<1> HIDE DEF d
<1>4. d # <<>>
  BY <1>1, <1>2
<1>5. /\ g \in Nat /\ g + 1 \in 1 .. Len(fs) /\ f \in Frames[w]
      /\ Size(f) <= Len(d) /\ (g + 1 = Len(fs) => Size(f) = Len(d))
      /\ \A i \in 1 .. Size(f) : d[i] = Encode(f)[i]
  BY <1>1, <1>3, <1>4, FirstFrame
<1> HIDE DEF f
<1>6. Size(f) \in Nat /\ Header <= Size(f) /\ Size(f) = Header + Len(f.payload)
  BY <1>5, EncodeIs DEF Size
<1>7. \A i \in 1 .. Len(b) : i \in 1 .. Len(b) + Len(c) /\ d[i] = b[i]
  BY <1>1, <1>2
<1>8. PayloadLen(b) = Len(f.payload)
  <2>1. \A i \in 1 .. Header : i \in 1 .. Len(b) /\ i \in 1 .. Size(f)
    BY <1>2, <1>6
  <2>2. \A i \in 1 .. Header : b[i] = Encode(f)[i]
    BY <1>5, <1>7, <2>1
  <2> QED BY <1>5, <2>2, HeaderReadBack
<1>9. Len(b) = Size(f)
  BY <1>6, <1>8
<1>10. DecodeFrame(b) = f
  <2>1. \A i \in 1 .. Len(b) : b[i] = Encode(f)[i]
    BY <1>5, <1>7, <1>9
  <2> QED BY <1>5, <1>9, <2>1, FrameReadBack
<1>11. IsStream(c, fs, g + 1)
  <2>1. Len(c) = Len(d) - Size(f)
    BY <1>1, <1>2, <1>9
  <2>2. ASSUME NEW i \in 1 .. Len(c)
        PROVE  c[i] = d[Size(f) + i]
    <3>1. /\ Len(b) + i \in 1 .. Len(b) + Len(c) /\ ~(Len(b) + i <= Len(b))
          /\ (Len(b) + i) - Len(b) = i
      BY <1>2
    <3>2. d[Len(b) + i] = c[i]
      BY <1>1, <3>1
    <3> QED BY <1>9, <3>2
  <2> QED BY <1>1, <1>3, <1>4, <2>1, <2>2, FrameTaken DEF f
<1>12. g + 1 = Len(fs) => c = <<>>
  <2>1. g + 1 = Len(fs) => Len(c) = 0
    BY <1>1, <1>2, <1>5, <1>9
  <2> QED BY <2>1
<1> QED
  BY <1>5, <1>10, <1>11, <1>12 DEF f

-----------------------------------------------------------------------------
(***************************************************************************)
(* The state of one pipe: what its reader holds, what is in it and what    *)
(* its writer has still to write are, together, the frames that were       *)
(* written or are being written and that comm_read() has not returned yet. *)
(***************************************************************************)
Reading(w) == doing[Peer(w)] = "read"
Writing(w) == doing[w] = "write"

Flow(w)    == (in[w] \o pipe[w]) \o out[w]
Offered(w) == IF Writing(w) THEN Append(sent[w], current[w]) ELSE sent[w]

Transfer(w) ==
  /\ Writing(w) => out[w] # <<>> /\ Len(out[w]) <= Size(current[w])
  /\ ~Writing(w) => out[w] = <<>>
  /\ ~Reading(w) => in[w] = <<>>
  /\ IsStream(Flow(w), Offered(w), Len(got[w]))

PipeInv(w) ==
  /\ in[w] \in Seq(Byte) /\ pipe[w] \in Seq(Byte) /\ out[w] \in Seq(Byte)
  /\ sent[w] \in Seq(Frames[w]) /\ got[w] \in Seq(Frames[w])
  /\ Len(got[w]) <= Len(sent[w])
  /\ \A i \in 1 .. Len(got[w]) : got[w][i] = sent[w][i]
  /\ Writing(w) => current[w] \in Frames[w]
  /\ Reading(w) => status[w] = "open"
  /\ Peer(w) \in up /\ status[w] = "open" => Transfer(w)

PipesTypeOK ==
  /\ up \subseteq Proc
  /\ DOMAIN doing = Proc /\ DOMAIN out = Proc /\ DOMAIN current = Proc
  /\ DOMAIN pipe = Proc /\ DOMAIN in = Proc /\ DOMAIN sent = Proc
  /\ DOMAIN got = Proc /\ DOMAIN status = Proc

PipesInv == PipesTypeOK /\ \A w \in Proc : PipeInv(w)

\* A step of FrameChannel, or a stuttering one.
ChannelStep(w) ==
  \/ /\ \E f \in Frames[w] : sent'[w] = Append(sent[w], f)
     /\ got'[w] = got[w] /\ status'[w] = status[w]
  \/ /\ status[w] = "open" /\ Len(got[w]) < Len(sent[w])
     /\ got'[w] = Append(got[w], sent[w][Len(got[w]) + 1])
     /\ sent'[w] = sent[w] /\ status'[w] = status[w]
  \/ /\ status[w] = "open" /\ status'[w] \in {"eof", "error"}
     /\ status'[w] = "eof" => got[w] = sent[w]
     /\ sent'[w] = sent[w] /\ got'[w] = got[w]
  \/ sent'[w] = sent[w] /\ got'[w] = got[w] /\ status'[w] = status[w]

LEMMA OfferedIs ==
  ASSUME NEW w \in Proc, sent[w] \in Seq(Frames[w]),
         Writing(w) => current[w] \in Frames[w]
  PROVE  /\ Offered(w) \in Seq(Frames[w])
         /\ Writing(w) => /\ Len(Offered(w)) = Len(sent[w]) + 1
                          /\ Offered(w)[Len(Offered(w))] = current[w]
         /\ ~Writing(w) => Len(Offered(w)) = Len(sent[w])
         /\ \A i \in 1 .. Len(sent[w]) : Offered(w)[i] = sent[w][i]
<1>1. CASE Writing(w)
  <2> DEFINE u == Append(sent[w], current[w])
  <2>1. /\ u \in Seq(Frames[w]) /\ Len(u) = Len(sent[w]) + 1
        /\ \A i \in 1 .. Len(sent[w]) : u[i] = sent[w][i]
        /\ u[Len(sent[w]) + 1] = current[w]
    <3>1. current[w] \in Frames[w]
      BY <1>1
    <3>2. /\ Append(sent[w], current[w]) \in Seq(Frames[w])
          /\ Len(Append(sent[w], current[w])) = Len(sent[w]) + 1
          /\ \A i \in 1 .. Len(sent[w]) : Append(sent[w], current[w])[i] = sent[w][i]
          /\ Append(sent[w], current[w])[Len(sent[w]) + 1] = current[w]
      <4>1. \A f \in Frames[w] :
              /\ Append(sent[w], f) \in Seq(Frames[w]) /\ Len(Append(sent[w], f)) = Len(sent[w]) + 1
              /\ \A i \in 1 .. Len(sent[w]) : Append(sent[w], f)[i] = sent[w][i]
              /\ Append(sent[w], f)[Len(sent[w]) + 1] = f
        BY FrameAppended
      <4> QED BY <3>1, <4>1
    <3> QED BY <3>2 DEF u
  <2>2. Offered(w) = u
    BY <1>1 DEF Offered
  <2> HIDE DEF u
  <2> QED BY <1>1, <2>1, <2>2
<1>2. CASE ~Writing(w)
  BY <1>2 DEF Offered
<1> QED
  BY <1>1, <1>2

LEMMA Peers ==
  \A w \in Proc : Peer(w) \in Proc /\ Peer(w) # w /\ Peer(Peer(w)) = w
BY DEF Proc, Peer, Main, Child

\* A step that leaves a pipe alone, except that its reader may begin.
LEMMA Kept ==
  ASSUME NEW w \in Proc, PipeInv(w), up' \subseteq up,
         out'[w] = out[w], current'[w] = current[w], pipe'[w] = pipe[w],
         in'[w] = in[w], sent'[w] = sent[w], got'[w] = got[w], status'[w] = status[w],
         Writing(w)' <=> Writing(w), Reading(w) => Reading(w)',
         Reading(w)' => status[w] = "open"
  PROVE  PipeInv(w)' /\ ChannelStep(w)
<1>1. Flow(w)' = Flow(w) /\ Offered(w)' = Offered(w)
  BY DEF Flow, Offered
<1>2. ASSUME Peer(w)' \in up', status'[w] = "open"
      PROVE  Transfer(w)'
  <2>1. Transfer(w)
    BY <1>2 DEF PipeInv, Peer
  <2> QED BY <1>1, <2>1 DEF Transfer
<1>3. PipeInv(w)'
  BY <1>2 DEF PipeInv
<1> QED
  BY <1>3 DEF ChannelStep

LEMMA comm_writeCorrect ==
  ASSUME NEW p \in Proc, PipesTypeOK, PipeInv(p), comm_write(p)
  PROVE  PipeInv(p)' /\ ChannelStep(p)
<1> USE DEF PipesTypeOK
<1>1. PICK f \in Frames[p] : /\ current' = [current EXCEPT ![p] = f]
                             /\ out' = [out EXCEPT ![p] = Encode(f)]
  BY DEF comm_write
<1>2. /\ doing[p] = "idle" /\ doing' = [doing EXCEPT ![p] = "write"]
      /\ up' = up /\ pipe' = pipe /\ in' = in /\ sent' = sent /\ got' = got
      /\ status' = status
  BY DEF comm_write
<1>3. current'[p] = f /\ out'[p] = Encode(f) /\ doing'[p] = "write"
  BY <1>1, <1>2
<1>4. ~Writing(p) /\ Writing(p)' /\ (Reading(p)' <=> Reading(p))
  BY <1>2, <1>3, Peers DEF Writing, Reading
<1>5. /\ Encode(f) \in Seq(Byte) /\ Len(Encode(f)) = Size(f)
      /\ Size(f) \in Nat /\ Size(f) > 0
  BY EncodeIs
<1>6. Encode(f) # <<>> /\ Len(Encode(f)) <= Size(f)
  BY <1>5
<1>7. ASSUME Peer(p)' \in up', status'[p] = "open"
      PROVE  Transfer(p)'
  <2>1. Transfer(p) /\ in[p] \in Seq(Byte) /\ pipe[p] \in Seq(Byte) /\ sent[p] \in Seq(Frames[p])
    BY <1>2, <1>7 DEF PipeInv, Peer
  <2>2. out[p] = <<>> /\ Offered(p) = sent[p] /\ IsStream(Flow(p), Offered(p), Len(got[p]))
    BY <1>4, <2>1 DEF Transfer, Offered
  <2> DEFINE b == in[p] \o pipe[p]
  <2>3. b \in Seq(Byte)
    BY <2>1, ConcatProperties
  <2>4. Flow(p) = b \o out[p] /\ Flow(p)' = b \o Encode(f)
    BY <1>2, <1>3 DEF Flow
  <2> HIDE DEF b
  <2>5. b \o <<>> = b
    BY <2>3, ConcatEmptySeq
  <2>6. IsStream(b, sent[p], Len(got[p]))
    BY <2>2, <2>4, <2>5
  <2>7. IsStream(b \o Encode(f), Append(sent[p], f), Len(got[p]))
    BY <2>1, <2>3, <2>6, FrameAdded
  <2>8. Offered(p)' = Append(sent[p], f)
    BY <1>2, <1>3, <1>4 DEF Offered
  <2>9. IsStream(Flow(p)', Offered(p)', Len(got'[p]))
    BY <1>2, <2>4, <2>7, <2>8
  <2> QED BY <1>2, <1>3, <1>4, <1>6, <2>1, <2>9 DEF Transfer
<1>8. PipeInv(p)'
  BY <1>2, <1>3, <1>4, <1>5, <1>7 DEF PipeInv
<1> QED
  BY <1>2, <1>8 DEF ChannelStep

LEMMA WriteFailedCorrect ==
  ASSUME NEW p \in Proc, PipesTypeOK, PipeInv(p), WriteFailed(p)
  PROVE  PipeInv(p)' /\ ChannelStep(p)
<1> USE DEF PipesTypeOK
<1>1. /\ Peer(p) \notin up /\ up' \subseteq up
      /\ doing' = [doing EXCEPT ![p] = "idle"] /\ out' = [out EXCEPT ![p] = <<>>]
      /\ current' = current /\ pipe' = pipe /\ in' = in /\ sent' = sent /\ got' = got
      /\ status' = status
  BY DEF WriteFailed
<1>2. out'[p] = <<>> /\ out'[p] \in Seq(Byte) /\ doing'[p] = "idle"
  BY <1>1
<1>3. ~Writing(p)' /\ (Reading(p)' <=> Reading(p)) /\ Peer(p)' \notin up'
  BY <1>1, <1>2, Peers DEF Writing, Reading, Peer
<1>4. PipeInv(p)'
  BY <1>1, <1>2, <1>3 DEF PipeInv
<1> QED
  BY <1>1, <1>4 DEF ChannelStep

LEMMA write_fullCorrect ==
  ASSUME NEW p \in Proc, PipesTypeOK, PipeInv(p), write_full(p)
  PROVE  PipeInv(p)' /\ ChannelStep(p)
<1> USE DEF PipesTypeOK
<1>1. PICK k \in 1 .. Len(out[p]) : Written(p, k, SubSeq(out[p], k + 1, Len(out[p])))
  BY DEF write_full
<1> DEFINE h == SubSeq(out[p], 1, k)
           t == SubSeq(out[p], k + 1, Len(out[p]))
           a == in[p] \o pipe[p]
<1>2. /\ p \in up /\ Peer(p) \in up /\ Writing(p)
      /\ pipe' = [pipe EXCEPT ![p] = @ \o h] /\ out' = [out EXCEPT ![p] = t]
      /\ up' = up /\ current' = current /\ in' = in /\ got' = got /\ status' = status
      /\ t = <<>> => /\ sent' = [sent EXCEPT ![p] = Append(@, current[p])]
                     /\ doing' = [doing EXCEPT ![p] = "idle"]
      /\ t # <<>> => sent' = sent /\ doing' = doing
  BY <1>1 DEF write_full, Written, Writing
<1>3. /\ in[p] \in Seq(Byte) /\ pipe[p] \in Seq(Byte) /\ out[p] \in Seq(Byte)
      /\ sent[p] \in Seq(Frames[p]) /\ got[p] \in Seq(Frames[p])
      /\ Len(got[p]) <= Len(sent[p])
      /\ \A i \in 1 .. Len(got[p]) : got[p][i] = sent[p][i]
      /\ current[p] \in Frames[p]
  BY <1>2 DEF PipeInv
<1>4. a \in Seq(Byte)
  BY <1>3, ConcatProperties
<1> HIDE DEF a
<1>5. /\ h \in Seq(Byte) /\ t \in Seq(Byte) /\ Len(t) < Len(out[p])
      /\ (a \o h) \o t = a \o out[p] /\ pipe[p] \o h \in Seq(Byte)
  BY <1>3, <1>4, BytesMoved
<1> HIDE DEF h, t
<1>6. /\ pipe'[p] = pipe[p] \o h /\ out'[p] = t /\ in'[p] = in[p] /\ got'[p] = got[p]
      /\ current'[p] = current[p] /\ status'[p] = status[p] /\ (Reading(p)' <=> Reading(p))
      /\ t = <<>> => sent'[p] = Append(sent[p], current[p]) /\ ~Writing(p)'
      /\ t # <<>> => sent'[p] = sent[p] /\ Writing(p)'
  BY <1>2, Peers DEF Reading, Writing
<1>7. Offered(p)' = Offered(p)
  BY <1>2, <1>6 DEF Offered
<1>8. Flow(p)' = Flow(p)
  <2>1. in[p] \o (pipe[p] \o h) = a \o h
    <3>1. (in[p] \o pipe[p]) \o h = in[p] \o (pipe[p] \o h)
      BY <1>3, <1>5, Associative
    <3> QED BY <3>1 DEF a
  <2>2. Flow(p)' = (in[p] \o (pipe[p] \o h)) \o t
    BY <1>6 DEF Flow
  <2>3. Flow(p) = a \o out[p]
    BY DEF Flow, a
  <2> QED BY <1>5, <2>1, <2>2, <2>3
<1>9. ASSUME Peer(p)' \in up', status'[p] = "open"
      PROVE  Transfer(p)'
  <2>1. Transfer(p)
    BY <1>2, <1>6, <1>9 DEF PipeInv
  <2>2. Len(t) \in Nat /\ Len(out[p]) \in Nat /\ Size(current[p]) \in Nat
    BY <1>3, <1>5, EncodeIs
  <2>3. Len(t) <= Size(current[p])
    BY <1>2, <1>5, <2>1, <2>2 DEF Transfer
  <2>4. IsStream(Flow(p)', Offered(p)', Len(got'[p]))
    BY <1>6, <1>7, <1>8, <2>1 DEF Transfer
  <2> QED BY <1>6, <2>1, <2>3, <2>4 DEF Transfer
<1>10. /\ sent'[p] \in Seq(Frames[p]) /\ Len(got[p]) <= Len(sent'[p])
       /\ \A i \in 1 .. Len(got[p]) : got[p][i] = sent'[p][i]
  <2>1. CASE t # <<>>
    BY <1>3, <1>6, <2>1
  <2>2. CASE t = <<>>
    <3> DEFINE u == Append(sent[p], current[p])
    <3>1. /\ u \in Seq(Frames[p]) /\ Len(u) = Len(sent[p]) + 1
          /\ \A i \in 1 .. Len(sent[p]) : u[i] = sent[p][i]
      BY <1>3, AppendProperties
    <3>2. Len(got[p]) \in Nat /\ Len(sent[p]) \in Nat
      BY <1>3
    <3>3. sent'[p] = u
      BY <1>6, <2>2
    <3> HIDE DEF u
    <3>4. \A i \in 1 .. Len(got[p]) : i \in 1 .. Len(sent[p])
      BY <1>3, <3>2
    <3> QED BY <1>3, <3>1, <3>2, <3>3, <3>4
  <2> QED BY <2>1, <2>2
<1>11. PipeInv(p)'
  BY <1>2, <1>3, <1>5, <1>6, <1>9, <1>10 DEF PipeInv
<1>12. ChannelStep(p)
  BY <1>3, <1>6 DEF ChannelStep
<1> QED
  BY <1>11, <1>12

\* p reads the pipe of w.
LEMMA read_fullCorrect ==
  ASSUME NEW w \in Proc, NEW p \in Proc, w # p,
         PipesTypeOK, PipeInv(w), read_full(p)
  PROVE  PipeInv(w)' /\ ChannelStep(w)
<1> USE DEF PipesTypeOK
<1>0. w = Peer(p) /\ p = Peer(w)
  BY DEF Proc, Peer, Main, Child
<1>1. PICK k \in 1 .. Len(pipe[w]) :
        /\ pipe' = [pipe EXCEPT ![w] = SubSeq(@, k + 1, Len(@))]
        /\ Received(p, in[w] \o SubSeq(pipe[w], 1, k))
        /\ in' = [in EXCEPT ![w] = IF doing'[p] = "idle" THEN <<>>
                                   ELSE in[w] \o SubSeq(pipe[w], 1, k)]
  BY <1>0 DEF read_full
<1> DEFINE b == in[w] \o SubSeq(pipe[w], 1, k)
           r == SubSeq(pipe[w], k + 1, Len(pipe[w]))
<1>2. /\ p \in up /\ doing[p] = "read" /\ Received(p, b)
      /\ pipe'[w] = r /\ out' = out /\ current' = current /\ sent' = sent
      /\ in'[w] = IF doing'[p] = "idle" THEN <<>> ELSE b
  BY <1>0, <1>1 DEF read_full
<1>3. /\ in[w] \in Seq(Byte) /\ pipe[w] \in Seq(Byte) /\ out[w] \in Seq(Byte)
      /\ sent[w] \in Seq(Frames[w]) /\ got[w] \in Seq(Frames[w])
      /\ Len(got[w]) <= Len(sent[w])
      /\ \A i \in 1 .. Len(got[w]) : got[w][i] = sent[w][i]
      /\ Writing(w) => current[w] \in Frames[w]
      /\ status[w] = "open" /\ Transfer(w)
  BY <1>0, <1>2 DEF PipeInv, Reading
<1>4. /\ b \in Seq(Byte) /\ r \in Seq(Byte) /\ b # <<>> /\ b \o r = in[w] \o pipe[w]
  <2>1. /\ in[w] \o SubSeq(pipe[w], 1, k) \in Seq(Byte)
        /\ SubSeq(pipe[w], k + 1, Len(pipe[w])) \in Seq(Byte)
        /\ in[w] \o SubSeq(pipe[w], 1, k) # <<>>
        /\ (in[w] \o SubSeq(pipe[w], 1, k)) \o SubSeq(pipe[w], k + 1, Len(pipe[w]))
             = in[w] \o pipe[w]
    <3> HIDE DEF b, r
    <3> QED BY <1>3, BytesMovedBy
  <2> QED BY <2>1 DEF b, r
<1> HIDE DEF b, r
<1>5. Flow(w) = (b \o r) \o out[w] /\ (b \o r) \o out[w] = b \o (r \o out[w])
  <2>1. (b \o r) \o out[w] = b \o (r \o out[w])
    BY <1>3, <1>4, Associative
  <2>2. Flow(w) = (b \o r) \o out[w]
    BY <1>4, Zenon DEF Flow
  <2> QED BY <2>1, <2>2
<1>6. CASE /\ Len(b) >= Header => PayloadLen(b) <= MaxPayload /\ Len(b) < Header + PayloadLen(b)
           /\ UNCHANGED <<up, doing, got, status>>
  <2>1. in'[w] = b /\ pipe'[w] = r /\ (Writing(w)' <=> Writing(w)) /\ (Reading(w)' <=> Reading(w))
        /\ Reading(w)
    BY <1>0, <1>2, <1>6 DEF Writing, Reading
  <2>2. Flow(w)' = Flow(w) /\ Offered(w)' = Offered(w)
    BY <1>2, <1>5, <2>1 DEF Flow, Offered
  <2>3. Transfer(w)'
    BY <1>2, <1>3, <1>6, <2>1, <2>2 DEF Transfer
  <2>4. PipeInv(w)'
    BY <1>2, <1>3, <1>4, <1>6, <2>1, <2>3 DEF PipeInv
  <2> QED BY <1>2, <1>6, <2>4 DEF ChannelStep
<1>7. CASE ReadEnds(p, "error")
  <2>1. /\ status'[w] = "error" /\ doing'[p] = "idle" /\ doing'[w] = doing[w] /\ got' = got
    BY <1>0, <1>7 DEF ReadEnds
  <2>2. in'[w] = <<>> /\ in'[w] \in Seq(Byte) /\ ~Reading(w)' /\ (Writing(w)' <=> Writing(w))
    <3>1. in'[w] = <<>>
      BY <1>2, <2>1
    <3>2. ~Reading(w)' /\ (Writing(w)' <=> Writing(w))
      BY <1>0, <2>1 DEF Reading, Writing
    <3> QED BY <3>1, <3>2, EmptySeq
  <2>3. PipeInv(w)'
    BY <1>2, <1>3, <1>4, <2>1, <2>2 DEF PipeInv
  <2> QED BY <1>2, <1>3, <2>1, <2>3 DEF ChannelStep
<1>8. CASE /\ Len(b) >= Header /\ Len(b) = Header + PayloadLen(b)
           /\ got' = [got EXCEPT ![w] = Append(@, DecodeFrame(b))]
           /\ doing' = [doing EXCEPT ![p] = "idle"]
           /\ UNCHANGED <<up, status>>
  <2> DEFINE c  == r \o out[w]
             fs == Offered(w)
             g  == Len(got[w])
  <2>1. /\ got'[w] = Append(got[w], DecodeFrame(b)) /\ doing'[p] = "idle" /\ doing'[w] = doing[w]
        /\ in'[w] = <<>> /\ in'[w] \in Seq(Byte)
    <3>1. /\ got'[w] = Append(got[w], DecodeFrame(b)) /\ doing'[p] = "idle" /\ doing'[w] = doing[w]
      BY <1>8
    <3>2. in'[w] = <<>>
      BY <1>2, <3>1
    <3> QED BY <3>1, <3>2, EmptySeq
  <2>2. ~Reading(w)' /\ (Writing(w)' <=> Writing(w)) /\ Offered(w)' = fs
    BY <1>0, <1>2, <2>1 DEF Reading, Writing, Offered
  <2>3. c \in Seq(Byte) /\ Len(c) = Len(r) + Len(out[w])
    BY <1>3, <1>4, ConcatProperties
  <2>4. /\ fs \in Seq(Frames[w])
        /\ Writing(w) => Len(fs) = Len(sent[w]) + 1
        /\ ~Writing(w) => Len(fs) = Len(sent[w])
        /\ \A i \in 1 .. Len(sent[w]) : fs[i] = sent[w][i]
    BY <1>3, OfferedIs
  <2>5. IsStream(b \o c, fs, g)
    BY <1>3, <1>5 DEF Transfer
  <2>6. Flow(w)' = c
    <3>1. <<>> \o r = r
      BY <1>4, ConcatEmptySeq
    <3> QED BY <1>2, <2>1, <3>1 DEF Flow
  <2>7. g \in Nat /\ Len(sent[w]) \in Nat /\ Len(r) \in Nat /\ Len(out[w]) \in Nat
    BY <1>3, <1>4
  <2>8. Writing(w) => Len(out[w]) > 0
    BY <1>3, <2>7 DEF Transfer
  <2> HIDE DEF c, fs, g
  <2>9. /\ g + 1 \in 1 .. Len(fs) /\ DecodeFrame(b) = fs[g + 1] /\ IsStream(c, fs, g + 1)
        /\ g + 1 = Len(fs) => c = <<>>
    <3>1. Header <= Len(b)
      BY <1>4, <1>8, Shifts
    <3> QED BY <1>4, <1>8, <2>3, <2>4, <2>5, <3>1, FrameComplete
  <2>10. g + 1 \in 1 .. Len(sent[w])
    <3>1. CASE ~Writing(w)
      BY <2>4, <2>7, <2>9, <3>1
    <3>2. CASE Writing(w)
      <4>1. c # <<>>
        BY <2>3, <2>7, <2>8, <3>2
      <4> QED BY <2>4, <2>7, <2>9, <3>2, <4>1
    <3> QED BY <3>1, <3>2
  <2>11. DecodeFrame(b) = sent[w][g + 1] /\ sent[w][g + 1] \in Frames[w]
    BY <1>3, <2>4, <2>9, <2>10
  <2> DEFINE u == Append(got[w], sent[w][g + 1])
  <2>12. /\ u \in Seq(Frames[w]) /\ Len(u) = g + 1 /\ u[g + 1] = sent[w][g + 1]
         /\ \A i \in 1 .. g : u[i] = got[w][i]
    <3> DEFINE x == sent[w][g + 1]
    <3>0. x \in Frames[w]
      BY <2>11
    <3> HIDE DEF x
    <3>1. /\ Append(got[w], x) \in Seq(Frames[w])
          /\ Len(Append(got[w], x)) = Len(got[w]) + 1
          /\ \A i \in 1 .. Len(got[w]) : Append(got[w], x)[i] = got[w][i]
          /\ Append(got[w], x)[Len(got[w]) + 1] = x
      BY <1>3, <3>0, FrameAppended
    <3> QED BY <3>1 DEF g, x
  <2>13. got'[w] = u
    BY <2>1, <2>11
  <2> HIDE DEF u
  <2>14. \A i \in 1 .. Len(u) : u[i] = sent[w][i]
    <3>1. \A i \in 1 .. Len(u) : i \in 1 .. g \/ i = g + 1
      BY <2>7, <2>12
    <3> QED BY <1>3, <2>12, <3>1 DEF g
  <2>15. Transfer(w)'
    <3>1. IsStream(Flow(w)', Offered(w)', Len(got'[w]))
      BY <2>2, <2>6, <2>9, <2>12, <2>13
    <3> QED BY <1>2, <1>3, <2>1, <2>2, <3>1 DEF Transfer
  <2>16. PipeInv(w)'
    <3>1. Len(u) <= Len(sent[w])
      BY <2>7, <2>10, <2>12
    <3> QED
      BY <1>2, <1>3, <1>4, <1>8, <2>1, <2>2, <2>12, <2>13, <2>14, <2>15, <3>1 DEF PipeInv
  <2>17. g < Len(sent[w])
    BY <2>7, <2>10
  <2> QED BY <1>2, <1>3, <1>8, <2>13, <2>16, <2>17 DEF ChannelStep, g, u
<1> QED
  BY <1>0, <1>2, <1>6, <1>7, <1>8 DEF Received

\* The end of the pipe is between two frames only if all were returned.
LEMMA ReadEOFCorrect ==
  ASSUME NEW w \in Proc, NEW p \in Proc, w # p,
         PipesTypeOK, PipeInv(w), ReadEOF(p)
  PROVE  PipeInv(w)' /\ ChannelStep(w)
<1> USE DEF PipesTypeOK
<1>0. w = Peer(p) /\ p = Peer(w)
  BY DEF Proc, Peer, Main, Child
<1> DEFINE why == IF in[w] = <<>> THEN "eof" ELSE "error"
<1>1. /\ p \in up /\ doing[p] = "read" /\ pipe[w] = <<>> /\ ReadEnds(p, why)
      /\ out' = out /\ current' = current /\ pipe' = pipe /\ in' = in /\ sent' = sent
  BY <1>0 DEF ReadEOF
<1>2. status'[w] = why /\ doing'[p] = "idle" /\ doing'[w] = doing[w] /\ got' = got
  BY <1>0, <1>1 DEF ReadEnds
<1>3. ~Reading(w)' /\ (Writing(w)' <=> Writing(w)) /\ status'[w] # "open"
  BY <1>0, <1>2 DEF Reading, Writing
<1>4. PipeInv(w)'
  BY <1>0, <1>1, <1>2, <1>3 DEF PipeInv
<1>5. /\ out[w] \in Seq(Byte) /\ sent[w] \in Seq(Frames[w]) /\ got[w] \in Seq(Frames[w])
      /\ Len(got[w]) <= Len(sent[w])
      /\ \A i \in 1 .. Len(got[w]) : got[w][i] = sent[w][i]
      /\ Writing(w) => current[w] \in Frames[w]
      /\ status[w] = "open" /\ Transfer(w)
  BY <1>0, <1>1 DEF PipeInv, Reading
<1>6. ASSUME in[w] = <<>>
      PROVE  got[w] = sent[w]
  <2> DEFINE fs == Offered(w)
             g  == Len(got[w])
  <2>1. Flow(w) = out[w]
    <3>1. <<>> \o <<>> = <<>> /\ <<>> \o out[w] = out[w]
      BY <1>5, EmptySeq, ConcatEmptySeq
    <3> QED BY <1>1, <1>6, <3>1 DEF Flow
  <2>2. IsStream(out[w], fs, g)
    BY <1>5, <2>1 DEF Transfer
  <2>3. /\ fs \in Seq(Frames[w])
        /\ Writing(w) => Len(fs) = Len(sent[w]) + 1 /\ fs[Len(fs)] = current[w]
        /\ ~Writing(w) => Len(fs) = Len(sent[w])
    BY <1>5, OfferedIs
  <2>4. g \in Nat /\ Len(sent[w]) \in Nat /\ Len(out[w]) \in Nat
    BY <1>5
  <2> HIDE DEF fs, g
  <2>5. g < Len(fs) =>
          /\ Size(fs[Len(fs)]) \in Nat /\ Size(fs[Len(fs)]) > 0
          /\ Size(fs[Len(fs)]) <= Len(out[w])
          /\ g + 1 < Len(fs) => Size(fs[Len(fs)]) < Len(out[w])
    BY <1>5, <2>2, <2>3, LastFrame
  <2>6. g = Len(sent[w])
    <3>1. CASE ~Writing(w)
      <4>1. Len(out[w]) = 0
        BY <1>5, <3>1 DEF Transfer
      <4> QED BY <1>5, <2>3, <2>4, <2>5, <3>1, <4>1 DEF g
    <3>2. CASE Writing(w)
      <4>1. Len(out[w]) <= Size(fs[Len(fs)])
        BY <1>5, <2>3, <3>2 DEF Transfer
      <4> QED BY <1>5, <2>3, <2>4, <2>5, <3>2, <4>1 DEF g
    <3> QED BY <3>1, <3>2
  <2> QED BY <1>5, <2>6, SeqEqual DEF g
<1>7. ChannelStep(w)
  BY <1>1, <1>2, <1>5, <1>6 DEF ChannelStep
<1> QED
  BY <1>4, <1>7

\* What the other calls do to the two pipes.
LEMMA OthersCorrect ==
  ASSUME PipesInv, NEW p \in Proc, NEW w \in Proc,
         \/ comm_read(p) \/ Exit(p)
         \/ w = p /\ (read_full(p) \/ ReadEOF(p))
         \/ w # p /\ (comm_write(p) \/ write_full(p) \/ WriteFailed(p))
  PROVE  PipeInv(w)' /\ ChannelStep(w)
<1> USE DEF PipesInv, PipesTypeOK
<1> DEFINE q == Peer(w)
<1>0. q \in Proc /\ q # w /\ (w = p => q # p) /\ (w # p => q = p /\ w = Peer(p))
  BY DEF Proc, Peer, Main, Child
<1> HIDE DEF q
<1>1. /\ up' \subseteq up
      /\ out'[w] = out[w] /\ current'[w] = current[w] /\ pipe'[w] = pipe[w]
      /\ in'[w] = in[w] /\ sent'[w] = sent[w] /\ got'[w] = got[w] /\ status'[w] = status[w]
      /\ doing'[w] = "write" <=> doing[w] = "write"
      /\ doing[q] = "read" => doing'[q] = "read"
      /\ doing'[q] = "read" => status[w] = "open" \/ doing[q] = "read"
  <2>1. CASE comm_read(p)
    <3>1. /\ doing[p] = "idle" /\ status[Peer(p)] = "open"
          /\ doing' = [doing EXCEPT ![p] = "read"]
          /\ UNCHANGED <<up, out, current, pipe, in, sent, got, status>>
      BY <2>1 DEF comm_read
    <3>2. CASE w = p
      BY <1>0, <3>1, <3>2
    <3>3. CASE w # p
      BY <1>0, <3>1, <3>3
    <3> QED BY <3>2, <3>3
  <2>2. CASE Exit(p)
    BY <2>2 DEF Exit
  <2>3. CASE w = p /\ read_full(p)
    <3>1. PICK k \in 1 .. Len(pipe[Peer(p)]) :
            /\ pipe' = [pipe EXCEPT ![Peer(p)] = SubSeq(@, k + 1, Len(@))]
            /\ Received(p, in[Peer(p)] \o SubSeq(pipe[Peer(p)], 1, k))
            /\ in' = [in EXCEPT ![Peer(p)] = IF doing'[p] = "idle" THEN <<>>
                                  ELSE in[Peer(p)] \o SubSeq(pipe[Peer(p)], 1, k)]
      BY <2>3 DEF read_full
    <3>2. /\ Peer(p) # p /\ doing[p] = "read"
          /\ out' = out /\ current' = current /\ sent' = sent
      BY <2>3, Peers DEF read_full
    <3>3. pipe'[w] = pipe[w] /\ in'[w] = in[w]
      BY <2>3, <3>1, <3>2
    <3>4. /\ up' \subseteq up /\ got'[w] = got[w] /\ status'[w] = status[w]
          /\ doing'[w] # "write" /\ doing'[q] = doing[q]
      BY <1>0, <2>3, <3>1, <3>2 DEF Received, ReadEnds
    <3>5. doing[q] = "read" => status[w] = "open"
      BY DEF PipeInv, Reading, q
    <3> QED BY <2>3, <3>2, <3>3, <3>4, <3>5
  <2>4. CASE w = p /\ ReadEOF(p)
    BY <1>0, <2>4 DEF ReadEOF, ReadEnds
  <2>5. CASE w # p /\ comm_write(p)
    BY <1>0, <2>5 DEF comm_write
  <2>6. CASE w # p /\ write_full(p)
    BY <1>0, <2>6 DEF write_full, Written
  <2>7. CASE w # p /\ WriteFailed(p)
    BY <1>0, <2>7 DEF WriteFailed
  <2> QED BY <2>1, <2>2, <2>3, <2>4, <2>5, <2>6, <2>7
<1>2. /\ Writing(w)' <=> Writing(w)
      /\ Reading(w) => Reading(w)'
      /\ Reading(w)' => status[w] = "open"
  <2>1. Reading(w) => status[w] = "open"
    BY DEF PipeInv
  <2> QED BY <1>1, <2>1 DEF Writing, Reading, q
<1> QED
  BY <1>1, <1>2, Kept

LEMMA PipesStep ==
  ASSUME PipesInv, [PipesNext]_pipes
  PROVE  PipesInv' /\ \A w \in Proc : ChannelStep(w)
<1>1. CASE UNCHANGED pipes
  <2>1. ASSUME NEW w \in Proc
        PROVE  PipeInv(w)' /\ ChannelStep(w)
    <3>1. /\ Writing(w)' <=> Writing(w)
          /\ Reading(w)' <=> Reading(w)
          /\ Reading(w) => status[w] = "open"
      BY <1>1 DEF pipes, Writing, Reading, PipesInv, PipeInv
    <3> QED BY <1>1, <3>1, Kept DEF pipes, PipesInv
  <2>2. PipesTypeOK'
    BY <1>1 DEF pipes, PipesInv, PipesTypeOK
  <2> QED BY <2>1, <2>2 DEF PipesInv
<1>2. ASSUME NEW p \in Proc, comm_write(p) \/ comm_read(p) \/ Goes(p) \/ Exit(p)
      PROVE  PipesInv' /\ \A w \in Proc : ChannelStep(w)
  <2>1. PipesTypeOK'
    <3> USE DEF PipesInv, PipesTypeOK
    <3>1. CASE comm_write(p) \/ comm_read(p) \/ Exit(p)
      BY <3>1 DEF comm_write, comm_read, Exit
    <3>2. CASE write_full(p) \/ WriteFailed(p)
      BY <3>2 DEF write_full, Written, WriteFailed
    <3>3. CASE read_full(p) \/ ReadEOF(p)
      BY <3>3 DEF read_full, Received, ReadEOF, ReadEnds
    <3> QED BY <1>2, <3>1, <3>2, <3>3 DEF Goes
  <2>2. ASSUME NEW w \in Proc
        PROVE  PipeInv(w)' /\ ChannelStep(w)
    <3>1. PipesTypeOK /\ PipeInv(w)
      BY DEF PipesInv
    <3>2. CASE w = p
      <4>1. CASE comm_write(p)
        BY <3>1, <3>2, <4>1, comm_writeCorrect
      <4>2. CASE write_full(p)
        BY <3>1, <3>2, <4>2, write_fullCorrect
      <4>3. CASE WriteFailed(p)
        BY <3>1, <3>2, <4>3, WriteFailedCorrect
      <4>4. CASE comm_read(p) \/ Exit(p) \/ read_full(p) \/ ReadEOF(p)
        BY <3>2, <4>4, OthersCorrect
      <4> QED BY <1>2, <4>1, <4>2, <4>3, <4>4 DEF Goes
    <3>3. CASE w # p
      <4>1. CASE read_full(p)
        BY <3>1, <3>3, <4>1, read_fullCorrect
      <4>2. CASE ReadEOF(p)
        BY <3>1, <3>3, <4>2, ReadEOFCorrect
      <4>3. CASE comm_read(p) \/ Exit(p) \/ comm_write(p) \/ write_full(p) \/ WriteFailed(p)
        BY <3>3, <4>3, OthersCorrect
      <4> QED BY <1>2, <4>1, <4>2, <4>3 DEF Goes
    <3> QED BY <3>2, <3>3
  <2> QED BY <2>1, <2>2 DEF PipesInv
<1> QED
  BY <1>1, <1>2 DEF PipesNext

LEMMA PipesStart ==
  ASSUME PipesInit
  PROVE  PipesInv
<1>1. PipesTypeOK
  BY DEF PipesInit, PipesTypeOK
<1>2. ASSUME NEW w \in Proc
      PROVE  PipeInv(w)
  <2>1. /\ in[w] = <<>> /\ pipe[w] = <<>> /\ out[w] = <<>> /\ sent[w] = <<>> /\ got[w] = <<>>
        /\ ~Writing(w) /\ ~Reading(w)
    BY Peers DEF PipesInit, Writing, Reading
  <2>2. <<>> \in Seq(Byte) /\ <<>> \in Seq(Frames[w]) /\ Len(<<>>) = 0 /\ <<>> \o <<>> = <<>>
    BY EmptySeq, ConcatEmptySeq
  <2>3. IsStream(<<>>, <<>>, 0)
    <3> DEFINE e == [k \in 0 .. 0 |-> 0]
    <3>1. Streams(<<>>, <<>>, 0, e)
      BY DEF Streams
    <3> QED BY <3>1 DEF IsStream
  <2>4. Flow(w) = <<>> /\ Offered(w) = <<>>
    BY <2>1, <2>2 DEF Flow, Offered
  <2>5. Transfer(w)
    BY <2>1, <2>2, <2>3, <2>4 DEF Transfer
  <2> QED BY <2>1, <2>2, <2>5 DEF PipeInv
<1> QED
  BY <1>1, <1>2 DEF PipesInv

(***************************************************************************)
(* The bytes that read_full() holds, that are in a pipe and that           *)
(* write_full() has still to write are always whole frames, the ones       *)
(* comm_read() has not returned yet.                                       *)
(***************************************************************************)
THEOREM PipesInvariance == PipesSpec => []PipesInv
<1>1. PipesInv /\ [PipesNext]_pipes => PipesInv'
  BY PipesStep
<1> QED
  BY PipesStart, <1>1, PTL DEF PipesSpec

(***************************************************************************)
(* comm.c keeps its promise on both pipes.                                 *)
(***************************************************************************)
THEOREM FramesKept == PipesSpec => KeepsFrames
<1>1. PipesInit => ToChild!Init /\ ToMain!Init
  BY DEF PipesInit, ToChild!Init, ToMain!Init, Proc
<1>2. PipesInv /\ [PipesNext]_pipes =>
        /\ [ToChild!Send \/ ToChild!Deliver \/ ToChild!End]_<<sent[Main], got[Main], status[Main]>>
        /\ [ToMain!Send \/ ToMain!Deliver \/ ToMain!End]_<<sent[Child], got[Child], status[Child]>>
  <2> SUFFICES ASSUME PipesInv, [PipesNext]_pipes
               PROVE
        /\ [ToChild!Send \/ ToChild!Deliver \/ ToChild!End]_<<sent[Main], got[Main], status[Main]>>
        /\ [ToMain!Send \/ ToMain!Deliver \/ ToMain!End]_<<sent[Child], got[Child], status[Child]>>
    OBVIOUS
  <2>1. ChannelStep(Main) /\ ChannelStep(Child)
    BY PipesStep DEF Proc
  <2> QED
    BY <2>1 DEF ChannelStep, ToChild!Send, ToChild!Deliver, ToChild!End,
                ToMain!Send, ToMain!Deliver, ToMain!End
<1> QED
  BY <1>1, <1>2, PipesInvariance, PTL DEF PipesSpec, KeepsFrames, ToChild!Spec, ToMain!Spec

-----------------------------------------------------------------------------
\* The room in the pipe to the child.

LEMMA StreamBound ==
  ASSUME NEW S \in Nat, NEW w \in Proc, NEW fs \in Seq(Frames[w]),
         NEW b \in Seq(Byte), NEW g, IsStream(b, fs, g),
         \A f \in Frames[w] : Size(f) <= S
  PROVE  g \in 0 .. Len(fs) /\ Len(b) <= (Len(fs) - g) * S
<1>1. PICK e : Streams(b, fs, g, e)
  BY DEF IsStream
<1>2. /\ g \in 0 .. Len(fs) /\ Len(fs) \in Nat
      /\ e \in [g .. Len(fs) -> Nat]
      /\ e[g] = 0 /\ e[Len(fs)] = Len(b)
      /\ \A k \in g + 1 .. Len(fs) : e[k] = e[k - 1] + Size(fs[k])
  BY <1>1 DEF Streams
<1>3. \A k \in g .. Len(fs) : e[k] \in Nat
  BY <1>2
<1> DEFINE T == {k \in g .. Len(fs) : ~(e[k] <= (k - g) * S)}
<1>4. T = {}
  <2> SUFFICES ASSUME T # {} PROVE FALSE
    OBVIOUS
  <2>1. T \in SUBSET Nat
    BY <1>2
  <2>2. PICK x \in T : \A y \in T : x <= y
    <3> HIDE DEF T
    <3> QED BY <2>1, Least
  <2>3. x \in g .. Len(fs) /\ ~(e[x] <= (x - g) * S)
    BY <2>2
  <2>4. x # g
    BY <1>2, <2>3
  <2>5. x - 1 \in g .. Len(fs) /\ x \in g + 1 .. Len(fs)
    BY <1>2, <2>3, <2>4
  <2>6. e[x - 1] <= ((x - 1) - g) * S
    BY <1>2, <2>2, <2>5
  <2>7. e[x] = e[x - 1] + Size(fs[x]) /\ Size(fs[x]) <= S /\ Size(fs[x]) \in Nat
    <3>1. x \in 1 .. Len(fs)
      BY <1>2, <2>5
    <3>2. fs[x] \in Frames[w]
      BY <3>1, ElementOfSeq
    <3> QED BY <1>2, <2>5, <3>2, EncodeIs
  <2>8. ((x - 1) - g) * S + S = (x - g) * S
    <3>1. (x - 1) - g \in Int /\ ((x - 1) - g) + 1 = x - g
      BY <1>2, <2>3
    <3>2. \A a \in Int : a * S + S = (a + 1) * S
      BY SMT
    <3> QED BY <3>1, <3>2
  <2>9. e[x - 1] \in Nat /\ ((x - 1) - g) * S \in Int
    <3>1. \A a \in Int : a * S \in Int
      BY SMT
    <3> QED BY <1>2, <1>3, <2>5, <3>1
  <2> QED BY <2>3, <2>6, <2>7, <2>8, <2>9
<1>5. Len(fs) \in g .. Len(fs)
  BY <1>2
<1> QED
  BY <1>2, <1>4, <1>5

LEMMA CutLengths ==
  \A q, t \in Seq(Byte) : \A k \in 1 .. Len(t) :
    /\ Len(q \o SubSeq(t, 1, k)) + Len(SubSeq(t, k + 1, Len(t))) = Len(q) + Len(t)
    /\ Len(SubSeq(t, k + 1, Len(t))) <= Len(t)
<1> SUFFICES ASSUME NEW q \in Seq(Byte), NEW t \in Seq(Byte), NEW k \in 1 .. Len(t)
             PROVE  /\ Len(q \o SubSeq(t, 1, k)) + Len(SubSeq(t, k + 1, Len(t)))
                         = Len(q) + Len(t)
                    /\ Len(SubSeq(t, k + 1, Len(t))) <= Len(t)
  OBVIOUS
<1>1. SubSeq(t, 1, k) \in Seq(Byte) /\ Len(SubSeq(t, 1, k)) = k
  OBVIOUS
<1>2. Len(SubSeq(t, k + 1, Len(t))) = Len(t) - k
  <2>1. CASE k = Len(t)
    BY <2>1
  <2>2. CASE k < Len(t)
    BY <2>2, SubSeqProperties
  <2> QED BY <2>1, <2>2
<1>3. Len(q \o SubSeq(t, 1, k)) = Len(q) + k
  BY <1>1, ConcatProperties
<1>4. Len(q) \in Nat /\ Len(t) \in Nat /\ k \in Nat
  OBVIOUS
<1> DEFINE l == Len(q \o SubSeq(t, 1, k))
           r == Len(SubSeq(t, k + 1, Len(t)))
<1>5. l = Len(q) + k /\ r = Len(t) - k
  BY <1>2, <1>3
<1> HIDE DEF l, r
<1>6. l + r = Len(q) + Len(t) /\ r <= Len(t)
  BY <1>4, <1>5
<1> QED
  BY <1>6 DEF l, r

\* The bytes main has written or has still to write, and its frames.
ToRead     == Len(pipe[Main]) + Len(out[Main])
FramesMade == Len(Offered(Main))
FramesRead == Len(got[Main])

\* What a step does to them: nothing new comes, except by comm_write().
Shrinks ==
  /\ ToRead' <= ToRead /\ FramesMade' = FramesMade
  /\ \/ FramesRead' = FramesRead
     \/ FramesRead' = FramesRead + 1 /\ status'[Main] = "open"

Grows ==
  /\ \E f \in Frames[Main] : ToRead' = ToRead + Size(f)
  /\ FramesMade' = FramesMade + 1
  /\ FramesRead' = FramesRead
  /\ FramesMade < FramesRead + MainUnread

Fails ==
  Child \notin up' /\ FramesMade' <= FramesMade /\ FramesRead' = FramesRead

LEMMA Lengths ==
  ASSUME PipesInv
  PROVE  /\ pipe[Main] \in Seq(Byte) /\ out[Main] \in Seq(Byte)
         /\ Len(pipe[Main]) \in Nat /\ Len(out[Main]) \in Nat
         /\ Len(sent[Main]) \in Nat /\ Len(got[Main]) \in Nat
         /\ Offered(Main) \in Seq(Frames[Main])
         /\ ToRead \in Nat /\ FramesMade \in Nat /\ FramesRead \in Nat
         /\ FramesMade = IF Writing(Main) THEN Len(sent[Main]) + 1 ELSE Len(sent[Main])
<1>1. PipeInv(Main) /\ Main \in Proc
  BY DEF PipesInv, Proc
<1>2. /\ pipe[Main] \in Seq(Byte) /\ out[Main] \in Seq(Byte)
      /\ sent[Main] \in Seq(Frames[Main]) /\ got[Main] \in Seq(Frames[Main])
      /\ Writing(Main) => current[Main] \in Frames[Main]
  BY <1>1 DEF PipeInv
<1>3. /\ Len(pipe[Main]) \in Nat /\ Len(out[Main]) \in Nat
      /\ Len(sent[Main]) \in Nat /\ Len(got[Main]) \in Nat
  BY <1>2
<1>4. /\ Offered(Main) \in Seq(Frames[Main])
      /\ Writing(Main) => Len(Offered(Main)) = Len(sent[Main]) + 1
      /\ ~Writing(Main) => Len(Offered(Main)) = Len(sent[Main])
  BY <1>1, <1>2, OfferedIs
<1>5. FramesMade = IF Writing(Main) THEN Len(sent[Main]) + 1 ELSE Len(sent[Main])
  <2>1. CASE Writing(Main)
    BY <1>4, <2>1 DEF FramesMade
  <2>2. CASE ~Writing(Main)
    BY <1>4, <2>2 DEF FramesMade
  <2> QED BY <2>1, <2>2
<1>6. ToRead \in Nat /\ FramesMade \in Nat /\ FramesRead \in Nat
  <2>1. ToRead \in Nat
    <3> DEFINE m == Len(pipe[Main])
               n == Len(out[Main])
    <3>1. m \in Nat /\ n \in Nat
      BY <1>3
    <3>2. ToRead = m + n
      BY DEF ToRead
    <3> HIDE DEF m, n
    <3> QED BY <3>1, <3>2
  <2>2. FramesMade \in Nat
    BY <1>3, <1>4 DEF FramesMade
  <2>3. FramesRead \in Nat
    BY <1>3 DEF FramesRead
  <2> QED BY <2>1, <2>2, <2>3
<1> QED
  BY <1>2, <1>3, <1>4, <1>5, <1>6

\* A step that leaves main's side of its pipe alone.
LEMMA Untouched ==
  ASSUME PipesInv, out'[Main] = out[Main], pipe'[Main] = pipe[Main],
         sent'[Main] = sent[Main], got'[Main] = got[Main],
         current'[Main] = current[Main], Writing(Main)' <=> Writing(Main)
  PROVE  Shrinks
<1>1. ToRead' = ToRead /\ FramesMade' = FramesMade /\ FramesRead' = FramesRead
  BY DEF ToRead, FramesMade, FramesRead, Offered
<1> QED
  BY <1>1, Lengths DEF Shrinks

LEMMA MainMoves ==
  ASSUME PipesInv, ~Writing(Main) => out[Main] = <<>>, NEW p \in Proc,
         comm_write(p) \/ comm_read(p) \/ Goes(p) \/ Exit(p)
  PROVE  Shrinks \/ Grows \/ Fails
<1> USE DEF PipesInv, PipesTypeOK
<1>1. Main \in Proc /\ Child \in Proc /\ Main # Child /\ Peer(Main) = Child
      /\ Peer(Child) = Main /\ (p = Main \/ p = Child)
  BY DEF Proc, Peer, Main, Child
<1>2. CASE comm_write(p)
  <2>1. CASE p = Main
    <3>1. PICK f \in Frames[Main] : /\ current' = [current EXCEPT ![Main] = f]
                                   /\ out' = [out EXCEPT ![Main] = Encode(f)]
      BY <1>2, <2>1 DEF comm_write
    <3>2. /\ ~Writing(Main) /\ Writing(Main)' /\ pipe' = pipe /\ sent' = sent /\ got' = got
          /\ Len(sent[Main]) - Len(got[Main]) < MainUnread
          /\ Child \in up => Child \in up'
      BY <1>1, <1>2, <2>1 DEF comm_write, Writing
    <3>3. Len(Encode(f)) = Size(f) /\ Size(f) \in Nat
      BY <1>1, EncodeIs
    <3>4. Len(Offered(Main)') = Len(sent[Main]) + 1
      <4>1. Offered(Main)' = Append(sent[Main], f)
        BY <1>1, <3>1, <3>2 DEF Offered
      <4>2. sent[Main] \in Seq(Frames[Main])
        BY <1>1 DEF PipeInv
      <4> QED BY <1>1, <4>1, <4>2, FrameAppended
    <3>5. ToRead' = ToRead + Size(f)
      <4>1. out'[Main] = Encode(f)
        BY <1>1, <3>1
      <4>2. Len(out[Main]) = 0
        BY <3>2
      <4>3. pipe'[Main] = pipe[Main]
        BY <3>2
      <4>4. ToRead' = Len(pipe[Main]) + Size(f)
        BY <3>3, <4>1, <4>3 DEF ToRead
      <4>5. ToRead = Len(pipe[Main])
        BY <4>2, Lengths DEF ToRead
      <4> QED BY <4>4, <4>5
    <3>6. FramesMade' = FramesMade + 1 /\ FramesRead' = FramesRead
          /\ FramesMade < FramesRead + MainUnread
      <4>1. FramesMade = Len(sent[Main]) /\ FramesMade' = Len(sent[Main]) + 1
            /\ FramesRead = Len(got[Main]) /\ FramesRead' = Len(got[Main])
        BY <3>2, <3>4, Lengths DEF FramesMade, FramesRead
      <4>2. Len(sent[Main]) \in Nat /\ Len(got[Main]) \in Nat /\ MainUnread \in Nat
        BY Lengths, CommFrameAssumption
      <4> QED BY <3>2, <4>1, <4>2
    <3> QED BY <3>5, <3>6 DEF Grows
  <2>2. CASE p = Child
    BY <1>1, <1>2, <2>2, Untouched DEF comm_write, Writing
  <2> QED BY <1>1, <2>1, <2>2
<1>3. CASE comm_read(p)
  <2>1. Writing(Main)' <=> Writing(Main)
    BY <1>1, <1>3 DEF comm_read, Writing
  <2> QED BY <1>3, <2>1, Untouched DEF comm_read
<1>4. CASE Exit(p)
  <2>1. Writing(Main)' <=> Writing(Main)
    BY <1>4 DEF Exit, Writing
  <2> QED BY <1>4, <2>1, Untouched DEF Exit
<1>5. CASE write_full(p)
  <2>1. CASE p = Main
    <3>1. PICK k \in 1 .. Len(out[Main]) :
            Written(Main, k, SubSeq(out[Main], k + 1, Len(out[Main])))
      BY <1>5, <2>1 DEF write_full
    <3> DEFINE h == SubSeq(out[Main], 1, k)
               t == SubSeq(out[Main], k + 1, Len(out[Main]))
    <3> HIDE DEF h, t
    <3>6. Written(Main, k, t) /\ doing[Main] = "write"
      BY <1>5, <2>1, <3>1 DEF write_full, t
    <3>7. /\ got' = got /\ current' = current
          /\ pipe' = [pipe EXCEPT ![Main] = @ \o h] /\ out' = [out EXCEPT ![Main] = t]
      BY <3>6 DEF Written, h
    <3>8. ASSUME t = <<>>
          PROVE  sent'[Main] = Append(sent[Main], current[Main]) /\ ~Writing(Main)'
      <4>1. /\ sent' = [sent EXCEPT ![Main] = Append(@, current[Main])]
            /\ doing' = [doing EXCEPT ![Main] = "idle"]
        BY <3>6, <3>8 DEF Written
      <4> QED BY <1>1, <4>1 DEF Writing
    <3>9. ASSUME t # <<>>
          PROVE  sent' = sent /\ Writing(Main)'
      <4>1. sent' = sent /\ doing' = doing
        BY <3>6, <3>9 DEF Written
      <4> QED BY <3>6, <4>1 DEF Writing
    <3>2. /\ Writing(Main) /\ got' = got /\ current' = current
          /\ pipe'[Main] = pipe[Main] \o h /\ out'[Main] = t
          /\ \/ sent'[Main] = Append(sent[Main], current[Main]) /\ ~Writing(Main)'
             \/ sent' = sent /\ Writing(Main)'
      BY <1>1, <3>6, <3>7, <3>8, <3>9 DEF Writing
    <3>3. ToRead' = ToRead
      <4>1. Len(pipe[Main] \o h) + Len(t) = Len(pipe[Main]) + Len(out[Main])
        BY Lengths, CutLengths DEF h, t
      <4> QED BY <3>2, <4>1 DEF ToRead
    <3>4. Offered(Main)' = Offered(Main)
      BY <3>2 DEF Offered
    <3>5. FramesMade' = FramesMade /\ FramesRead' = FramesRead
      BY <3>2, <3>4 DEF FramesMade, FramesRead
    <3> QED BY <3>3, <3>5, Lengths DEF Shrinks
  <2>2. CASE p = Child
    <3>1. /\ Writing(Main)' <=> Writing(Main)
          /\ out'[Main] = out[Main] /\ pipe'[Main] = pipe[Main]
          /\ sent'[Main] = sent[Main] /\ got' = got /\ current' = current
      BY <1>1, <1>5, <2>2 DEF write_full, Written, Writing
    <3> QED BY <3>1, Untouched
  <2> QED BY <1>1, <2>1, <2>2
<1>6. CASE WriteFailed(p)
  <2>1. CASE p = Main
    <3>1. /\ Writing(Main) /\ ~Writing(Main)' /\ sent' = sent /\ got' = got
          /\ Child \notin up'
      BY <1>1, <1>6, <2>1 DEF WriteFailed, Writing
    <3>2. FramesMade' = Len(sent[Main])
      BY <3>1 DEF FramesMade, Offered
    <3>3. FramesMade = Len(sent[Main]) + 1 /\ Len(sent[Main]) \in Nat
      BY <3>1, Lengths
    <3>4. FramesMade' <= FramesMade
      BY <3>2, <3>3
    <3> QED BY <3>1, <3>4 DEF Fails, FramesRead
  <2>2. CASE p = Child
    <3>1. /\ Writing(Main)' <=> Writing(Main)
          /\ out'[Main] = out[Main] /\ pipe' = pipe
          /\ sent' = sent /\ got' = got /\ current' = current
      BY <1>1, <1>6, <2>2 DEF WriteFailed, Writing
    <3> QED BY <3>1, Untouched
  <2> QED BY <1>1, <2>1, <2>2
<1>7. CASE ReadEOF(p)
  <2>1. /\ Writing(Main)' <=> Writing(Main)
        /\ out' = out /\ pipe' = pipe /\ sent' = sent /\ got' = got /\ current' = current
    BY <1>1, <1>7 DEF ReadEOF, ReadEnds, Writing
  <2> QED BY <2>1, Untouched
<1>8. CASE read_full(p)
  <2>1. /\ Writing(Main)' <=> Writing(Main)
        /\ out' = out /\ sent' = sent /\ current' = current
    BY <1>1, <1>8 DEF read_full, Received, ReadEnds, Writing
  <2>2. CASE p = Main
    <3>1. pipe'[Main] = pipe[Main] /\ got'[Main] = got[Main]
      BY <1>1, <1>8, <2>2 DEF read_full, Received, ReadEnds
    <3> QED BY <2>1, <3>1, Untouched
  <2>3. CASE p = Child
    <3>1. PICK k \in 1 .. Len(pipe[Main]) :
            LET b == in[Main] \o SubSeq(pipe[Main], 1, k) IN
            /\ pipe' = [pipe EXCEPT ![Main] = SubSeq(@, k + 1, Len(@))]
            /\ Received(Child, b)
      BY <1>1, <1>8, <2>3 DEF read_full
    <3> DEFINE b == in[Main] \o SubSeq(pipe[Main], 1, k)
               t == SubSeq(pipe[Main], k + 1, Len(pipe[Main]))
    <3>2. pipe'[Main] = t
      BY <1>1, <3>1
    <3>3. Len(t) <= Len(pipe[Main])
      BY Lengths, CutLengths
    <3>4. Reading(Main) /\ status[Main] = "open"
      BY <1>1, <1>8, <2>3 DEF read_full, Reading, PipeInv
    <3>5. \/ got'[Main] = got[Main]
          \/ status' = status /\ \E f : got'[Main] = Append(got[Main], f)
      <4>1. Received(Child, b)
        BY <3>1
      <4> HIDE DEF b
      <4>2. \/ got' = got
            \/ /\ got' = [got EXCEPT ![Main] = Append(@, DecodeFrame(b))]
               /\ status' = status
        BY <1>1, <4>1 DEF Received, ReadEnds
      <4>3. got' # got => got'[Main] = Append(got[Main], DecodeFrame(b))
        BY <1>1, <4>2
      <4> QED BY <4>2, <4>3
    <3>6. ToRead' <= ToRead
      <4>1. ToRead' = Len(t) + Len(out[Main])
        BY <2>1, <3>2 DEF ToRead
      <4>2. Len(t) \in Nat
        BY Lengths
      <4> HIDE DEF t
      <4>3. Len(pipe[Main]) \in Nat /\ Len(out[Main]) \in Nat
        BY Lengths
      <4>4. Len(t) + Len(out[Main]) <= Len(pipe[Main]) + Len(out[Main])
        BY <3>3, <4>2, <4>3
      <4> QED BY <4>1, <4>4 DEF ToRead
    <3>7. FramesMade' = FramesMade
      BY <2>1 DEF FramesMade, Offered
    <3>8. \/ FramesRead' = FramesRead
          \/ FramesRead' = FramesRead + 1 /\ status'[Main] = "open"
      <4>1. \A f : Len(Append(got[Main], f)) = Len(got[Main]) + 1
        <5>1. got[Main] \in Seq(Frames[Main])
          BY <1>1 DEF PipeInv
        <5> QED BY <5>1
      <4> QED BY <3>4, <3>5, <4>1 DEF FramesRead
    <3> QED BY <3>6, <3>7, <3>8 DEF Shrinks
  <2> QED BY <1>1, <2>2, <2>3
<1> QED
  BY <1>2, <1>3, <1>4, <1>5, <1>6, <1>7, <1>8 DEF Goes

\* The inductive invariant: the bytes are at most those of as many frames of
\* S bytes as the child has not read.  While the child reads, PipesInv says
\* so; here it is what main still writes once comm_read() has failed.
RoomInv(S) ==
  /\ ~Writing(Main) => out[Main] = <<>>
  /\ FramesMade <= FramesRead + MainUnread
  /\ Child \in up /\ status[Main] # "open" =>
       ToRead <= (FramesMade - FramesRead) * S

LEMMA FlowBound ==
  ASSUME PipesInv, Child \in up, status[Main] = "open",
         NEW S \in Nat, \A f \in Frames[Main] : Size(f) <= S
  PROVE  ToRead <= (FramesMade - FramesRead) * S
<1>1. Main \in Proc /\ PipeInv(Main) /\ Peer(Main) = Child
  BY DEF PipesInv, Proc, Peer, Main
<1>2. IsStream(Flow(Main), Offered(Main), Len(got[Main]))
  BY <1>1 DEF PipeInv, Transfer
<1> DEFINE a == in[Main] \o pipe[Main]
           b == Flow(Main)
<1>3. in[Main] \in Seq(Byte) /\ pipe[Main] \in Seq(Byte) /\ out[Main] \in Seq(Byte)
  BY <1>1 DEF PipeInv
<1>4. a \in Seq(Byte) /\ Len(a) = Len(in[Main]) + Len(pipe[Main])
  BY <1>3, ConcatProperties
<1>5. b \in Seq(Byte) /\ Len(b) = Len(a) + Len(out[Main])
  <2>1. b = a \o out[Main]
    BY DEF Flow
  <2> HIDE DEF a, b
  <2> QED BY <1>3, <1>4, <2>1, ConcatProperties
<1>6. Len(b) <= (FramesMade - FramesRead) * S
  <2> HIDE DEF b
  <2>1. Offered(Main) \in Seq(Frames[Main])
    BY Lengths
  <2>2. \A fs \in Seq(Frames[Main]) : \A g :
          IsStream(b, fs, g) => Len(b) <= (Len(fs) - g) * S
    BY <1>1, <1>5, StreamBound
  <2>3. Len(b) <= (Len(Offered(Main)) - Len(got[Main])) * S
    BY <1>2, <2>1, <2>2 DEF b
  <2> QED BY <2>3 DEF FramesMade, FramesRead
<1>7. ToRead <= Len(b)
  <2> DEFINE l == Len(in[Main])
             m == Len(pipe[Main])
             n == Len(out[Main])
  <2>1. l \in Nat /\ m \in Nat /\ n \in Nat
    BY <1>3
  <2>2. Len(b) = (l + m) + n /\ ToRead = m + n
    BY <1>4, <1>5 DEF ToRead
  <2> HIDE DEF l, m, n, b
  <2> QED BY <2>1, <2>2
<1>8. Len(b) \in Nat /\ ToRead \in Nat /\ (FramesMade - FramesRead) * S \in Int
  <2>1. \A i \in Int : i * S \in Int
    BY SMT
  <2>2. FramesMade \in Nat /\ FramesRead \in Nat /\ ToRead \in Nat
    BY Lengths
  <2>3. FramesMade - FramesRead \in Int
    BY <2>2
  <2>4. Len(b) \in Nat
    <3> HIDE DEF b
    <3>1. b \in Seq(Byte)
      BY <1>5
    <3> QED BY <3>1, LenProperties, Zenon
  <2> QED BY <2>1, <2>2, <2>3, <2>4
<1> HIDE DEF b
<1> QED
  BY <1>6, <1>7, <1>8

LEMMA QuietStep ==
  ASSUME PipesInv, ~Writing(Main) => out[Main] = <<>>, [PipesNext]_pipes
  PROVE  ~Writing(Main)' => out'[Main] = <<>>
<1> USE DEF PipesInv, PipesTypeOK
<1>1. Main \in Proc /\ Child \in Proc /\ Main # Child
  BY DEF Proc, Main, Child
<1>2. CASE UNCHANGED pipes
  BY <1>2 DEF pipes, Writing
<1>3. ASSUME NEW p \in Proc, comm_write(p) \/ comm_read(p) \/ Goes(p) \/ Exit(p)
      PROVE  ~Writing(Main)' => out'[Main] = <<>>
  <2>1. CASE comm_write(p)
    BY <1>1, <2>1 DEF comm_write, Writing
  <2>2. CASE comm_read(p) \/ Exit(p)
    BY <1>1, <2>2 DEF comm_read, Exit, Writing
  <2>3. CASE write_full(p)
    <3>1. PICK k \in 1 .. Len(out[p]) :
            Written(p, k, SubSeq(out[p], k + 1, Len(out[p])))
      BY <2>3 DEF write_full
    <3> DEFINE t == SubSeq(out[p], k + 1, Len(out[p]))
    <3> HIDE DEF t
    <3>2. /\ out' = [out EXCEPT ![p] = t]
          /\ t = <<>> \/ doing' = doing
          /\ t = <<>> => doing' = [doing EXCEPT ![p] = "idle"]
      BY <3>1 DEF Written, t
    <3>3. doing[p] = "write"
      BY <2>3 DEF write_full
    <3> QED BY <1>1, <3>2, <3>3 DEF Writing
  <2>4. CASE WriteFailed(p)
    BY <1>1, <2>4 DEF WriteFailed, Writing
  <2>5. CASE ReadEOF(p)
    BY <1>1, <2>5 DEF ReadEOF, ReadEnds, Writing
  <2>6. CASE read_full(p)
    <3>1. /\ out' = out /\ doing[p] = "read"
          /\ doing' = doing \/ doing' = [doing EXCEPT ![p] = "idle"]
      BY <2>6 DEF read_full, Received, ReadEnds
    <3> QED BY <1>1, <3>1 DEF Writing
  <2> QED BY <1>3, <2>1, <2>2, <2>3, <2>4, <2>5, <2>6 DEF Goes
<1> QED
  BY <1>2, <1>3 DEF PipesNext

\* No process is restarted.
LEMMA UpShrinks ==
  [PipesNext]_pipes => up' \subseteq up
BY DEF PipesNext, pipes, comm_write, comm_read, Goes, write_full, Written,
       WriteFailed, read_full, Received, ReadEOF, ReadEnds, Exit

LEMMA LengthsHold ==
  PipesInv => ToRead \in Nat /\ FramesMade \in Nat /\ FramesRead \in Nat
BY Lengths

\* One frame more takes at most S bytes more.
LEMMA OneMoreFrame ==
  ASSUME NEW S \in Nat, NEW m \in Nat, NEW r \in Nat, NEW b \in Nat, NEW z \in Nat,
         b <= (m - r) * S, z <= S
  PROVE  b + z <= ((m + 1) - r) * S
<1>1. m - r \in Int /\ (m - r) + 1 = (m + 1) - r
  OBVIOUS
<1>2. \A i \in Int : i * S \in Int /\ i * S + S = (i + 1) * S
  BY SMT
<1> DEFINE q == (m - r) * S
<1>3. q \in Int /\ q + S = ((m + 1) - r) * S
  BY <1>1, <1>2
<1>4. b <= q
  OBVIOUS
<1> HIDE DEF q
<1>5. b + z <= q + S
  BY <1>3, <1>4
<1> QED
  BY <1>3, <1>5

LEMMA RoomStep ==
  ASSUME NEW S \in Nat, \A f \in Frames[Main] : Size(f) <= S,
         PipesInv, RoomInv(S), [PipesNext]_pipes
  PROVE  RoomInv(S)'
<1>1. PipesInv'
  BY PipesStep
<1>2. ~Writing(Main)' => out'[Main] = <<>>
  BY QuietStep DEF RoomInv
<1>3. Shrinks \/ Grows \/ Fails
  <2>1. CASE UNCHANGED pipes
    <3>1. Writing(Main)' <=> Writing(Main)
      BY <2>1 DEF pipes, Writing
    <3> QED BY <2>1, <3>1, Untouched DEF pipes
  <2>2. CASE PipesNext
    BY <2>2, MainMoves DEF PipesNext, RoomInv
  <2> QED BY <2>1, <2>2
<1>4. (PipesInv => ToRead \in Nat /\ FramesMade \in Nat /\ FramesRead \in Nat)'
  BY LengthsHold, PTL
<1>5. /\ ToRead \in Nat /\ FramesMade \in Nat /\ FramesRead \in Nat
      /\ ToRead' \in Nat /\ FramesMade' \in Nat /\ FramesRead' \in Nat
      /\ MainUnread \in Nat
  BY <1>1, <1>4, LengthsHold, CommFrameAssumption
<1>6. FramesMade' <= FramesRead' + MainUnread
  <2>1. FramesMade <= FramesRead + MainUnread
    BY DEF RoomInv
  <2>2. CASE Shrinks
    <3>1. /\ FramesMade' = FramesMade
          /\ FramesRead' = FramesRead \/ FramesRead' = FramesRead + 1
      BY <2>2 DEF Shrinks
    <3>2. CASE FramesRead' = FramesRead
      BY <2>1, <3>1, <3>2
    <3>3. CASE FramesRead' = FramesRead + 1
      <4>1. FramesMade <= (FramesRead + 1) + MainUnread
        BY <1>5, <2>1
      <4> QED BY <3>1, <3>3, <4>1
    <3> QED BY <3>1, <3>2, <3>3
  <2>3. CASE Grows
    <3>1. /\ FramesMade' = FramesMade + 1 /\ FramesRead' = FramesRead
          /\ FramesMade < FramesRead + MainUnread
      BY <2>3 DEF Grows
    <3> QED BY <1>5, <3>1
  <2>4. CASE Fails
    <3>1. FramesMade' <= FramesMade /\ FramesRead' = FramesRead
      BY <2>4 DEF Fails
    <3> QED BY <1>5, <2>1, <3>1
  <2> QED BY <1>3, <2>2, <2>3, <2>4
<1>7. ASSUME Child \in up', status'[Main] # "open"
      PROVE  ToRead' <= (FramesMade' - FramesRead') * S
  <2>1. Child \in up
    BY <1>7, UpShrinks
  <2>2. ToRead <= (FramesMade - FramesRead) * S
    <3>1. CASE status[Main] = "open"
      BY <2>1, <3>1, FlowBound
    <3>2. CASE status[Main] # "open"
      BY <2>1, <3>2 DEF RoomInv
    <3> QED BY <3>1, <3>2
  <2>3. CASE Shrinks
    <3>1. /\ ToRead' <= ToRead /\ FramesMade' = FramesMade
          /\ FramesRead' = FramesRead
      BY <1>7, <2>3 DEF Shrinks
    <3>2. \A i \in Int : i * S \in Int
      BY SMT
    <3>3. FramesMade - FramesRead \in Int
      BY <1>5
    <3> DEFINE q == (FramesMade - FramesRead) * S
    <3>4. q \in Int /\ ToRead <= q
      BY <2>2, <3>2, <3>3
    <3>5. (FramesMade' - FramesRead') * S = q
      BY <3>1
    <3> HIDE DEF q
    <3> QED BY <1>5, <3>1, <3>4, <3>5
  <2>4. CASE Grows
    <3>1. PICK f \in Frames[Main] : ToRead' = ToRead + Size(f)
      BY <2>4 DEF Grows
    <3>2. Size(f) \in Nat /\ Size(f) <= S
      BY EncodeIs DEF Proc
    <3>3. FramesMade' = FramesMade + 1 /\ FramesRead' = FramesRead
      BY <2>4 DEF Grows
    <3>4. ToRead + Size(f) <= ((FramesMade + 1) - FramesRead) * S
      BY <1>5, <2>2, <3>2, OneMoreFrame
    <3> QED BY <3>1, <3>3, <3>4
  <2>5. CASE Fails
    BY <1>7, <2>5 DEF Fails
  <2> QED BY <1>3, <2>3, <2>4, <2>5
<1> QED
  BY <1>2, <1>6, <1>7 DEF RoomInv

(***************************************************************************)
(* main is never stopped by a full pipe.  If no frame of main is longer    *)
(* than S bytes and MainUnread such frames fit into a pipe, then what is   *)
(* in main's pipe and what write_full() has still to write fit into it     *)
(* together as long as the child runs, whatever the child is doing, how    *)
(* ever long its own frames are, and even after its comm_read() failed.    *)
(* So the two processes never wait for each other in write_full().         *)
(***************************************************************************)
THEOREM MainNeverBlocks ==
  ASSUME NEW S \in Nat, \A f \in Frames[Main] : Size(f) <= S,
         MainUnread * S <= PipeSize
  PROVE  PipesSpec =>
           [](Child \in up => Len(pipe[Main]) + Len(out[Main]) <= PipeSize)
<1>1. PipesInit => RoomInv(S)
  <2> SUFFICES ASSUME PipesInit PROVE RoomInv(S)
    OBVIOUS
  <2>1. /\ out[Main] = <<>> /\ status[Main] = "open"
        /\ FramesMade = 0 /\ FramesRead = 0
    BY DEF PipesInit, Proc, FramesMade, FramesRead, Offered, Writing
  <2> QED BY <2>1, CommFrameAssumption DEF RoomInv
<1>2. PipesInv /\ RoomInv(S) /\ [PipesNext]_pipes => RoomInv(S)'
  BY RoomStep
<1>3. PipesInv /\ RoomInv(S) =>
        (Child \in up => Len(pipe[Main]) + Len(out[Main]) <= PipeSize)
  <2> SUFFICES ASSUME PipesInv, RoomInv(S), Child \in up
               PROVE  ToRead <= PipeSize
    BY DEF ToRead
  <2>1. ToRead <= (FramesMade - FramesRead) * S
    BY FlowBound DEF RoomInv
  <2>2. FramesMade \in Nat /\ FramesRead \in Nat /\ ToRead \in Nat
        /\ MainUnread \in Nat /\ PipeSize \in Nat
    BY LengthsHold, CommFrameAssumption
  <2>3. FramesMade - FramesRead \in Int /\ FramesMade - FramesRead <= MainUnread
    BY <2>2 DEF RoomInv
  <2>4. \A i, j \in Int : i <= j => i * S \in Int /\ j * S \in Int /\ i * S <= j * S
    BY SMT
  <2> DEFINE q == (FramesMade - FramesRead) * S
             r == MainUnread * S
  <2>5. q \in Int /\ r \in Int /\ q <= r
    BY <2>2, <2>3, <2>4
  <2>6. ToRead <= q /\ r <= PipeSize
    BY <2>1
  <2> HIDE DEF q, r
  <2> QED BY <2>2, <2>5, <2>6
<1> QED
  BY <1>1, <1>2, <1>3, PipesInvariance, PTL DEF PipesSpec

=============================================================================
