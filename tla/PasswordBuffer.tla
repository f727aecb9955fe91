--------------------------- MODULE PasswordBuffer ---------------------------
(***************************************************************************)
(* The password in memory: the buffer that keys edit (password.c), the     *)
(* UTF-8 it holds (unicode.c), the copy that a submission makes (comm.c)   *)
(* and the locking of both areas against being paged out                   *)
(* (password-buffer.c).  MainProcess decides when these operations happen; *)
(* here they may happen in any order.                                      *)
(***************************************************************************)
EXTENDS Naturals, Sequences, FiniteSetsExt

CONSTANTS
  BufferLen,   \* 1024 in the code
  Codepoints,  \* what the keyboard can type
  Retries,     \* 5 in the code
  Junk         \* a byte of memory that was never written

LastCodepoint == 1114111      \* of Unicode

ASSUME BufferAssumption ==
  /\ BufferLen \in Nat \ {0}
  /\ Codepoints \subseteq 1 .. LastCodepoint
  /\ Retries \in Nat \ {0}

VARIABLES
  step,             \* what the process is at
  buffer, len,      \* state.password
  copy,             \* the copy of a submission, empty when there is none
  locked,           \* areas that are locked in memory
  retries,          \* of the mlock() under way
  mlock_supported,
  typed,            \* what the user typed and did not take back
  received          \* the frame being sent to the child, and what was typed

vars == <<step, buffer, len, copy, locked, retries, mlock_supported, typed,
          received>>

\* "create": the buffer is being locked; "copy": a copy is; "clear", "free":
\* a submission was sent, and its copy is to be cleared and to be freed.
Step == {"create", "edit", "copy", "clear", "free", "exited"}

Positions == 1 .. BufferLen      \* 0 .. buffer_len - 1 in the code
Area      == IF step = "create" THEN "buffer" ELSE "copy"

Nothing   == [bytes |-> <<0>>, typed |-> <<>>]

Init ==
  /\ step = "create"
  /\ buffer = [i \in Positions |-> Junk]
  /\ len = 0
  /\ copy = <<>>
  /\ locked = {}
  /\ retries = Retries
  /\ mlock_supported = TRUE
  /\ typed = <<>>
  /\ received = Nothing

-----------------------------------------------------------------------------
\* unicode.c

IsContinuation(byte) == byte \in 128 .. 191

\* Mutant: the limit of two bytes is one too high.
utf8_chsize_late(ch) ==
  IF ch < 128 THEN 1 ELSE IF ch <= 2048 THEN 2 ELSE IF ch < 65536 THEN 3 ELSE 4

utf8_chsize(ch) ==
  IF ch < 128 THEN 1 ELSE IF ch < 2048 THEN 2 ELSE IF ch < 65536 THEN 3 ELSE 4

\* The function has its own copy of the limits.
utf8_encode(ch) ==
  LET n     == IF ch < 128 THEN 1 ELSE IF ch < 2048 THEN 2
               ELSE IF ch < 65536 THEN 3 ELSE 4
      first == <<0, 192, 224, 240>>[n]
  IN [i \in 1 .. n |-> IF i = 1 THEN first + ch \div 64 ^ (n - 1)
                       ELSE 128 + ((ch \div 64 ^ (n - i)) % 64)]

strlen == Min({i \in Positions : buffer[i] = 0}) - 1

\* Bytes from the last one that begins a character to the end of the string.
utf8_last_size ==
  LET begins == {i \in 1 .. strlen : ~IsContinuation(buffer[i])}
  IN  IF begins = {} THEN 0 ELSE strlen - Max(begins) + 1

-----------------------------------------------------------------------------
\* password.c

clear_password_buffer ==
  /\ buffer' = [i \in Positions |-> 0]
  /\ len' = 0
  /\ typed' = <<>>

append_ch(ch) ==
  LET size == utf8_chsize(ch) IN
  /\ step = "edit"
  /\ IF len + size + 1 >= BufferLen THEN UNCHANGED <<buffer, len, typed>>
     ELSE LET bytes == utf8_encode(ch) IN
          /\ buffer' = [i \in Positions |->
                          IF i = len + size + 1 THEN 0
                          ELSE IF i - len \in DOMAIN bytes THEN bytes[i - len]
                          ELSE buffer[i]]
          /\ len' = len + size
          /\ typed' = Append(typed, ch)
  /\ UNCHANGED <<step, copy, locked, retries, mlock_supported, received>>

backspace ==
  /\ step = "edit" /\ len # 0
  /\ len' = len - utf8_last_size
  /\ buffer' = [buffer EXCEPT ![len' + 1] = 0]
  /\ typed' = SubSeq(typed, 1, Len(typed) - 1)
  /\ UNCHANGED <<step, copy, locked, retries, mlock_supported, received>>

\* Escape, control with u, and the timer.
Clear ==
  /\ step = "edit"
  /\ clear_password_buffer
  /\ UNCHANGED <<step, copy, locked, retries, mlock_supported, received>>

-----------------------------------------------------------------------------
\* password-buffer.c

\* password_buffer_create() has returned a buffer: the terminating zero is
\* set, or the password is copied, cleared and sent.
Created ==
  \/ /\ step = "create"
     /\ buffer' = [buffer EXCEPT ![1] = 0]
     /\ step' = "edit"
     /\ UNCHANGED <<len, copy, typed, received>>
  \/ /\ step = "copy"
     /\ copy' = SubSeq(buffer, 1, len + 1)
     /\ received' = [bytes |-> copy', typed |-> typed]
     /\ clear_password_buffer
     /\ step' = "clear"

\* It has returned NULL: the program does not start, or nothing is sent.
NotCreated ==
  \/ /\ step = "create"
     /\ step' = "exited"
     /\ UNCHANGED <<buffer, len, copy, typed>>
  \/ /\ step = "copy"
     /\ clear_password_buffer
     /\ step' = "edit"
     /\ UNCHANGED copy

posix_memalign_fails ==
  /\ retries = Retries
  /\ NotCreated
  /\ UNCHANGED <<locked, retries, mlock_supported, received>>

mlock_succeeds ==
  /\ Created
  /\ locked' = locked \cup {Area}
  /\ UNCHANGED <<retries, mlock_supported>>

mlock_EAGAIN ==
  /\ step \in {"create", "copy"}
  /\ retries' = retries - 1
  /\ IF retries' = 0 THEN NotCreated ELSE UNCHANGED <<step, buffer, len, copy, typed>>
  /\ UNCHANGED <<locked, mlock_supported, received>>

mlock_EPERM ==
  /\ Created
  /\ mlock_supported' = FALSE
  /\ UNCHANGED <<locked, retries>>

mlock_fails ==
  /\ NotCreated
  /\ UNCHANGED <<locked, retries, mlock_supported, received>>

-----------------------------------------------------------------------------
\* write_comm_password()

Submit ==
  /\ step = "edit"
  /\ step' = "copy"
  /\ retries' = Retries
  /\ UNCHANGED <<buffer, len, copy, locked, mlock_supported, typed, received>>

\* Mutant: the copy is unlocked first.
clear_buffer_unlocked ==
  /\ step = "clear"
  /\ locked' = locked \ {"copy"}
  /\ received' = Nothing
  /\ step' = "free"
  /\ UNCHANGED <<buffer, len, copy, retries, mlock_supported, typed>>

\* password_buffer_destroy(): cleared...
clear_buffer ==
  /\ step = "clear"
  /\ copy' = [i \in DOMAIN copy |-> 0]
  /\ received' = Nothing
  /\ step' = "free"
  /\ UNCHANGED <<buffer, len, locked, retries, mlock_supported, typed>>

\* ... unlocked, which may fail, and freed.
Free ==
  /\ step = "free"
  /\ copy' = <<>>
  /\ locked' \in IF mlock_supported THEN {locked, locked \ {"copy"}} ELSE {locked}
  /\ step' = "edit"
  /\ UNCHANGED <<buffer, len, retries, mlock_supported, typed, received>>

Next ==
  \/ \E ch \in Codepoints : append_ch(ch)
  \/ backspace \/ Clear \/ Submit \/ clear_buffer \/ Free
  \/ posix_memalign_fails
  \/ mlock_succeeds \/ mlock_EAGAIN \/ mlock_EPERM \/ mlock_fails

Spec == Init /\ [][Next]_vars

-----------------------------------------------------------------------------
\* UTF-8, read back: a character is a byte that is not a continuation and
\* the continuations after it, at most four bytes together; the number of
\* ones a byte begins with says how many of its bits are taken.
Begins(bytes) == {i \in DOMAIN bytes : ~IsContinuation(bytes[i])}

Nth(bytes, k) ==
  CHOOSE i \in Begins(bytes) : Cardinality({j \in Begins(bytes) : j <= i}) = k

End(bytes, k) ==
  IF k = Cardinality(Begins(bytes)) THEN Len(bytes) ELSE Nth(bytes, k + 1) - 1

Bits(byte) ==
  IF byte < 128 THEN byte ELSE IF byte < 192 THEN byte - 128
  ELSE IF byte < 224 THEN byte - 192 ELSE IF byte < 240 THEN byte - 224 ELSE byte - 240

Char(bytes, first, size) ==
  LET bits(i) == Bits(bytes[first + i]) IN
  CASE size = 1 -> bits(0)
    [] size = 2 -> bits(0) * 64 + bits(1)
    [] size = 3 -> bits(0) * 4096 + bits(1) * 64 + bits(2)
    [] size = 4 -> bits(0) * 262144 + bits(1) * 4096 + bits(2) * 64 + bits(3)
    [] OTHER    -> 0

Decode(bytes) ==
  [k \in 1 .. Cardinality(Begins(bytes)) |->
     LET first == Nth(bytes, k) IN Char(bytes, first, End(bytes, k) - first + 1)]

(***************************************************************************)
(* The buffer holds what was typed, as UTF-8 that ends where len says,     *)
(* also after characters of several bytes were taken back, and so does the *)
(* frame of a submission.  What backspace() leaves behind the end is never *)
(* the beginning of a character.                                           *)
(***************************************************************************)
HoldsTyped ==
  /\ step \in {"edit", "copy"} =>
       /\ strlen = len
       /\ Decode(SubSeq(buffer, 1, len)) = typed
       /\ \A i \in len + 1 .. BufferLen :
            buffer[i] \in {0, Junk} \/ IsContinuation(buffer[i])
  /\ LET n == Len(received.bytes) IN
     /\ received.bytes[n] = 0
     /\ Decode(SubSeq(received.bytes, 1, n - 1)) = received.typed

(***************************************************************************)
(* A password is never in memory that may be paged out, the buffer's or    *)
(* the copy's, unless the system said that it does not support locking:    *)
(* retries, refusals and the order of clearing and unlocking considered.   *)
(***************************************************************************)
NeverPagedOut ==
  mlock_supported =>
    /\ len > 0 => "buffer" \in locked
    /\ (\E i \in DOMAIN copy : copy[i] # 0) => "copy" \in locked

=============================================================================
