----------------------------- MODULE CommFrame -----------------------------
(***************************************************************************)
(* comm.c byte by byte: the two pipes hold a limited number of bytes,      *)
(* write() and read() transfer as many as they please, and a process that  *)
(* writes to a full pipe or waits for the rest of a frame does nothing     *)
(* else.  A frame is its type, the length of its payload in LenBytes bytes *)
(* with the least significant first, and the payload.                      *)
(*                                                                         *)
(* An interrupted read() or write() is repeated and changes nothing, so    *)
(* EINTR is a stuttering step here.                                        *)
(***************************************************************************)
EXTENDS Naturals, Sequences

CONSTANTS
  Base,          \* values of a byte (256)
  LenBytes,      \* bytes of the length field (4, or fewer)
  MaxPayload,    \* COMM_MAX_PAYLOAD (2^20)
  PipeSize,      \* bytes a pipe holds
  Frames,        \* frames each process may write: [Proc -> set of frames]
  MaxFrames,     \* bound: frames written by each process
  MainUnread,    \* frames of main that the child has not read, at most
  Faults         \* subset of {"crash", "malloc"}

Main  == "main"
Child == "child"
Proc  == {Main, Child}
Peer(p) == IF p = Main THEN Child ELSE Main

Byte == 0 .. Base - 1

\* The shifts by 0, 8, 16 and 24 bits, and by 32.
Shift == <<1, Base, Base * Base, Base * Base * Base, Base * Base * Base * Base>>

\* A length is a uint32_t.
ASSUME CommFrameAssumption ==
  /\ Base \in Nat /\ Base > 1
  /\ LenBytes \in 1 .. 4
  /\ MaxPayload \in Nat
  /\ PipeSize \in Nat \ {0}
  /\ \A p \in Proc : \A f \in Frames[p] :
       /\ f \in [type: Byte \ {0}, payload: Seq(Byte)]
       /\ Len(f.payload) < Shift[LenBytes + 1]
  /\ MaxFrames \in Nat /\ MainUnread \in Nat

\* A pipe is named after the process that writes to it.
VARIABLES
  up,       \* processes that run
  doing,    \* "idle", "write" or "read"
  out,      \* bytes write_full() has still to write
  current,  \* frame that is being written
  pipe,     \* bytes in each pipe
  in,       \* bytes of the frame that is being read from each pipe
  sent,     \* frames written completely to each pipe
  got,      \* frames comm_read() returned from each pipe
  status    \* "open", or what ended comm_read() from each pipe

pipes == <<up, doing, out, current, pipe, in, sent, got, status>>

PipesInit ==
  /\ up = Proc
  /\ doing = [p \in Proc |-> "idle"]
  /\ out = [p \in Proc |-> <<>>]
  /\ current = [p \in Proc |-> <<>>]
  /\ pipe = [p \in Proc |-> <<>>]
  /\ in = [p \in Proc |-> <<>>]
  /\ sent = [p \in Proc |-> <<>>]
  /\ got = [p \in Proc |-> <<>>]
  /\ status = [p \in Proc |-> "open"]

-----------------------------------------------------------------------------
\* Encoding.

Header == 1 + LenBytes

store_le32(n) == [i \in 1 .. LenBytes |-> (n \div Shift[i]) % Base]

load_le32(b) ==
  LET byte(i) == IF i <= LenBytes THEN b[i] * Shift[i] ELSE 0
  IN  byte(1) + byte(2) + byte(3) + byte(4)

Encode(f) == <<f.type>> \o store_le32(Len(f.payload)) \o f.payload

PayloadLen(b)  == load_le32(SubSeq(b, 2, Header))
DecodeFrame(b) == [type |-> b[1], payload |-> SubSeq(b, Header + 1, Len(b))]

-----------------------------------------------------------------------------
\* Writing.

comm_write(p) ==
  /\ p \in up /\ doing[p] = "idle"
  /\ Len(sent[p]) < MaxFrames
  /\ p = Main => Len(sent[p]) - Len(got[p]) < MainUnread
  /\ \E f \in Frames[p] : /\ current' = [current EXCEPT ![p] = f]
                          /\ out' = [out EXCEPT ![p] = Encode(f)]
  /\ doing' = [doing EXCEPT ![p] = "write"]
  /\ UNCHANGED <<up, pipe, in, sent, got, status>>

\* write() took k bytes, and the last of them completes the frame.
Written(p, k, rest) ==
  /\ pipe' = [pipe EXCEPT ![p] = @ \o SubSeq(out[p], 1, k)]
  /\ out' = [out EXCEPT ![p] = rest]
  /\ IF rest = <<>>
     THEN /\ sent' = [sent EXCEPT ![p] = Append(@, current[p])]
          /\ doing' = [doing EXCEPT ![p] = "idle"]
     ELSE UNCHANGED <<sent, doing>>
  /\ UNCHANGED <<up, current, in, got, status>>

\* Mutant: a short write is taken for a complete one.
write_full_once(p) ==
  /\ p \in up /\ Peer(p) \in up /\ doing[p] = "write"
  /\ \E k \in 1 .. Len(out[p]) :
       /\ Len(pipe[p]) + k <= PipeSize
       /\ Written(p, k, <<>>)

write_full(p) ==
  /\ p \in up /\ Peer(p) \in up /\ doing[p] = "write"
  /\ \E k \in 1 .. Len(out[p]) :
       /\ Len(pipe[p]) + k <= PipeSize
       /\ Written(p, k, SubSeq(out[p], k + 1, Len(out[p])))

\* The reader has gone: SIGPIPE ends the writer, or write() fails.
WriteFailed(p) ==
  /\ p \in up /\ Peer(p) \notin up /\ doing[p] = "write"
  /\ up' \in {up, up \ {p}}
  /\ doing' = [doing EXCEPT ![p] = "idle"]
  /\ out' = [out EXCEPT ![p] = <<>>]
  /\ UNCHANGED <<current, pipe, in, sent, got, status>>

-----------------------------------------------------------------------------
\* Reading.  p reads the pipe of w.

\* Mutant: the frame is read only once it is in the pipe as a whole.
comm_read_whole(p) ==
  LET w == Peer(p) IN
  /\ p \in up /\ doing[p] = "idle" /\ status[w] = "open"
  /\ w \in up => doing[w] # "write" /\ pipe[w] # <<>>
  /\ doing' = [doing EXCEPT ![p] = "read"]
  /\ UNCHANGED <<up, out, current, pipe, in, sent, got, status>>

\* The child reads when PAM wants something, main when poll() says POLLIN
\* or the pipe has been closed.
comm_read(p) ==
  LET w == Peer(p) IN
  /\ p \in up /\ doing[p] = "idle" /\ status[w] = "open"
  /\ p = Main => pipe[w] # <<>> \/ w \notin up
  /\ doing' = [doing EXCEPT ![p] = "read"]
  /\ UNCHANGED <<up, out, current, pipe, in, sent, got, status>>

\* What the current read_full() still wants.
Wanted(b) ==
  CASE b = <<>>        -> 1
    [] Len(b) < Header -> Header - Len(b)
    [] OTHER           -> Header + PayloadLen(b) - Len(b)

\* comm_read() failed: main exits, the child's conversation is over.
ReadEnds(p, why) ==
  /\ status' = [status EXCEPT ![Peer(p)] = why]
  /\ doing' = [doing EXCEPT ![p] = "idle"]
  /\ up' = IF p = Main THEN up \ {Main} ELSE up
  /\ UNCHANGED got

\* b is what has been read of the frame: go on, give up, or return it.
Received(p, b) ==
  LET w == Peer(p)
      n == PayloadLen(b) IN
  \/ /\ Len(b) >= Header => n <= MaxPayload /\ Len(b) < Header + n
     /\ UNCHANGED <<up, doing, got, status>>
  \/ /\ Len(b) = Header
     /\ n > IF "malloc" \in Faults THEN 0 ELSE MaxPayload
     /\ ReadEnds(p, "error")
  \/ /\ Len(b) >= Header /\ n <= MaxPayload /\ Len(b) = Header + n
     /\ got' = [got EXCEPT ![w] = Append(@, DecodeFrame(b))]
     /\ doing' = [doing EXCEPT ![p] = "idle"]
     /\ UNCHANGED <<up, status>>

read_full(p) ==
  LET w == Peer(p) IN
  /\ p \in up /\ doing[p] = "read"
  /\ \E k \in 1 .. Len(pipe[w]) :
       LET b == in[w] \o SubSeq(pipe[w], 1, k) IN
       /\ k <= Wanted(in[w])
       /\ pipe' = [pipe EXCEPT ![w] = SubSeq(@, k + 1, Len(@))]
       /\ Received(p, b)
       /\ in' = [in EXCEPT ![w] = IF doing'[p] = "idle" THEN <<>> ELSE b]
  /\ UNCHANGED <<out, current, sent>>

\* read() returned 0: EOF between two frames, an error inside one.
ReadEOF(p) ==
  LET w == Peer(p) IN
  /\ p \in up /\ doing[p] = "read"
  /\ pipe[w] = <<>> /\ w \notin up
  /\ ReadEnds(p, IF in[w] = <<>> THEN "eof" ELSE "error")
  /\ UNCHANGED <<out, current, pipe, in, sent>>

\* A process ends, between two calls or in the middle of one.
Exit(p) ==
  /\ p \in up
  /\ doing[p] = "idle" \/ "crash" \in Faults
  /\ up' = up \ {p}
  /\ UNCHANGED <<doing, out, current, pipe, in, sent, got, status>>

-----------------------------------------------------------------------------
\* What a process does inside a call of comm_read() or comm_write().
Goes(p) == write_full(p) \/ WriteFailed(p) \/ read_full(p) \/ ReadEOF(p)

PipesNext == \E p \in Proc : comm_write(p) \/ comm_read(p) \/ Goes(p) \/ Exit(p)

PipesSpec == PipesInit /\ [][PipesNext]_pipes

(***************************************************************************)
(* Both processes are scheduled.  Main polls between any two keys, and the *)
(* child goes on reading: PAM prompts or authd polls.  Nobody has to write *)
(* or to exit.                                                             *)
(***************************************************************************)
FairSpec ==
  PipesSpec /\ \A p \in Proc : WF_pipes(Goes(p)) /\ SF_pipes(comm_read(p))

-----------------------------------------------------------------------------
ToChild == INSTANCE FrameChannel WITH
             Frames <- Frames[Main], sent <- sent[Main], got <- got[Main],
             status <- status[Main]
ToMain  == INSTANCE FrameChannel WITH
             Frames <- Frames[Child], sent <- sent[Child], got <- got[Child],
             status <- status[Child]

(***************************************************************************)
(* However read() and write() cut the bytes, and wherever a process dies,  *)
(* comm_read() returns the frames that comm_write() wrote.  This is what   *)
(* Comm takes for granted.                                                 *)
(***************************************************************************)
KeepsFrames == ToChild!Spec /\ ToMain!Spec

(***************************************************************************)
(* No process waits for ever on a full pipe or for the rest of a frame,    *)
(* and a frame that was written is read unless its reader ends or gave up: *)
(* the processes do not wait for each other as long as what main has not   *)
(* had read fits into its pipe, whatever the size of the child's frames.   *)
(***************************************************************************)
Delivered ==
  \A p \in Proc :
    /\ doing[p] = "write" ~> doing[p] # "write" \/ p \notin up
    /\ in[p] # <<>> ~> in[p] = <<>> \/ Peer(p) \notin up \/ status[p] # "open"
    /\ \A n \in 1 .. MaxFrames :
         Len(sent[p]) >= n
           ~> Len(got[p]) >= n \/ Peer(p) \notin up \/ status[p] # "open"

=============================================================================
