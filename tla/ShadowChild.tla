---------------------------- MODULE ShadowChild ----------------------------
(***************************************************************************)
(* The child process of the shadow backend (shadow.c): it compares each    *)
(* password with the user's entry in the shadow file.                      *)
(*                                                                         *)
(* child = "wait"   comm_child_read()                                      *)
(*         "crypt"  a password is being hashed                             *)
(*         "sleep"  two seconds after a wrong password                     *)
(*         "end"    a match was reported: the entry is cleared, then exit  *)
(***************************************************************************)
EXTENDS Comm

CONSTANT MaxDenials   \* bound: wrong passwords in a behaviour

ASSUME ShadowAssumption == MaxDenials \in Nat

VARIABLES
  matched,   \* a password matched the entry
  denials    \* history: passwords found wrong

shadowVars == <<child, matched, denials>>

ShadowInit ==
  /\ matched = FALSE
  /\ denials = 0

\* Mutant: whatever waits behind the password is thrown away.
ShadowRead_flushes ==
  /\ child = "wait"
  /\ \/ /\ to_child # <<>>
        /\ to_child' = <<>>
        /\ child' = IF Head(to_child) = PasswordFrame THEN "crypt" ELSE "wait"
     \/ /\ ChildReadsEOF
        /\ child' = "exited"
        /\ UNCHANGED to_child
  /\ UNCHANGED <<matched, denials, main, to_main>>

\* Mutant: EOF does not end the child.
ShadowRead_ignores_eof ==
  /\ child = "wait"
  /\ to_child # <<>>
  /\ to_child' = Tail(to_child)
  /\ child' = IF Head(to_child) = PasswordFrame THEN "crypt" ELSE "wait"
  /\ UNCHANGED <<matched, denials, main, to_main>>

\* Frames other than PASSWORD are ignored; EOF ends the child.
ShadowRead ==
  /\ child = "wait"
  /\ \/ /\ to_child # <<>>
        /\ to_child' = Tail(to_child)
        /\ child' = IF Head(to_child) = PasswordFrame THEN "crypt" ELSE "wait"
     \/ /\ ChildReadsEOF
        /\ child' = "exited"
        /\ UNCHANGED to_child
  /\ UNCHANGED <<matched, denials, main, to_main>>

\* Mutant: a wrong password is not reported.
ShadowCheck_silent(success) ==
  /\ child = "crypt"
  /\ ~success => denials < MaxDenials \/ ~MainUp
  /\ matched' = success
  /\ denials' = IF success \/ ~MainUp THEN denials ELSE denials + 1
  /\ IF success THEN comm_child_write(ResultFrame(TRUE), "end")
                ELSE child' = "sleep" /\ UNCHANGED to_main
  /\ UNCHANGED <<main, to_child>>

\* A match is reported and ends the loop; a report that fails, the child.
ShadowCheck(success) ==
  /\ child = "crypt"
  /\ ~success => denials < MaxDenials \/ ~MainUp
  /\ matched' = success
  /\ denials' = IF success \/ ~MainUp THEN denials ELSE denials + 1
  /\ comm_child_write(ResultFrame(success),
                      IF ~MainUp THEN "exited"
                      ELSE IF success THEN "end" ELSE "sleep")
  /\ UNCHANGED <<main, to_child>>

\* crypt() returned NULL: the child exits without an answer.
CryptFailed ==
  /\ child = "crypt"
  /\ child' = "exited"
  /\ UNCHANGED <<matched, denials, main, to_child, to_main>>

ShadowWake ==
  /\ child = "sleep"
  /\ child' = "wait"
  /\ UNCHANGED <<matched, denials, main, to_child, to_main>>

ShadowEnd ==
  /\ child = "end"
  /\ child' = "exited"
  /\ UNCHANGED <<matched, denials, main, to_child, to_main>>

ShadowNext ==
  \/ ShadowRead
  \/ \E success \in BOOLEAN : ShadowCheck(success)
  \/ CryptFailed
  \/ ShadowWake
  \/ ShadowEnd

=============================================================================
