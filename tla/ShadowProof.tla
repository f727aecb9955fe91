---------------------------- MODULE ShadowProof ----------------------------
(***************************************************************************)
(* Theorems about swaylock with the shadow backend, for every value of the *)
(* constants: every password gets one answer, the failure counter counts   *)
(* each wrong one once, and only a match or SIGUSR1 unlocks the session.   *)
(***************************************************************************)
EXTENDS SwaylockShadow, MainProof, FiniteSetTheorems, FunctionTheorems

Result == {ResultFrame(ok) : ok \in BOOLEAN}

ShadowTypeOK ==
  /\ Typed
  /\ child \in {"wait", "crypt", "sleep", "end"} \cup ChildGone
  /\ matched \in BOOLEAN
  /\ denials \in Nat

(***************************************************************************)
(* This backend never offers a list, so no dialogue of authd begins: the   *)
(* main process sends nothing but passwords and reads nothing but results. *)
(***************************************************************************)
PlainTraffic ==
  /\ ~authd_active
  /\ to_child \in Seq({PasswordFrame})
  /\ to_main \in Seq(Result)

\* Why only a match or SIGUSR1 unlocks the session.
MatchInv ==
  /\ Answers(TRUE) # {} => matched
  /\ matched => child \in {"end"} \cup ChildGone
  /\ ~run_display => Verdict \/ ~display_up
  /\ session = "unlocked" => Verdict

ShadowInv ==
  /\ ShadowTypeOK
  /\ MainInv
  /\ PlainTraffic
  /\ MatchInv
  /\ OneAnswerEach
  /\ CountExact

-----------------------------------------------------------------------------
\* Frames, and counting them.

LEMMA Results ==
  /\ Result \subseteq ChildFrame
  /\ ResultFrame(TRUE) \in Result /\ ResultFrame(FALSE) \in Result
  /\ ResultFrame(TRUE) # ResultFrame(FALSE)
  /\ \A f \in Result : /\ f.type = "AUTH_RESULT"
                       /\ f = ResultFrame(FALSE) <=> ~f.granted
                       /\ f = ResultFrame(TRUE) <=> f.granted
<1>1. Result = {ResultFrame(TRUE), ResultFrame(FALSE)}
  BY DEF Result
<1>2. \A ok \in BOOLEAN : /\ ResultFrame(ok).type = "AUTH_RESULT"
                          /\ ResultFrame(ok).granted = ok
                          /\ ResultFrame(ok) \in ChildFrame
  BY DEF ResultFrame, ChildFrame
<1>3. ResultFrame(TRUE).granted = TRUE /\ ResultFrame(FALSE).granted = FALSE
  BY <1>2
<1> QED
  BY <1>1, <1>2, <1>3

\* The places of a frame in a queue.
Places(q, f) == {i \in DOMAIN q : q[i] = f}

LEMMA PlacesFinite ==
  ASSUME NEW S, NEW q \in Seq(S), NEW f
  PROVE  IsFiniteSet(Places(q, f)) /\ Cardinality(Places(q, f)) \in Nat
<1>1. Len(q) \in Nat /\ DOMAIN q = 1 .. Len(q)
  OBVIOUS
<1>2. IsFiniteSet(1 .. Len(q))
  BY <1>1, FS_Interval
<1>3. Places(q, f) \in SUBSET (1 .. Len(q))
  BY <1>1 DEF Places
<1>4. IsFiniteSet(Places(q, f))
  BY <1>2, <1>3, FS_Subset
<1> QED
  BY <1>4, FS_CardinalityType

\* A frame that is written is counted if it is the one counted.
LEMMA PlacesAppend ==
  ASSUME NEW S, NEW q \in Seq(S), NEW f, NEW g \in S
  PROVE  Cardinality(Places(Append(q, g), f))
           = Cardinality(Places(q, f)) + One(g = f)
<1> DEFINE n == Len(q) + 1
           P == Places(q, f)
<1>1. n \notin P /\ n \in Nat
  BY DEF Places
<1>2. IsFiniteSet(P) /\ Cardinality(P) \in Nat
  BY PlacesFinite
<1>3. CASE g = f
  <2>1. Places(Append(q, g), f) = P \cup {n}
    BY <1>3 DEF Places
  <2> HIDE DEF P, n
  <2>2. Cardinality(P \cup {n}) = Cardinality(P) + 1
    BY <1>1, <1>2, FS_AddElement
  <2> QED BY <1>3, <2>1, <2>2 DEF One, P
<1>4. CASE g # f
  <2>1. Places(Append(q, g), f) = P
    BY <1>4 DEF Places
  <2> QED BY <1>2, <1>4, <2>1 DEF One
<1> QED BY <1>3, <1>4

\* A frame that is read is no longer counted.
LEMMA PlacesTail ==
  ASSUME NEW S, NEW q \in Seq(S), q # <<>>, NEW f
  PROVE  Cardinality(Places(q, f))
           = Cardinality(Places(Tail(q), f)) + One(Head(q) = f)
<1> DEFINE P == Places(q, f) \ {1}
           T == Places(Tail(q), f)
           down == [i \in P |-> i - 1]
<1>1. Len(q) \in Nat \ {0} /\ DOMAIN q = 1 .. Len(q) /\ Head(q) = q[1]
  OBVIOUS
<1>2. /\ Tail(q) \in Seq(S)
      /\ DOMAIN Tail(q) = 1 .. Len(q) - 1
      /\ \A i \in 1 .. Len(q) - 1 : Tail(q)[i] = q[i + 1]
  OBVIOUS
<1>3. IsFiniteSet(Places(q, f)) /\ Cardinality(Places(q, f)) \in Nat
  BY PlacesFinite
<1>4. IsFiniteSet(T) /\ Cardinality(T) \in Nat
  BY <1>2, PlacesFinite
<1>5. IsFiniteSet(P) /\ Cardinality(P) = Cardinality(T)
  <2>1. IsFiniteSet(P)
    BY <1>3, FS_RemoveElement
  <2>2. P \subseteq Int
    BY <1>1 DEF Places
  <2>3. \A i \in P : i - 1 \in T
    BY <1>1, <1>2 DEF Places
  <2>4. \A j \in T : j + 1 \in P /\ j \in Int /\ (j + 1) - 1 = j
    BY <1>1, <1>2 DEF Places
  <2> HIDE DEF P, T
  <2>5. down \in Bijection(P, T)
    <3>1. down \in [P -> T] /\ \A i \in P : down[i] = i - 1
      BY <2>3
    <3> HIDE DEF down
    <3>2. \A i, j \in P : down[i] = down[j] => i = j
      BY <2>2, <3>1
    <3>3. \A j \in T : \E i \in P : down[i] = j
      BY <2>4, <3>1
    <3>4. down \in Injection(P, T) /\ down \in Surjection(P, T)
      BY <3>1, <3>2, <3>3, Fun_IsInj, Fun_IsSurj
    <3> QED BY <3>4 DEF Bijection
  <2>6. ExistsBijection(P, T)
    BY <2>5 DEF ExistsBijection
  <2> QED BY <2>1, <2>6, FS_Bijection
<1>6. Cardinality(P) = IF 1 \in Places(q, f) THEN Cardinality(Places(q, f)) - 1
                                             ELSE Cardinality(Places(q, f))
  BY <1>3, FS_RemoveElement
<1>7. 1 \in Places(q, f) <=> Head(q) = f
  BY <1>1 DEF Places
<1> QED
  BY <1>3, <1>4, <1>5, <1>6, <1>7 DEF One

-----------------------------------------------------------------------------
\* A step of the main process.

\* The callback reads a result, and nothing but a wrong password is counted.
LEMMA ReadsResult ==
  ASSUME ShadowInv, comm_in
  PROVE  /\ to_main # <<>> /\ to_main' = Tail(to_main)
         /\ UNCHANGED <<main, authd_active>>
         /\ failed_attempts' = failed_attempts
                                 + One(Head(to_main) = ResultFrame(FALSE))
<1> USE DEF authdVars
<1>1. to_main # <<>> /\ to_main' = Tail(to_main) /\ UNCHANGED main
  BY DEF comm_in, Turn, ShadowInv, MainInv, PollStaysTrue
<1>2. Head(to_main) \in Result
  BY <1>1, HeadTail DEF ShadowInv, PlainTraffic
<1>3. HandleAuthResult(Head(to_main))
  <2>1. Head(to_main).type = "AUTH_RESULT"
    BY <1>2, Results
  <2> QED BY <2>1 DEF comm_in
<1>4. failed_attempts \in Nat
  BY DEF ShadowInv, ShadowTypeOK, Typed, MainTypeOK
<1>5. Head(to_main) = ResultFrame(FALSE) <=> ~Head(to_main).granted
  BY <1>2, Results
<1>6. UNCHANGED authd_active
  BY <1>3 DEF HandleAuthResult
<1>7. CASE Head(to_main).granted
  <2>1. UNCHANGED failed_attempts
    BY <1>3, <1>7 DEF HandleAuthResult
  <2>2. One(Head(to_main) = ResultFrame(FALSE)) = 0
    BY <1>5, <1>7, Zenon DEF One
  <2>3. failed_attempts + 0 = failed_attempts
    BY <1>4
  <2> QED BY <1>1, <1>6, <2>1, <2>2, <2>3, Zenon
<1>8. CASE ~Head(to_main).granted
  <2>1. failed_attempts' = failed_attempts + 1
    BY <1>3, <1>8 DEF HandleAuthResult, Wrong
  <2>2. One(Head(to_main) = ResultFrame(FALSE)) = 1
    BY <1>5, <1>8, Zenon DEF One
  <2> QED BY <1>1, <1>6, <2>1, <2>2
<1> QED
  BY <1>7, <1>8

\* Passwords go one way, results come the other.
LEMMA MainKeepsTraffic ==
  ASSUME ShadowInv, MainNext
  PROVE  PlainTraffic'
<1> USE DEF PlainTraffic
<1>1. Typed /\ PlainTraffic
  BY DEF ShadowInv, ShadowTypeOK
<1>2. to_child' \in Seq({PasswordFrame})
  <2>1. Submits \/ SendsNothing
    BY <1>1, MainTraffic DEF Replies
  <2> QED BY <1>1, <2>1 DEF Submits, SendsNothing
<1>3. CASE comm_in
  <2>1. to_main # <<>> /\ to_main' = Tail(to_main) /\ UNCHANGED authd_active
    BY <1>3, ReadsResult
  <2>2. to_main' \in Seq(Result)
    BY <1>1, <2>1, HeadTail
  <2> QED BY <1>1, <1>2, <2>1, <2>2
<1>4. CASE UNCHANGED <<to_main, failed_attempts, authd_active>>
  BY <1>1, <1>2, <1>4
<1> QED
  BY <1>1, <1>3, <1>4, MainTraffic

\* A submission adds one password to the pipe.
LEMMA MainKeepsAnswers ==
  ASSUME ShadowInv, MainNext, UNCHANGED <<child, matched, denials>>
  PROVE  OneAnswerEach'
<1>1. /\ Typed /\ ~authd_active /\ OneAnswerEach /\ denials \in Nat
      /\ to_child \in Seq({PasswordFrame}) /\ submits \in Nat
  BY DEF ShadowInv, ShadowTypeOK, PlainTraffic, Typed, MainTypeOK
<1>2. /\ One(child = "crypt") \in Nat /\ One(child' = "crypt") = One(child = "crypt")
      /\ One(matched) \in Nat /\ One(matched') = One(matched)
  BY DEF One
<1>3. CASE Submits
  <2>1. Len(to_child') = Len(to_child) + 1
    BY <1>1, <1>3 DEF Submits
  <2>2. submits' = submits + 1 /\ Len(to_child) \in Nat
    BY <1>1, <1>3 DEF Submits
  <2> QED BY <1>1, <1>2, <2>1, <2>2 DEF OneAnswerEach, ChildUp
<1>4. CASE SendsNothing
  BY <1>1, <1>2, <1>4 DEF SendsNothing, OneAnswerEach, ChildUp
<1> QED
  BY <1>1, <1>3, <1>4, MainTraffic DEF Replies

\* The counter grows when the answer leaves the pipe.
LEMMA MainKeepsCount ==
  ASSUME ShadowInv, MainNext, UNCHANGED denials, MainUp' => MainUp
  PROVE  CountExact'
<1> DEFINE F == ResultFrame(FALSE)
<1>1. Answers(FALSE) = Places(to_main, F) /\ Answers(FALSE)' = Places(to_main', F)
  BY DEF Answers, Places
<1>2. /\ to_main \in Seq(Result) /\ CountExact /\ Typed
      /\ denials \in Nat /\ failed_attempts \in Nat
  BY DEF ShadowInv, ShadowTypeOK, PlainTraffic, Typed, MainTypeOK
<1>3. SUFFICES ASSUME MainUp'
               PROVE  failed_attempts' + Cardinality(Places(to_main', F)) = denials
  BY <1>1 DEF CountExact
<1>4. failed_attempts + Cardinality(Places(to_main, F)) = denials
  BY <1>1, <1>2, <1>3 DEF CountExact
<1>5. CASE comm_in
  <2>1. /\ to_main # <<>> /\ to_main' = Tail(to_main)
        /\ failed_attempts' = failed_attempts + One(Head(to_main) = F)
    BY <1>5, ReadsResult
  <2>2. to_main' \in Seq(Result)
    BY <1>2, <2>1, HeadTail
  <2> HIDE DEF F
  <2>3. Cardinality(Places(to_main, F))
          = Cardinality(Places(to_main', F)) + One(Head(to_main) = F)
    BY <1>2, <2>1, PlacesTail
  <2>4. Cardinality(Places(to_main', F)) \in Nat
    BY <2>2, PlacesFinite
  <2>5. One(Head(to_main) = F) \in Nat
    BY DEF One
  <2> QED BY <1>2, <1>4, <2>1, <2>3, <2>4, <2>5
<1>6. CASE UNCHANGED <<to_main, failed_attempts>>
  BY <1>4, <1>6
<1> QED
  BY <1>2, <1>5, <1>6, MainTraffic

\* Reading a positive result, SIGUSR1 or the loss of the display ends the loop.
LEMMA MainKeepsMatch ==
  ASSUME ShadowInv, MainNext, UNCHANGED matched
  PROVE  MatchInv' /\ UNCHANGED child /\ (MainUp' => MainUp)
<1>0. Typed /\ MainInv /\ MatchInv /\ to_main \in Seq(Result)
  BY DEF ShadowInv, ShadowTypeOK, PlainTraffic
<1>1. CASE unlock_and_destroy
  <2>1. /\ UNCHANGED <<child, to_main, run_display, sigusr, display_up>>
        /\ ~run_display /\ MainUp
        /\ session' = IF display_up THEN "unlocked" ELSE session
    BY <1>1 DEF unlock_and_destroy, LoopFrame, TickFrame, BetweenIterations
  <2> QED BY <1>0, <2>1 DEF MatchInv, Verdict, Answers, ChildUp
<1>2. CASE ~unlock_and_destroy
  <2>1. /\ MainUp
        /\ session' = session
        /\ sigusr' = sigusr \/ sigusr'
        /\ ~display_up => ~display_up'
        /\ LoopEnds
        /\ \/ to_main' = to_main
           \/ to_main # <<>> /\ to_main' = Tail(to_main)
        /\ child' = child
    BY <1>0, <1>2, MainEffect
  <2>2. Verdict => Verdict'
    <3>1. sigusr => sigusr'
      BY <2>1
    <3> QED BY <3>1 DEF Verdict
  <2>3. Answers(TRUE)' # {} => Answers(TRUE) # {}
    <3>1. CASE to_main' = to_main
      BY <3>1 DEF Answers
    <3>2. CASE to_main # <<>> /\ to_main' = Tail(to_main)
      <4>1. SUFFICES ASSUME NEW i \in DOMAIN Tail(to_main),
                            Tail(to_main)[i] = ResultFrame(TRUE)
                     PROVE  Answers(TRUE) # {}
        BY <3>2 DEF Answers
      <4>2. i + 1 \in DOMAIN to_main /\ Tail(to_main)[i] = to_main[i + 1]
        BY <1>0, <3>2, QueueRead, Zenon
      <4> QED BY <4>1, <4>2 DEF Answers
    <3> QED BY <2>1, <3>1, <3>2
  <2>4. to_main # <<>> /\ Head(to_main) = ResultFrame(TRUE) => Answers(TRUE) # {}
    BY <1>0, QueueRead DEF Answers
  <2>5. ~run_display' => Verdict' \/ ~display_up'
    BY <1>0, <2>1, <2>2, <2>4 DEF LoopEnds, MatchInv, Verdict
  <2> QED
    BY <1>0, <2>1, <2>2, <2>3, <2>5 DEF MatchInv
<1> QED
  BY <1>1, <1>2

LEMMA MainKeepsShadow ==
  ASSUME ShadowInv, MainStep
  PROVE  ShadowInv'
<1>1. MainNext /\ UNCHANGED <<matched, denials>>
  BY DEF MainStep
<1>2. MatchInv' /\ UNCHANGED child /\ (MainUp' => MainUp)
  BY <1>1, MainKeepsMatch
<1>3. Typed' /\ MainInv'
  BY <1>1, MainStepInv DEF ShadowInv, ShadowTypeOK
<1>4. ShadowTypeOK'
  BY <1>1, <1>2, <1>3 DEF ShadowInv, ShadowTypeOK
<1> QED
  BY <1>1, <1>2, <1>3, <1>4, MainKeepsTraffic, MainKeepsAnswers, MainKeepsCount
     DEF ShadowInv

-----------------------------------------------------------------------------
\* A step of the child.

\* The shared part: nothing but a result is written, and only a match ends in
\* "matched".
LEMMA ChildKeepsMain ==
  ASSUME ShadowInv, ChildUp, UNCHANGED mainVars,
         child' \in {"wait", "crypt", "sleep", "end"} \cup ChildGone,
         to_child' \in Seq({PasswordFrame}),
         matched' \in BOOLEAN,
         denials' \in Nat,
         \/ to_main' = to_main
         \/ \E f \in Result : to_main' = Append(to_main, f)
  PROVE  ShadowTypeOK' /\ MainInv' /\ PlainTraffic'
<1>1. Typed /\ MainInv /\ PlainTraffic
  BY DEF ShadowInv, ShadowTypeOK
<1>2. to_main \in Seq(Result) /\ to_main' \in Seq(Result)
  BY <1>1 DEF PlainTraffic
<1>3. Seq(Result) \subseteq Seq(ChildFrame)
  BY Results
<1>4. Seq({PasswordFrame}) \subseteq Seq(MainFrame)
  BY MainFrames
<1>5. child' \in ChildStatus
  BY DEF ChildStatus
<1>6. Typed' /\ MainInv'
  BY <1>1, <1>2, <1>3, <1>4, <1>5, Results, BackendKeepsMain
<1>7. UNCHANGED authd_active
  BY DEF mainVars, authdVars
<1> QED
  BY <1>1, <1>2, <1>6, <1>7 DEF ShadowTypeOK, PlainTraffic

LEMMA ReadKeepsShadow ==
  ASSUME ShadowInv, ShadowRead, UNCHANGED mainVars
  PROVE  ShadowInv'
<1>1. /\ to_child \in Seq({PasswordFrame}) /\ Len(to_child) \in Nat
      /\ OneAnswerEach /\ CountExact /\ MatchInv
      /\ matched \in BOOLEAN /\ denials \in Nat
      /\ child = "wait" /\ ChildUp /\ UNCHANGED <<matched, denials, to_main>>
  BY DEF ShadowInv, ShadowTypeOK, PlainTraffic, ShadowRead, ChildUp, ChildGone
<1>0. ~matched
  BY <1>1 DEF MatchInv, ChildGone
<1>2. /\ to_child' \in Seq({PasswordFrame})
      /\ child' \in {"wait", "crypt", "exited"}
      /\ child' = "exited" \/ /\ child' = "crypt"
                              /\ Len(to_child) = Len(to_child') + 1
                              /\ Len(to_child') \in Nat
  <2>1. CASE to_child # <<>> /\ to_child' = Tail(to_child)
    <3>1. Head(to_child) = PasswordFrame
      BY <1>1, <2>1
    <3>2. /\ to_child' \in Seq({PasswordFrame})
          /\ Len(to_child) = Len(to_child') + 1 /\ Len(to_child') \in Nat
      BY <1>1, <2>1
    <3>3. child' = "crypt" \/ child' = "exited"
      BY <3>1 DEF ShadowRead
    <3> QED BY <3>2, <3>3
  <2>2. CASE child' = "exited" /\ UNCHANGED to_child
    BY <1>1, <2>2
  <2> QED BY <2>1, <2>2 DEF ShadowRead
<1>3. ShadowTypeOK' /\ MainInv' /\ PlainTraffic'
  BY <1>1, <1>2, ChildKeepsMain DEF ChildGone
<1>4. UNCHANGED <<main, run_display, display_up, session, sigusr, submits,
                  failed_attempts>>
  BY DEF mainVars, envVars
<1>5. MatchInv' /\ CountExact'
  BY <1>0, <1>1, <1>4 DEF MatchInv, Verdict, Answers, ChildUp, CountExact, MainUp
<1>6. OneAnswerEach'
  <2>1. SUFFICES ASSUME ChildUp'
                 PROVE  submits' = Len(to_child') + One(child' = "crypt")
                                     + One(matched') + denials'
    BY DEF OneAnswerEach
  <2>2. child' = "crypt" /\ Len(to_child) = Len(to_child') + 1 /\ Len(to_child') \in Nat
    BY <1>2, <2>1 DEF ChildUp, ChildGone
  <2>3. submits = Len(to_child) + 0 + 0 + denials
    BY <1>0, <1>1 DEF OneAnswerEach, One
  <2>4. One(child' = "crypt") = 1 /\ One(matched') = 0
    BY <1>0, <1>1, <2>2 DEF One
  <2> QED BY <1>1, <1>4, <2>2, <2>3, <2>4
<1> QED
  BY <1>3, <1>5, <1>6 DEF ShadowInv

\* The answer is in the pipe when the password is counted, and a match is the
\* child's last word.
LEMMA CheckKeepsShadow ==
  ASSUME ShadowInv, NEW success \in BOOLEAN, ShadowCheck(success),
         UNCHANGED mainVars
  PROVE  ShadowInv'
<1> DEFINE r == ResultFrame(success)
           F == ResultFrame(FALSE)
<1>1. /\ to_child \in Seq({PasswordFrame}) /\ Len(to_child) \in Nat
      /\ to_main \in Seq(Result)
      /\ OneAnswerEach /\ CountExact /\ MatchInv
      /\ ~matched /\ denials \in Nat
      /\ child = "crypt" /\ ChildUp /\ UNCHANGED to_child
      /\ matched' = success
      /\ denials' = IF success \/ ~MainUp THEN denials ELSE denials + 1
  <2>1. /\ child = "crypt" /\ UNCHANGED to_child
        /\ matched' = success
        /\ denials' = IF success \/ ~MainUp THEN denials ELSE denials + 1
    BY DEF ShadowCheck
  <2>2. ChildUp
    BY <2>1 DEF ChildUp, ChildGone
  <2>3. ~matched
    BY <2>1 DEF ShadowInv, MatchInv, ChildGone
  <2>4. /\ to_child \in Seq({PasswordFrame}) /\ to_main \in Seq(Result)
        /\ OneAnswerEach /\ CountExact /\ MatchInv /\ denials \in Nat
    BY DEF ShadowInv, ShadowTypeOK, PlainTraffic
  <2>5. Len(to_child) \in Nat
    BY <2>4
  <2> QED BY <2>1, <2>2, <2>3, <2>4, <2>5, Zenon
<1>2. r \in Result
  BY DEF Result
<1>3. IF MainUp THEN /\ to_main' = Append(to_main, r)
                     /\ child' = IF success THEN "end" ELSE "sleep"
                ELSE UNCHANGED to_main /\ child' \in ChildGone
  BY DEF ShadowCheck, comm_child_write, ChildGone
<1>4. UNCHANGED <<main, run_display, display_up, session, sigusr, submits,
                  failed_attempts>>
  BY DEF mainVars, envVars
<1>5. ShadowTypeOK' /\ MainInv' /\ PlainTraffic'
  <2>1. child' \in {"wait", "crypt", "sleep", "end"} \cup ChildGone
    BY <1>3 DEF ChildGone
  <2>2. denials' \in Nat
    BY <1>1
  <2> HIDE DEF r
  <2>3. to_main' = to_main \/ \E f \in Result : to_main' = Append(to_main, f)
    BY <1>2, <1>3
  <2> QED BY <1>1, <2>1, <2>2, <2>3, ChildKeepsMain
<1>6. CountExact'
  <2>1. CASE ~MainUp
    BY <1>4, <2>1 DEF CountExact, MainUp
  <2>2. CASE MainUp
    <3>1. /\ Answers(FALSE) = Places(to_main, F)
          /\ Answers(FALSE)' = Places(to_main', F)
      BY DEF Answers, Places
    <3>2. /\ failed_attempts + Cardinality(Places(to_main, F)) = denials
          /\ failed_attempts \in Nat
      BY <1>1, <2>2, <3>1 DEF CountExact, ShadowInv, ShadowTypeOK, Typed,
         MainTypeOK
    <3>3. r = F <=> ~success
      BY Results
    <3> HIDE DEF r, F
    <3>4. Cardinality(Places(to_main', F))
            = Cardinality(Places(to_main, F)) + One(r = F)
      <4>1. to_main' = Append(to_main, r)
        BY <1>3, <2>2
      <4>2. Cardinality(Places(Append(to_main, r), F))
              = Cardinality(Places(to_main, F)) + One(r = F)
        BY <1>1, <1>2, PlacesAppend
      <4> QED BY <4>1, <4>2
    <3>5. Cardinality(Places(to_main, F)) \in Nat
      BY <1>1, PlacesFinite
    <3>6. failed_attempts' + Cardinality(Places(to_main', F)) = denials'
      BY <1>1, <1>4, <2>2, <3>2, <3>3, <3>4, <3>5 DEF One
    <3> QED BY <3>1, <3>6 DEF CountExact
  <2> QED BY <2>1, <2>2
<1>7. OneAnswerEach'
  <2>1. SUFFICES ASSUME ChildUp'
                 PROVE  submits' = Len(to_child') + One(child' = "crypt")
                                     + One(matched') + denials'
    BY DEF OneAnswerEach
  <2>2. MainUp /\ child' \in {"sleep", "end"}
    BY <1>3, <2>1 DEF ChildUp, ChildGone
  <2>3. submits = Len(to_child) + 1 + 0 + denials
    BY <1>1 DEF OneAnswerEach, One
  <2>4. One(child' = "crypt") = 0
    BY <2>2 DEF One
  <2>5. One(matched') + denials' = denials + 1
    BY <1>1, <2>2 DEF One
  <2>6. /\ One(matched') \in Nat /\ denials' \in Nat /\ denials \in Nat
        /\ Len(to_child) \in Nat /\ Len(to_child') = Len(to_child)
        /\ submits' = submits
    BY <1>1, <1>4 DEF One
  <2> QED BY <2>3, <2>4, <2>5, <2>6
<1>8. MatchInv'
  <2>1. matched' => child' \in {"end"} \cup ChildGone
    BY <1>1, <1>3
  <2>2. Answers(TRUE)' # {} => matched'
    <3>1. Answers(TRUE) = {}
      BY <1>1 DEF MatchInv
    <3>2. SUFFICES ASSUME NEW i \in DOMAIN to_main', to_main'[i] = ResultFrame(TRUE)
                   PROVE  success
      BY <1>1 DEF Answers
    <3>3. ~(i \in DOMAIN to_main /\ to_main'[i] = to_main[i])
      BY <3>1, <3>2 DEF Answers
    <3>4. to_main' = Append(to_main, r)
      BY <1>3, <3>2, <3>3
    <3>5. i = Len(to_main) + 1 /\ to_main'[i] = r
      <4> HIDE DEF r
      <4>1. /\ DOMAIN to_main' = 1 .. Len(to_main) + 1
            /\ DOMAIN to_main = 1 .. Len(to_main) /\ Len(to_main) \in Nat
            /\ \A j \in 1 .. Len(to_main) : to_main'[j] = to_main[j]
            /\ to_main'[Len(to_main) + 1] = r
        BY <1>1, <1>2, <3>4
      <4> QED BY <3>3, <4>1
    <3> QED BY <3>2, <3>5, Results
  <2>3. Verdict => Verdict'
    BY <1>1, <1>4 DEF Verdict
  <2> QED BY <1>1, <1>4, <2>1, <2>2, <2>3 DEF MatchInv
<1> QED
  BY <1>5, <1>6, <1>7, <1>8 DEF ShadowInv

LEMMA ChildKeepsShadow ==
  ASSUME ShadowInv, ChildStep
  PROVE  ShadowInv'
<1>1. ShadowNext /\ UNCHANGED mainVars
  BY DEF ChildStep
<1>2. CASE ShadowRead
  BY <1>1, <1>2, ReadKeepsShadow
<1>3. CASE \E success \in BOOLEAN : ShadowCheck(success)
  BY <1>1, <1>3, CheckKeepsShadow
<1>4. CASE CryptFailed \/ ShadowWake \/ ShadowEnd
  <2>1. /\ UNCHANGED <<matched, denials, to_child, to_main>>
        /\ child' = "exited" \/ (child = "sleep" /\ child' = "wait")
        /\ ChildUp
    BY <1>4 DEF CryptFailed, ShadowWake, ShadowEnd, ChildUp, ChildGone
  <2>2. UNCHANGED <<main, run_display, display_up, session, sigusr, submits,
                    failed_attempts>>
    BY <1>1 DEF mainVars, envVars
  <2>3. ShadowTypeOK' /\ MainInv' /\ PlainTraffic'
    BY <1>1, <2>1, ChildKeepsMain DEF ShadowInv, ShadowTypeOK, PlainTraffic,
       ChildGone
  <2>4. MatchInv' /\ CountExact'
    BY <2>1, <2>2 DEF ShadowInv, MatchInv, Verdict, Answers, CountExact, MainUp,
       ChildGone
  <2>5. OneAnswerEach'
    BY <2>1, <2>2 DEF ShadowInv, OneAnswerEach, One, ChildUp, ChildGone
  <2> QED BY <2>3, <2>4, <2>5 DEF ShadowInv
<1> QED
  BY <1>1, <1>2, <1>3, <1>4 DEF ShadowNext

-----------------------------------------------------------------------------
\* Invariance, and the properties that TLC checks on small instances.

\* The invariant that all of the following rest on.
THEOREM ShadowInvariance == Spec => []ShadowInv
<1>1. Init => ShadowInv
  <2> SUFFICES ASSUME Init PROVE ShadowInv
    OBVIOUS
  <2>1. CommInit("wait") /\ MainInit /\ ShadowInit
    BY DEF Init
  <2>2. Typed /\ MainInv
    BY <2>1, MainInitial DEF ChildStatus
  <2>3. to_main = <<>> /\ to_child = <<>> /\ child = "wait"
    BY <2>1 DEF CommInit
  <2>4. ShadowTypeOK
    BY <2>1, <2>2, <2>3 DEF ShadowInit, ShadowTypeOK
  <2>5. PlainTraffic
    <3>1. <<>> \in Seq({PasswordFrame}) /\ <<>> \in Seq(Result)
      OBVIOUS
    <3> QED BY <2>1, <2>3, <3>1 DEF MainInit, PlainTraffic
  <2>6. \A ok \in BOOLEAN : Answers(ok) = {}
    BY <2>3 DEF Answers
  <2>7. MatchInv
    BY <2>1, <2>6 DEF MainInit, ShadowInit, MatchInv
  <2>8. OneAnswerEach
    BY <2>1, <2>3 DEF MainInit, ShadowInit, OneAnswerEach, One
  <2>9. CountExact
    <3>1. Cardinality(Answers(FALSE)) = 0
      BY <2>6, FS_EmptySet
    <3>2. failed_attempts = 0 /\ denials = 0
      BY <2>1 DEF MainInit, ShadowInit
    <3>3. 0 + 0 = 0
      OBVIOUS
    <3> QED BY <3>1, <3>2, <3>3, Zenon DEF CountExact
  <2> QED BY <2>2, <2>4, <2>5, <2>7, <2>8, <2>9 DEF ShadowInv
<1>2. ShadowInv /\ [Next]_vars => ShadowInv'
  <2> SUFFICES ASSUME ShadowInv, [Next]_vars PROVE ShadowInv'
    OBVIOUS
  <2>1. CASE Next
    BY <2>1, MainKeepsShadow, ChildKeepsShadow DEF Next
  <2>2. CASE UNCHANGED vars
    <3>1. UNCHANGED <<mainVars, child, to_child, to_main, matched, denials>>
      BY <2>2 DEF vars, shadowVars
    <3>2. Typed' /\ MainInv'
      BY <3>1, MainStutters DEF ShadowInv, ShadowTypeOK
    <3>3. UNCHANGED <<main, run_display, display_up, session, sigusr, submits,
                      failed_attempts, authd_active>>
      BY <3>1 DEF mainVars, envVars, authdVars
    <3>4. ShadowTypeOK' /\ PlainTraffic'
      BY <3>1, <3>2, <3>3 DEF ShadowInv, ShadowTypeOK, PlainTraffic
    <3>5. MatchInv' /\ OneAnswerEach' /\ CountExact'
      BY <3>1, <3>3 DEF ShadowInv, MatchInv, Verdict, Answers, OneAnswerEach,
         CountExact, ChildUp, MainUp
    <3> QED BY <3>2, <3>4, <3>5 DEF ShadowInv
  <2> QED BY <2>1, <2>2
<1> QED BY <1>1, <1>2, PTL DEF Spec

\* The failure counter counts each wrong password once.
THEOREM CountCorrect == Spec => []CountExact
BY ShadowInvariance, PTL DEF ShadowInv

\* No password is lost or answered twice.
THEOREM AnswersCorrect == Spec => []OneAnswerEach
BY ShadowInvariance, PTL DEF ShadowInv

\* Timers, password and indicator with this backend too.
THEOREM ShadowMainCorrect ==
  Spec => [](TimersMatch /\ PasswordClears /\ IndicatorTimed /\ PollStaysTrue)
BY ShadowInvariance, PTL DEF ShadowInv, MainInv

-----------------------------------------------------------------------------
\* Refinement: every step is a step of LockScreen or changes nothing in it.

LEMMA ShadowStepRefines ==
  ASSUME ShadowInv, Next
  PROVE  [Lock!LockNext]_(Lock!lockVars)
<1> USE DEF Lock!LockNext, Lock!Grant, Lock!Unlock, Lock!Quit, Lock!lockVars
<1>1. CASE MainStep /\ unlock_and_destroy
  <2>1. /\ MainUp
        /\ ~MainUp'
        /\ Verdict' = Verdict
        /\ ~run_display
        /\ session' = IF display_up THEN "unlocked" ELSE session
    BY <1>1 DEF MainStep, unlock_and_destroy, BetweenIterations, MainUp, Verdict
  <2>2. display_up => Verdict
    BY <2>1 DEF ShadowInv, MatchInv
  <2> QED BY <2>1, <2>2 DEF MainUp
<1>2. CASE MainStep /\ ~unlock_and_destroy
  <2>1. /\ MainUp
        /\ session' = session
        /\ sigusr' = sigusr \/ (sigusr' /\ UNCHANGED main)
        /\ UNCHANGED matched
    BY <1>2, MainEffect DEF MainStep, ShadowInv, ShadowTypeOK
  <2>2. CASE sigusr' = sigusr
    <3>1. Verdict' = Verdict
      BY <2>1, <2>2 DEF Verdict
    <3> QED BY <2>1, <3>1 DEF MainUp
  <2>3. CASE sigusr' /\ UNCHANGED main
    <3>1. Verdict' = TRUE
      BY <2>3, Zenon DEF Verdict
    <3> QED BY <2>1, <2>3, <3>1 DEF MainUp
  <2> QED BY <2>1, <2>2, <2>3
<1>3. CASE ChildStep
  <2>1. UNCHANGED <<session, main, sigusr>>
    BY <1>3 DEF ChildStep, mainVars, envVars
  <2>2. matched => matched'
    <3>1. matched => child \in {"end"} \cup ChildGone
      BY DEF ShadowInv, MatchInv
    <3>2. child = "crypt" \/ UNCHANGED matched
      BY <1>3 DEF ChildStep, ShadowNext, ShadowRead, ShadowCheck, CryptFailed,
         ShadowWake, ShadowEnd
    <3> QED BY <3>1, <3>2 DEF ChildGone
  <2>3. Verdict' = Verdict \/ (~Verdict /\ Verdict' = TRUE)
    BY <2>1, <2>2, Zenon DEF Verdict
  <2>4. CASE Verdict' = Verdict
    BY <2>1, <2>4 DEF MainUp
  <2>5. CASE ~Verdict /\ Verdict' = TRUE
    BY <2>1, <2>5 DEF MainUp
  <2> QED BY <2>3, <2>4, <2>5
<1> QED
  BY <1>1, <1>2, <1>3 DEF Next

\* With the shadow backend, too, swaylock is a screen locker.
THEOREM ShadowRefinement == Spec => Implements
<1>1. Init => Lock!LockInit
  BY DEF Init, CommInit, MainInit, ShadowInit, Lock!LockInit, Verdict, MainUp
<1>2. ShadowInv /\ [Next]_vars => [Lock!LockNext]_(Lock!lockVars)
  <2> SUFFICES ASSUME ShadowInv, [Next]_vars
               PROVE  [Lock!LockNext]_(Lock!lockVars)
    OBVIOUS
  <2>1. CASE Next
    BY <2>1, ShadowStepRefines
  <2>2. CASE UNCHANGED vars
    BY <2>2 DEF vars, mainVars, shadowVars, envVars, Lock!lockVars, Verdict,
       MainUp
  <2> QED BY <2>1, <2>2
<1> QED
  BY <1>1, <1>2, ShadowInvariance, PTL DEF Spec, Implements, Lock!LockSafety

=============================================================================
