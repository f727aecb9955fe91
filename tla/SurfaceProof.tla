---------------------------- MODULE SurfaceProof ----------------------------
(***************************************************************************)
(* Buffers are not drawn into while the compositor reads them, and no      *)
(* change of the state is lost: for any sizes and scales, any number of    *)
(* changes, and an output that comes and goes.                             *)
(***************************************************************************)
EXTENDS Surface, TLAPS

\* The two sides agree on the buffers: exactly those in use are held.
BuffersAgree ==
  /\ busy \subseteq Buffer
  /\ held = busy
  /\ content \in [Buffer -> Nat]
  /\ current \in Buffer \cup {NoBuffer}

\* Something is shown only on an output that is there and has a size, and
\* only such an output has a lock surface.
ShownHasSize ==
  /\ version \in Nat /\ width \in Nat /\ scale \in Nat
  /\ dirty \in BOOLEAN /\ frame \in BOOLEAN
  /\ created => bound
  /\ width # 0 => bound
  /\ current # NoBuffer => width # 0 /\ scale # 0

SurfaceInv == BuffersAgree /\ ShownHasSize /\ NoLostUpdate

-----------------------------------------------------------------------------
\* get_next_buffer() takes a free buffer when there is one.
LEMMA NextBuffer ==
  ASSUME get_next_buffer # {}
  PROVE  Max(get_next_buffer) \in Buffer \ busy
<1> DEFINE S == get_next_buffer
<1>1. \E x \in S : \A y \in S : x >= y
  <2>1. CASE 1 \in S
    BY <2>1 DEF get_next_buffer, Buffer
  <2>2. CASE 1 \notin S
    BY <2>2 DEF get_next_buffer, Buffer
  <2> QED
    BY <2>1, <2>2
<1>2. Max(S) \in S
  BY <1>1 DEF Max
<1> QED
  BY <1>2 DEF get_next_buffer

\* What drawing does: nothing but remember that there was no buffer, or a new
\* picture in a buffer that the compositor had given back.
LEMMA FrameEffect ==
  ASSUME BuffersAgree, NEW v \in Nat, render_frame(v)
  PROVE  /\ BuffersAgree'
         /\ \A b \in held : content'[b] = content[b]
         /\ \/ missed' = TRUE /\ current' = current
            \/ missed' = FALSE /\ current' \in Buffer /\ content'[current'] = v
<1>1. CASE NotDrawn
  BY <1>1 DEF NotDrawn, BuffersAgree
<1>2. CASE ~NotDrawn
  <2>1. PICK b \in {Max(get_next_buffer)} :
          /\ get_next_buffer # {}
          /\ busy' = busy \cup {b}
          /\ content' = [content EXCEPT ![b] = v]
          /\ held' = held \cup {b}
          /\ current' = b
          /\ missed' = FALSE
    BY <1>2 DEF render_frame, wl_surface_attach
  <2>2. b \in Buffer \ busy
    BY <2>1, NextBuffer
  <2> QED
    BY <2>1, <2>2 DEF BuffersAgree
<1> QED
  BY <1>1, <1>2

\* What render() does to a surface whose mark and callback are d and f, and
\* that is to show state v: it draws at once, or it leaves the mark where it
\* finds it.  A mark on a surface with a size stays only with a frame callback,
\* or when there was no buffer.
RenderResult(w, s, d, f, v) ==
  /\ BuffersAgree'
  /\ dirty' \in BOOLEAN /\ frame' \in BOOLEAN
  /\ \A b \in held : content'[b] = content[b]
  /\ current' # NoBuffer => current' = current \/ w * s # 0
  /\ \/ missed' = TRUE
     \/ current' \in Buffer /\ content'[current'] = v
     \/ /\ missed' = missed /\ current' = current /\ content' = content
        /\ dirty' = d /\ frame' = f
        /\ w * s = 0 \/ ~d \/ f

LEMMA RenderEffect ==
  ASSUME BuffersAgree, NEW w \in Nat, NEW s \in Nat, NEW d \in BOOLEAN,
         NEW f \in BOOLEAN, NEW v \in Nat, render(w, s, d, f, v)
  PROVE  RenderResult(w, s, d, f, v)
<1> USE DEF RenderResult
<1> DEFINE rest == w * s = 0 \/ ~d \/ f
<1>1. CASE rest
  BY <1>1 DEF render, bufferVars, BuffersAgree
<1>2. CASE ~rest /\ NotDrawn /\ dirty' = d /\ frame' = f
  BY <1>2 DEF NotDrawn, BuffersAgree
<1>3. CASE ~rest /\ dirty' = FALSE /\ frame' = TRUE /\ render_frame(v)
  BY <1>3, FrameEffect
<1> QED
  BY <1>1, <1>2, <1>3 DEF render

\* A surface that is marked dirty and rendered keeps the invariant, whatever
\* size it has and whatever state it is to show.
LEMMA MarkedKeeps ==
  ASSUME SurfaceInv, NEW w \in Nat, NEW s \in Nat, bound, bound',
         width' = w, scale' = s, version' \in Nat, created' \in {created, FALSE},
         current # NoBuffer => w # 0 /\ s # 0,
         render(w, s, TRUE, frame, version')
  PROVE  SurfaceInv' /\ \A b \in held : content'[b] = content[b]
<1> DEFINE v == version'
<1>1. frame \in BOOLEAN /\ BuffersAgree
  BY DEF SurfaceInv, ShownHasSize
<1>2. w = 0 \/ s = 0 => w * s = 0
  OBVIOUS
<1>3. w # 0 /\ s # 0 => w * s # 0
  OBVIOUS
<1>4. RenderResult(w, s, TRUE, frame, v)
  BY <1>1, RenderEffect, Zenon
<1> USE DEF RenderResult
<1>5. ShownHasSize'
  BY <1>2, <1>4 DEF SurfaceInv, ShownHasSize
<1>6. NoLostUpdate'
  BY <1>3, <1>4 DEF SurfaceInv, NoLostUpdate
<1> QED
  BY <1>4, <1>5, <1>6 DEF SurfaceInv

-----------------------------------------------------------------------------
\* The frame callback.
LEMMA FrameDoneKeeps ==
  ASSUME SurfaceInv, surface_frame_handle_done
  PROVE  SurfaceInv' /\ \A b \in held : content'[b] = content[b]
<1>1. /\ BuffersAgree /\ width \in Nat /\ scale \in Nat /\ version \in Nat
      /\ dirty \in BOOLEAN
  BY DEF SurfaceInv, ShownHasSize
<1>2. render(width, scale, dirty, FALSE, version)
  BY DEF surface_frame_handle_done
<1>3. RenderResult(width, scale, dirty, FALSE, version)
  BY <1>1, <1>2, RenderEffect, Zenon
<1> USE DEF RenderResult
<1>4. UNCHANGED <<bound, created, width, scale, version>>
  BY DEF surface_frame_handle_done, outputVars
<1>5. width = 0 \/ scale = 0 => width * scale = 0
  BY <1>1
<1>6. width # 0 /\ scale # 0 => width * scale # 0
  BY <1>1
<1> QED
  BY <1>1, <1>3, <1>4, <1>5, <1>6
  DEF SurfaceInv, ShownHasSize, NoLostUpdate

\* Every other action leaves the picture alone, or marks and renders, or takes
\* the surface away.
LEMMA SurfaceStep ==
  ASSUME SurfaceInv, Next
  PROVE  /\ SurfaceInv'
         /\ bound' => \A b \in held : content'[b] = content[b]
<1> USE SurfaceAssumption DEF SurfaceInv, BuffersAgree, ShownHasSize,
        NoLostUpdate, outputVars, bufferVars
<1>1. CASE CreateSurfaces
  BY <1>1 DEF CreateSurfaces
<1>2. CASE EnterLoop
  BY <1>2 DEF EnterLoop
<1>3. CASE handle_global
  BY <1>3 DEF handle_global
<1>4. CASE handle_global_remove
  BY <1>4 DEF handle_global_remove, destroy_surface, Buffer, NoBuffer
<1>5. CASE handle_wl_output_geometry
  BY <1>5, MarkedKeeps DEF handle_wl_output_geometry
<1>6. CASE handle_wl_output_done
  BY <1>6 DEF handle_wl_output_done, create_surface
<1>7. CASE \E s \in Scales : handle_wl_output_scale(s)
  <2>1. PICK s \in Scales : handle_wl_output_scale(s)
    BY <1>7
  <2>2. CASE run_display
    BY <2>1, <2>2, MarkedKeeps DEF handle_wl_output_scale
  <2>3. CASE ~run_display
    BY <2>1, <2>3 DEF handle_wl_output_scale
  <2> QED
    BY <2>2, <2>3
<1>8. CASE \E w \in Widths : ext_session_lock_surface_v1_handle_configure(w)
  <2>1. PICK w \in Widths : ext_session_lock_surface_v1_handle_configure(w)
    BY <1>8
  <2>2. /\ w \in Nat /\ w # 0 /\ scale \in Nat /\ bound /\ bound'
        /\ width' = w /\ scale' = scale /\ created' = created
        /\ version' = version
        /\ render(w, scale, TRUE, frame, version)
    BY <2>1 DEF ext_session_lock_surface_v1_handle_configure
  <2> QED
    BY <2>2, MarkedKeeps
<1>9. CASE damage_state
  <2>1. CASE bound
    <3>1. /\ width' = width /\ scale' = scale /\ created' = created
          /\ bound' /\ version' = version + 1
          /\ render(width, scale, TRUE, frame, version')
      BY <1>9, <2>1 DEF damage_state
    <3>2. version' \in Nat /\ width \in Nat /\ scale \in Nat
      BY <3>1
    <3> QED
      BY <2>1, <3>1, <3>2, MarkedKeeps
  <2>2. CASE ~bound
    BY <1>9, <2>2 DEF damage_state
  <2> QED
    BY <2>1, <2>2
<1>10. CASE surface_frame_handle_done
  BY <1>10, FrameDoneKeeps
<1>11. CASE Release
  BY <1>11 DEF Release, buffer_release
<1> QED
  BY <1>1, <1>2, <1>3, <1>4, <1>5, <1>6, <1>7, <1>8, <1>9, <1>10, <1>11
  DEF Next

THEOREM SurfaceInvariance == Spec => []SurfaceInv
<1>1. Init => SurfaceInv
  <2> SUFFICES ASSUME Init PROVE SurfaceInv
    OBVIOUS
  <2>1. BuffersAgree
    BY DEF Init, BuffersAgree, Buffer, NoBuffer
  <2>2. ShownHasSize
    BY DEF Init, ShownHasSize
  <2>3. NoLostUpdate
    BY DEF Init, NoLostUpdate
  <2> QED
    BY <2>1, <2>2, <2>3 DEF SurfaceInv
<1>2. SurfaceInv /\ [Next]_vars => SurfaceInv'
  <2>1. ASSUME SurfaceInv, UNCHANGED vars
        PROVE  SurfaceInv'
    BY <2>1
    DEF vars, outputVars, bufferVars, SurfaceInv, BuffersAgree, ShownHasSize,
        NoLostUpdate
  <2> QED
    BY <2>1, SurfaceStep
<1> QED
  BY <1>1, <1>2, PTL DEF Spec

(***************************************************************************)
(* No change of the state is lost between damage_state(), the frame        *)
(* callbacks and render(), in any order of events.                         *)
(***************************************************************************)
THEOREM NothingLost == Spec => []NoLostUpdate
<1>1. SurfaceInv => NoLostUpdate
  BY DEF SurfaceInv
<1> QED
  BY <1>1, SurfaceInvariance, PTL

(***************************************************************************)
(* No step draws into a buffer the compositor still reads, whatever order  *)
(* frame and release events come in.                                       *)
(***************************************************************************)
THEOREM NeverTears == Spec => NoTearing
<1>1. SurfaceInv /\ [Next]_vars =>
        [bound' => \A b \in held : content'[b] = content[b]]_vars
  BY SurfaceStep
<1> QED
  BY <1>1, SurfaceInvariance, PTL DEF Spec, NoTearing

=============================================================================
