------------------------------ MODULE Surface ------------------------------
(***************************************************************************)
(* One output and its lock surface (main.c, render.c, pool-buffer.c): when *)
(* it is created, when it is drawn, and the two buffers the indicator is   *)
(* drawn into.  What is drawn is the number of the state it shows.         *)
(*                                                                         *)
(* The compositor is external.  It announces and removes the output, sends *)
(* configure, done, scale, frame and release events, and reads a buffer    *)
(* from the commit until it releases it.  A frame event may overtake the   *)
(* release of the buffer that was replaced, and memory may run out.        *)
(***************************************************************************)
EXTENDS Integers, FiniteSetsExt

CONSTANTS
  Widths,       \* sizes the compositor may configure
  Scales,       \* scales the output may have
  MaxVersion    \* bound: changes of the state

ASSUME SurfaceAssumption ==
  /\ Widths \subseteq Nat \ {0}
  /\ Scales \subseteq Nat \ {0}
  /\ MaxVersion \in Nat

Buffer   == {0, 1}
NoBuffer == -1

VARIABLES
  stage,     \* main(): "setup", "await" the locked event, or in the "loop"
  bound,     \* the output was announced: there is a struct swaylock_surface
  created,
  width, scale,
  last,      \* last_buffer_width: size of the background that was attached
  dirty,
  frame,     \* a frame callback is outstanding
  busy,      \* indicator buffers that are in use
  content,   \* the state each of them shows
  missed,    \* the last frame found no buffer to draw into
  held,      \* compositor: buffers it may still read
  current,   \* compositor: the buffer it shows
  version    \* the state that ought to be shown

outputVars == <<stage, bound, created>>
bufferVars == <<busy, content, missed, held, current>>
vars == <<outputVars, width, scale, last, dirty, frame, bufferVars, version>>

Init ==
  /\ stage = "setup"
  /\ bound \in BOOLEAN
  /\ created = FALSE
  /\ width = 0 /\ scale = 0 /\ last = 0
  /\ dirty = FALSE /\ frame = FALSE
  /\ busy = {}
  /\ content = [b \in Buffer |-> 0]
  /\ missed = FALSE
  /\ held = {}
  /\ current = NoBuffer
  /\ version = 0

run_display == stage = "loop"

-----------------------------------------------------------------------------
\* render.c and pool-buffer.c

\* Mutant: a buffer is taken even if the compositor still reads it.
get_next_buffer_any == Buffer

\* Buffers that may be drawn into; of two, the last one is taken.
get_next_buffer == Buffer \ busy

\* A buffer was not created, or both are in use.
NotDrawn == missed' = TRUE /\ UNCHANGED <<busy, content, held, current>>

\* Buffer b, with v drawn in it, becomes what the compositor shows.
wl_surface_attach(b, v) ==
  /\ content' = [content EXCEPT ![b] = v]
  /\ held' = held \cup {b}
  /\ current' = b

\* The indicator is drawn and attached; without a buffer the old one stays.
render_frame(v) ==
  \/ /\ get_next_buffer # {}
     /\ \E b \in {Max(get_next_buffer)} :
          /\ busy' = busy \cup {b}
          /\ wl_surface_attach(b, v)
          /\ missed' = FALSE
  \/ NotDrawn

\* Mutant: the mark is cleared although nothing was drawn.
render_forgets(w, s, d, f, v) ==
  IF w * s = 0 \/ ~d \/ f
    THEN /\ dirty' = FALSE
         /\ frame' = f
         /\ UNCHANGED <<last, bufferVars>>
    ELSE /\ last' = w * s
         /\ dirty' = FALSE
         /\ frame' = TRUE
         /\ render_frame(v)

\* Drawing a surface of width w and scale s, marked dirty if d, with a frame
\* outstanding if f, that is to show state v.
render(w, s, d, f, v) ==
  IF w * s = 0 \/ ~d \/ f
    THEN /\ dirty' = d
         /\ frame' = f
         /\ UNCHANGED <<last, bufferVars>>
    ELSE \/ /\ w * s # last
            /\ dirty' = d
            /\ frame' = f
            /\ NotDrawn
            /\ UNCHANGED last
         \/ /\ last' = w * s
            /\ dirty' = FALSE
            /\ frame' = TRUE
            /\ render_frame(v)

\* Mutant: what became dirty meanwhile is not drawn.
surface_frame_handle_done_only ==
  /\ frame
  /\ frame' = FALSE
  /\ UNCHANGED <<outputVars, width, scale, last, dirty, bufferVars, version>>

surface_frame_handle_done ==
  /\ frame
  /\ render(width, scale, dirty, FALSE, version)
  /\ UNCHANGED <<outputVars, width, scale, version>>

buffer_release(b) ==
  /\ b \in held
  /\ held' = held \ {b}
  /\ busy' = busy \ {b}
  /\ UNCHANGED <<outputVars, width, scale, last, dirty, frame, content, missed,
                 current, version>>

-----------------------------------------------------------------------------
\* main.c: the state changes, and events of the lock surface and the output.

damage_state ==
  /\ version < MaxVersion
  /\ version' = version + 1
  /\ IF bound THEN render(width, scale, TRUE, frame, version')
              ELSE UNCHANGED <<last, dirty, frame, bufferVars>>
  /\ UNCHANGED <<outputVars, width, scale>>

ext_session_lock_surface_v1_handle_configure(w) ==
  /\ created
  /\ width' = w
  /\ render(w, scale, TRUE, frame, version)
  /\ UNCHANGED <<outputVars, scale, version>>

handle_wl_output_geometry ==
  /\ bound
  /\ run_display
  /\ render(width, scale, TRUE, frame, version)
  /\ UNCHANGED <<outputVars, width, scale, version>>

\* Outside the loop a new scale is only remembered.
handle_wl_output_scale(s) ==
  /\ bound
  /\ scale' = s
  /\ IF run_display THEN render(width, s, TRUE, frame, version)
                    ELSE UNCHANGED <<last, dirty, frame, bufferVars>>
  /\ UNCHANGED <<outputVars, width, version>>

\* A surface of the output is made a lock surface; it waits for configure.
create_surface == created' = TRUE

\* The output is complete (its scale is known).  Outside the loop this creates
\* no surface.
handle_wl_output_done ==
  /\ bound
  /\ scale # 0
  /\ ~created
  /\ run_display
  /\ create_surface
  /\ UNCHANGED <<stage, bound, width, scale, last, dirty, frame, bufferVars,
                 version>>

handle_global ==
  /\ ~bound
  /\ bound' = TRUE
  /\ UNCHANGED <<stage, created, width, scale, last, dirty, frame, bufferVars,
                 version>>

\* The struct, its buffers and its callbacks are gone.
destroy_surface ==
  /\ bound' = FALSE
  /\ created' = FALSE
  /\ width' = 0 /\ scale' = 0 /\ last' = 0
  /\ dirty' = FALSE /\ frame' = FALSE
  /\ busy' = {}
  /\ content' = [b \in Buffer |-> 0]
  /\ missed' = FALSE
  /\ held' = {}
  /\ current' = NoBuffer

handle_global_remove ==
  /\ bound
  /\ destroy_surface
  /\ UNCHANGED <<stage, version>>

\* main() creates the surfaces of all outputs it knows...
CreateSurfaces ==
  /\ stage = "setup"
  /\ stage' = "await"
  /\ created' = bound
  /\ UNCHANGED <<bound, width, scale, last, dirty, frame, bufferVars, version>>

\* ... and, once the session is locked, enters the loop.
EnterLoop ==
  /\ stage = "await"
  /\ stage' = "loop"
  /\ UNCHANGED <<bound, created, width, scale, last, dirty, frame, bufferVars,
                 version>>

Release == \E b \in Buffer : buffer_release(b)

Next ==
  \/ CreateSurfaces \/ EnterLoop
  \/ handle_global \/ handle_global_remove
  \/ handle_wl_output_geometry \/ handle_wl_output_done
  \/ \E s \in Scales : handle_wl_output_scale(s)
  \/ \E w \in Widths : ext_session_lock_surface_v1_handle_configure(w)
  \/ damage_state
  \/ surface_frame_handle_done
  \/ Release

Spec == Init /\ [][Next]_vars

\* The compositor goes on asking for frames and gives buffers back.
FairSpec ==
  /\ Spec
  /\ WF_vars(surface_frame_handle_done)
  /\ WF_vars(\E b \in held \ {current} : buffer_release(b))

-----------------------------------------------------------------------------
(***************************************************************************)
(* A buffer that the compositor may read is never drawn into: get_next_    *)
(* buffer() and the release events keep the two sides apart, also when     *)
(* frames, releases and changes of size come in any order.                 *)
(***************************************************************************)
NoTearing == [][bound' => \A b \in held : content'[b] = content[b]]_vars

(***************************************************************************)
(* No change is lost: what is shown is the newest state, or the surface is *)
(* marked dirty and a frame callback will draw it.  Only a frame for which *)
(* there was no buffer loses one, until the next that finds one: render()  *)
(* clears dirty all the same.                                              *)
(***************************************************************************)
NoLostUpdate ==
  current # NoBuffer /\ ~missed =>
    content[current] = version \/ (dirty /\ frame)

\* Once the state stops changing, the newest one is what is shown, unless
\* the last frame found no buffer.
ShownEventually ==
  <>[](current # NoBuffer => content[current] = version \/ missed)

=============================================================================
