# TLA+ specification of swaylock-authd

swaylock-authd is a screen locker for Wayland: a fork of swaylock whose PAM
backend also speaks the GDM JSON protocol of authd, so that the user can choose a
broker and an authentication mode on the lock screen. This directory holds its
formal model, the TLC configurations that check the model on small instances,
and theorems about it that TLAPS proves for every value of the constants.

The code is in C, single-threaded, in two processes. What is hard about it is not
any one function but the order in which things happen: a result and a hang-up
that arrive together, a prompt that crosses a submission, a timer that is
cancelled after it was found expired, a frame callback that is outstanding
when the state changes.

## 1. Inventory

### Components and what they do

| component | source | state | operations |
|---|---|---|---|
| comm | `comm.c`, `include/comm.h` | two pipes between main process and child | `comm_main_write`, `comm_child_write`, `comm_read`, `spawn_comm_child` |
| event loop of main | `main.c` 1116-1386, 1608-1650 | `run_display`, `authd_*`, `auth_state`, `failed_attempts` | `display_in`, `comm_in`, `term_in`, the loop, unlocking |
| password | `password.c` | password buffer, `input_state`, three timers | `swaylock_handle_key`, `submit_password`, `set_input_idle`, `set_auth_idle`, `clear_password` |
| seat | `seat.c` | modifiers, `repeat_timer` | `keyboard_key`, `keyboard_modifiers`, `keyboard_repeat`, `keyboard_repeat_info`, capabilities |
| PAM child | `pam.c` | `pam_status`, `conv_state` | `handle_conversation`, `handle_gdm_json`, `run_pw_backend_child` |
| shadow child | `shadow.c` | the shadow entry | `run_pw_backend_child` |
| loop | `loop.c` | descriptors, list of timers | `loop_poll`, `loop_add_timer`, `loop_remove_timer` |
| surfaces | `main.c` 96-237, `render.c`, `pool-buffer.c` | per output: size, scale, `dirty`, `frame`, two buffers | `create_surface`, `destroy_surface`, `render`, `damage_state`, `get_next_buffer` |
| start-up and end | `main.c` 61-93, 1496-1651 | `locked`, `lock_failed`, `--ready-fd`, `--daemonize`, `--steal-unlock` | `main`, `daemonize`, the lock's listeners |
| options | `main.c` 364-1093, `background-image.c` | `args`, `images`, the line mode | `parse_options`, `load_config`, `load_image`, `select_image` |
| password in memory | `password.c`, `unicode.c`, `password-buffer.c`, `comm.c` | bytes of the buffer and of a submission's copy, `mlock_supported` | `append_ch`, `backspace`, `utf8_*`, `password_buffer_create`, `password_buffer_destroy` |
| drawing | `render.c`, `cairo.c`, `background-image.c` | none of its own | `render_frame`, the window of a long list |
| logging | `log.c` | the overlay's ring of lines | |

### How they interact

The child is forked before anything else. It runs PAM (or compares with the
shadow entry) and knows nothing of Wayland; the main process knows nothing of
PAM. They exchange frames over two pipes, each direction on its own, with no
pairing of requests and answers. The main process is one `poll()` loop: in each
iteration the display's events, then one frame of the child, then SIGUSR1, then
the timers that expired. `run_display` is tested between iterations only.

Whoever clears `run_display` unlocks the session: after the loop `main()` calls
`ext_session_lock_v1_unlock_and_destroy()` whatever the reason was. Everything
else that ends the process leaves the session locked.

### What is hard, and what has to be true

`PROJECT.json` lists the hazards at their lines. In short:

* **Unlocking** (main, PAM child, comm). A session is unlocked only after a
  positive verdict or SIGUSR1, in spite of crashes, hang-ups, loss of the display
  and late frames; and a positive verdict is not lost to the hang-up of the child
  that gave it.
* **Validating** (main, password, children). `AUTH_STATE_VALIDATING` blocks
  further submissions, so the frame that ends it must always be on its way.
* **Timers** (password, loop). Pointers and the list of the loop agree; a password
  is always about to be forgotten; no message stays on the screen for ever; a list
  that callbacks change while it is traversed is traversed safely.
* **Lists** (main, password). An index into a list that authd replaces stays
  inside it.
* **Screen** (main, render). What is shown is the current state; buffers that
  the compositor reads are not drawn into.
* **Start-up** (main). The launcher is told of a lock only when there is one, and
  is told in every case; `--steal-unlock` races other lockers without breaking the
  protocol.
* **Frames** (comm). Pieces of frames are put together again, and nobody waits for
  ever on a full pipe.
* **Keys** (seat). Keyboards, focus, keymaps and rates change while keys are held.
* **Memory** (password). The buffer holds what was typed, never where it could be
  paged out.
* **Settings** (options). What takes effect is what the user wrote.
* **Shadow** (shadow child). Each password is answered once; the counter of
  failed attempts is exact.

## 2. Modules

```
Comm ──┬── MainProcess ──┬── Swaylock ──────── SelectionList    LockScreen   (abstract)
       ├── PamChild ─────┤                                      TimerSet     (abstract)
       └── ShadowChild ──┴── SwaylockShadow                     FrameChannel (abstract)

model                      TLC                           TLAPS
MainProcess                                              MainProof
Swaylock, SelectionList    MCSwaylock, MCSelectionList   SwaylockProof  (on MainProof)
SwaylockShadow             MCShadow                      ShadowProof    (on MainProof)
Session, Options           MCSession, MCOptions          SessionProof
Seat                       MCSeat                        SeatProof
Surface                    MCSurface                     SurfaceProof
Loop                       MCLoop                        LoopProof
PasswordBuffer, CommFrame  MCPassword, MCCommFrame       BytesProof
```

**Comm** - the two processes' status and the two queues of frames. A process that
ends closes its pipes: its peer reads what is left, then EOF; a write towards it
raises SIGPIPE, which the code neither handles nor ignores (constant
`SigpipeIgnored` for the disposition inherited from the parent). A pipe holds
`PipeCap` frames; a writer waits when it is full. BROKER_SEL and AUTH_MODE_SEL are
one record type with a stage, and so are BROKERS and AUTH_MODES.

**MainProcess** - one iteration of the loop is `loop_poll` (what poll()
reports becomes `pending`), the callbacks in the order their descriptors were
added, `loop_timers` (which of the live timers have expired becomes `expired`), the
timers' callbacks, and again. A callback is one action, named after the C
function. Where a C function has several exits, each is a disjunct. While the
display is being dispatched any number of keys may be delivered. `drawn` is what
`damage_state()` was last called with; comparing it with `View` tells whether a
handler forgot to redraw. Characters are one byte long. `timer[k]` is the pointer
to a timer of kind k, `armed[k]` the number of live timers of that kind in
the loop; the two are separate variables because the code keeps them in
separate places.

**PamChild** - `run_pw_backend_child()` of `pam.c`, with the PAM stack and authd
left open: within what the constants allow, it prompts, sends events, polls and
returns in any order. An event without a response, or one whose text cannot be
made, is handled without a frame (`GdmEventUnsent`). `judging` and `denials` are history:
whether PAM holds a credential whose answer it did not report, and how many it has refused. A child that ends
before its first `pam_authenticate()` (no user, `pam_start` failed) is covered
by `PamCrash`.

**ShadowChild** - `run_pw_backend_child()` of `shadow.c`. After a match it writes the
result and then exits, in two steps.

**Swaylock**, **SwaylockShadow** - the main process with one of the children;
steps interleave freely. The system properties are here.

**LockScreen** - the abstract specification: a session, a verdict and a locker. The
session is unlocked only by a locker that runs and only after a verdict; the locker may
quit; after a verdict it does not linger (fairness).

**Loop** - the list of timers of `loop.c` with the traversal of
`wl_list_for_each_safe` step by step, marks for removed timers, addresses that
are used again after `free()`, and the arithmetic of `struct timespec` including
C's division that rounds towards zero. The units (ms per s, ns per ms) are
constants so that carries happen within a few ticks. `asked` is history: the
instant a timer was meant for. When `poll()` fails with anything but EINTR the process
exits (`PollFailed`).

**TimerSet** - the abstract specification of it: one timer per user, which fires
once, not before it is due and not after it was cancelled.

**Surface** - one output: announced, removed, its lock surface created at start-up
or by a `done` event, `configure`, scale, damage, frame callbacks, the two
indicator buffers and their release. Contents are version numbers; `missed` is history,
whether the last frame found a buffer. `width`
stands for both dimensions. Of `render_frame()` there are the choice of a buffer and
the attach (`wl_surface_attach`), not what is drawn in between.

**Session** - `main()` around its event loop, for several invocations in one
session: `pc[p]` is the place in `main()` (`start`, `bound`, `roundtrip`,
`dispatch`, `ready`, `daemonize`, `forked`, `sigaction`, `loop`, `unlock`, `sync`),
`exit[p]` how the process ended, `launcher[p]` the parent that `daemonize()` leaves
behind. The compositor is external: one client holds the lock, a second is
refused as long as the first is connected, and closed connections are noticed
late. `Dispatch` takes any prefix of the events that have come, because
`main()` tests its flags after a batch, while the handler of `finished` exits in the
middle of one. Each entry of `Faults` is a call that may fail or somebody who
interferes.

**CommFrame** - `comm.c` byte by byte: `read_full` and `write_full` transfer any part
that fits, the length is stored and loaded in little-endian (in `LenBytes` bytes, four in the
code), a payload above the limit or without memory ends the reader. A process inside a call does nothing else, so
full pipes make both wait. It implements **FrameChannel** for each pipe: whole frames, in
order, EOF after the last complete one. That is what Comm's queues assume.

**Seat** - key repeat with several seats. The compositor writes to one connection; an
event names the keyboard object it was sent to, and is dropped when that object has been
released. `down` and `deaf` are history: what the client was told, and what it was told
while it had no keymap. An iteration dispatches what was read and then traverses
the timers; a timer armed during the traversal is not visited by it. A `keymap` event without a
keymap leaves the seat without one; a keymap that cannot be mapped or compiled ends the process.
Pointers, and what a key does, are left out.

**PasswordBuffer** - the bytes of the password: UTF-8 in and out of the buffer,
the copy that a submission makes, `mlock()` with its retries and refusals, clearing and
unlocking. `Decode` is the reference definition that the bytes are compared with: it splits
them where a byte begins a character and puts the bits of each together.

**Options** - the scan for `--config`, the search for a file, its lines, the command line
again, images, and the colour of the line that is copied at the end. An option is a
record of its kind and value. The reference definition reads what was written as a whole
instead of option by option: `Obeyed` is the part of the file that counts, `LastWord` the last
option about a field, the line, the scaling or the image of an output, `Wanted`,
`WantedLine`, `WantedMode` and `WantedImage` what it asks for.

**SelectionList** - Swaylock with the window of `render_frame()` over its lists.

Definitions marked `Mutant:` are deliberately wrong variants of the definition that
follows them. No specification uses them. Each run's properties were
checked to fail when the right definition is replaced by its wrong variant
(list `mutants` of `PROJECT.json`).

## 3. Runs

| run | configuration | what it shows |
|---|---|---|
| `pam` | `MCPam.cfg` | A stack that prompts, two submissions, crashes, SIGUSR1, SIGPIPE, failing allocations: `TypeOK`, `PollStaysTrue`, `Implements` (every step is a step of LockScreen), and under fairness `ImplementsFair` (LockScreen with its liveness), `GrantUnlocks`, `VerifyingEnds`, `PasswordForgotten`, `NoOrphan`. |
| `authd_challenge` | `MCAuthdChallenge.cfg` | Layouts, button, retries, results crossing submissions, `finished`: `UnlockJustified`, `DisplayCurrent`, `NoStuckVerifying`. |
| `authd_lists` | `MCSelectionList.cfg` | Lists of brokers and modes, shorter and longer than the screen, replaced while the user moves about in them and presses modifiers, entries without an id, failed allocation: `SelectionInRange`, `SelectionVisible`. |
| `shadow` | `MCShadow.cfg` | The shadow backend with the editing keys with and without control, key repeat, EPIPE instead of SIGPIPE and loss of the display: `TimersMatch`, `PasswordClears`, `IndicatorTimed`, `CountExact`, `OneAnswerEach`, `ImplementsFair`, `VerifyingEnds`, `NoOrphan`. |
| `loop` | `MCLoop.cfg` | `PointersLive`, `TraversalSafe`, `ExpiryExact`, `SleepsNoLonger`, and `KeepsPromise`: the list implements TimerSet. |
| `surface` | `MCSurface.cfg` | Events in any order, late releases, buffers that cannot be created: `NoLostUpdate`, `ShownEventually`, `NoTearing`. |
| `comm_frame` | `MCCommFrame.cfg` | Short reads and writes, a frame larger than the pipe and one above the limit, crashes inside frames: `KeepsFrames` (FrameChannel for both pipes), `Delivered`. |
| `session` | `MCSession.cfg` | Two invocations, every fault: `ReadyMeansLocked`, `NoProtocolError`, `StatusTruthful`, and under fairness `NobodyWaits`. |
| `seat` | `MCSeat.cfg` | Two seats whose keyboards, keymaps, focus and rates change: `RepeatJustified`, `ReleaseStops`. |
| `password` | `MCPassword.cfg` | Characters of one to four bytes, failing `mlock()`: `HoldsTyped`, `NeverPagedOut`. |
| `options` | `MCOptions.cfg` | Command lines and files of every kind: `SettingsAsWritten`. |
| `pam_auth_timer` | `MCPamTimer.cfg` | Violated: `AuthTimerEndsWrong` (section 5). |

Deadlock is not checked where the program ends: in the runs of the whole locker, of
its start-up and of its options, of the pipes and of the password's memory; nor in
those of the keyboard, where the user may stop typing.

### Bounds

* `MaxSubmits` = 2 or 3, `MaxDenials` = 1 or 2: a refusal, and further attempts while the
  first is on its way or being judged.
* `PipeCap` = 1 or 2: a full pipe, a queue with a frame behind another.
* `BufferLen` = 2 to 4: a buffer that holds nothing but its zero and ones that hold a
  character or two, so that empty, not empty and full occur. PasswordBuffer has the bytes.
* `MaxItems` = 5, `max_vis` = 3, with offers of one and of six entries: cut off,
  replaced by a shorter list, an entry without id, and windows at the beginning, in the
  middle and at the end of a list.
* `MaxPending` = 2: a poll that cannot take all frames because `userSelected`
  takes a place.
* `MaxEvents` = 3: two lists, or a layout, a retry and a result.
* Loop: two users, three addresses (a live, a removed and a new timer), four
  nanoseconds to the second and a clock of six, so that carries, equal seconds
  and truncation happen.
* Surface: two widths, two scales, three changes of the state: one drawn, one
  while a frame is outstanding, one after it.
* CommFrame: bytes of one bit, lengths of two bytes, a pipe of four bytes. A header is three
  bytes long, so that a frame with a payload of one byte fills the pipe and one of two does
  not fit; the limit is two. Two frames in each direction.
* Session: `--steal-unlock` against a quiet locker, against one with `--ready-fd` and
  `--daemonize` and against itself, and the two lockers. A third invocation would only wait
  like the second.
* Seat: two seats, two keys, rates that mean repetition and none; three
  things happen (`MaxChanges`): a press, a change, a release. Init is the state after
  start-up, when every seat has a keyboard, keymap and rate.
* PasswordBuffer: nine bytes and the characters on both sides of each limit of
  UTF-8: two characters of four bytes do not fit, two of three do. Two retries of
  `mlock()` instead of five.
* Options: up to two options on the command line and two lines in a file, with a second
  file behind the first.

The bounds on submissions and on pipes are guards: they cut behaviours short,
they do not add any. One of them is in the timers' callbacks: a key that submits stops repeating
at `MaxSubmits`.

### Fairness

Weak fairness of the main process' own steps and of the child's: the kernel
schedules both, and both block only in `poll()` and `read()`, which are not enabled
in the model while there is nothing to do. The PAM stack is taken to go on (it
prompts or returns) because `VerifyingEnds` cannot hold otherwise. Strong fairness of
`Expire(k)`: time passes, so a timer that is armed again and again when the
traversal takes place will be found expired; weak fairness would not do
because the traversal is enabled only in one phase of the loop. Nothing is assumed
of the user. In Surface the compositor goes on sending frame events and gives back
replaced buffers; nothing is assumed of their order.

In Session the processes, the launcher's `read()` and the compositor go on; nobody has to
unlock. In Seat the loop goes on. In CommFrame both processes go on inside
`comm_read()` and `comm_write()`, and strong fairness of `comm_read` says that main polls
between any two of its writes and that the child, whatever it does in between, comes
back to its pipe: a PAM stack that prompts again or authd, which polls. `Delivered` also
needs that what main has written and the child has not read fits into the pipe
(`MainUnread`): a child that writes a list longer than its pipe does not read, and a main
process that writes into a full pipe does not either. Passwords are limited by
VALIDATING; selections in a list are not, but it would take thousands of them.

`GrantUnlocks` allows for death by SIGPIPE: a key that writes to a child which has
just exited kills the main process before it reads the positive result. The session
then stays locked.

## 4. Proofs

`MainProof` and `SwaylockProof` (TLAPS) hold for all values of the constants:
any number of submissions, pipes of any capacity, lists of any length, any buffer size, any
PAM stack that the module allows.

*Argument.* `SafetyInv == TypeOK /\ MainInv /\ LockInv` is inductive.

* `MainInv` is the conjunction of `TimersMatch`, `PasswordClears`,
  `IndicatorTimed`, `SelectionInRange` and `PollStaysTrue`, each of which is a
  property that runs check. They are proved together because they need each
  other: an `expired` timer has its pointer set, so that its callback may decrement
  the count; `comm_in` may take the head of the queue because `PollStaysTrue` says
  there is one.
* `UnlockJustified` alone is not inductive: the step that unlocks knows only that
  `run_display` was cleared. `LockInv` adds why it can have been cleared (a verdict, or no
  display to unlock with), that a positive result in the pipe implies
  `PAM_SUCCESS`, and that `PAM_SUCCESS` is final (the child does not return to
  `pam_authenticate()`), so that the verdict is not taken back.

`MainStepInv` (MainProof) says that each step of the main process preserves
`CommTypeOK /\ MainTypeOK /\ MainInv` without reference to a backend, one lemma per
group of actions (`HandleKeyInv`, `CommInInv`, `TimeoutInv`, `LoopFrameInv`). `SwaylockProof`
adds what the child does to the shared variables (`ChildEffect`, `ChildKeepsMain`) and
how both affect the lock (`LockStep`). From `Invariance` follow

* `TypeCorrect`, `TimersCorrect`, `PasswordCorrect`, `IndicatorCorrect`,
  `SelectionCorrect`, `PollCorrect`, `UnlockCorrect`;
* `Refinement`: Spec implements the safety part of LockScreen, with the verdict mapped
  to `pam_status = "SUCCESS" \/ sigusr` and the locker to `main = "running"`.

* `VerifyingCorrect`: `NoStuckVerifying` with `VerifyingMain` (what the main process takes
  from its pipe and puts into the other) and `VerifyingChild` (each step of PAM keeps a
  credential on its way to an answer).
* `DisplayCorrect`: what is drawn is the current state, where every list can be allocated
  (`FALSE \notin AllocOutcomes`). The hypothesis is needed: when a list cannot be
  allocated the old one is already freed, and `comm_in` stops before it redraws; `DisplayCurrent` is checked with allocations that
  succeed.
* `SelectionDrawn`: `WindowFits` says of any count, index and window size that the window lies in
  the list and contains the index; `SelectionInRange` says that the index lies in the list.

**ShadowProof** - the same main process with the shadow backend. `ShadowInv` adds to `MainInv`
that no dialogue of authd ever begins (`PlainTraffic`), so that only passwords and results are in
the pipes; that a match is final (`MatchInv`); and the two equations `OneAnswerEach` and
`CountExact`, which count frames in the pipes. They are cardinalities of sets of places in a
queue, and `PlacesAppend` and `PlacesTail` say how these change when a frame is written or
read. `CountCorrect`, `AnswersCorrect`, `ShadowMainCorrect` and `ShadowRefinement` follow.

**LoopProof** - any users, delays, number of addresses and units of time. `LoopInv`: no two
elements of the list have the same address and at most one live timer belongs to a user; the
element that the traversal goes to next is in the list and is not the one it is about to free,
whatever the callbacks add and remove (they only mark; the traversal frees); `expiry` is the
instant that was asked for; and `poll()` ends less than a millisecond after the first timer
is due. The last needs the minimum over a list (`LeastOfList`, by the least counterexample,
`WFMin` over the naturals) and C's division (`CDivision`, `MsBelowSec`). From it follow
`PointersNeverDangle`, `TraversalIsSafe`, `ExpiriesExact`, `NeverOversleeps`, and
`LoopRefinement`: the linked list implements TimerSet, with the live timers as the
scheduled ones.

**SurfaceProof** - any sizes, scales and number of changes. `BuffersAgree` (the buffers marked
busy are those the compositor holds) makes `NeverTears` an immediate consequence; `ShownHasSize`
and `NoLostUpdate` are inductive together (`SurfaceInvariance`, `NothingLost`).

**BytesProof**, password in memory - `LockedInv`: once the process runs the buffer is locked for
good, and a copy exists only between the `mlock()` that let it be made and its clearing;
`PagedOutNever` follows. For `TypedIsHeld`, `TextInv` says that there are positions e[0] = 0 <
e[1] < ... at which the typed characters end, that the bytes between two of them encode the
character, and that nothing behind the end begins a character. `EncodeCases` and `ReadBack` show
that the encoding of a character of one to four bytes is read back; `LastChar` that
`backspace()`, which only looks at continuation bits, finds the last character; `DecodeText`,
by counting the bytes that begin a character, that `Decode` returns the typed text.

**BytesProof**, frames - for bytes, lengths, pipes and frames of any size. `PipeInv` says of each
pipe that what the reader holds, what is in the pipe and what the writer has still to write are,
joined together, the frames that were written or are being written and were not returned
(`IsStream`); and that what `comm_read()` returned is a prefix of what was written. `LengthReadBack`
shows that `load_le32()` undoes `store_le32()`, `FrameComplete` that a header and as many bytes as it
says are the next frame, `LastFrame` that at the end of the pipe, between two frames, nothing but a
frame that was not written completely is left out. Then each step of a process is a step of
FrameChannel or of none (`PipesStep`): `FramesKept`.

`MainNeverBlocks` is the safety that `Delivered` rests on, for all sizes: if main's frames have at
most S bytes and `MainUnread * S <= PipeSize`, what is in main's pipe and what it has still to
write fit into the pipe together, so that the two processes never wait for each other in
`write_full()`. `StreamBound` counts the bytes of the frames that are not read (by the least
counterexample); after the child's `comm_read()` has failed nothing says that they are whole
frames, and `RoomInv` carries the bound on from there. The instance of `MCCommFrame.cfg`
(frames of 4 bytes, one unread, a pipe of 4) satisfies the hypothesis with nothing to spare.

**SessionProof** - any number of invocations, any command lines, any faults. None of the three
properties is inductive: the step that writes the newline or unlocks knows only where
`main()` is. `SessionInv` adds, for each invocation, that the lock object is fresh until it
is asked for, that the event `locked` is in the queue only for a lock that was granted, and that
every place in `main()` behind the wait (`Holding`) has a granted lock. `LocalStep` says that a
step about one invocation keeps the invariant of all; `ProcessMoves`, `ProcessTells`
and `CompositorMoves` go through the steps. From `SessionInvariance` follow `ReadyCorrect`,
`UnlockWellFormed` and, with `ReportInv`, `StatusCorrect`. `ReportInv` is about what the launcher is
told: that the byte in its pipe says success, or that it has exited with 0, only if its daemon
came to the end of `daemonize()`; no later step takes that back (`ReportSteps`).

**SessionProof**, options - anything on the command line and in the files, any number of outputs.
`OptionsInv` says of each phase what the settings are by then: those of the lines read so far,
then those of the file up to its first rejected line and of the options read so far
(`SettingsFrom`). `WordStep` says that one option more either is the last word about something or
changes nothing there; `FieldStep`, `ModeStep` and `ImageStep` that `parse_options()` and
`load_image()` do the same to the settings. The list of images has at most one image of an output
(`OnePerOutput`): without it `load_image()`, which removes only the first match, would leave
an older image behind, and `select_image()` could find it. `FirstRejected` finds where the file
ends, `ConfigPathIs` which file it is. `SettingsCorrect` follows.

**SeatProof** - any number of seats, keys and changes. `RepeatJustified` needs `TraversalInv`: a
timer that the traversal has yet to visit is still armed, so that `keyboard_repeat` arms it again
with the same key. `RepeatCorrect` follows from `SeatInvariance`.

Assumptions: the named ASSUMEs of the modules: types of the constants, `NoId \notin Id`,
positive sizes, a base of at least two, payloads whose length fits its field, code points
up to U+10FFFF, fields that exist and images that have a path. TLC evaluates them for the constants of every run.

Only model-checked: liveness (LS4 and the SMT backend do not reason about fairness and
ENABLED), that is `ImplementsFair`, `GrantUnlocks`, `VerifyingEnds`, `PasswordForgotten`,
`NoOrphan`, `ShownEventually`, `Delivered`, `NobodyWaits` and `ReleaseStops`. Every
invariant, action property and refinement of safety that a passing run checks is a theorem.

## 5. Where the code and its documentation differ

The run `pam_auth_timer` shows the first of these. The other three are definitions that do
not hold: TLC finds the counterexample when `CountIsHonest` is made an invariant of
`MCPam.cfg`, `SignalUnlocks` of `MCSession.cfg` or `ModeDrawable` of `MCOptions.cfg`.

* **The timer of "Wrong" ends "Verifying"** (`pam_auth_timer`). `submit_password()`
  cancels two of the three timers. A password submitted within three seconds of a failure
  is shown as being verified only until the old `auth_idle` timer fires; then a
  second one can be submitted. The header calls it the "timer to stop displaying
  AUTH_STATE_INVALID".

* **Failed attempts that were none** (`CountIsHonest`). `comm_in` takes every STAGE frame
  that it reads while VALIDATING for a refusal, but the child writes STAGE for each
  prompt, the first included. A user who presses Return before the main process has
  read the first STAGE sees "Wrong" and one failed attempt although nobody was refused.
  The manual calls the number the "current count of failed authentication attempts".
* **SIGUSR1 right after the lock** (`SignalUnlocks`). The handler is installed after the
  newline on `--ready-fd` was written and after the parent of `--daemonize` has exited with 0. A
  launcher that waits for either and then sends SIGUSR1 may kill swaylock by the signal's default
  action; the session stays locked with nobody to unlock it. The manual says of the
  signal "Unlock the screen and exit."
* **A scaling mode that does not exist** (`ModeDrawable`). In the configuration file it is
  stored before it is rejected, and `load_config()` returns 0 although a line was
  rejected. swaylock locks the session, and drawing an image then reaches `assert(0)` in
  `render_background_image()`. On the command line the same value ends the program.

## 6. Assumptions, and what is not modelled

* `calloc()` of a timer does not fail (`loop_add_timer` would return NULL and nothing
  would forget the password). The copy of the password and the lists may fail.
* When a signal interrupts it, `poll()` clears `revents`, as Linux does; then `loop_poll`
  calls nothing.
* The normal build: with `HAVE_DEBUG_UNLOCK_ON_CRASH` a crash unlocks the session on
  purpose, and `UnlockJustified` is not meant to hold.
* `NoLostUpdate` and `ShownEventually` make an exception (`missed`) of a frame for which
  there was no buffer, because both are in use or shared memory ran out: `dirty` is cleared all
  the same (render.c:204), and the update is lost until the next one.
* `poll()` failing with anything but EINTR ends the process. Loop models it; in MainProcess it
  would be one more way to end with the session locked, and is left out.
* An image whose text `wordexp()` expands to no word reaches `assert(argc > 0)` in `join_args()`
  (main.c:379); Options takes an image to have a path.
* JSON is abstracted to what it yields. In Swaylock a frame is read and written as a whole,
  which CommFrame justifies.
* Outputs: one is modelled; they do not share state other than the state that is drawn.
* In Seat, modifiers are left out: a new keymap starts with none pressed, and the next
  `modifiers` event repairs that.
* `backspace()` sets the terminating zero and leaves the continuation bytes behind it in the
  buffer until the next clearing; `HoldsTyped` says so. The buffer is in locked memory.
* A child whose `malloc()` fails inside a GDM poll goes on reading in the middle of a frame
  (pam.c:444); in CommFrame it stops, as the main process does.
* Not modelled: geometry, text and colours of what is drawn (`render.c`, `cairo.c`,
  `background-image.c` are Cairo calls whose results are not state); the macros of the GDM
  header; `getopt_long()`, `wordexp()`, `parse_color()` and the scaling of shared memory
  beyond success or failure; pointers (they hide the cursor); reading the shadow entry and dropping
  privileges; the ring of log lines, which one function fills and another draws.

## 7. Plan

1. *(done)* Comm, MainProcess, PamChild, Swaylock with LockScreen; ShadowChild,
   SwaylockShadow; Loop with TimerSet; Surface; MainProof and SwaylockProof.
2. *(done)* Session, CommFrame with FrameChannel, Seat, PasswordBuffer, Options,
   SelectionList; SessionProof, SeatProof.
3. *(done)* Proofs: ShadowProof, LoopProof with the refinement of TimerSet, SurfaceProof,
   BytesProof with the refinement of FrameChannel; `NoStuckVerifying`, `DisplayCurrent` and
   `SelectionVisible` in SwaylockProof.
4. *(done)* `SettingsAsWritten` of Options in SessionProof; `MainNeverBlocks` in BytesProof.
5. Left: liveness, which the prover cannot do; the debug overlay's ring of log lines.
