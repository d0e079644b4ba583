----------------------------- MODULE ResizeGrab -----------------------------
(***************************************************************************)
(* Dragging a vertical edge of an xdg window: the pointer grab, the pacer  *)
(* that spaces the configures it sends, the per-surface resize state the   *)
(* commit handler reads, and the client, which answers configures when it  *)
(* likes and may draw a frame at its old size in between.  One axis is     *)
(* modelled; top and bottom are computed by the same lines as left and     *)
(* right.                                                                  *)
(***************************************************************************)
EXTENDS Integers, Sequences, FiniteSetsExt, SequencesExt

CONSTANTS
  Reach,       \* how far the pointer goes from where the button went down
  MaxGrabs,    \* drags                                             (bound)
  MaxMotions,  \* motion events of one drag                         (bound)
  MaxFrames    \* frames the client draws of its own accord         (bound)

\* The client's limits on its width (SurfaceCachedState min_size, max_size).
MinWidth == 1
MaxWidth == 3

\* MAX_IN_FLIGHT_INTERVALS: time is counted in pacing intervals since the
\* last configure.
Patience == 4

\* The window before the first drag.
Start == [x |-> 0, w |-> 2]
None  == [x |-> 0, w |-> 0]

VARIABLES
  rect,        \* where the space has the window, and its committed size
  grab,        \* is the pointer grabbed by a resize
  edge,        \* the edge being dragged
  initial,     \* initial_rect of the drag
  size,        \* last_window_size of the drag
  pacer,       \* [emitted, pending, age]: ConfigurePacer
  seen,        \* last_commit_generation of the grab
  rs,          \* [phase, preview, waiting, gen, committed]: ResizeSurfaceState
  inbox,       \* sizes of the configures the client has not read
  want,        \* the size the client will draw next
  drags, motions, frames

vars == <<rect, grab, edge, initial, size, pacer, seen, rs, inbox, want,
          drags, motions, frames>>

Idle == [phase |-> "idle", preview |-> None, waiting |-> FALSE, gen |-> 0,
         committed |-> 0]

Init ==
  /\ rect = Start /\ grab = FALSE /\ edge = "left" /\ initial = Start
  /\ size = Start.w /\ seen = 0 /\ rs = Idle
  /\ pacer = [emitted |-> 0, pending |-> 0, age |-> 0]
  /\ inbox = <<>> /\ want = Start.w
  /\ drags = 0 /\ motions = 0 /\ frames = 0

\* resize_target_rect: the opposite edge stays where the drag found it.
Target(w) ==
  [x |-> IF edge = "left" THEN initial.x + initial.w - w ELSE initial.x,
   w |-> w]

(***************************************************************************)
(* The grab.                                                               *)
(***************************************************************************)

\* ResizeSurfaceGrab::start: the surface's resize state starts over, whatever
\* an earlier drag still waited for.
Begin(e) ==
  /\ grab' = TRUE /\ edge' = e /\ initial' = rect /\ size' = rect.w
  /\ pacer' = [emitted |-> 0, pending |-> 0, age |-> 0]
  /\ rs' = [Idle EXCEPT !.phase = "active", !.preview = rect,
                        !.committed = rect.w]
  /\ seen' = 0

\* A press on the frame, or the client's own request: the Resizing state is
\* configured with the size as it is, and the pointer is grabbed.
Request(e) ==
  /\ ~grab /\ drags < MaxGrabs
  /\ inbox' = Append(inbox, IF inbox = <<>> THEN want ELSE Last(inbox))
  /\ Begin(e)
  /\ drags' = drags + 1 /\ motions' = 0
  /\ UNCHANGED <<rect, want, frames>>

\* update_preview and note_configure.
Previewed(w)  == [rs EXCEPT !.preview = Target(w)]
Configured(w) == [Previewed(w) EXCEPT !.waiting = TRUE]

\* new_w, clamped to the client's limits.
Dragged(d) ==
  Max({MinWidth,
       Min({MaxWidth, initial.w + (IF edge = "left" THEN -d ELSE d)})})

\* ConfigurePacer::offer: does this target go out now?
Duplicate(w) ==
  pacer.pending = w \/ (pacer.pending = 0 /\ pacer.emitted = w)
Ready == rs.gen > seen
MayEmit ==
  \/ pacer.emitted = 0
  \/ pacer.age >= 1 /\ Ready
  \/ pacer.age >= Patience

Motion(d) ==
  /\ grab /\ motions < MaxMotions
  /\ motions' = motions + 1
  /\ LET w == Dragged(d) IN
       /\ size' = w
       /\ \/ /\ Duplicate(w)
             /\ rs' = Previewed(w)
             /\ UNCHANGED <<pacer, inbox, seen>>
          \/ /\ ~Duplicate(w) /\ ~MayEmit
             /\ rs' = Previewed(w)
             /\ pacer' = [pacer EXCEPT !.pending = w]
             /\ UNCHANGED <<inbox, seen>>
          \/ /\ ~Duplicate(w) /\ MayEmit
             /\ rs' = Configured(w)
             /\ pacer' = [emitted |-> w, pending |-> 0, age |-> 0]
             /\ inbox' = Append(inbox, w)
             /\ seen' = rs.gen
  /\ UNCHANGED <<rect, grab, edge, initial, want, drags, frames>>

\* finish: nothing more to wait for, or the last commit is still to come.
Finished(r) ==
  IF r.committed = size /\ ~r.waiting
  THEN [r EXCEPT !.phase = "idle", !.preview = None]
  ELSE [r EXCEPT !.phase = "last", !.preview = Target(size)]

\* Release as it would be if only a size the pacer held back were sent.
ReleaseFlushesNothing ==
  /\ grab
  /\ grab' = FALSE
  /\ pacer' = [pacer EXCEPT !.pending = 0]
  /\ inbox' = inbox
  /\ rs' = Finished([rs EXCEPT !.waiting = TRUE])
  /\ UNCHANGED <<rect, edge, initial, size, seen, want, drags, motions, frames>>

\* The button is released: the pacer is emptied, the last size is sent
\* whatever was sent before, and the surface waits for the last commit.
Release ==
  /\ grab
  /\ grab' = FALSE
  /\ pacer' = [pacer EXCEPT !.pending = 0]
  /\ inbox' = Append(inbox, size)
  /\ rs' = Finished([rs EXCEPT !.waiting = TRUE])
  /\ UNCHANGED <<rect, edge, initial, size, seen, want, drags, motions, frames>>

\* A pacing interval goes by.
Tick ==
  /\ grab /\ pacer.emitted # 0 /\ pacer.age < Patience
  /\ pacer' = [pacer EXCEPT !.age = @ + 1]
  /\ UNCHANGED <<rect, grab, edge, initial, size, seen, rs, inbox, want,
                 drags, motions, frames>>

(***************************************************************************)
(* The client and the commit handler.                                      *)
(***************************************************************************)

\* handle_commit: the commit is counted, the window is placed so that the
\* opposite edge stays, and the first commit after the release ends it.
Placed(w) ==
  [x |-> IF rs.phase # "idle" /\ edge = "left"
         THEN initial.x + initial.w - w ELSE rect.x,
   w |-> w]
Recorded(w) == [rs EXCEPT !.gen = @ + 1, !.committed = w, !.waiting = FALSE]
Noted(w) ==
  CASE rs.phase = "idle"   -> rs
    [] rs.phase = "active" -> Recorded(w)
    [] rs.phase = "last"   -> [Recorded(w) EXCEPT !.phase = "idle",
                                                  !.preview = None]

\* Committed as it would be if the window were not moved.
CommittedInPlace(w) == rect' = [rect EXCEPT !.w = w] /\ rs' = Noted(w)

Committed(w) == rect' = Placed(w) /\ rs' = Noted(w)

\* The client reads a configure, and draws at that size or reads on.
Read ==
  /\ inbox # <<>>
  /\ want' = Head(inbox) /\ inbox' = Tail(inbox)
  /\ \/ Committed(Head(inbox))
     \/ inbox' # <<>> /\ UNCHANGED <<rect, rs>>
  /\ UNCHANGED <<grab, edge, initial, size, pacer, seen, drags, motions, frames>>

\* A frame of its own: the cursor blinks, a clip plays.
Frame ==
  /\ frames < MaxFrames
  /\ frames' = frames + 1
  /\ Committed(want)
  /\ UNCHANGED <<grab, edge, initial, size, pacer, seen, inbox, want, drags,
                 motions>>

Next ==
  \/ \E e \in {"left", "right"} : Request(e)
  \/ \E d \in -Reach .. Reach : Motion(d)
  \/ Release
  \/ Tick
  \/ Read
  \/ Frame

Spec == Init /\ [][Next]_vars

(***************************************************************************)
(* Properties.                                                             *)
(***************************************************************************)

\* The client has been told everything and has drawn it.
Settled == ~grab /\ inbox = <<>> /\ drags > 0

\* While a drag is on, whatever the client commits and in whatever order it
\* reads the paced configures, the edge that is not dragged does not move
\* (handle_commit, anchored_location).
AnchoredWhileHeld ==
  grab => IF edge = "left" THEN rect.x + rect.w = initial.x + initial.w
                           ELSE rect.x = initial.x

\* When all is read and drawn, the window has the size the pointer was left
\* at, although the pacer dropped and held back sizes on the way, and the
\* stretched preview is gone (button, finish, handle_commit).
SettlesOnTarget == Settled => rect.w = size /\ rs.preview = None

\* The edge that is not dragged is, at rest, where the drag found it:
\* "left_and_top_edges_remain_anchored_to_initial_opposite_edges".
EdgeStays ==
  Settled => IF edge = "left" THEN rect.x + rect.w = initial.x + initial.w
                              ELSE rect.x = initial.x
=============================================================================
