------------------------------ MODULE LockClient ------------------------------
(***************************************************************************)
(* The lock screen (meridian-lock): the compositor spawns it, it binds the *)
(* globals, asks for the lock, makes one lock surface per output it knows  *)
(* by then, and goes round a loop: answer of the authentication thread,    *)
(* drawing, poll, dispatch of the events that have arrived.                *)
(*                                                                         *)
(* The compositor's side is SessionLock.  That events which have arrived   *)
(* are dispatched is taken for granted: the loop calls dispatch_pending,   *)
(* and what has been read from the socket by then is the library's affair. *)
(***************************************************************************)
EXTENDS Naturals, Sequences, SequencesExt

CONSTANTS Outputs,    \* the outputs there may be
          Chars,      \* what keys can type
          Right,      \* the password, a sequence of Chars
          MaxLen,     \* bound on the length of the field
          MaxInbox    \* bound on events that wait

VARIABLES
  pc,       \* "none", "bind" and "lock" (the two roundtrips), "auth", "render", "poll", "exited"
  pending,  \* pending_outputs
  inbox,    \* events the compositor has sent
  surf,     \* for each output its LockSurface, or NoSurface
  screen,   \* for each output the contents last committed, << >> before the first
  password, status,
  auth,     \* the thread: "none", "runs", or its answer "yes", "no"
  asked,    \* the password the thread was given
  finished, \* the compositor refused or withdrew the lock
  unlocked  \* unlock_and_destroy has been sent

vars == << pc, pending, inbox, surf, screen, password, status, auth, asked, finished, unlocked >>

Sizes == { "none", "wide", "tall" }   \* none is the 1 x 1 before the first configure
Area(z) == IF z = "none" THEN 1 ELSE 2   \* bytes of a buffer, by size: wide and tall agree

\* render_frame: what a frame shows.
Frame(z) == [size |-> z, length |-> Len(password), status |-> status]

NoSurface == [size |-> "none", dirty |-> FALSE, buffer |-> "", acked |-> FALSE, made |-> FALSE]
Covered   == { o \in Outputs : surf[o].made }

\* mark_all_dirty
MarkAll == surf' = [o \in Outputs |-> [surf[o] EXCEPT !.dirty = surf[o].made]]

Init ==
  /\ pc = "none" /\ pending = {} /\ inbox = << >>
  /\ surf = [o \in Outputs |-> NoSurface]
  /\ screen = [o \in Outputs |-> << >>]
  /\ password = << >> /\ status = "Idle" /\ auth = "none" /\ asked = << >>
  /\ finished = FALSE /\ unlocked = FALSE
-----------------------------------------------------------------------------
(* Start: what is missing ends the program.                                *)

\* spawn_lock_screen of the compositor, which may find no program to spawn.
Spawn ==
  /\ pc = "none" /\ pc' = "bind"
  /\ UNCHANGED << pending, inbox, surf, screen, password, status, auth, asked, finished, unlocked >>

\* The registry's globals: an output is bound and waits for its surface.
Global(o) ==
  /\ pc = "bind" /\ pending' = pending \cup {o}
  /\ UNCHANGED << pc, inbox, surf, screen, password, status, auth, asked, finished, unlocked >>

\* The roundtrip is over: the lock is asked for, and create_lock_surface makes a surface for
\* each output that waits, 1 x 1 and with nothing to draw.  Without a lock manager the
\* program ends.
CreateSurfaces ==
  /\ pc = "bind"
  /\ \/ pc' = "exited" /\ UNCHANGED << pending, surf >>
     \/ /\ pc' = "lock" /\ pending' = {}
        /\ surf' = [o \in Outputs |-> [NoSurface EXCEPT !.made = o \in pending]]
  /\ UNCHANGED << inbox, screen, password, status, auth, asked, finished, unlocked >>
-----------------------------------------------------------------------------
(* The compositor, the user and the thread.                                *)

Send(e) ==
  /\ Len(inbox) < MaxInbox /\ pc \notin { "none", "bind", "exited" }
  /\ inbox' = Append(inbox, e)
  /\ UNCHANGED << pc, pending, surf, screen, password, status, auth, asked, finished, unlocked >>

Keys == { "Return", "BackSpace", "Escape" } \cup Chars
Events == { [kind |-> "global", output |-> o] : o \in Outputs } \cup
          { [kind |-> "configure", output |-> o, size |-> z] : o \in Outputs, z \in Sizes \ {"none"} }
          \cup { [kind |-> "key", key |-> k] : k \in Keys } \cup { [kind |-> "finished"] }

\* A surface is configured when it is there, an output announced when it is not, and a key
\* reaches the client once a surface has the keyboard focus, which is after the surfaces
\* have been configured.
Sensible(e) ==
  LET configured(o) == \/ surf[o].acked
                       \/ \E i \in DOMAIN inbox : inbox[i].kind = "configure" /\ inbox[i].output = o
  IN CASE e.kind = "configure" -> e.output \in Covered
       [] e.kind = "global"    -> e.output \notin Covered \cup pending
       [] e.kind = "key"       -> Covered # {} /\ \A o \in Covered : configured(o)
       [] OTHER -> TRUE

\* authenticate: PAM says yes to the right password only, or something fails on the way.
ThreadEnds ==
  /\ auth = "runs"
  /\ auth' \in (IF asked = Right THEN { "yes", "no" } ELSE { "no" })
  /\ UNCHANGED << pc, pending, inbox, surf, screen, password, status, asked, finished, unlocked >>
-----------------------------------------------------------------------------
(* One event: the Dispatch handlers.                                       *)

\* The surface's configure: acknowledged; another size drops the buffer.
Configure(e) ==
  /\ e.kind = "configure"
  /\ surf' = [surf EXCEPT ![e.output] =
                [@ EXCEPT !.acked = TRUE, !.size = e.size, !.dirty = TRUE,
                          !.buffer = IF surf[e.output].size = e.size
                                     THEN surf[e.output].buffer ELSE ""]]
  /\ UNCHANGED << pending, password, status, auth, asked, finished >>

Refused(e) ==
  /\ e.kind = "finished" /\ finished' = TRUE
  /\ UNCHANGED << pending, surf, password, status, auth, asked >>

\* An output that is plugged in while the screen is locked is bound as before, and waits: no
\* surface is made any more (the compositor keeps such an output covered, see SessionLock).
Announced(e) ==
  /\ e.kind = "global" /\ pending' = pending \cup { e.output }
  /\ UNCHANGED << surf, password, status, auth, asked, finished >>

IdleIfFailed == status' = IF status = "Failed" THEN "Idle" ELSE status

Press(k) ==
  \/ /\ k = "Return" /\ password # << >>
     /\ auth' = "runs" /\ asked' = password /\ status' = "Pending" /\ MarkAll /\ UNCHANGED password
  \/ /\ k = "BackSpace"
     /\ password' = (IF password = << >> THEN << >> ELSE Front(password))
     /\ IdleIfFailed /\ MarkAll /\ UNCHANGED << auth, asked >>
  \/ /\ k = "Escape" /\ password # << >>
     /\ password' = << >> /\ status' = "Idle" /\ MarkAll /\ UNCHANGED << auth, asked >>
  \/ /\ k \in Chars /\ Len(password) < MaxLen
     /\ password' = Append(password, k) /\ IdleIfFailed /\ MarkAll /\ UNCHANGED << auth, asked >>
  \/ /\ \/ k \in { "Return", "Escape" } /\ password = << >>
        \/ k \in Chars /\ Len(password) = MaxLen
     /\ UNCHANGED << surf, password, status, auth, asked >>

\* handle_key: nothing while a password is being checked.
Key(e) ==
  /\ e.kind = "key"
  /\ IF auth = "none" THEN Press(e.key) ELSE UNCHANGED << surf, password, status, auth, asked >>
  /\ UNCHANGED << pending, finished >>

Handle == LET e == Head(inbox) IN
            /\ inbox' = Tail(inbox)
            /\ Configure(e) \/ Refused(e) \/ Announced(e) \/ Key(e)
-----------------------------------------------------------------------------
(* The loop.                                                               *)

\* The second roundtrip handles everything the compositor sent before its answer, the
\* configure of every surface among it.
LockRoundtrip ==
  /\ pc = "lock"
  /\ \/ inbox # << >> /\ Handle /\ UNCHANGED pc
     \/ (\A o \in Covered : surf[o].acked) /\ pc' = "auth" /\ UNCHANGED << pending, inbox, surf, password, status, auth, asked, finished >>
  /\ UNCHANGED << screen, unlocked >>

\* Mutant: the failure is not drawn.
CheckAuthQuietly ==
  /\ pc = "auth"
  /\ \/ auth \in { "none", "runs" } /\ pc' = "render" /\ UNCHANGED << password, status, auth, unlocked >>
     \/ auth = "yes" /\ auth' = "none" /\ unlocked' = TRUE /\ pc' = "exited" /\ UNCHANGED << password, status >>
     \/ auth = "no" /\ auth' = "none" /\ status' = "Failed" /\ password' = << >> /\ pc' = "render" /\ UNCHANGED unlocked
  /\ UNCHANGED << pending, inbox, surf, screen, asked, finished >>

\* The answer, if there is one: unlock and exit, or start over.
CheckAuth ==
  /\ pc = "auth"
  /\ \/ auth \in { "none", "runs" } /\ pc' = "render" /\ UNCHANGED << surf, password, status, auth, unlocked >>
     \/ auth = "yes" /\ auth' = "none" /\ unlocked' = TRUE /\ pc' = "exited" /\ UNCHANGED << surf, password, status >>
     \/ /\ auth = "no" /\ auth' = "none" /\ status' = "Failed" /\ password' = << >> /\ MarkAll
        /\ pc' = "render" /\ UNCHANGED unlocked
  /\ UNCHANGED << pending, inbox, screen, asked, finished >>

\* render_surface: a buffer of the right number of bytes is used as it is; making one can
\* fail, and the surface is tried again next time.
Rendered(o) ==
  LET s == surf[o]
      keep == s.buffer # "" /\ Area(s.buffer) = Area(s.size)
      buf  == IF keep THEN s.buffer ELSE s.size
  IN [surf |-> [s EXCEPT !.buffer = buf, !.dirty = FALSE], shows |-> << Frame(s.size), buf >>]

Render ==
  /\ pc = "render"
  /\ \E fails \in SUBSET { o \in Outputs : surf[o].dirty /\ surf[o].buffer = "" } :
       LET drawn == { o \in Outputs : surf[o].dirty } \ fails
       IN /\ surf' = [o \in Outputs |-> IF o \in drawn THEN Rendered(o).surf ELSE surf[o]]
          /\ screen' = [o \in Outputs |-> IF o \in drawn THEN Rendered(o).shows ELSE screen[o]]
  /\ pc' = (IF finished THEN "exited" ELSE "poll")
  /\ UNCHANGED << pending, inbox, password, status, auth, asked, finished, unlocked >>

\* poll with its time-out, then all events that wait; a broken connection ends the loop.
Dispatch ==
  /\ pc = "poll"
  /\ \/ inbox # << >> /\ Handle /\ UNCHANGED pc
     \/ pc' \in { "auth", "exited" } /\ UNCHANGED << pending, inbox, surf, password, status, auth, asked, finished >>
  /\ UNCHANGED << screen, unlocked >>

Next ==
  \/ Spawn \/ (\E o \in Outputs : Global(o)) \/ CreateSurfaces
  \/ \E e \in Events : Sensible(e) /\ Send(e)
  \/ ThreadEnds \/ LockRoundtrip \/ CheckAuth \/ Render \/ Dispatch

Spec == Init /\ [][Next]_vars
-----------------------------------------------------------------------------
(* Properties                                                              *)

\* Whenever a surface has nothing left to draw, it shows the field and the status as they
\* are, in a buffer of its own dimensions: every change has marked every surface, on every
\* output, and a rotated output never gets a buffer of the same size the other way round.
ShowsState ==
  \A o \in Covered : surf[o].acked /\ ~ surf[o].dirty /\ pc # "exited"
     => screen[o] = << Frame(surf[o].size), surf[o].size >>

\* The password that is checked is the one in the field for as long as it is checked, so
\* that a failure clears what failed and a success unlocks for what the dots stand for.
FieldIsChecked == auth # "none" /\ pc # "exited" => password = asked /\ status = "Pending"

\* No buffer is committed to a surface that has not acknowledged a configure.
AckedFirst == \A o \in Outputs : screen[o] # << >> => surf[o].acked

\* "Exit 0 is the normal unlock path" (state/ipc/commands.rs:580)
ExitMeansUnlocked == pc = "exited" => unlocked
=============================================================================
