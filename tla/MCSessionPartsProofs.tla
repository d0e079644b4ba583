------------------------ MODULE MCSessionPartsProofs ------------------------
(***************************************************************************)
(* Theorems about the lock screen, the interactive resize and the          *)
(* keyboard, components of MCSessionParts, for any outputs, passwords,     *)
(* keys, clients, limits and numbers of steps.  Only one component runs in *)
(* a behaviour, so each has an inductive invariant of its own.             *)
(***************************************************************************)
EXTENDS MCSessionParts, SequenceTheorems, FiniteSetTheorems, LoopInduction, TLAPS

-----------------------------------------------------------------------------
(* The lock screen.  A buffer that is kept has the surface's size, because *)
(* a configure with another one drops it; what is drawn has been           *)
(* configured, because the loop starts once every surface was.             *)

Pane == [size : LockClient!Sizes, dirty : BOOLEAN, buffer : LockClient!Sizes \cup {""},
         acked : BOOLEAN, made : BOOLEAN]

LockTyped == surf \in [Outputs -> Pane] /\ inbox \in Seq(LockClient!Events)

Fitting == \A o \in Outputs : surf[o].buffer \in { "", surf[o].size }

\* Before the loop nothing has been drawn; in it every surface has been configured.
Ready == /\ pc \in { "none", "bind", "lock" } => \A o \in Outputs : screen[o] = << >>
         /\ pc \in { "auth", "render", "poll" } => \A o \in LockClient!Covered : surf[o].acked
         /\ \A o \in Outputs : surf[o].dirty => surf[o].made \/ surf[o].acked

LockInv == /\ LockTyped /\ Fitting /\ Ready
           /\ LockClient!ShowsState /\ LockClient!FieldIsChecked /\ LockClient!AckedFirst

LEMMA LockStarts == ASSUME LockClient!Init PROVE LockInv
<1> USE DEF LockClient!Init
<1>1. LockClient!NoSurface \in Pane  BY DEF LockClient!NoSurface, Pane, LockClient!Sizes
<1>2. LockTyped  BY <1>1 DEF LockTyped
<1>3. \A o \in Outputs : /\ surf[o].buffer = "" /\ ~ surf[o].dirty /\ ~ surf[o].made
                         /\ screen[o] = << >>
  BY DEF LockClient!NoSurface
<1>4. Fitting /\ Ready  BY <1>3 DEF Fitting, Ready
<1>5. LockClient!ShowsState  BY <1>3 DEF LockClient!ShowsState, LockClient!Covered
<1>6. LockClient!FieldIsChecked  BY DEF LockClient!FieldIsChecked
<1>7. LockClient!AckedFirst  BY <1>3 DEF LockClient!AckedFirst
<1> QED  BY <1>2, <1>4, <1>5, <1>6, <1>7 DEF LockInv

(* Every surface that is there is marked: what it shows may change. *)
LEMMA MarkedPane ==
    ASSUME LockInv, LockClient!MarkAll, NEW o \in Outputs
    PROVE  /\ surf'[o] \in Pane /\ surf'[o].dirty = surf[o].made /\ surf'[o].made = surf[o].made
           /\ surf'[o].acked = surf[o].acked /\ surf'[o].buffer = surf[o].buffer
           /\ surf'[o].size = surf[o].size
<1>1. surf[o] \in Pane  BY DEF LockInv, LockTyped
<1>2. surf'[o] = [surf[o] EXCEPT !.dirty = surf[o].made]  BY DEF LockClient!MarkAll
<1> QED  BY <1>1, <1>2 DEF Pane

LEMMA Marked ==
    ASSUME LockInv, LockClient!MarkAll, UNCHANGED << pc, screen >>, inbox' \in Seq(LockClient!Events)
    PROVE  /\ LockTyped' /\ Fitting' /\ Ready' /\ LockClient!ShowsState' /\ LockClient!AckedFirst'
<1> USE DEF LockInv
<1>1. ASSUME NEW o \in Outputs
      PROVE  /\ surf'[o] \in Pane /\ surf'[o].dirty = surf[o].made /\ surf'[o].made = surf[o].made
             /\ surf'[o].acked = surf[o].acked /\ surf'[o].buffer = surf[o].buffer
             /\ surf'[o].size = surf[o].size
  BY MarkedPane
<1>2. LockTyped'
  <2>1. surf' = [o \in Outputs |-> surf'[o]]  BY DEF LockClient!MarkAll
  <2> QED  BY <1>1, <2>1 DEF LockTyped
<1>3. Fitting'  BY <1>1 DEF Fitting
<1>4. Ready'  BY <1>1 DEF Ready, LockClient!Covered
<1>5. LockClient!ShowsState'  BY <1>1 DEF LockClient!ShowsState, LockClient!Covered
<1>6. LockClient!AckedFirst'  BY <1>1 DEF LockClient!AckedFirst
<1> QED  BY <1>2, <1>3, <1>4, <1>5, <1>6

(* Nothing about the surfaces and what they show changes. *)
LEMMA Unmarked ==
    ASSUME LockInv, UNCHANGED << pc, screen, surf, password, status >>, inbox' \in Seq(LockClient!Events)
    PROVE  /\ LockTyped' /\ Fitting' /\ Ready' /\ LockClient!ShowsState' /\ LockClient!AckedFirst'
BY DEF LockInv, LockTyped, Fitting, Ready, LockClient!ShowsState, LockClient!Covered,
       LockClient!Frame, LockClient!AckedFirst

LEMMA ConfigureKeeps ==
    ASSUME LockInv, UNCHANGED << pc, screen >>, inbox' \in Seq(LockClient!Events),
           NEW e \in LockClient!Events, LockClient!Configure(e)
    PROVE  LockInv'
<1> USE DEF LockInv
<1>1. e.size \in LockClient!Sizes  BY DEF LockClient!Configure, LockClient!Events
<1>2. ASSUME NEW o \in Outputs, o = e.output
      PROVE  /\ surf'[o] \in Pane /\ surf'[o].dirty /\ surf'[o].acked
             /\ surf'[o].made = surf[o].made
             /\ surf'[o].buffer \in { "", surf'[o].size }
  <2>1. surf[o] \in Pane /\ surf[o].buffer \in { "", surf[o].size }  BY DEF LockTyped, Fitting
  <2>2. surf'[o] = [surf[o] EXCEPT !.acked = TRUE, !.size = e.size, !.dirty = TRUE,
                      !.buffer = IF surf[o].size = e.size THEN surf[o].buffer ELSE ""]
    BY <1>2 DEF LockClient!Configure, LockTyped
  <2> QED  BY <1>1, <2>1, <2>2 DEF Pane
<1>3. ASSUME NEW o \in Outputs, o # e.output PROVE surf'[o] = surf[o]
  BY <1>3 DEF LockClient!Configure, LockTyped
<1>4. LockTyped'
  <2>1. surf' = [o \in Outputs |-> surf'[o]]  BY DEF LockClient!Configure, LockTyped
  <2>2. \A o \in Outputs : surf'[o] \in Pane  BY <1>2, <1>3 DEF LockTyped
  <2> QED  BY <2>1, <2>2 DEF LockTyped
<1>5. Fitting'  BY <1>2, <1>3 DEF Fitting
<1>6. Ready'  BY <1>2, <1>3 DEF Ready, LockClient!Covered
<1>7. LockClient!ShowsState'
  BY <1>2, <1>3 DEF LockClient!ShowsState, LockClient!Covered, LockClient!Frame, LockClient!Configure
<1>8. LockClient!FieldIsChecked'  BY DEF LockClient!FieldIsChecked, LockClient!Configure
<1>9. LockClient!AckedFirst'  BY <1>2, <1>3 DEF LockClient!AckedFirst
<1> QED  BY <1>4, <1>5, <1>6, <1>7, <1>8, <1>9

\* A key: what changes the field or the status marks every surface.
LEMMA KeyKeeps ==
    ASSUME LockInv, UNCHANGED << pc, screen >>, inbox' \in Seq(LockClient!Events),
           NEW e, LockClient!Key(e)
    PROVE  LockInv'
<1>1. CASE UNCHANGED << surf, password, status, auth, asked >>
  <2>1. LockClient!FieldIsChecked'  BY <1>1 DEF LockInv, LockClient!FieldIsChecked
  <2> QED  BY <1>1, <2>1, Unmarked DEF LockInv
<1>2. CASE auth = "none" /\ LockClient!MarkAll /\ UNCHANGED << auth, asked >>
  <2>1. LockClient!FieldIsChecked'  BY <1>2 DEF LockClient!FieldIsChecked
  <2> QED  BY <1>2, <2>1, Marked DEF LockInv
<1>3. CASE LockClient!MarkAll /\ asked' = password /\ password' = password /\ status' = "Pending"
  <2>1. LockClient!FieldIsChecked'  BY <1>3 DEF LockClient!FieldIsChecked
  <2> QED  BY <1>3, <2>1, Marked DEF LockInv
<1> QED  BY <1>1, <1>2, <1>3 DEF LockClient!Key, LockClient!Press

LEMMA HandleKeeps ==
    ASSUME LockInv, inbox # << >>, LockClient!Handle, UNCHANGED << pc, screen >>
    PROVE  LockInv'
<1> DEFINE e == Head(inbox)
<1>1. e \in LockClient!Events /\ inbox' \in Seq(LockClient!Events)
  BY DEF LockInv, LockTyped, LockClient!Handle
<1>2. LockClient!Configure(e) \/ LockClient!Refused(e) \/ LockClient!Announced(e) \/ LockClient!Key(e)
  BY DEF LockClient!Handle
<1> HIDE DEF e
<1>3. CASE LockClient!Configure(e)  BY <1>1, <1>3, ConfigureKeeps
<1>4. CASE LockClient!Refused(e) \/ LockClient!Announced(e)
  <2>1. UNCHANGED << surf, password, status, auth, asked >>
    BY <1>4 DEF LockClient!Refused, LockClient!Announced
  <2>2. LockClient!FieldIsChecked'  BY <2>1 DEF LockInv, LockClient!FieldIsChecked
  <2> QED  BY <1>1, <2>1, <2>2, Unmarked DEF LockInv
<1>5. CASE LockClient!Key(e)  BY <1>1, <1>5, KeyKeeps
<1> QED  BY <1>2, <1>3, <1>4, <1>5

\* Surfaces are created before anything has been drawn.
LEMMA CreateKeeps ==
    ASSUME LockInv, LockClient!CreateSurfaces PROVE LockInv'
<1> USE DEF LockInv
<1>1. CASE pc' = "exited" /\ UNCHANGED surf
  BY <1>1 DEF LockClient!CreateSurfaces, LockTyped, Fitting, Ready, LockClient!ShowsState,
              LockClient!FieldIsChecked, LockClient!AckedFirst
<1>2. CASE pc' = "lock" /\ surf' = [o \in Outputs |-> [LockClient!NoSurface EXCEPT !.made = o \in pending]]
  <2>1. ASSUME NEW o \in Outputs
        PROVE  /\ surf'[o] \in Pane /\ surf'[o].buffer = "" /\ ~ surf'[o].dirty /\ ~ surf'[o].acked
               /\ screen'[o] = << >>
    <3>1. screen'[o] = << >>  BY DEF LockClient!CreateSurfaces, Ready
    <3>2. (o \in pending) \in BOOLEAN  OBVIOUS
    <3> QED  BY <1>2, <3>1, <3>2 DEF LockClient!NoSurface, Pane, LockClient!Sizes
  <2>2. LockTyped'
    <3>1. surf' = [o \in Outputs |-> surf'[o]]  BY <1>2
    <3> QED  BY <2>1, <3>1 DEF LockTyped, LockClient!CreateSurfaces
  <2>3. Fitting' /\ Ready'  BY <1>2, <2>1 DEF Fitting, Ready
  <2>4. LockClient!ShowsState'  BY <2>1 DEF LockClient!ShowsState, LockClient!Covered
  <2>5. LockClient!FieldIsChecked'
    BY DEF LockClient!FieldIsChecked, LockClient!CreateSurfaces
  <2>6. LockClient!AckedFirst'  BY <2>1 DEF LockClient!AckedFirst
  <2> QED  BY <2>2, <2>3, <2>4, <2>5, <2>6
<1> QED  BY <1>1, <1>2 DEF LockClient!CreateSurfaces

LEMMA RenderKeeps ==
    ASSUME LockInv, LockClient!Render PROVE LockInv'
<1> USE DEF LockInv
<1>1. PICK fails :
        /\ surf'   = [o \in Outputs |-> IF surf[o].dirty /\ o \notin fails
                                        THEN LockClient!Rendered(o).surf ELSE surf[o]]
        /\ screen' = [o \in Outputs |-> IF surf[o].dirty /\ o \notin fails
                                        THEN LockClient!Rendered(o).shows ELSE screen[o]]
  BY DEF LockClient!Render
<1>2. ASSUME NEW o \in Outputs, surf[o].dirty, o \notin fails
      PROVE  /\ surf'[o] \in Pane /\ surf'[o].buffer = surf'[o].size /\ ~ surf'[o].dirty
             /\ surf'[o].acked /\ surf'[o].made = surf[o].made
             /\ screen'[o] = << LockClient!Frame(surf'[o].size), surf'[o].size >>
  <2>1. surf[o] \in Pane /\ surf[o].buffer \in { "", surf[o].size }  BY DEF LockTyped, Fitting
  <2>2. LockClient!Rendered(o) =
          [surf |-> [surf[o] EXCEPT !.buffer = surf[o].size, !.dirty = FALSE],
           shows |-> << LockClient!Frame(surf[o].size), surf[o].size >>]
    <3>1. CASE surf[o].buffer = ""  BY <3>1 DEF LockClient!Rendered
    <3>2. CASE surf[o].buffer = surf[o].size /\ surf[o].buffer # ""  BY <3>2 DEF LockClient!Rendered
    <3> QED  BY <2>1, <3>1, <3>2
  <2>3. surf'[o] = [surf[o] EXCEPT !.buffer = surf[o].size, !.dirty = FALSE]
    BY <1>1, <1>2, <2>2
  <2>4. screen'[o] = << LockClient!Frame(surf[o].size), surf[o].size >>
    BY <1>1, <1>2, <2>2
  <2>5. surf[o].acked  BY <1>2 DEF LockClient!Render, Ready, LockClient!Covered
  <2>6. /\ surf'[o] \in Pane /\ surf'[o].buffer = surf[o].size /\ surf'[o].size = surf[o].size
        /\ ~ surf'[o].dirty /\ surf'[o].acked = surf[o].acked /\ surf'[o].made = surf[o].made
    BY <2>1, <2>3 DEF Pane
  <2> QED  BY <2>4, <2>5, <2>6
<1>3. ASSUME NEW o \in Outputs, ~ (surf[o].dirty /\ o \notin fails)
      PROVE  surf'[o] = surf[o] /\ screen'[o] = screen[o]
  BY <1>1, <1>3
<1>4. LockTyped'
  <2>1. surf' = [o \in Outputs |-> surf'[o]]  BY <1>1
  <2>2. \A o \in Outputs : surf'[o] \in Pane  BY <1>2, <1>3 DEF LockTyped
  <2> QED  BY <2>1, <2>2 DEF LockTyped, LockClient!Render
<1>5. Fitting'  BY <1>2, <1>3 DEF Fitting
<1>6. Ready'
  <2>1. pc = "render" /\ pc' \in { "exited", "poll" }  BY DEF LockClient!Render
  <2> QED  BY <1>2, <1>3, <2>1 DEF Ready, LockClient!Covered
<1>7. LockClient!ShowsState'
  <2>1. pc = "render" /\ password' = password /\ status' = status  BY DEF LockClient!Render
  <2>2. \A z : LockClient!Frame(z)' = LockClient!Frame(z)  BY <2>1 DEF LockClient!Frame
  <2> QED
    BY <1>2, <1>3, <2>1, <2>2 DEF LockClient!ShowsState, LockClient!Covered, LockClient!Frame
<1>8. LockClient!FieldIsChecked'  BY DEF LockClient!FieldIsChecked, LockClient!Render
<1>9. LockClient!AckedFirst'  BY <1>2, <1>3 DEF LockClient!AckedFirst
<1> QED  BY <1>4, <1>5, <1>6, <1>7, <1>8, <1>9

LEMMA LockKeeps == ASSUME LockInv, LockClient!Next PROVE LockInv'
<1> USE DEF LockInv
<1>1. CASE LockClient!Spawn
  BY <1>1 DEF LockClient!Spawn, LockTyped, Fitting, Ready, LockClient!ShowsState, LockClient!Covered,
              LockClient!Frame, LockClient!FieldIsChecked, LockClient!AckedFirst
<1>2. ASSUME NEW o \in Outputs, LockClient!Global(o) PROVE LockInv'
  <2>1. UNCHANGED << pc, screen, surf, password, status, auth, asked, inbox >>
    BY <1>2 DEF LockClient!Global
  <2>2. LockClient!FieldIsChecked'  BY <2>1 DEF LockClient!FieldIsChecked
  <2> QED  BY <2>1, <2>2, Unmarked DEF LockTyped
<1>3. CASE LockClient!CreateSurfaces  BY <1>3, CreateKeeps
<1>4. ASSUME NEW e \in LockClient!Events, LockClient!Send(e) PROVE LockInv'
  <2>1. UNCHANGED << pc, screen, surf, password, status, auth, asked >>
    BY <1>4 DEF LockClient!Send
  <2>2. inbox' \in Seq(LockClient!Events)  BY <1>4 DEF LockClient!Send, LockTyped
  <2>3. LockClient!FieldIsChecked'  BY <2>1 DEF LockClient!FieldIsChecked
  <2> QED  BY <2>1, <2>2, <2>3, Unmarked
<1>5. CASE LockClient!ThreadEnds
  <2>1. UNCHANGED << pc, screen, surf, password, status, asked, inbox >> /\ auth # "none"
    BY <1>5 DEF LockClient!ThreadEnds
  <2>2. LockClient!FieldIsChecked'  BY <2>1 DEF LockClient!FieldIsChecked
  <2> QED  BY <2>1, <2>2, Unmarked DEF LockTyped
<1>6. CASE LockClient!LockRoundtrip
  <2>1. CASE inbox # << >> /\ LockClient!Handle /\ UNCHANGED pc
    BY <1>6, <2>1, HandleKeeps DEF LockClient!LockRoundtrip
  <2>2. CASE /\ \A o \in LockClient!Covered : surf[o].acked
             /\ pc' = "auth" /\ UNCHANGED << inbox, surf, password, status, auth, asked >>
    BY <1>6, <2>2 DEF LockClient!LockRoundtrip, LockTyped, Fitting, Ready, LockClient!ShowsState,
         LockClient!Covered, LockClient!Frame, LockClient!FieldIsChecked, LockClient!AckedFirst
  <2> QED  BY <1>6, <2>1, <2>2 DEF LockClient!LockRoundtrip
<1>7. CASE LockClient!CheckAuth
  <2>1. CASE surf' = surf /\ password' = password /\ status' = status
    BY <1>7, <2>1 DEF LockClient!CheckAuth, LockTyped, Fitting, Ready, LockClient!ShowsState,
         LockClient!Covered, LockClient!Frame, LockClient!FieldIsChecked, LockClient!AckedFirst
  <2>2. CASE auth' = "none" /\ LockClient!MarkAll /\ pc' = "render"
    <3>1. LockClient!FieldIsChecked'  BY <2>2 DEF LockClient!FieldIsChecked
    <3>2. pc = "auth" /\ inbox' = inbox /\ screen' = screen  BY <1>7 DEF LockClient!CheckAuth
    <3>3. ASSUME NEW o \in Outputs
          PROVE  /\ surf'[o] \in Pane /\ surf'[o].dirty = surf[o].made
                 /\ surf'[o].made = surf[o].made /\ surf'[o].acked = surf[o].acked
                 /\ surf'[o].buffer = surf[o].buffer /\ surf'[o].size = surf[o].size
      BY <2>2, MarkedPane
    <3>4. LockTyped'
      <4>1. surf' = [o \in Outputs |-> surf'[o]]  BY <2>2 DEF LockClient!MarkAll
      <4> QED  BY <3>2, <3>3, <4>1 DEF LockTyped
    <3>5. Fitting'  BY <3>3 DEF Fitting
    <3>6. Ready'  BY <2>2, <3>2, <3>3 DEF Ready, LockClient!Covered
    <3>7. LockClient!ShowsState'  BY <3>3 DEF LockClient!ShowsState, LockClient!Covered
    <3>8. LockClient!AckedFirst'  BY <3>2, <3>3 DEF LockClient!AckedFirst
    <3> QED  BY <3>1, <3>4, <3>5, <3>6, <3>7, <3>8
  <2> QED  BY <1>7, <2>1, <2>2 DEF LockClient!CheckAuth
<1>8. CASE LockClient!Render  BY <1>8, RenderKeeps
<1>9. CASE LockClient!Dispatch
  <2>1. CASE inbox # << >> /\ LockClient!Handle /\ UNCHANGED pc
    BY <1>9, <2>1, HandleKeeps DEF LockClient!Dispatch
  <2>2. CASE pc' \in { "auth", "exited" } /\ UNCHANGED << inbox, surf, password, status, auth, asked >>
    BY <1>9, <2>2 DEF LockClient!Dispatch, LockTyped, Fitting, Ready, LockClient!ShowsState,
         LockClient!Covered, LockClient!Frame, LockClient!FieldIsChecked, LockClient!AckedFirst
  <2> QED  BY <1>9, <2>1, <2>2 DEF LockClient!Dispatch
<1> QED  BY <1>1, <1>2, <1>3, <1>4, <1>5, <1>6, <1>7, <1>8, <1>9 DEF LockClient!Next

\* However configures, keys, the answers of the authentication and drawing that fails come:
\* a surface with nothing left to draw shows the field and the status as they are, what is
\* checked is what the field holds, and nothing is drawn before it is configured.
THEOREM LockScreenIsTrue == PartsSpec => []LockScreenAgrees
<1> DEFINE I == part = "lock" => LockInv
<1>1. PartsInit => I
  <2> SUFFICES ASSUME PartsInit, part = "lock" PROVE LockInv  OBVIOUS
  <2>1. LockClient!Init
    BY DEF PartsInit, InitBase, InitLockClient, InitResizeGrab, InitKeyboard
  <2> QED  BY <2>1, LockStarts
<1>2. I /\ [PartsNext]_<< partVars, vars >> => I'
  <2> SUFFICES ASSUME I, [PartsNext]_<< partVars, vars >>, part' = "lock" PROVE LockInv'  OBVIOUS
  <2>1. CASE NextLockClient  BY <2>1, LockKeeps DEF NextLockClient
  <2>2. CASE NextBase \/ NextResizeGrab \/ NextKeyboard
    <3>1. part = "lock"  BY <2>2 DEF NextBase, NextResizeGrab, NextKeyboard, partVars, RestResizeGrab, RestKeyboard
    <3> QED  BY <2>2, <3>1 DEF NextBase, NextResizeGrab, NextKeyboard
  <2>3. CASE UNCHANGED << partVars, vars >>
    <3>1. UNCHANGED << part, pc, pending, inbox, surf, screen, password, status, auth, asked >>
      BY <2>3 DEF partVars
    <3> QED
      BY <3>1 DEF LockInv, LockTyped, Fitting, Ready, LockClient!ShowsState,
        LockClient!Covered, LockClient!Frame, LockClient!FieldIsChecked, LockClient!AckedFirst
  <2> QED  BY <2>1, <2>2, <2>3 DEF PartsNext
<1>3. I => LockScreenAgrees  BY DEF LockScreenAgrees, LockInv
<1> QED  BY <1>1, <1>2, <1>3, PTL DEF PartsSpec
-----------------------------------------------------------------------------
(* The resize.  Whatever the pacer holds back, the last size that was sent *)
(* is in front of nothing else once the button is released; and what is    *)
(* committed during a drag is placed from the rectangle it began with.     *)

Rect == [x : Int, w : Int]

RState == [phase : { "idle", "active", "last" }, preview : Rect, waiting : BOOLEAN, gen : Int,
           committed : Int]

ResizeTyped ==
  /\ rect \in Rect /\ initial \in Rect /\ size \in Int /\ want \in Int
  /\ inbox \in Seq(Int) /\ edge \in { "left", "right" } /\ grab \in BOOLEAN
  /\ rs \in RState

\* A drag is active as long as the grab is; without one there is no preview once it is over.
Phases == /\ grab => rs.phase = "active"
          /\ ~ grab => rs.phase # "active"
          /\ rs.phase = "idle" => rs.preview = ResizeGrab!None

\* After a drag the client is about to read the last size, or has drawn it.
Owed == ~ grab /\ drags > 0 =>
          IF inbox = << >> THEN rs.phase = "idle" /\ rect.w = size /\ want = size
          ELSE ResizeGrab!Last(inbox) = size

ResizeInv == ResizeTyped /\ drags \in Nat /\ Phases /\ Owed /\ ResizeGrab!AnchoredWhileHeld

\* The state of a resize is made of its parts.
LEMMA StateOf ==
    ASSUME NEW ph \in { "idle", "active", "last" }, NEW pr \in Rect, NEW wa \in BOOLEAN,
           NEW ge \in Int, NEW co \in Int
    PROVE  [phase |-> ph, preview |-> pr, waiting |-> wa, gen |-> ge, committed |-> co]
             \in RState
BY DEF RState

LEMMA ResizeStarts == ASSUME ResizeGrab!Init PROVE ResizeInv
<1> USE DEF ResizeGrab!Init, ResizeGrab!Start, ResizeGrab!Idle, ResizeGrab!None
<1>1. ResizeTyped
  <2>1. 0 \in Int /\ 2 \in Int /\ FALSE \in BOOLEAN /\ "idle" \in { "idle", "active", "last" }
    OBVIOUS
  <2>2. [x |-> 0, w |-> 0] \in Rect /\ [x |-> 0, w |-> 2] \in Rect  BY <2>1 DEF Rect
  <2>3. rs \in RState  BY <2>1, <2>2, StateOf
  <2>4. inbox \in Seq(Int)  OBVIOUS
  <2> QED  BY <2>1, <2>2, <2>3, <2>4 DEF ResizeTyped
<1>2. Phases  BY DEF Phases
<1>3. Owed /\ drags \in Nat  BY DEF Owed
<1>4. ResizeGrab!AnchoredWhileHeld  BY DEF ResizeGrab!AnchoredWhileHeld
<1> QED  BY <1>1, <1>2, <1>3, <1>4 DEF ResizeInv

(* A size that the pointer asks for lies within the client's limits. *)
LEMMA DraggedInt ==
    ASSUME ResizeTyped, NEW d \in Int PROVE ResizeGrab!Dragged(d) \in Int
<1> DEFINE wide == initial.w + (IF edge = "left" THEN -d ELSE d)
           low  == ResizeGrab!Min({ResizeGrab!MaxWidth, wide})
<1>1. wide \in Int  BY DEF ResizeTyped, Rect
<1> HIDE DEF wide
<1>2. low \in Int
  <2>1. \E x \in {3, wide} : \A y \in {3, wide} : x =< y  BY <1>1
  <2> QED  BY <1>1, <2>1 DEF ResizeGrab!Min, ResizeGrab!MaxWidth
<1> HIDE DEF low
<1>3. ResizeGrab!Max({ResizeGrab!MinWidth, low}) \in Int
  <2>1. \E x \in {1, low} : \A y \in {1, low} : x >= y  BY <1>2
  <2> QED  BY <1>2, <2>1 DEF ResizeGrab!Max, ResizeGrab!MinWidth
<1> QED  BY <1>3 DEF ResizeGrab!Dragged, low, wide

\* A configure that is sent is the last one to be read.
LEMMA Sent ==
    ASSUME NEW q \in Seq(Int), NEW n \in Int
    PROVE  /\ Append(q, n) \in Seq(Int) /\ Append(q, n) # << >>
           /\ ResizeGrab!Last(Append(q, n)) = n
<1>1. Append(q, n) \in Seq(Int) /\ Len(Append(q, n)) = Len(q) + 1  OBVIOUS
<1>2. Append(q, n)[Len(q) + 1] = n  OBVIOUS
<1> QED  BY <1>1, <1>2 DEF ResizeGrab!Last

\* One that is read leaves the last one last.
LEMMA ReadOn ==
    ASSUME NEW q \in Seq(Int), q # << >>
    PROVE  /\ Head(q) \in Int /\ Tail(q) \in Seq(Int)
           /\ Tail(q) = << >> => ResizeGrab!Last(q) = Head(q)
           /\ Tail(q) # << >> => ResizeGrab!Last(Tail(q)) = ResizeGrab!Last(q)
<1>1. Head(q) \in Int /\ Tail(q) \in Seq(Int) /\ Len(q) > 0 /\ Len(Tail(q)) = Len(q) - 1
  OBVIOUS
<1>2. CASE Tail(q) = << >>
  <2> DEFINE t == Tail(q)
  <2>0. t \in Seq(Int) /\ t = << >> /\ Len(t) = Len(q) - 1 /\ Len(q) \in Nat  BY <1>1, <1>2
  <2> HIDE DEF t
  <2>1. Len(t) = 0  BY <2>0
  <2>2. Len(q) = 1  BY <2>0, <2>1
  <2> QED  BY <1>1, <1>2, <2>2 DEF ResizeGrab!Last
<1>3. CASE Tail(q) # << >>
  <2>1. Len(Tail(q)) > 0 /\ Len(Tail(q)) \in Nat  BY <1>1, <1>3
  <2>2. Tail(q)[Len(Tail(q))] = q[Len(Tail(q)) + 1]  BY <1>1, <2>1
  <2> QED  BY <1>1, <1>3, <2>1, <2>2 DEF ResizeGrab!Last
<1> QED  BY <1>1, <1>2, <1>3

LEMMA RequestKeeps ==
    ASSUME ResizeInv, NEW e \in { "left", "right" }, ResizeGrab!Request(e) PROVE ResizeInv'
<1> USE DEF ResizeInv, ResizeGrab!Request, ResizeGrab!Begin
<1>1. rect \in Rect /\ rect.w \in Int /\ rect.x \in Int  BY DEF ResizeTyped, Rect
<1>2. inbox' \in Seq(Int)
  <2> DEFINE n == IF inbox = << >> THEN want ELSE ResizeGrab!Last(inbox)
  <2>1. n \in Int
    <3>1. CASE inbox = << >>  BY <3>1 DEF ResizeTyped
    <3>2. CASE inbox # << >>
      <4>1. Len(inbox) \in 1..Len(inbox) /\ inbox[Len(inbox)] \in Int  BY <3>2 DEF ResizeTyped
      <4> QED  BY <3>2, <4>1 DEF ResizeGrab!Last
    <3> QED  BY <3>1, <3>2
  <2>2. inbox' = Append(inbox, n)  OBVIOUS
  <2> HIDE DEF n
  <2> QED  BY <2>1, <2>2, Sent DEF ResizeTyped
<1>3. /\ rs'.phase = "active" /\ rs'.preview = rect /\ rs'.waiting = FALSE /\ rs'.gen = 0
      /\ rs'.committed = rect.w
      /\ rs' \in RState
  <2>1. rs' = [phase |-> "active", preview |-> rect, waiting |-> FALSE, gen |-> 0,
               committed |-> rect.w]
    BY DEF ResizeGrab!Idle
  <2>2. "active" \in { "idle", "active", "last" } /\ FALSE \in BOOLEAN /\ 0 \in Int  OBVIOUS
  <2>3. rs' \in RState
    <3> HIDE DEF ResizeGrab!Request, ResizeGrab!Begin, ResizeInv
    <3>1. rect \in Rect /\ rect.w \in Int  BY <1>1
    <3> QED  BY <2>1, <2>2, <3>1, StateOf
  <2> HIDE DEF ResizeGrab!Request, ResizeGrab!Begin, ResizeInv
  <2>4. /\ rs'.phase = "active" /\ rs'.preview = rect /\ rs'.waiting = FALSE /\ rs'.gen = 0
        /\ rs'.committed = rect.w
    BY <2>1
  <2> QED  BY <2>3, <2>4
<1>4. ResizeTyped'  BY <1>1, <1>2, <1>3 DEF ResizeTyped
<1>5. Phases'  BY <1>3 DEF Phases
<1>6. Owed' /\ drags' \in Nat  BY DEF Owed
<1>7. ResizeGrab!AnchoredWhileHeld'  BY DEF ResizeGrab!AnchoredWhileHeld
<1> QED  BY <1>4, <1>5, <1>6, <1>7

\* The preview is a rectangle, whatever else is noted with it.
LEMMA PreviewIs ==
    ASSUME ResizeTyped, NEW w \in Int
    PROVE  /\ ResizeGrab!Target(w) \in Rect
           /\ ResizeGrab!Previewed(w).phase = rs.phase
           /\ ResizeGrab!Previewed(w) \in RState
           /\ ResizeGrab!Configured(w).phase = rs.phase
           /\ ResizeGrab!Configured(w) \in RState
<1>1. ResizeGrab!Target(w) \in Rect  BY DEF ResizeGrab!Target, ResizeTyped, Rect
<1> QED  BY <1>1 DEF ResizeGrab!Previewed, ResizeGrab!Configured, ResizeTyped, RState

LEMMA MotionKeeps ==
    ASSUME ResizeInv, NEW d \in Int, ResizeGrab!Motion(d) PROVE ResizeInv'
<1> DEFINE w == ResizeGrab!Dragged(d)
<1>1. w \in Int  BY DraggedInt DEF ResizeInv
<1>2. /\ size' = w /\ rs' \in { ResizeGrab!Previewed(w), ResizeGrab!Configured(w) }
      /\ inbox' \in { inbox, Append(inbox, w) }
      /\ grab /\ UNCHANGED << rect, grab, edge, initial, want, drags >>
  BY DEF ResizeGrab!Motion
<1> HIDE DEF w
<1>3. ResizeTyped'
  <2>1. inbox' \in Seq(Int)  BY <1>1, <1>2, Sent DEF ResizeInv, ResizeTyped
  <2>2. ResizeTyped  BY DEF ResizeInv
  <2>3. ResizeGrab!Previewed(w) \in RState /\ ResizeGrab!Configured(w) \in RState
    BY <1>1, <2>2, PreviewIs
  <2>4. rs' \in RState  BY <1>2, <2>3
  <2> QED  BY <1>1, <1>2, <2>1, <2>2, <2>4 DEF ResizeTyped
<1>4. Phases'
  <2>1. rs'.phase = rs.phase  BY <1>1, <1>2, PreviewIs DEF ResizeInv
  <2> QED  BY <1>2, <2>1 DEF ResizeInv, Phases
<1>5. Owed' /\ drags' \in Nat  BY <1>2 DEF ResizeInv, Owed
<1>6. ResizeGrab!AnchoredWhileHeld'  BY <1>2 DEF ResizeInv, ResizeGrab!AnchoredWhileHeld
<1> QED  BY <1>3, <1>4, <1>5, <1>6 DEF ResizeInv

LEMMA ReleaseKeeps ==
    ASSUME ResizeInv, ResizeGrab!Release PROVE ResizeInv'
<1> USE DEF ResizeInv
<1>1. /\ rs' = [[rs EXCEPT !.waiting = TRUE] EXCEPT !.phase = "last",
                                                    !.preview = ResizeGrab!Target(size)]
      /\ inbox' = Append(inbox, size) /\ grab' = FALSE
      /\ UNCHANGED << rect, edge, initial, size, want, drags >>
  BY DEF ResizeGrab!Release, ResizeGrab!Finished, ResizeTyped
<1>2. ResizeGrab!Target(size) \in Rect  BY PreviewIs DEF ResizeTyped
<1>3. /\ rs'.phase = "last"
      /\ rs' \in RState
  <2> DEFINE u == [rs EXCEPT !.waiting = TRUE]
  <2>1. u \in RState  BY DEF ResizeTyped, RState
  <2>2. rs' = [u EXCEPT !.phase = "last", !.preview = ResizeGrab!Target(size)]  BY <1>1
  <2> HIDE DEF u
  <2> QED  BY <1>2, <2>1, <2>2 DEF RState
<1>4. inbox' \in Seq(Int) /\ inbox' # << >> /\ ResizeGrab!Last(inbox') = size
  BY <1>1, Sent DEF ResizeTyped
<1>5. ResizeTyped'
  <2>1. rs' \in RState /\ inbox' \in Seq(Int) /\ grab' \in BOOLEAN  BY <1>1, <1>3, <1>4
  <2>2. UNCHANGED << rect, edge, initial, size, want >>  BY <1>1
  <2> HIDE <1>1
  <2> QED  BY <2>1, <2>2 DEF ResizeTyped
<1>6. Phases'  BY <1>1, <1>3 DEF Phases
<1>7. Owed' /\ drags' \in Nat  BY <1>1, <1>4 DEF Owed
<1>8. ResizeGrab!AnchoredWhileHeld'  BY <1>1 DEF ResizeGrab!AnchoredWhileHeld
<1> QED  BY <1>5, <1>6, <1>7, <1>8

\* What the commit handler makes of a commit.
LEMMA CommittedIs ==
    ASSUME ResizeInv, NEW w \in Int, ResizeGrab!Committed(w)
    PROVE  /\ rect' \in Rect /\ rect'.w = w
           /\ rs' \in RState
           /\ rs'.phase = IF rs.phase = "active" THEN "active" ELSE "idle"
           /\ rs'.phase = "idle" => rs'.preview = ResizeGrab!None
           /\ grab => IF edge = "left" THEN rect'.x + rect'.w = initial.x + initial.w
                                       ELSE rect'.x = initial.x
<1> USE DEF ResizeInv, ResizeTyped, RState
<1>1. rect'.w = w /\ rect' \in Rect
  BY DEF ResizeGrab!Committed, ResizeGrab!Placed, Rect
<1>2. grab => IF edge = "left" THEN rect'.x + rect'.w = initial.x + initial.w
                               ELSE rect'.x = initial.x
  BY DEF ResizeGrab!Committed, ResizeGrab!Placed, Rect, Phases, ResizeGrab!AnchoredWhileHeld
<1>3. rs' = ResizeGrab!Noted(w)  BY DEF ResizeGrab!Committed
<1>4. ResizeGrab!None \in Rect  BY DEF ResizeGrab!None, Rect
<1>5. CASE rs.phase = "idle"
  <2>1. rs' = rs  BY <1>3, <1>5 DEF ResizeGrab!Noted
  <2> QED  BY <1>1, <1>2, <1>5, <2>1 DEF Phases
<1>6. CASE rs.phase = "active"
  <2>1. rs' = [rs EXCEPT !.gen = rs.gen + 1, !.committed = w, !.waiting = FALSE]
    BY <1>3, <1>6 DEF ResizeGrab!Noted, ResizeGrab!Recorded
  <2>2. rs.gen + 1 \in Int  OBVIOUS
  <2>3. /\ rs'.phase = "active"
        /\ rs' \in RState
    BY <1>6, <2>1, <2>2
  <2> QED  BY <1>1, <1>2, <1>6, <2>3
<1>7. CASE rs.phase = "last"
  <2> DEFINE r == [rs EXCEPT !.gen = rs.gen + 1, !.committed = w, !.waiting = FALSE]
  <2>1. rs.gen + 1 \in Int  OBVIOUS
  <2>2. r \in RState
    BY <2>1
  <2>3. rs' = [r EXCEPT !.phase = "idle", !.preview = ResizeGrab!None]
    BY <1>3, <1>7 DEF ResizeGrab!Noted, ResizeGrab!Recorded
  <2> HIDE DEF r
  <2>4. /\ rs'.phase = "idle" /\ rs'.preview = ResizeGrab!None
        /\ rs' \in RState
    BY <1>4, <2>2, <2>3
  <2> QED  BY <1>1, <1>2, <1>7, <2>4
<1> QED  BY <1>5, <1>6, <1>7

LEMMA ReadKeeps ==
    ASSUME ResizeInv, ResizeGrab!Read PROVE ResizeInv'
<1> DEFINE w == Head(inbox)
<1>1. /\ inbox # << >> /\ inbox' = Tail(inbox) /\ want' = w
      /\ UNCHANGED << grab, edge, initial, size, drags >>
  BY DEF ResizeGrab!Read
<1>2. inbox \in Seq(Int)  BY DEF ResizeInv, ResizeTyped
<1>3. /\ w \in Int /\ inbox' \in Seq(Int)
      /\ inbox' = << >> => ResizeGrab!Last(inbox) = w
      /\ inbox' # << >> => ResizeGrab!Last(inbox') = ResizeGrab!Last(inbox)
  BY <1>1, <1>2, ReadOn
<1>4. ResizeGrab!Committed(w) \/ (inbox' # << >> /\ UNCHANGED << rect, rs >>)
  BY DEF ResizeGrab!Read
<1> HIDE DEF w
<1>5. CASE ResizeGrab!Committed(w)
  <2>1. /\ rect' \in Rect /\ rect'.w = w
        /\ rs' \in RState
        /\ rs'.phase = IF rs.phase = "active" THEN "active" ELSE "idle"
        /\ rs'.phase = "idle" => rs'.preview = ResizeGrab!None
        /\ grab => IF edge = "left" THEN rect'.x + rect'.w = initial.x + initial.w
                                    ELSE rect'.x = initial.x
    BY <1>3, <1>5, CommittedIs
  <2>2. ResizeTyped'  BY <1>1, <1>3, <2>1 DEF ResizeInv, ResizeTyped
  <2>3. Phases'  BY <1>1, <2>1 DEF ResizeInv, Phases
  <2>4. Owed'  BY <1>1, <1>3, <2>1 DEF ResizeInv, Owed, Phases
  <2>5. ResizeGrab!AnchoredWhileHeld'  BY <1>1, <2>1 DEF ResizeGrab!AnchoredWhileHeld
  <2> QED  BY <1>1, <2>2, <2>3, <2>4, <2>5 DEF ResizeInv
<1>6. CASE inbox' # << >> /\ UNCHANGED << rect, rs >>
  BY <1>1, <1>3, <1>6 DEF ResizeInv, ResizeTyped, Phases, Owed, ResizeGrab!AnchoredWhileHeld
<1> QED  BY <1>4, <1>5, <1>6

LEMMA FrameKeeps ==
    ASSUME ResizeInv, ResizeGrab!Frame PROVE ResizeInv'
<1>1. ResizeGrab!Committed(want) /\ want \in Int
      /\ UNCHANGED << grab, edge, initial, size, inbox, want, drags >>
  BY DEF ResizeGrab!Frame, ResizeInv, ResizeTyped
<1>2. /\ rect' \in Rect /\ rect'.w = want
      /\ rs' \in RState
      /\ rs'.phase = IF rs.phase = "active" THEN "active" ELSE "idle"
      /\ rs'.phase = "idle" => rs'.preview = ResizeGrab!None
      /\ grab => IF edge = "left" THEN rect'.x + rect'.w = initial.x + initial.w
                                  ELSE rect'.x = initial.x
  BY <1>1, CommittedIs
<1>3. ResizeTyped'  BY <1>1, <1>2 DEF ResizeInv, ResizeTyped
<1>4. Phases'  BY <1>1, <1>2 DEF ResizeInv, Phases
<1>5. Owed'  BY <1>1, <1>2 DEF ResizeInv, Owed, Phases
<1>6. ResizeGrab!AnchoredWhileHeld'  BY <1>1, <1>2 DEF ResizeGrab!AnchoredWhileHeld
<1> QED  BY <1>1, <1>3, <1>4, <1>5, <1>6 DEF ResizeInv

LEMMA ResizeQuiet ==
    ASSUME ResizeInv, UNCHANGED << rect, grab, edge, initial, size, rs, inbox, want, drags >>
    PROVE  ResizeInv'
BY DEF ResizeInv, ResizeTyped, Phases, Owed, ResizeGrab!AnchoredWhileHeld

LEMMA ResizeKeeps == ASSUME ResizeInv, ResizeGrab!Next PROVE ResizeInv'
<1>1. ASSUME NEW e \in { "left", "right" }, ResizeGrab!Request(e) PROVE ResizeInv'
  BY <1>1, RequestKeeps
<1>2. ASSUME NEW d \in -Reach .. Reach, ResizeGrab!Motion(d) PROVE ResizeInv'
  <2>1. d \in Int  BY SessionPartsAssumption
  <2> QED  BY <1>2, <2>1, MotionKeeps
<1>3. CASE ResizeGrab!Release  BY <1>3, ReleaseKeeps
<1>4. CASE ResizeGrab!Tick  BY <1>4, ResizeQuiet DEF ResizeGrab!Tick
<1>5. CASE ResizeGrab!Read  BY <1>5, ReadKeeps
<1>6. CASE ResizeGrab!Frame  BY <1>6, FrameKeeps
<1> QED  BY <1>1, <1>2, <1>3, <1>4, <1>5, <1>6 DEF ResizeGrab!Next

\* However the pacer holds sizes back and the client reads and draws: the edge that is not
\* dragged does not move during a drag, and when everything is read the window has the size
\* the pointer was left at, with no preview over it.
THEOREM ResizeIsAnchored == PartsSpec => []ResizeAgrees
<1> DEFINE I == part = "resize" => ResizeInv
<1>1. PartsInit => I
  <2> SUFFICES ASSUME PartsInit, part = "resize" PROVE ResizeInv  OBVIOUS
  <2>1. ResizeGrab!Init
    BY DEF PartsInit, InitBase, InitLockClient, InitResizeGrab, InitKeyboard
  <2> QED  BY <2>1, ResizeStarts
<1>2. I /\ [PartsNext]_<< partVars, vars >> => I'
  <2> SUFFICES ASSUME I, [PartsNext]_<< partVars, vars >>, part' = "resize" PROVE ResizeInv'  OBVIOUS
  <2>1. CASE NextResizeGrab  BY <2>1, ResizeKeeps DEF NextResizeGrab, RestResizeGrab
  <2>2. CASE NextBase \/ NextLockClient \/ NextKeyboard
    <3>1. part = "resize"  BY <2>2 DEF NextBase, NextLockClient, NextKeyboard, partVars, RestLockClient, RestKeyboard
    <3> QED  BY <2>2, <3>1 DEF NextBase, NextLockClient, NextKeyboard
  <2>3. CASE UNCHANGED << partVars, vars >>
    <3>1. UNCHANGED << part, rect, grab, edge, initial, size, rs, inbox, want, drags >>
      BY <2>3 DEF partVars
    <3> QED  BY <3>1, ResizeQuiet
  <2> QED  BY <2>1, <2>2, <2>3 DEF PartsNext
<1>3. I => ResizeAgrees
  <2> SUFFICES ASSUME ResizeInv PROVE ResizeGrab!AnchoredWhileHeld /\ ResizeGrab!SettlesOnTarget
    BY DEF ResizeAgrees
  <2>1. drags \in Nat /\ Phases /\ Owed  BY DEF ResizeInv
  <2> QED  BY <2>1 DEF ResizeInv, Phases, Owed, ResizeGrab!SettlesOnTarget, ResizeGrab!Settled
<1> QED  BY <1>1, <1>2, <1>3, PTL DEF PartsSpec
-----------------------------------------------------------------------------
(* The keyboard.  What the seat has down is what the event source has      *)
(* read, forwarded or taken by a shortcut; what the device has down is     *)
(* what the last event about a key says, or what was read when there is    *)
(* none left to read.                                                      *)

Event == [type : { "down", "up" }, key : KeyNames] \cup { [type |-> "allup"] }

\* e says whether k is down.
About(e, k) == e.type = "allup" \/ e.key = k

NoneAbout(q, from, to, k) == \A j \in from..to : ~ About(q[j], k)

NoAllUp(q, m) == \A j \in m+1..Len(q) : q[j].type # "allup"

\* Of the keys p are known to be down when m events of q have been read.
LastSays(q, m, p, d) ==
  \A k \in KeyNames :
    k \in d <=> \/ \E i \in m+1..Len(q) : /\ q[i].type = "down" /\ q[i].key = k
                                          /\ NoneAbout(q, i+1, Len(q), k)
                \/ k \in p /\ NoneAbout(q, m+1, Len(q), k)

\* Since the device last said that all keys are up, no key goes down that is down.
Fresh(q, m, p, i) ==
  \/ \E j \in m+1..i-1 : /\ q[j].type # "down" /\ About(q[j], q[i].key)
                         /\ NoneAbout(q, j+1, i-1, q[i].key)
  \/ q[i].key \notin p /\ NoneAbout(q, m+1, i-1, q[i].key)

Alternates(q, m, p) ==
  \A i \in m+1..Len(q) : q[i].type = "down" /\ NoAllUp(q, i) => Fresh(q, m, p, i)

Seat(s) == s = [keys |-> s.keys, forwarded |-> s.forwarded, focus |-> s.focus, held |-> s.held,
                taken |-> s.taken, binds |-> s.binds, active |-> s.active, on |-> s.on]

\* The focused client has been told what was forwarded, the others nothing.
ToldRight(s) == \A c \in Clients : s.held[c] = IF c = s.focus THEN s.forwarded ELSE {}

SeatInv(s, p) == Seat(s) /\ ToldRight(s) /\ s.keys = p /\ s.forwarded \cup s.taken = p

\* A key is forwarded or taken, not both, unless a loss is still to be made good.
Clean(q, m, s) == NoAllUp(q, m) => s.forwarded \cap s.taken = {}

Passed(q, m, p, s) ==
  /\ p \subseteq KeyNames /\ SeatInv(s, p)
  /\ ~ lost => LastSays(q, m, p, down) /\ Alternates(q, m, p) /\ Clean(q, m, s)

KeyInv == /\ queue \in Seq(Event) /\ down \subseteq KeyNames /\ lost \in BOOLEAN
          /\ Passed(queue, 0, pressed, kb)

-----------------------------------------------------------------------------
\* t is s with the same keys.
SameKeys(s, t) == /\ Seat(t) /\ ToldRight(t)
                  /\ t.keys = s.keys /\ t.forwarded = s.forwarded /\ t.taken = s.taken

LEMMA SetFocusKeeps ==
    ASSUME NEW s, Seat(s), ToldRight(s), NEW c PROVE SameKeys(s, Keyboard!SetFocus(s, c))
<1> DEFINE t == [s EXCEPT !.focus = c,
                          !.held  = [d \in Clients |-> IF d = c THEN s.forwarded ELSE {}]]
<1>1. /\ t = [s EXCEPT !.focus = c,
                       !.held  = [d \in Clients |-> IF d = c THEN s.forwarded ELSE {}]]
      /\ Keyboard!SetFocus(s, c) = IF c = s.focus THEN s ELSE t
  BY DEF Keyboard!SetFocus
<1> HIDE DEF t
<1>2. /\ t.focus = c /\ t.held = [d \in Clients |-> IF d = c THEN s.forwarded ELSE {}]
      /\ t.keys = s.keys /\ t.forwarded = s.forwarded /\ t.taken = s.taken /\ Seat(t)
  BY <1>1 DEF Seat
<1>3. ToldRight(t)  BY <1>2 DEF ToldRight
<1> QED  BY <1>1, <1>2, <1>3 DEF SameKeys

\* What else a shortcut changes.
LEMMA RestKeeps ==
    ASSUME NEW s, Seat(s), ToldRight(s), NEW v
    PROVE  /\ SameKeys(s, [s EXCEPT !.active = v])
           /\ SameKeys(s, [s EXCEPT !.binds = v])
           /\ SameKeys(s, [s EXCEPT !.on = v])
BY DEF SameKeys, Seat, ToldRight

LEMMA ActKeeps ==
    ASSUME NEW s, Seat(s), ToldRight(s), NEW mods, NEW k, NEW f
    PROVE  SameKeys(s, Keyboard!Act(s, mods, k, f))
<1> DEFINE t == Keyboard!SetFocus(s, "none")
<1>1. SameKeys(s, t)  BY SetFocusKeeps
<1>2. SameKeys(s, s)  BY DEF SameKeys
<1> HIDE DEF t
<1>3. ASSUME NEW n PROVE SameKeys(s, Keyboard!SwitchWorkspace(s, n))
  <2>1. Keyboard!SwitchWorkspace(s, n) = IF n = s.active THEN s ELSE [t EXCEPT !.active = n]
    BY DEF Keyboard!SwitchWorkspace, t
  <2>2. SameKeys(t, [t EXCEPT !.active = n])  BY <1>1, RestKeeps DEF SameKeys
  <2> QED  BY <1>1, <1>2, <2>1, <2>2 DEF SameKeys
<1>4. ASSUME NEW n PROVE SameKeys(s, Keyboard!MoveToWorkspace(s, n))
  <2> DEFINE at == [t.on EXCEPT ![s.focus] = n]
  <2>1. \/ Keyboard!MoveToWorkspace(s, n) = s
        \/ Keyboard!MoveToWorkspace(s, n) = [t EXCEPT !.on = at]
    BY DEF Keyboard!MoveToWorkspace, t
  <2> HIDE DEF at
  <2>2. SameKeys(t, [t EXCEPT !.on = at])  BY <1>1, RestKeeps DEF SameKeys
  <2> QED  BY <1>1, <1>2, <2>1, <2>2 DEF SameKeys
<1>5. SameKeys(s, Keyboard!Reload(s, f))  BY <1>2, RestKeeps DEF Keyboard!Reload
<1> QED  BY <1>2, <1>3, <1>4, <1>5 DEF Keyboard!Act

\* A key goes down or up at the seat.
LEMMA HandleIs ==
    ASSUME NEW s, NEW p, SeatInv(s, p), NEW k, NEW isDown \in BOOLEAN, NEW f
    PROVE  LET t == Keyboard!HandleKeyboard(s, k, isDown, f)
           IN  /\ SeatInv(t, IF isDown THEN p \cup {k} ELSE p \ {k})
               /\ s.forwarded \cap s.taken = {} /\ (isDown => k \notin p)
                    => t.forwarded \cap t.taken = {}
<1> DEFINE noted == [s EXCEPT !.keys = IF isDown THEN @ \cup { k } ELSE @ \ { k }]
           mods  == noted.keys \cap { "super", "shift" }
           acted == Keyboard!Act(noted, mods, k, f)
           fwd   == Keyboard!Forward(noted, k, isDown)
           taken == [acted EXCEPT !.taken = @ \cup { k }]
           given == [fwd EXCEPT !.taken = @ \ { k }]
           told(set) == IF isDown THEN set \cup { k } ELSE set \ { k }
           t == Keyboard!HandleKeyboard(s, k, isDown, f)
           np == IF isDown THEN p \cup {k} ELSE p \ {k}
<1>1. (t = taken /\ isDown) \/ t = given  BY DEF Keyboard!HandleKeyboard
<1>2. /\ noted.keys = np /\ noted.forwarded = s.forwarded /\ noted.taken = s.taken
      /\ noted.held = s.held /\ noted.focus = s.focus /\ Seat(noted) /\ ToldRight(noted)
  BY DEF SeatInv, Seat, ToldRight
<1> HIDE DEF t, noted
<1>3. CASE t = taken /\ isDown
  <2>1. SameKeys(noted, acted)  BY <1>2, ActKeeps
  <2> HIDE DEF acted, mods
  <2>2. /\ taken.keys = acted.keys /\ taken.forwarded = acted.forwarded
        /\ taken.held = acted.held /\ taken.focus = acted.focus
        /\ taken.taken = acted.taken \cup { k } /\ Seat(taken)
    BY <2>1 DEF SameKeys, Seat
  <2> HIDE DEF taken
  <2>3. ToldRight(t)  BY <1>3, <2>1, <2>2 DEF SameKeys, ToldRight
  <2>4. t.forwarded = s.forwarded /\ t.taken = s.taken \cup {k} /\ t.keys = np
    BY <1>2, <1>3, <2>1, <2>2 DEF SameKeys
  <2> QED  BY <1>3, <2>2, <2>3, <2>4 DEF SeatInv, t
<1>4. CASE t = given
  <2>1. fwd = [noted EXCEPT !.forwarded = told(@),
                 !.held = [d \in Clients |-> IF d = noted.focus THEN told(noted.held[d])
                                             ELSE noted.held[d]]]
    BY DEF Keyboard!Forward
  <2> HIDE DEF fwd
  <2>2. /\ fwd.keys = np /\ fwd.forwarded = told(s.forwarded) /\ fwd.taken = s.taken
        /\ fwd.focus = s.focus /\ Seat(fwd)
        /\ fwd.held = [d \in Clients |-> IF d = s.focus THEN told(s.held[d]) ELSE s.held[d]]
    BY <1>2, <2>1 DEF Seat
  <2>3. /\ given.keys = fwd.keys /\ given.forwarded = fwd.forwarded
        /\ given.held = fwd.held /\ given.focus = fwd.focus
        /\ given.taken = fwd.taken \ { k } /\ Seat(given)
    BY <2>2 DEF Seat
  <2> HIDE DEF given
  <2>4. ToldRight(t)  BY <1>4, <2>2, <2>3 DEF SeatInv, ToldRight
  <2>5. t.forwarded = told(s.forwarded) /\ t.taken = s.taken \ {k} /\ t.keys = np
    BY <1>4, <2>2, <2>3
  <2> QED  BY <1>4, <2>3, <2>4, <2>5 DEF SeatInv, t
<1> QED  BY <1>1, <1>3, <1>4

\* Every key that was down goes up.
LEMMA ReleaseAllIs ==
    ASSUME NEW s, NEW p, SeatInv(s, p)
    PROVE  /\ SeatInv(Keyboard!ReleaseAll(s, p), {})
           /\ Keyboard!ReleaseAll(s, p).forwarded = {}
<1> DEFINE t == Keyboard!ReleaseAll(s, p)
<1>1. t = [s EXCEPT !.keys = s.keys \ p, !.forwarded = s.forwarded \ p, !.taken = s.taken \ p,
             !.held = [d \in Clients |-> IF d = s.focus THEN s.held[d] \ p ELSE s.held[d]]]
  BY DEF Keyboard!ReleaseAll, SeatInv, Seat
<1> HIDE DEF t
<1>2. /\ t.keys = s.keys \ p /\ t.forwarded = s.forwarded \ p /\ t.taken = s.taken \ p
      /\ t.focus = s.focus /\ Seat(t)
      /\ t.held = [d \in Clients |-> IF d = s.focus THEN s.held[d] \ p ELSE s.held[d]]
  BY <1>1 DEF SeatInv, Seat
<1>3. s.keys = p /\ s.forwarded \subseteq p /\ s.taken \subseteq p  BY DEF SeatInv
<1>4. t.keys = {} /\ t.forwarded = {} /\ t.taken = {}  BY <1>2, <1>3
<1>5. ToldRight(t)  BY <1>2, <1>3, <1>4 DEF SeatInv, ToldRight
<1> QED  BY <1>2, <1>4, <1>5 DEF SeatInv, t

-----------------------------------------------------------------------------
(* One event is read. *)

LEMMA OneLess ==
    ASSUME NEW q \in Seq(Event), NEW m \in Nat, m < Len(q)
    PROVE  /\ m+1 \in m+1..Len(q) /\ m+1 \in 1..Len(q) /\ m+1 \in Nat
           /\ \A i : i \in m+1..Len(q) <=> i = m+1 \/ i \in m+1+1..Len(q)
           /\ \A i \in m+1+1..Len(q) : \A j : j \in m+1..i-1 <=> j = m+1 \/ j \in m+1+1..i-1
           /\ q[m+1] \in Event
<1>1. Len(q) \in Nat  OBVIOUS
<1> QED  BY <1>1

LEMMA LastSaysStill ==
    ASSUME NEW q \in Seq(Event), NEW m \in Nat, m < Len(q), NEW p, NEW r, NEW d,
           LastSays(q, m, p, d),
           \A k \in KeyNames : IF About(q[m+1], k) THEN k \in r <=> q[m+1].type = "down"
                                                   ELSE k \in r <=> k \in p
    PROVE  LastSays(q, m+1, r, d)
<1> SUFFICES ASSUME NEW k \in KeyNames
    PROVE  k \in d <=> \/ \E i \in m+1+1..Len(q) : /\ q[i].type = "down" /\ q[i].key = k
                                                   /\ NoneAbout(q, i+1, Len(q), k)
                       \/ k \in r /\ NoneAbout(q, m+1+1, Len(q), k)
  BY DEF LastSays
<1> DEFINE Ends(i) == q[i].type = "down" /\ q[i].key = k /\ NoneAbout(q, i+1, Len(q), k)
<1>1. k \in d <=> (\E i \in m+1..Len(q) : Ends(i)) \/ (k \in p /\ NoneAbout(q, m+1, Len(q), k))
  BY DEF LastSays
<1>2. (\E i \in m+1..Len(q) : Ends(i)) <=> Ends(m+1) \/ \E i \in m+1+1..Len(q) : Ends(i)
  <2> HIDE DEF Ends
  <2> QED  BY OneLess
<1>3. NoneAbout(q, m+1, Len(q), k) <=> ~ About(q[m+1], k) /\ NoneAbout(q, m+1+1, Len(q), k)
  BY OneLess DEF NoneAbout
<1>4. Ends(m+1) <=> /\ q[m+1].type = "down" /\ q[m+1].key = k
                    /\ NoneAbout(q, m+1+1, Len(q), k)
  OBVIOUS
<1>5. q[m+1].type = "down" /\ q[m+1].key = k <=> q[m+1].type = "down" /\ About(q[m+1], k)
  BY DEF About
<1> HIDE DEF Ends
<1>6. k \in d <=> \/ \E i \in m+1+1..Len(q) : Ends(i)
                  \/ k \in r /\ NoneAbout(q, m+1+1, Len(q), k)
  BY <1>1, <1>2, <1>3, <1>4, <1>5
<1> QED  BY <1>6 DEF Ends

LEMMA AlternatesStill ==
    ASSUME NEW q \in Seq(Event), NEW m \in Nat, m < Len(q), NEW p, NEW r,
           Alternates(q, m, p),
           \A k \in KeyNames : IF About(q[m+1], k) THEN k \in r <=> q[m+1].type = "down"
                                                   ELSE k \in r <=> k \in p
    PROVE  Alternates(q, m+1, r)
<1> SUFFICES ASSUME NEW i \in m+1+1..Len(q), q[i].type = "down", NoAllUp(q, i)
             PROVE  Fresh(q, m+1, r, i)
  BY DEF Alternates
<1> DEFINE k == q[i].key
<1>1. i \in m+1..Len(q) /\ i \in 1..Len(q) /\ k \in KeyNames
  <2>1. i \in m+1..Len(q) /\ i \in 1..Len(q)  BY OneLess
  <2>2. q[i] \in Event  BY <2>1
  <2> QED  BY <2>1, <2>2 DEF Event
<1>2. Fresh(q, m, p, i)  BY <1>1 DEF Alternates
<1>3. \A from, to : NoneAbout(q, from, to, k) <=> \A j \in from..to : ~ About(q[j], k)
  BY DEF NoneAbout
<1>4. CASE \E j \in m+1..i-1 : /\ q[j].type # "down" /\ About(q[j], k)
                               /\ NoneAbout(q, j+1, i-1, k)
  <2>1. PICK j \in m+1..i-1 : /\ q[j].type # "down" /\ About(q[j], k)
                              /\ NoneAbout(q, j+1, i-1, k)
    BY <1>4
  <2>2. CASE j = m+1  BY <1>1, <2>1, <2>2 DEF Fresh
  <2>3. CASE j \in m+1+1..i-1  BY <2>1, <2>3 DEF Fresh
  <2> QED  BY <2>1, <2>2, <2>3, OneLess
<1>5. CASE k \notin p /\ NoneAbout(q, m+1, i-1, k)
  <2>1. ~ About(q[m+1], k) /\ NoneAbout(q, m+1+1, i-1, k)
    BY <1>3, <1>5, OneLess
  <2> QED  BY <1>1, <1>5, <2>1 DEF Fresh
<1> QED  BY <1>2, <1>4, <1>5 DEF Fresh

\* The event that is next, and what is down when it has been read.
LEMMA ReadDown ==
    ASSUME NEW q \in Seq(Event), NEW m \in Nat, m < Len(q), NEW p, NEW d,
           LastSays(q, m, p, d), Alternates(q, m, p), NoAllUp(q, m), q[m+1].type = "down"
    PROVE  q[m+1].key \notin p
<1>1. m+1 \in m+1..Len(q) /\ NoAllUp(q, m+1)  BY OneLess DEF NoAllUp
<1>2. Fresh(q, m, p, m+1)  BY <1>1 DEF Alternates
<1>3. \A j \in m+1..m+1-1 : FALSE  OBVIOUS
<1> QED  BY <1>2, <1>3 DEF Fresh

LEMMA EventPassed ==
    ASSUME NEW q \in Seq(Event), NEW m \in Nat, m < Len(q), NEW p, NEW s, Passed(q, m, p, s),
           NEW f
    PROVE  LET at == Keyboard!DispatchEvent(q[m+1], << p, s >>, f)
           IN  Passed(q, m+1, at[1], at[2])
<1> DEFINE e  == q[m+1]
           at == Keyboard!DispatchEvent(e, << p, s >>, f)
<1>1. e \in Event  BY OneLess
<1>2. SeatInv(s, p) /\ p \subseteq KeyNames  BY DEF Passed
<1>3. ASSUME NEW r, NEW t, SeatInv(t, r), r \subseteq KeyNames,
             ~ lost => Clean(q, m+1, t),
             \A k \in KeyNames : IF About(e, k) THEN k \in r <=> e.type = "down"
                                               ELSE k \in r <=> k \in p
      PROVE  Passed(q, m+1, r, t)
  <2>1. ASSUME ~ lost
        PROVE  LastSays(q, m+1, r, down) /\ Alternates(q, m+1, r)
    <3>1. LastSays(q, m, p, down) /\ Alternates(q, m, p)  BY <2>1 DEF Passed
    <3>2. LastSays(q, m+1, r, down)
      <4> HIDE DEF at
      <4> QED  BY <1>3, <3>1, LastSaysStill
    <3>3. Alternates(q, m+1, r)
      <4> HIDE DEF at
      <4> QED  BY <1>3, <3>1, AlternatesStill
    <3> QED  BY <3>2, <3>3
  <2> QED  BY <1>3, <2>1 DEF Passed
<1>4. CASE e.type = "down"
  <2> DEFINE k == e.key
             r == p \cup {k}
             t == Keyboard!HandleKeyboard(s, k, TRUE, f)
  <2>1. at[1] = r /\ at[2] = t  BY <1>4 DEF Keyboard!DispatchEvent
  <2>2. k \in KeyNames  BY <1>1, <1>4 DEF Event
  <2>3. /\ SeatInv(t, r)
        /\ s.forwarded \cap s.taken = {} /\ k \notin p => t.forwarded \cap t.taken = {}
    BY <1>2, HandleIs
  <2> HIDE DEF t, at
  <2>4. ~ lost => Clean(q, m+1, t)
    <3> SUFFICES ASSUME ~ lost, NoAllUp(q, m+1) PROVE t.forwarded \cap t.taken = {}
      BY DEF Clean
    <3>1. NoAllUp(q, m)  BY <1>4, OneLess DEF NoAllUp
    <3>2. s.forwarded \cap s.taken = {}  BY <3>1 DEF Passed, Clean
    <3>3. k \notin p  BY <1>4, <3>1, ReadDown DEF Passed
    <3> QED  BY <2>3, <3>2, <3>3
  <2>5. \A x \in KeyNames : IF About(e, x) THEN x \in r <=> e.type = "down"
                                          ELSE x \in r <=> x \in p
    BY <1>4 DEF About
  <2>6. Passed(q, m+1, r, t)  BY <1>2, <1>3, <2>2, <2>3, <2>4, <2>5
  <2> QED  BY <2>1, <2>6 DEF at
<1>5. CASE e.type = "up"
  <2> DEFINE k == e.key
             r == p \ {k}
             t == Keyboard!HandleKeyboard(s, k, FALSE, f)
  <2>1. at[1] = r /\ at[2] = t  BY <1>5 DEF Keyboard!DispatchEvent
  <2>3. /\ SeatInv(t, r)
        /\ s.forwarded \cap s.taken = {} => t.forwarded \cap t.taken = {}
    BY <1>2, HandleIs
  <2> HIDE DEF t, at
  <2>4. ~ lost => Clean(q, m+1, t)
    <3> SUFFICES ASSUME ~ lost, NoAllUp(q, m+1) PROVE t.forwarded \cap t.taken = {}
      BY DEF Clean
    <3>1. NoAllUp(q, m)  BY <1>5, OneLess DEF NoAllUp
    <3>2. s.forwarded \cap s.taken = {}  BY <3>1 DEF Passed, Clean
    <3> QED  BY <2>3, <3>2
  <2>5. \A x \in KeyNames : IF About(e, x) THEN x \in r <=> e.type = "down"
                                          ELSE x \in r <=> x \in p
    BY <1>5 DEF About
  <2>6. Passed(q, m+1, r, t)  BY <1>2, <1>3, <2>3, <2>4, <2>5
  <2> QED  BY <2>1, <2>6 DEF at
<1>6. CASE e.type = "allup"
  <2> DEFINE t == Keyboard!ReleaseAll(s, p)
  <2>1. at[1] = {} /\ at[2] = t  BY <1>6 DEF Keyboard!DispatchEvent
  <2>2. SeatInv(t, {}) /\ t.forwarded = {}  BY <1>2, ReleaseAllIs
  <2> HIDE DEF t, at
  <2>3. Clean(q, m+1, t)  BY <2>2 DEF Clean
  <2>4. \A x \in KeyNames : IF About(e, x) THEN x \in {} <=> e.type = "down"
                                          ELSE x \in {} <=> x \in p
    BY <1>6 DEF About
  <2>5. Passed(q, m+1, {}, t)  BY <1>3, <2>2, <2>3, <2>4
  <2> QED  BY <2>1, <2>5 DEF at
<1>7. e.type \in { "down", "up", "allup" }  BY <1>1 DEF Event
<1> QED  BY <1>4, <1>5, <1>6, <1>7

(* A batch. *)
LEMMA DispatchPair ==
    ASSUME NEW e \in Event, NEW at, NEW f
    PROVE  LET d == Keyboard!DispatchEvent(e, at, f) IN d = << d[1], d[2] >>
<1>1. CASE e.type = "down"  BY <1>1 DEF Keyboard!DispatchEvent
<1>2. CASE e.type = "up"  BY <1>2 DEF Keyboard!DispatchEvent
<1>3. CASE e.type = "allup"  BY <1>3 DEF Keyboard!DispatchEvent
<1> QED  BY <1>1, <1>2, <1>3 DEF Event

LEMMA BatchExists ==
    ASSUME NEW n \in Nat
    PROVE  \E g : g = [i \in 0..n |-> IF i = 0 THEN << pressed, kb >>
                                      ELSE Keyboard!DispatchEvent(queue[i], g[i-1], file)]
<1> DEFINE S == {m \in Nat : \E g :
                  g = [i \in 0..m |-> IF i = 0 THEN << pressed, kb >>
                                      ELSE Keyboard!DispatchEvent(queue[i], g[i-1], file)]}
<1>1. 0 \in S
  <2> DEFINE g == [i \in 0..0 |-> << pressed, kb >>]
  <2>1. g = [i \in 0..0 |-> IF i = 0 THEN << pressed, kb >>
                            ELSE Keyboard!DispatchEvent(queue[i], g[i-1], file)]
    OBVIOUS
  <2> QED  BY <2>1
<1>2. ASSUME NEW m \in 0..n-1, m \in S PROVE m+1 \in S
  <2>1. PICK g : g = [i \in 0..m |-> IF i = 0 THEN << pressed, kb >>
                                    ELSE Keyboard!DispatchEvent(queue[i], g[i-1], file)]
    BY <1>2
  <2> DEFINE h == [i \in 0..m+1 |-> IF i = m+1
                                    THEN Keyboard!DispatchEvent(queue[m+1], g[m], file) ELSE g[i]]
  <2>2. ASSUME NEW i \in 0..m+1
        PROVE  h[i] = IF i = 0 THEN << pressed, kb >>
                      ELSE Keyboard!DispatchEvent(queue[i], h[i-1], file)
    <3>1. CASE i = m+1  BY <3>1
    <3>2. CASE i \in 0..m /\ i # 0
      <4>1. i-1 \in 0..m /\ i-1 # m+1  BY <3>2
      <4>2. h[i] = g[i] /\ h[i-1] = g[i-1]  BY <3>2, <4>1
      <4>3. g[i] = Keyboard!DispatchEvent(queue[i], g[i-1], file)  BY <2>1, <3>2
      <4> QED  BY <3>2, <4>2, <4>3
    <3>3. CASE i = 0  BY <2>1, <3>3
    <3> QED  BY <3>1, <3>2, <3>3
  <2>3. h = [i \in 0..m+1 |-> IF i = 0 THEN << pressed, kb >>
                              ELSE Keyboard!DispatchEvent(queue[i], h[i-1], file)]
    BY <2>2
  <2> HIDE DEF h
  <2> QED  BY <2>3
<1>3. \A i \in 0..n : i \in S
  <2> HIDE DEF S
  <2> QED  BY <1>1, <1>2, UpTo
<1> QED  BY <1>3

LEMMA BatchPassed ==
    ASSUME KeyInv, NEW n \in 0..Len(queue)
    PROVE  LET at == Keyboard!DispatchEvents(n) IN Passed(queue, n, at[1], at[2])
<1> DEFINE g == CHOOSE g : g = [i \in 0..n |-> IF i = 0 THEN << pressed, kb >>
                                  ELSE Keyboard!DispatchEvent(queue[i], g[i-1], file)]
           S == {i \in 0..n : Passed(queue, i, g[i][1], g[i][2])}
<1>0. queue \in Seq(Event) /\ Len(queue) \in Nat /\ n \in Nat  BY DEF KeyInv
<1>1. g = [i \in 0..n |-> IF i = 0 THEN << pressed, kb >>
                          ELSE Keyboard!DispatchEvent(queue[i], g[i-1], file)]
  BY <1>0, BatchExists
<1>2. Keyboard!DispatchEvents(n) = g[n]  BY DEF Keyboard!DispatchEvents
<1> HIDE DEF g
<1>6. \A i \in 0..n : g[i] = IF i = 0 THEN << pressed, kb >>
                             ELSE Keyboard!DispatchEvent(queue[i], g[i-1], file)
  BY <1>1
<1>3. 0 \in S
  <2>1. g[0] = << pressed, kb >>  BY <1>0, <1>1
  <2> QED  BY <1>0, <2>1 DEF KeyInv
<1>4. ASSUME NEW i \in 0..n-1, i \in S PROVE i+1 \in S
  <2>0. i+1 \in 0..n /\ i+1 # 0 /\ i+1-1 = i /\ i \in 0..n  BY <1>0
  <2>1. g[i+1] = Keyboard!DispatchEvent(queue[i+1], g[i], file)  BY <1>6, <2>0
  <2>2. g[i] = << g[i][1], g[i][2] >>
    <3>1. CASE i = 0  BY <1>0, <1>1, <3>1
    <3>2. CASE i # 0
      <4>1. g[i] = Keyboard!DispatchEvent(queue[i], g[i-1], file)  BY <1>6, <2>0, <3>2
      <4>2. i \in 1..Len(queue) /\ queue[i] \in Event  BY <1>0, <3>2
      <4> QED  BY <4>1, <4>2, DispatchPair
    <3> QED  BY <3>1, <3>2
  <2>3. Passed(queue, i, g[i][1], g[i][2])  BY <1>4
  <2>4. i \in Nat /\ i < Len(queue) /\ i+1 \in 0..n  BY <1>0
  <2>5. Passed(queue, i+1, g[i+1][1], g[i+1][2])
    <3> DEFINE p == g[i][1]
               s == g[i][2]
    <3>1. g[i+1] = Keyboard!DispatchEvent(queue[i+1], << p, s >>, file)  BY <2>1, <2>2
    <3>2. Passed(queue, i, p, s)  BY <2>3
    <3> HIDE DEF p, s
    <3> QED  BY <1>0, <2>4, <3>1, <3>2, EventPassed
  <2> QED  BY <2>4, <2>5
<1>5. n \in S
  <2> HIDE DEF S
  <2>1. \A i \in 0..n : i \in S  BY <1>0, <1>3, <1>4, UpTo
  <2> QED  BY <1>0, <2>1
<1> QED  BY <1>2, <1>5

-----------------------------------------------------------------------------
(* What has been read leaves the queue. *)
LEMMA Dropped ==
    ASSUME NEW q \in Seq(Event), NEW n \in 0..Len(q), NEW r, r = SubSeq(q, n+1, Len(q))
    PROVE  /\ r \in Seq(Event) /\ Len(q) \in Nat /\ n \in Nat
           /\ Len(r) = Len(q) - n /\ Len(r) \in Nat
           /\ \A i \in 1..Len(r) : r[i] = q[n+i]
           /\ \A i \in n+1..Len(q) : q[i] = r[i-n]
<1>1. Len(q) \in Nat /\ n \in Nat  OBVIOUS
<1>2. CASE n+1 =< Len(q)
  <2>1. \A i \in n+1..Len(q) : q[i] \in Event  BY <1>1
  <2>2. /\ r \in Seq(Event) /\ Len(r) = Len(q) - n
        /\ \A i \in 1..Len(r) : r[i] = q[n+1+i-1]
    BY <1>1, <1>2, <2>1, SubSeqProperties
  <2>3. \A i \in 1..Len(r) : r[i] = q[n+i]  BY <1>1, <2>2
  <2>4. ASSUME NEW i \in n+1..Len(q) PROVE q[i] = r[i-n]
    <3>1. i-n \in 1..Len(r) /\ n+(i-n) = i  BY <1>1, <2>2
    <3> QED  BY <2>3, <3>1
  <2>5. Len(r) \in Nat /\ Len(q) - n \in Nat  BY <1>1, <2>2
  <2>6. \A i \in n+1..Len(q) : q[i] = r[i-n]  BY <2>4
  <2> QED  BY <1>1, <2>2, <2>3, <2>5, <2>6
<1>3. CASE n = Len(q)
  <2>1. r = << >>  BY <1>1, <1>3, SubSeqProperties
  <2> QED  BY <1>1, <1>3, <2>1
<1> QED  BY <1>1, <1>2, <1>3

LEMMA NoneAboutDropped ==
    ASSUME NEW q \in Seq(Event), NEW n \in 0..Len(q), NEW r, r = SubSeq(q, n+1, Len(q))
    PROVE  \A from \in Nat, to \in 0..Len(r) : \A k :
             from # 0 => (NoneAbout(r, from, to, k) <=> NoneAbout(q, n+from, n+to, k))
<1> SUFFICES ASSUME NEW from \in Nat, NEW to \in 0..Len(r), NEW k, from # 0
             PROVE  NoneAbout(r, from, to, k) <=> NoneAbout(q, n+from, n+to, k)
  OBVIOUS
<1>1. /\ Len(r) = Len(q) - n /\ Len(q) \in Nat /\ n \in Nat
      /\ \A i \in 1..Len(r) : r[i] = q[n+i]
  BY Dropped
<1>2. ASSUME NEW j \in from..to PROVE n+j \in n+from..n+to /\ r[j] = q[n+j]  BY <1>1
<1>3. ASSUME NEW j \in n+from..n+to PROVE j-n \in from..to /\ r[j-n] = q[j]
  <2>1. j-n \in from..to /\ j-n \in 1..Len(r) /\ n+(j-n) = j  BY <1>1
  <2> QED  BY <1>1, <2>1
<1> QED  BY <1>2, <1>3 DEF NoneAbout

LEMMA DroppedPassed ==
    ASSUME NEW q \in Seq(Event), NEW n \in 0..Len(q), NEW p, NEW s, Passed(q, n, p, s)
    PROVE  Passed(SubSeq(q, n+1, Len(q)), 0, p, s)
<1> DEFINE r == SubSeq(q, n+1, Len(q))
<1>1. /\ r \in Seq(Event) /\ Len(r) = Len(q) - n /\ Len(q) \in Nat /\ n \in Nat /\ Len(r) \in Nat
      /\ \A i \in 1..Len(r) : r[i] = q[n+i]
  BY Dropped
<1>2. \A from \in Nat, to \in 0..Len(r) : \A k :
        from # 0 => (NoneAbout(r, from, to, k) <=> NoneAbout(q, n+from, n+to, k))
  BY NoneAboutDropped
<1>12. r = SubSeq(q, n+1, Len(q))  OBVIOUS
<1> HIDE DEF r
<1>3. /\ \A i \in 0+1..Len(r) : n+i \in n+1..Len(q)
      /\ \A i \in n+1..Len(q) : i-n \in 0+1..Len(r) /\ q[i] = r[i-n]
  <2>1. ASSUME NEW i \in n+1..Len(q) PROVE i-n \in 1..Len(r) /\ q[i] = r[i-n]
    <3>1. i-n \in 1..Len(r) /\ n+(i-n) = i  BY <1>1
    <3> QED  BY <1>1, <3>1
  <2> QED  BY <1>1, <2>1
<1>4. \A k : \A i \in 0+1..Len(r) :
         NoneAbout(r, i+1, Len(r), k) <=> NoneAbout(q, n+i+1, Len(q), k)
  <2> SUFFICES ASSUME NEW k, NEW i \in 0+1..Len(r)
               PROVE  NoneAbout(r, i+1, Len(r), k) <=> NoneAbout(q, n+i+1, Len(q), k)
    OBVIOUS
  <2>3. i \in Nat /\ Len(r) \in Nat /\ n \in Nat  BY <1>1
  <2>4. n+Len(r) = Len(q)  BY <1>1
  <2>1. i+1 \in Nat /\ i+1 # 0 /\ Len(r) \in 0..Len(r) /\ n+(i+1) = n+i+1 /\ n+Len(r) = Len(q)
    BY <2>3, <2>4
  <2>2. NoneAbout(r, i+1, Len(r), k) <=> NoneAbout(q, n+(i+1), n+Len(r), k)
    BY <1>2, <2>1
  <2> QED  BY <2>1, <2>2
<1>5. \A k : NoneAbout(r, 0+1, Len(r), k) <=> NoneAbout(q, n+1, Len(q), k)
  <2> SUFFICES ASSUME NEW k
               PROVE  NoneAbout(r, 0+1, Len(r), k) <=> NoneAbout(q, n+1, Len(q), k)
    OBVIOUS
  <2>1. 1 \in Nat /\ Len(r) \in 0..Len(r) /\ n+Len(r) = Len(q) /\ 0+1 = 1
    BY <1>1
  <2> QED  BY <1>2, <2>1
<1>6. ASSUME LastSays(q, n, p, down) PROVE LastSays(r, 0, p, down)
  <2> SUFFICES ASSUME NEW k \in KeyNames
      PROVE  k \in down <=> \/ \E i \in 0+1..Len(r) : /\ r[i].type = "down" /\ r[i].key = k
                                                      /\ NoneAbout(r, i+1, Len(r), k)
                            \/ k \in p /\ NoneAbout(r, 0+1, Len(r), k)
    BY DEF LastSays
  <2>1. k \in down <=> \/ \E i \in n+1..Len(q) : /\ q[i].type = "down" /\ q[i].key = k
                                                 /\ NoneAbout(q, i+1, Len(q), k)
                       \/ k \in p /\ NoneAbout(q, n+1, Len(q), k)
    BY <1>6 DEF LastSays
  <2>2. ASSUME NEW i \in 0+1..Len(r), r[i].type = "down" /\ r[i].key = k,
               NoneAbout(r, i+1, Len(r), k)
        PROVE  \E j \in n+1..Len(q) : /\ q[j].type = "down" /\ q[j].key = k
                                      /\ NoneAbout(q, j+1, Len(q), k)
    <3>1. n+i \in n+1..Len(q) /\ q[n+i] = r[i]  BY <1>1, <1>3
    <3> QED  BY <1>4, <2>2, <3>1
  <2>3. ASSUME NEW j \in n+1..Len(q), q[j].type = "down" /\ q[j].key = k,
               NoneAbout(q, j+1, Len(q), k)
        PROVE  \E i \in 0+1..Len(r) : /\ r[i].type = "down" /\ r[i].key = k
                                      /\ NoneAbout(r, i+1, Len(r), k)
    <3>1. j-n \in 0+1..Len(r) /\ q[j] = r[j-n] /\ n+(j-n)+1 = j+1  BY <1>1, <1>3
    <3> QED  BY <1>4, <2>3, <3>1
  <2> QED  BY <1>5, <2>1, <2>2, <2>3
<1>7. ASSUME NEW i \in 0+1..Len(r) PROVE NoAllUp(r, i) => NoAllUp(q, n+i)
  <2> SUFFICES ASSUME NoAllUp(r, i), NEW j \in n+i+1..Len(q) PROVE q[j].type # "allup"
    BY DEF NoAllUp
  <2>1. j-n \in i+1..Len(r) /\ q[j] = r[j-n]  BY <1>1, <1>3
  <2> QED  BY <2>1 DEF NoAllUp
<1>8. ASSUME Alternates(q, n, p) PROVE Alternates(r, 0, p)
  <2> SUFFICES ASSUME NEW i \in 0+1..Len(r), r[i].type = "down", NoAllUp(r, i)
               PROVE  Fresh(r, 0, p, i)
    BY DEF Alternates
  <2>1. n+i \in n+1..Len(q) /\ q[n+i] = r[i] /\ NoAllUp(q, n+i)  BY <1>1, <1>3, <1>7
  <2>2. Fresh(q, n, p, n+i)  BY <1>8, <2>1 DEF Alternates
  <2> DEFINE k == r[i].key
  <2>3. CASE \E j \in n+1..n+i-1 : /\ q[j].type # "down" /\ About(q[j], k)
                                   /\ NoneAbout(q, j+1, n+i-1, k)
    <3>1. PICK j \in n+1..n+i-1 : /\ q[j].type # "down" /\ About(q[j], k)
                                  /\ NoneAbout(q, j+1, n+i-1, k)
      BY <2>3
    <3>2. /\ j-n \in 0+1..i-1 /\ j \in n+1..Len(q) /\ j-n+1 \in Nat /\ j-n+1 # 0 /\ i-1 \in 0..Len(r)
          /\ n+(j-n+1) = j+1 /\ n+(i-1) = n+i-1
      BY <1>1
    <3>3. q[j] = r[j-n]  BY <1>3, <3>2
    <3>4. NoneAbout(r, j-n+1, i-1, k) <=> NoneAbout(q, n+(j-n+1), n+(i-1), k)
      BY <1>2, <3>2
    <3> QED  BY <3>1, <3>2, <3>3, <3>4 DEF Fresh
  <2>4. CASE k \notin p /\ NoneAbout(q, n+1, n+i-1, k)
    <3>1. 1 \in Nat /\ i-1 \in 0..Len(r) /\ n+(i-1) = n+i-1 /\ 0+1 = 1  BY <1>1
    <3>3. \A to \in 0..Len(r) : NoneAbout(r, 1, to, k) <=> NoneAbout(q, n+1, n+to, k)
      BY <1>2
    <3>2. NoneAbout(r, 1, i-1, k) <=> NoneAbout(q, n+1, n+(i-1), k)
      BY <3>1, <3>3
    <3> QED  BY <2>4, <3>1, <3>2 DEF Fresh
  <2> QED  BY <2>1, <2>2, <2>3, <2>4 DEF Fresh
<1>9. ASSUME Clean(q, n, s) PROVE Clean(r, 0, s)
  <2> SUFFICES ASSUME NoAllUp(r, 0) PROVE NoAllUp(q, n)  BY <1>9 DEF Clean
  <2> SUFFICES ASSUME NEW j \in n+1..Len(q) PROVE q[j].type # "allup"  BY DEF NoAllUp
  <2>1. j-n \in 0+1..Len(r) /\ q[j] = r[j-n]  BY <1>3
  <2> QED  BY <2>1 DEF NoAllUp
<1>10. Passed(r, 0, p, s)  BY <1>6, <1>8, <1>9 DEF Passed
<1> QED  BY <1>10 DEF r

LEMMA BatchSizeIs ==
    ASSUME KeyInv PROVE Keyboard!BatchSize \in 0..Len(queue)
BY SessionPartsAssumption DEF KeyInv, Keyboard!BatchSize

LEMMA KeyboardReads == ASSUME KeyInv, Keyboard!Read PROVE KeyInv'
<1> DEFINE n  == Keyboard!BatchSize
           at == Keyboard!DispatchEvents(n)
<1>1. /\ queue' = SubSeq(queue, n+1, Len(queue)) /\ pressed' = at[1] /\ kb' = at[2]
      /\ UNCHANGED << down, lost >>
  BY DEF Keyboard!Read
<1>2. n \in 0..Len(queue)  BY BatchSizeIs
<1>3. Passed(queue, n, at[1], at[2])
  <2> HIDE DEF n
  <2> QED  BY <1>2, BatchPassed
<1>4. queue \in Seq(Event)  BY DEF KeyInv
<1> HIDE DEF n, at
<1>5. Passed(queue', 0, pressed', kb')
  <2>1. Passed(queue, n, pressed', kb')  BY <1>1, <1>3
  <2> QED  BY <1>1, <1>2, <1>4, <2>1, DroppedPassed
<1>6. queue' \in Seq(Event)  BY <1>1, <1>2, <1>4, Dropped
<1>7. Passed(queue, 0, pressed, kb)'  BY <1>1, <1>5 DEF Passed
<1> QED  BY <1>1, <1>6, <1>7 DEF KeyInv

LEMMA KeyboardReadFails == ASSUME KeyInv, Keyboard!ReadFails PROVE KeyInv'
<1>1. /\ queue' = SubSeq(queue, Keyboard!BatchSize + 1, Len(queue)) /\ lost' = TRUE
      /\ UNCHANGED << down, pressed, kb >>
  BY DEF Keyboard!ReadFails
<1>2. queue' \in Seq(Event)  BY <1>1, BatchSizeIs, Dropped DEF KeyInv
<1>3. Passed(queue, 0, pressed, kb)'  BY <1>1 DEF KeyInv, Passed
<1> QED  BY <1>1, <1>2, <1>3 DEF KeyInv

-----------------------------------------------------------------------------
(* What the device adds goes to the end of the queue. *)

LEMMA Appended ==
    ASSUME NEW q \in Seq(Event), NEW e \in Event
    PROVE  /\ Append(q, e) \in Seq(Event) /\ Len(q) \in Nat /\ Len(Append(q, e)) = Len(q)+1
           /\ \A i \in 1..Len(q) : Append(q, e)[i] = q[i]
           /\ Append(q, e)[Len(q)+1] = e
BY AppendProperties

(* What q says about k after the event at from, and with an event added. *)
LEMMA NoneAboutAppended ==
    ASSUME NEW q \in Seq(Event), NEW e \in Event, NEW r, r = Append(q, e), NEW k
    PROVE  /\ \A from \in 1..Len(q)+1 :
                NoneAbout(r, from, Len(q)+1, k) <=> ~ About(e, k) /\ NoneAbout(q, from, Len(q), k)
           /\ \A from \in 1..Len(q)+1, to \in 0..Len(q) :
                NoneAbout(r, from, to, k) <=> NoneAbout(q, from, to, k)
<1>1. /\ Len(q) \in Nat /\ \A i \in 1..Len(q) : r[i] = q[i]
      /\ r[Len(q)+1] = e
  BY Appended
<1>2. ASSUME NEW from \in 1..Len(q)+1, NEW to \in 0..Len(q)
      PROVE  NoneAbout(r, from, to, k) <=> NoneAbout(q, from, to, k)
  <2>1. \A j \in from..to : r[j] = q[j]  BY <1>1
  <2> QED  BY <2>1 DEF NoneAbout
<1>3. ASSUME NEW from \in 1..Len(q)+1
      PROVE  NoneAbout(r, from, Len(q)+1, k) <=> ~ About(e, k) /\ NoneAbout(q, from, Len(q), k)
  <2>1. \A j : j \in from..Len(q)+1 <=> j = Len(q)+1 \/ j \in from..Len(q)  BY <1>1
  <2>2. \A j \in from..Len(q) : r[j] = q[j]  BY <1>1
  <2> QED  BY <1>1, <2>1, <2>2 DEF NoneAbout
<1> QED  BY <1>2, <1>3

(* What the event added changes, with nothing lost. *)
LEMMA LastSaysAppended ==
    ASSUME NEW q \in Seq(Event), NEW e \in Event, NEW p, NEW d, NEW c, LastSays(q, 0, p, d),
           \A k \in KeyNames : IF About(e, k) THEN k \in c <=> e.type = "down"
                                              ELSE k \in c <=> k \in d
    PROVE  LastSays(Append(q, e), 0, p, c)
<1> DEFINE r == Append(q, e)
<1>1. /\ Len(q) \in Nat /\ Len(r) = Len(q)+1 /\ r[Len(q)+1] = e
      /\ \A i \in 1..Len(q) : r[i] = q[i]
  BY Appended
<1>2. \A k : \A from \in 1..Len(q)+1 :
        NoneAbout(r, from, Len(q)+1, k) <=> ~ About(e, k) /\ NoneAbout(q, from, Len(q), k)
  BY NoneAboutAppended
<1> HIDE DEF r
<1> SUFFICES ASSUME NEW k \in KeyNames
    PROVE  k \in c <=> \/ \E i \in 0+1..Len(r) : /\ r[i].type = "down" /\ r[i].key = k
                                                 /\ NoneAbout(r, i+1, Len(r), k)
                       \/ k \in p /\ NoneAbout(r, 0+1, Len(r), k)
  <2>1. SUFFICES LastSays(r, 0, p, c)  BY DEF r
  <2> QED  BY DEF LastSays
<1> DEFINE Ends(i)  == q[i].type = "down" /\ q[i].key = k /\ NoneAbout(q, i+1, Len(q), k)
           Endsr(i) == r[i].type = "down" /\ r[i].key = k /\ NoneAbout(r, i+1, Len(r), k)
<1>3. k \in d <=> (\E i \in 1..Len(q) : Ends(i)) \/ (k \in p /\ NoneAbout(q, 1, Len(q), k))
  BY DEF LastSays
<1>4. ASSUME NEW i \in 1..Len(q) PROVE Endsr(i) <=> ~ About(e, k) /\ Ends(i)
  <2>1. i+1 \in 1..Len(q)+1 /\ r[i] = q[i]  BY <1>1
  <2> QED  BY <1>1, <1>2, <2>1
<1>5. Endsr(Len(q)+1) <=> e.type = "down" /\ e.key = k
  <2>1. \A j \in Len(q)+1+1..Len(q)+1 : FALSE  BY <1>1
  <2> QED  BY <1>1, <2>1 DEF NoneAbout
<1>6. NoneAbout(r, 1, Len(r), k) <=> ~ About(e, k) /\ NoneAbout(q, 1, Len(q), k)
  <2>1. 1 \in 1..Len(q)+1  BY <1>1
  <2> QED  BY <1>1, <1>2, <2>1
<1>7. \A i : i \in 1..Len(r) <=> i = Len(q)+1 \/ i \in 1..Len(q)  BY <1>1
<1>8. e.type = "down" /\ e.key = k <=> e.type = "down" /\ About(e, k)  BY DEF About
<1> HIDE DEF Ends, Endsr
<1>9. (\E i \in 1..Len(r) : Endsr(i))
        <=> (e.type = "down" /\ About(e, k)) \/ (~ About(e, k) /\ \E i \in 1..Len(q) : Ends(i))
  BY <1>4, <1>5, <1>7, <1>8
<1>10. k \in c <=> (\E i \in 1..Len(r) : Endsr(i)) \/ (k \in p /\ NoneAbout(r, 1, Len(r), k))
  BY <1>3, <1>6, <1>9
<1>11. \A i : Endsr(i) <=> /\ r[i].type = "down" /\ r[i].key = k
                          /\ NoneAbout(r, i+1, Len(r), k)
  BY DEF Endsr
<1>12. 0+1 = 1  OBVIOUS
<1> QED  BY <1>10, <1>11, <1>12

(* The last event about a key, if there is one. *)
LEMMA LastAbout ==
    ASSUME NEW q \in Seq(Event), NEW k, ~ NoneAbout(q, 1, Len(q), k)
    PROVE  \E j \in 1..Len(q) : About(q[j], k) /\ NoneAbout(q, j+1, Len(q), k)
<1> DEFINE S == {Len(q) - j : j \in {j \in 1..Len(q) : About(q[j], k)}}
<1>0. Len(q) \in Nat  OBVIOUS
<1>1. S \in SUBSET Nat  BY <1>0
<1>2. S # {}  BY DEF NoneAbout
<1>3. PICK x \in S : \A y \in S : x <= y
  <2> HIDE DEF S
  <2> QED  BY <1>1, <1>2, LeastNat
<1>4. PICK j \in 1..Len(q) : About(q[j], k) /\ x = Len(q) - j  OBVIOUS
<1>5. ASSUME NEW i \in j+1..Len(q) PROVE ~ About(q[i], k)
  <2> SUFFICES ASSUME About(q[i], k) PROVE FALSE  OBVIOUS
  <2>1. i \in 1..Len(q) /\ j < i /\ i \in Int /\ j \in Int  BY <1>0
  <2>2. Len(q) - i \in S  BY <2>1
  <2>3. x <= Len(q) - i  BY <1>3, <2>2
  <2> QED  BY <1>0, <1>4, <2>1, <2>3
<1> QED  BY <1>4, <1>5 DEF NoneAbout

LEMMA AlternatesAppended ==
    ASSUME NEW q \in Seq(Event), NEW e \in Event, NEW p, NEW d, LastSays(q, 0, p, d),
           Alternates(q, 0, p), e.type = "down" => e.key \in KeyNames \ d
    PROVE  Alternates(Append(q, e), 0, p)
<1> DEFINE r == Append(q, e)
<1>1. /\ Len(q) \in Nat /\ Len(r) = Len(q)+1 /\ r[Len(q)+1] = e
      /\ \A i \in 1..Len(q) : r[i] = q[i]
  BY Appended
<1>2. \A k : \A from \in 1..Len(q)+1, to \in 0..Len(q) :
        NoneAbout(r, from, to, k) <=> NoneAbout(q, from, to, k)
  BY NoneAboutAppended
<1> HIDE DEF r
<1> SUFFICES ASSUME NEW i \in 0+1..Len(r), r[i].type = "down", NoAllUp(r, i)
             PROVE  Fresh(r, 0, p, i)
  BY DEF Alternates, r
<1> DEFINE k == r[i].key
<1>3. 0+1 = 1 /\ i \in 1..Len(q)+1 /\ i-1 \in 0..Len(q) /\ 1 \in 1..Len(q)+1  BY <1>1
<1>4. SUFFICES \/ \E j \in 1..i-1 : /\ q[j].type # "down" /\ About(q[j], k)
                                     /\ NoneAbout(q, j+1, i-1, k)
               \/ k \notin p /\ NoneAbout(q, 1, i-1, k)
  <2>1. CASE k \notin p /\ NoneAbout(q, 1, i-1, k)  BY <1>2, <1>3, <2>1 DEF Fresh
  <2>2. CASE \E j \in 1..i-1 : /\ q[j].type # "down" /\ About(q[j], k)
                               /\ NoneAbout(q, j+1, i-1, k)
    <3>1. PICK j \in 1..i-1 : /\ q[j].type # "down" /\ About(q[j], k)
                             /\ NoneAbout(q, j+1, i-1, k)
      BY <2>2
    <3>2. j \in 1..Len(q) /\ j+1 \in 1..Len(q)+1 /\ r[j] = q[j]  BY <1>1, <1>3
    <3>3. NoneAbout(r, j+1, i-1, k)  BY <1>2, <1>3, <3>1, <3>2
    <3> QED  BY <1>3, <3>1, <3>2, <3>3 DEF Fresh
  <2> QED  BY <1>4, <2>1, <2>2
<1>5. CASE i \in 1..Len(q)
  <2>1. r[i] = q[i]  BY <1>1, <1>5
  <2>2. NoAllUp(q, i)
    <3> SUFFICES ASSUME NEW j \in i+1..Len(q) PROVE q[j].type # "allup"  BY DEF NoAllUp
    <3>1. j \in i+1..Len(r) /\ j \in 1..Len(q)  BY <1>1, <1>5
    <3> QED  BY <1>1, <3>1 DEF NoAllUp
  <2>3. Fresh(q, 0, p, i)  BY <1>3, <1>5, <2>1, <2>2 DEF Alternates
  <2> QED  BY <1>3, <2>1, <2>3 DEF Fresh
<1>6. CASE i = Len(q)+1
  <2>1. r[i] = e /\ k \in KeyNames \ d /\ i-1 = Len(q)  BY <1>1, <1>6
  <2>2. /\ ~ \E j \in 1..Len(q) : /\ q[j].type = "down" /\ q[j].key = k
                                  /\ NoneAbout(q, j+1, Len(q), k)
        /\ ~ (k \in p /\ NoneAbout(q, 1, Len(q), k))
    BY <1>3, <2>1 DEF LastSays
  <2>3. CASE NoneAbout(q, 1, Len(q), k)  BY <2>1, <2>2, <2>3
  <2>4. CASE ~ NoneAbout(q, 1, Len(q), k)
    <3>1. PICK j \in 1..Len(q) : About(q[j], k) /\ NoneAbout(q, j+1, Len(q), k)
      BY <2>4, LastAbout
    <3>2. q[j].type # "down"  BY <2>2, <3>1 DEF About
    <3> QED  BY <2>1, <3>1, <3>2
  <2> QED  BY <2>3, <2>4
<1> QED  BY <1>3, <1>5, <1>6

(* Once all keys are said to be up, nothing before that matters. *)
LEMMA AllUpAppended ==
    ASSUME NEW q \in Seq(Event), NEW e \in Event, e.type = "allup", NEW p, NEW s
    PROVE  LET r == Append(q, e)
           IN  LastSays(r, 0, p, {}) /\ Alternates(r, 0, p) /\ Clean(r, 0, s)
<1> DEFINE r == Append(q, e)
<1>1. Len(q) \in Nat /\ Len(r) = Len(q)+1 /\ r[Len(q)+1] = e  BY Appended
<1> HIDE DEF r
<1>2. \A i \in 0..Len(q) : ~ NoAllUp(r, i) /\ \A k : ~ NoneAbout(r, i+1, Len(r), k)
  <2> SUFFICES ASSUME NEW i \in 0..Len(q)
               PROVE  ~ NoAllUp(r, i) /\ \A k : ~ NoneAbout(r, i+1, Len(r), k)
    OBVIOUS
  <2>1. Len(q)+1 \in i+1..Len(r)  BY <1>1
  <2> QED  BY <1>1, <2>1 DEF NoAllUp, NoneAbout, About
<1>3. LastSays(r, 0, p, {})
  <2> SUFFICES ASSUME NEW k \in KeyNames
      PROVE  /\ \A i \in 0+1..Len(r) :
                  ~ (r[i].type = "down" /\ r[i].key = k /\ NoneAbout(r, i+1, Len(r), k))
             /\ ~ NoneAbout(r, 0+1, Len(r), k)
    BY DEF LastSays
  <2>1. 0 \in 0..Len(q)  BY <1>1
  <2>2. ASSUME NEW i \in 0+1..Len(r) PROVE i = Len(q)+1 \/ i \in 0..Len(q)  BY <1>1
  <2> QED  BY <1>1, <1>2, <2>1, <2>2
<1>4. Alternates(r, 0, p)
  <2> SUFFICES ASSUME NEW i \in 0+1..Len(r) PROVE ~ (r[i].type = "down" /\ NoAllUp(r, i))
    BY DEF Alternates
  <2>1. i = Len(q)+1 \/ i \in 0..Len(q)  BY <1>1
  <2> QED  BY <1>1, <1>2, <2>1
<1>5. Clean(r, 0, s)
  <2>1. 0 \in 0..Len(q)  BY <1>1
  <2> QED  BY <1>2, <2>1 DEF Clean
<1> QED  BY <1>3, <1>4, <1>5 DEF r

-----------------------------------------------------------------------------
(* The device reports a key. *)
LEMMA KeyReported ==
    ASSUME KeyInv, NEW e \in Event, e.type \in { "down", "up" }, Keyboard!Queue(e),
           UNCHANGED << pressed, kb >>, e.type = "down" => e.key \notin down,
           down' = IF e.type = "down" THEN down \cup {e.key} ELSE down \ {e.key}
    PROVE  KeyInv'
<1>1. queue \in Seq(Event) /\ down \subseteq KeyNames /\ lost \in BOOLEAN
      /\ pressed \subseteq KeyNames /\ SeatInv(kb, pressed)
  BY DEF KeyInv, Passed
<1>2. e.key \in KeyNames  BY DEF Event
<1>3. down' \subseteq KeyNames  BY <1>1, <1>2
<1>4. CASE queue' = Append(queue, e) /\ lost' = lost
  <2>1. queue' \in Seq(Event)  BY <1>1, <1>4, Appended
  <2>2. ASSUME ~ lost
        PROVE  /\ LastSays(queue', 0, pressed', down') /\ Alternates(queue', 0, pressed')
               /\ Clean(queue', 0, kb')
    <3>1. /\ LastSays(queue, 0, pressed, down) /\ Alternates(queue, 0, pressed)
          /\ Clean(queue, 0, kb)
      BY <2>2 DEF KeyInv, Passed
    <3>2. \A k \in KeyNames : IF About(e, k) THEN k \in down' <=> e.type = "down"
                                             ELSE k \in down' <=> k \in down
      BY DEF About
    <3>3. LastSays(queue', 0, pressed', down')  BY <1>1, <1>4, <3>1, <3>2, LastSaysAppended
    <3>4. Alternates(queue', 0, pressed')  BY <1>1, <1>2, <1>4, <3>1, AlternatesAppended
    <3>5. NoAllUp(queue', 0) => NoAllUp(queue, 0)
      <4> SUFFICES ASSUME NoAllUp(queue', 0), NEW j \in 0+1..Len(queue)
                   PROVE  queue[j].type # "allup"
        BY DEF NoAllUp
      <4>1. Len(queue) \in Nat /\ Len(queue') = Len(queue)+1 /\ queue'[j] = queue[j]
        BY <1>1, <1>4, Appended
      <4> QED  BY <4>1 DEF NoAllUp
    <3>6. Clean(queue', 0, kb')  BY <3>1, <3>5 DEF Clean
    <3> QED  BY <3>3, <3>4, <3>6
  <2> QED  BY <1>1, <1>3, <1>4, <2>1, <2>2 DEF KeyInv, Passed
<1>5. CASE queue' = queue /\ lost' = TRUE
  BY <1>1, <1>3, <1>5 DEF KeyInv, Passed
<1> QED  BY <1>4, <1>5 DEF Keyboard!Queue

LEMMA AllUpReported ==
    ASSUME KeyInv, Keyboard!AllKeysUp PROVE KeyInv'
<1> DEFINE e == [type |-> "allup"]
<1>1. queue \in Seq(Event) /\ pressed \subseteq KeyNames /\ SeatInv(kb, pressed)
      /\ down' = {} /\ UNCHANGED << pressed, kb >>
  BY DEF KeyInv, Passed, Keyboard!AllKeysUp
<1>2. e \in Event /\ e.type = "allup"  BY DEF Event
<1>3. \/ queue' = Append(queue, e) /\ lost' = FALSE
      \/ queue' = queue /\ lost' = TRUE
  BY DEF Keyboard!AllKeysUp, Keyboard!Queue
<1> HIDE DEF e
<1>4. CASE queue' = Append(queue, e) /\ lost' = FALSE
  <2>1. queue' \in Seq(Event)  BY <1>1, <1>2, <1>4, Appended
  <2>2. LastSays(queue', 0, pressed, {}) /\ Alternates(queue', 0, pressed)
        /\ Clean(queue', 0, kb)
    BY <1>1, <1>2, <1>4, AllUpAppended
  <2> QED  BY <1>1, <1>4, <2>1, <2>2 DEF KeyInv, Passed
<1>5. CASE queue' = queue /\ lost' = TRUE
  BY <1>1, <1>5 DEF KeyInv, Passed
<1> QED  BY <1>3, <1>4, <1>5

(* The keyboard changes, the keys do not. *)
LEMMA KeysKept ==
    ASSUME KeyInv, UNCHANGED << down, queue, lost, pressed >>, SameKeys(kb, kb')
    PROVE  KeyInv'
<1>1. Passed(queue, 0, pressed, kb)'
  BY DEF KeyInv, Passed, SameKeys, SeatInv, Clean
<1> QED  BY <1>1 DEF KeyInv

LEMMA KeyboardStarts == ASSUME Keyboard!Init PROVE KeyInv
<1>1. down = {} /\ queue = << >> /\ lost = FALSE /\ pressed = {}  BY DEF Keyboard!Init
<1>2. /\ Seat(kb) /\ kb.keys = {} /\ kb.forwarded = {} /\ kb.taken = {}
      /\ kb.held = [c \in Clients |-> {}]
  BY DEF Keyboard!Init, Seat
<1>3. SeatInv(kb, pressed)  BY <1>1, <1>2 DEF SeatInv, ToldRight
<1>4. queue \in Seq(Event) /\ Len(queue) = 0  BY <1>1
<1>5. \A i \in 0+1..Len(queue) : FALSE  BY <1>4
<1>6. LastSays(queue, 0, pressed, down)  BY <1>1, <1>5 DEF LastSays
<1>7. Alternates(queue, 0, pressed) /\ Clean(queue, 0, kb)  BY <1>2, <1>5 DEF Alternates, Clean
<1> QED  BY <1>1, <1>3, <1>4, <1>6, <1>7 DEF KeyInv, Passed

LEMMA KeyboardKeeps == ASSUME KeyInv, Keyboard!Next PROVE KeyInv'
<1>0. Seat(kb) /\ ToldRight(kb) /\ SameKeys(kb, kb)
  BY DEF KeyInv, Passed, SeatInv, SameKeys
<1>1. CASE Keyboard!Read  BY <1>1, KeyboardReads
<1>2. CASE Keyboard!ReadFails  BY <1>2, KeyboardReadFails
<1>3. CASE Keyboard!AllKeysUp  BY <1>3, AllUpReported
<1>4. CASE Keyboard!ReloadConfig
  <2>1. kb' = kb \/ \E b : kb' = [kb EXCEPT !.binds = b]
    BY <1>4 DEF Keyboard!ReloadConfig, Keyboard!Reload
  <2>2. SameKeys(kb, kb')  BY <1>0, <2>1, RestKeeps
  <2> QED  BY <1>4, <2>2, KeysKept DEF Keyboard!ReloadConfig
<1>5. ASSUME NEW k \in KeyNames, Keyboard!Strike(k) PROVE KeyInv'
  <2> DEFINE e == [type |-> "down", key |-> k]
  <2>1. e \in Event /\ e.type = "down" /\ e.key = k  BY DEF Event
  <2>2. Keyboard!Queue(e) /\ k \notin down /\ down' = down \cup {k} /\ UNCHANGED << pressed, kb >>
    BY <1>5 DEF Keyboard!Strike
  <2> HIDE DEF e
  <2> QED  BY <2>1, <2>2, KeyReported
<1>6. ASSUME NEW k \in KeyNames, Keyboard!Lift(k) PROVE KeyInv'
  <2> DEFINE e == [type |-> "up", key |-> k]
  <2>1. e \in Event /\ e.type = "up" /\ e.key = k  BY DEF Event
  <2>2. Keyboard!Queue(e) /\ down' = down \ {k} /\ UNCHANGED << pressed, kb >>
    BY <1>6 DEF Keyboard!Lift
  <2> HIDE DEF e
  <2> QED  BY <2>1, <2>2, KeyReported
<1>7. ASSUME NEW c, Keyboard!Focus(c) PROVE KeyInv'
  BY <1>0, <1>7, SetFocusKeeps, KeysKept DEF Keyboard!Focus
<1>8. ASSUME NEW f, Keyboard!Edit(f) PROVE KeyInv'
  BY <1>0, <1>8, KeysKept DEF Keyboard!Edit
<1> QED  BY <1>1, <1>2, <1>3, <1>4, <1>5, <1>6, <1>7, <1>8 DEF Keyboard!Next

LEMMA KeyboardQuiet ==
    ASSUME KeyInv, UNCHANGED << down, queue, lost, pressed, kb >> PROVE KeyInv'
BY DEF KeyInv, Passed

\* However strokes queue up, get lost or come in batches, and whatever a shortcut does while
\* keys are held: once everything is read and nothing is missing, the focused client has those
\* keys down that are, but for the ones a shortcut took, and no other client has any.
THEOREM KeysAreHeld == PartsSpec => []HeldAsPressed
<1> DEFINE I == part = "keyboard" => KeyInv
<1>1. PartsInit => I
  <2> SUFFICES ASSUME PartsInit, part = "keyboard" PROVE KeyInv  OBVIOUS
  <2>1. Keyboard!Init
    BY DEF PartsInit, InitBase, InitLockClient, InitResizeGrab, InitKeyboard
  <2> QED  BY <2>1, KeyboardStarts
<1>2. I /\ [PartsNext]_<< partVars, vars >> => I'
  <2> SUFFICES ASSUME I, [PartsNext]_<< partVars, vars >>, part' = "keyboard" PROVE KeyInv'
    OBVIOUS
  <2>1. CASE NextKeyboard  BY <2>1, KeyboardKeeps DEF NextKeyboard, RestKeyboard
  <2>2. CASE NextBase \/ NextLockClient \/ NextResizeGrab
    <3>1. part = "keyboard"
      BY <2>2 DEF NextBase, NextLockClient, NextResizeGrab, partVars, RestLockClient, RestResizeGrab
    <3> QED  BY <2>2, <3>1 DEF NextBase, NextLockClient, NextResizeGrab
  <2>3. CASE UNCHANGED << partVars, vars >>
    <3>1. UNCHANGED << part, down, queue, lost, pressed, kb >>  BY <2>3 DEF partVars
    <3> QED  BY <3>1, KeyboardQuiet
  <2> QED  BY <2>1, <2>2, <2>3 DEF PartsNext
<1>3. I => HeldAsPressed
  <2> SUFFICES ASSUME KeyInv, queue = << >>, ~ lost, NEW c \in Clients
               PROVE  kb.held[c] = IF c = kb.focus THEN down \ kb.taken ELSE {}
    BY DEF HeldAsPressed, Keyboard!HeldAsPressed
  <2>1. /\ pressed \subseteq KeyNames /\ down \subseteq KeyNames /\ SeatInv(kb, pressed)
        /\ LastSays(queue, 0, pressed, down) /\ Clean(queue, 0, kb)
    BY DEF KeyInv, Passed
  <2>2. Len(queue) = 0 /\ 0+1 = 1 /\ \A i \in 1..0 : FALSE  OBVIOUS
  <2>3. pressed = down  BY <2>1, <2>2 DEF LastSays, NoneAbout
  <2>4. kb.forwarded \cap kb.taken = {}  BY <2>1, <2>2 DEF Clean, NoAllUp
  <2>5. kb.forwarded = down \ kb.taken  BY <2>1, <2>3, <2>4 DEF SeatInv
  <2> QED  BY <2>1, <2>5 DEF SeatInv, ToldRight
<1> QED  BY <1>1, <1>2, <1>3, PTL DEF PartsSpec
-----------------------------------------------------------------------------
(* The session lock, which MCSessionParts extends: for any outputs, any    *)
(* lock clients and any number of failed frames.                           *)
(*                                                                         *)
(* LockedCovers is not inductive: that a confirmed lock covers an output   *)
(* depends on what was in flight when the output was settled.  The         *)
(* invariant IInv says, from the moment a lock is asked for, that every    *)
(* output it does not wait for (any more) is Covered.                      *)

(* No session frame is on its way to the screen, and one still on screen   *)
(* is about to be replaced.                                                *)
Covered(o) ==
    /\ inFlight[o] # "session"
    /\ shown[o] = "session" => inFlight[o] \in Dark \/ o \in dirty

(* Outputs that are not there have no frames. *)
AbsentClear ==
    \A o \in Outputs \ present : inFlight[o] = "none" /\ shown[o] = "none"

(* Who was told what agrees with the phase and the pending confirmation. *)
ClientsMatch ==
    /\ \A l \in Locks : client[l] = "waiting" <=> locker = l
    /\ \A l \in Locks : client[l] = "locked" => phase = "Locked"
    /\ \A l, m \in Locks : client[l] = "locked" /\ client[m] = "locked" => l = m

CoveredSinceAsked ==
    phase # "Unlocked" => \A o \in present \ targets : Covered(o)

IInv ==
    /\ TypeOK
    /\ AbsentClear
    /\ ClientsMatch
    /\ PendingIffOwed
    /\ TargetsWillRender
    /\ CoveredSinceAsked

(* Outputs are finitely many, and two constants stand for no lock object. *)
USE DEF NoLock, Orphan

-----------------------------------------------------------------------------
LEMMA InitIInv == Init => IInv
  <1> SUFFICES ASSUME Init PROVE IInv
      OBVIOUS
  <1>0. faults = 0 /\ MaxFaults \in Nat
        BY FramesAssumption DEF Init, FramesInit
  <1>1. faults \in 0..MaxFaults
        BY <1>0
  <1>2. inFlight \in [Outputs -> Frames] /\ shown \in [Outputs -> Frames]
        BY DEF Init, FramesInit, Frames
  <1>3. FramesTypeOK
        BY <1>1, <1>2 DEF Init, FramesInit, FramesTypeOK
  <1>4. TypeOK
        BY <1>3 DEF Init, TypeOK, Abstract!Answers
  <1>5. AbsentClear /\ CoveredSinceAsked
        BY DEF Init, FramesInit, AbsentClear, CoveredSinceAsked
  <1>6. ClientsMatch
        BY LocksAssumption DEF Init, ClientsMatch
  <1>7. PendingIffOwed /\ TargetsWillRender
        BY DEF Init, PendingIffOwed, TargetsWillRender
  <1> QED BY <1>4, <1>5, <1>6, <1>7 DEF IInv

(* The invariant gives what LockedCovers says: a locked session has no     *)
(* targets left.                                                           *)
LEMMA IInvCovers == IInv => LockedCovers
  BY DEF IInv, CoveredSinceAsked, PendingIffOwed, Covered, LockedCovers

-----------------------------------------------------------------------------
(* Settle keeps the clients, the confirmation and the phase in step. *)
LEMMA SettleStep ==
  ASSUME NEW done, TypeOK, ClientsMatch, PendingIffOwed, Settle(done)
  PROVE  /\ phase' \in {"Unlocked", "Pending", "Locked"}
         /\ targets' = targets \ done
         /\ locker' \in Locks \cup {NoLock, Orphan}
         /\ client' \in [Locks -> Abstract!Answers]
         /\ ClientsMatch' /\ PendingIffOwed'
         /\ phase' = "Unlocked" <=> phase = "Unlocked"
  <1> USE LocksAssumption DEF TypeOK, Settle
  <1>1. CASE phase = "Pending" /\ targets \subseteq done
    <2>1. /\ phase' = "Locked" /\ targets' = {} /\ locker' = NoLock
          /\ client' = [l \in Locks |-> IF l = locker THEN "locked" ELSE client[l]]
          BY <1>1
    <2>2. \A l \in Locks : client[l] # "locked"
          BY <1>1 DEF ClientsMatch
    <2>3. \A l \in Locks : client'[l] = IF l = locker THEN "locked" ELSE client[l]
          BY <2>1
    <2>4. ClientsMatch'
          BY <2>1, <2>2, <2>3 DEF ClientsMatch
    <2>5. PendingIffOwed'
          BY <2>1 DEF PendingIffOwed
    <2>6. client' \in [Locks -> Abstract!Answers]
          BY <2>1 DEF Abstract!Answers
    <2> QED BY <1>1, <2>1, <2>3, <2>4, <2>5, <2>6
  <1>2. CASE ~(phase = "Pending" /\ targets \subseteq done)
    <2>1. targets' = targets \ done /\ UNCHANGED <<phase, locker, client>>
          BY <1>2
    <2>2. ClientsMatch'
          BY <2>1 DEF ClientsMatch
    <2>3. PendingIffOwed'
          BY <1>2, <2>1 DEF PendingIffOwed
    <2> QED BY <2>1, <2>2, <2>3
  <1> QED BY <1>1, <1>2

(* What a pass may leave behind, output by output. *)
PassResult(composed, flying, pixels, frame, after) ==
    /\ faults' \in 0..MaxFaults
    /\ inFlight' \in [Outputs -> Frames]
    /\ dirty' \subseteq present
    /\ after \subseteq dirty'
    /\ \A o \in Outputs \ composed :
          inFlight'[o] = flying[o] /\ (o \in dirty => o \in dirty')
    /\ \A o \in composed :
          \/ inFlight'[o] = frame
          \/ /\ inFlight'[o] = flying[o]
             /\ pixels[o] = frame \/ (pixels[o] \in Dark /\ frame \in Dark)
          \/ /\ inFlight'[o] = flying[o]
             /\ o \in dirty' /\ faults' > faults

LEMMA PassStep ==
  ASSUME FramesTypeOK, NEW composed, composed \subseteq present,
         NEW flying \in [Outputs -> Frames], NEW pixels,
         NEW frame \in Frames, NEW after \in SUBSET present,
         Pass(composed, flying, pixels, frame, after)
  PROVE  PassResult(composed, flying, pixels, frame, after)
  <1>1. PICK end \in [composed -> {"queued", "empty", "failed"}] :
           /\ \A o \in Ended(end, "empty") :
                 pixels[o] = frame \/ (pixels[o] \in Dark /\ frame \in Dark)
           /\ faults' = faults + Cardinality(Ended(end, "failed"))
           /\ faults' <= MaxFaults
           /\ inFlight' = [o \in Outputs |->
                 IF o \in Ended(end, "queued") THEN frame ELSE flying[o]]
           /\ dirty' = (dirty \ composed) \cup Ended(end, "failed") \cup after
        BY DEF Pass
  <1> DEFINE failed == Ended(end, "failed")
  <1>2. /\ failed \subseteq composed
        /\ \A o \in composed : \/ o \in Ended(end, "queued")
                               \/ o \in Ended(end, "empty")
                               \/ o \in failed
        BY <1>1 DEF Ended
  <1>3. \A e : Ended(end, e) \subseteq composed
        BY <1>1 DEF Ended
  <1>4. composed \subseteq Outputs /\ faults \in Nat
        BY FramesAssumption DEF FramesTypeOK
  <1>5. IsFiniteSet(failed) /\ Cardinality(failed) \in Nat
    <2>1. failed \subseteq Outputs
          BY <1>2, <1>4
    <2>2. IsFiniteSet(failed)
          BY <2>1, FS_Subset, FramesAssumption
    <2> QED BY <2>2, FS_CardinalityType
  <1>6. failed # {} => Cardinality(failed) > 0
        BY <1>5, FS_EmptySet
  <1> HIDE DEF failed
  <1>7. faults' = faults + Cardinality(failed)
        BY <1>1 DEF failed
  <1>8. /\ faults' \in 0..MaxFaults /\ faults' >= faults
        /\ failed # {} => faults' > faults
        BY <1>1, <1>4, <1>5, <1>6, <1>7, FramesAssumption
  <1>9. dirty' = (dirty \ composed) \cup failed \cup after
        BY <1>1 DEF failed
  <1>10. inFlight' \in [Outputs -> Frames]
        BY <1>1
  <1>11. dirty' \subseteq present
        BY <1>2, <1>9 DEF FramesTypeOK
  <1>12. ASSUME NEW o \in Outputs \ composed
         PROVE  inFlight'[o] = flying[o] /\ (o \in dirty => o \in dirty')
        BY <1>1, <1>3, <1>9
  <1>13. ASSUME NEW o \in composed
         PROVE  \/ inFlight'[o] = frame
                \/ /\ inFlight'[o] = flying[o]
                   /\ pixels[o] = frame \/ (pixels[o] \in Dark /\ frame \in Dark)
                \/ /\ inFlight'[o] = flying[o]
                   /\ o \in dirty' /\ faults' > faults
    <2>1. inFlight'[o] = IF o \in Ended(end, "queued") THEN frame ELSE flying[o]
          BY <1>1, <1>4
    <2>2. o \in failed => o \in dirty' /\ faults' > faults
          BY <1>8, <1>9
    <2>3. o \in Ended(end, "empty")
            => pixels[o] = frame \/ (pixels[o] \in Dark /\ frame \in Dark)
          BY <1>1
    <2> QED BY <1>2, <2>1, <2>2, <2>3
  <1> QED BY <1>8, <1>9, <1>10, <1>11, <1>12, <1>13 DEF PassResult

-----------------------------------------------------------------------------
(* One output moves on: its flip completed before the pass, or it did not. *)
Moved(o, flying, pixels) ==
    \/ flying[o] = inFlight[o] /\ pixels[o] = shown[o]
    \/ flying[o] = "none" /\ pixels[o] = inFlight[o] /\ inFlight[o] # "none"

(* What DrawnBeforeSettled says of one step. *)
SettledByFrame ==
    \A o \in targets \ targets' :
        \/ phase' = "Unlocked"
        \/ o \notin present'
        \/ inFlight'[o] \in Dark
        \/ shown'[o] \in Dark
        \/ faults' > faults

(* A render pass keeps the invariant, whichever callback runs it. *)
LEMMA RenderStep ==
  ASSUME IInv, NEW S \in SUBSET Outputs,
         NEW flying \in [Outputs -> Frames], NEW pixels \in [Outputs -> Frames],
         NEW after \in SUBSET present,
         \A o \in Outputs : Moved(o, flying, pixels),
         RenderOutputs(S, flying, pixels, after),
         shown' = pixels, blanked' \in BOOLEAN
  PROVE  IInv' /\ SettledByFrame
  <1> DEFINE composed == Composed(S, flying)
             frame == Scene
  <1>1. /\ Pass(composed, flying, pixels, frame, after)
        /\ Settle(composed)
        /\ UNCHANGED layout
        BY DEF RenderOutputs
  <1>2. TypeOK /\ FramesTypeOK /\ ClientsMatch /\ PendingIffOwed
        BY DEF IInv, TypeOK
  <1>3. composed \subseteq present /\ composed \subseteq dirty
        BY <1>2 DEF Composed, FramesTypeOK
  <1>4. \A o \in composed : flying[o] = "none"
        BY DEF Composed
  <1>5. /\ frame \in Frames \ {"none"}
        /\ phase # "Unlocked" => frame \in Dark
        BY DEF Scene, Frames, Dark
  <1> HIDE DEF composed, frame
  <1>6. /\ phase' \in {"Unlocked", "Pending", "Locked"}
        /\ targets' = targets \ composed
        /\ locker' \in Locks \cup {NoLock, Orphan}
        /\ client' \in [Locks -> Abstract!Answers]
        /\ ClientsMatch' /\ PendingIffOwed'
        /\ phase' = "Unlocked" <=> phase = "Unlocked"
        BY <1>1, <1>2, SettleStep
  <1>7. PassResult(composed, flying, pixels, frame, after)
        BY <1>1, <1>2, <1>3, <1>5, PassStep
  <1>8. present' = present /\ disabled' = disabled /\ off' = off
        BY <1>1 DEF layout
  <1>9. TypeOK'
        BY <1>2, <1>6, <1>7, <1>8 DEF TypeOK, FramesTypeOK, PassResult
  <1>10. AbsentClear'
    <2> SUFFICES ASSUME NEW o \in Outputs \ present
                 PROVE  inFlight'[o] = "none" /\ shown'[o] = "none"
        BY <1>8 DEF AbsentClear
    <2>1. inFlight[o] = "none" /\ shown[o] = "none"
          BY DEF IInv, AbsentClear
    <2>2. o \notin composed
          BY <1>3
    <2> QED BY <1>7, <2>1, <2>2 DEF Moved, PassResult
  <1>11. TargetsWillRender'
    <2>1. targets' \subseteq present \cap dirty /\ targets' \cap composed = {}
          BY <1>6 DEF IInv, TargetsWillRender
    <2>2. targets' \subseteq dirty'
          BY <1>2, <1>7, <2>1 DEF FramesTypeOK, PassResult
    <2> QED BY <1>8, <2>1, <2>2 DEF TargetsWillRender
  <1>13. CoveredSinceAsked'
    <2> SUFFICES ASSUME phase # "Unlocked", NEW o \in present, o \notin targets \ composed
                 PROVE  Covered(o)'
        BY <1>6, <1>8 DEF CoveredSinceAsked
    <2>0. o \in Outputs /\ Moved(o, flying, pixels)
          BY <1>2 DEF FramesTypeOK
    <2>1. CASE o \in composed
      <3>1. flying[o] = "none"
            BY <1>4, <2>1
      <3>2. CASE inFlight'[o] = frame
            BY <1>5, <3>2 DEF Covered, Dark
      <3>3. CASE /\ inFlight'[o] = flying[o]
                 /\ pixels[o] = frame \/ (pixels[o] \in Dark /\ frame \in Dark)
        <4>1. pixels[o] \in Dark
              BY <1>5, <3>3
        <4> QED BY <3>1, <3>3, <4>1 DEF Covered, Dark
      <3>4. CASE inFlight'[o] = flying[o] /\ o \in dirty'
            BY <3>1, <3>4 DEF Covered
      <3> QED BY <1>7, <2>1, <3>2, <3>3, <3>4 DEF PassResult
    <2>2. CASE o \notin composed
      <3>1. inFlight'[o] = flying[o] /\ (o \in dirty => o \in dirty')
            BY <1>7, <2>0, <2>2 DEF PassResult
      <3>2. Covered(o)
            BY <2>2 DEF IInv, CoveredSinceAsked
      <3> QED BY <2>0, <3>1, <3>2 DEF Covered, Moved
    <2> QED BY <2>1, <2>2
  <1>14. ASSUME NEW o \in targets \ targets'
         PROVE  \/ inFlight'[o] \in Dark
                \/ shown'[o] \in Dark
                \/ faults' > faults
    <2>1. o \in composed
          BY <1>6
    <2>2. phase # "Unlocked"
          BY <1>2 DEF PendingIffOwed
    <2>3. pixels[o] = frame \/ (pixels[o] \in Dark /\ frame \in Dark)
            => pixels[o] \in Dark
          BY <1>5, <2>2
    <2> QED BY <1>5, <1>7, <2>1, <2>2, <2>3 DEF PassResult
  <1> QED BY <1>6, <1>9, <1>10, <1>11, <1>13, <1>14 DEF IInv, SettledByFrame

-----------------------------------------------------------------------------
(* The callbacks that render. *)
LEMMA RepaintStep ==
  ASSUME IInv, IdleRepaint \/ RepaintTick
  PROVE  IInv' /\ SettledByFrame
  <1>1. inFlight \in [Outputs -> Frames] /\ shown \in [Outputs -> Frames] /\ blanked \in BOOLEAN
        BY DEF IInv, TypeOK, FramesTypeOK
  <1>2. PICK after \in SUBSET present :
           /\ RenderOutputs(Outputs, inFlight, shown, after)
           /\ shown' = shown /\ blanked' \in BOOLEAN
    <2>1. CASE IdleRepaint
          BY <1>1, <2>1 DEF IdleRepaint
    <2>2. CASE RepaintTick
      <3>1. PICK idle \in BOOLEAN :
               /\ blanked' = (blanked \/ idle)
               /\ RenderOutputs(Outputs, inFlight, shown, IF blanked' THEN present ELSE {})
               /\ UNCHANGED shown
            BY <2>2 DEF RepaintTick
      <3>2. blanked' \in BOOLEAN
            BY <3>1
      <3> QED BY <3>1, <3>2
    <2> QED BY <2>1, <2>2
  <1>3. \A o \in Outputs : Moved(o, inFlight, shown)
        BY DEF Moved
  <1>4. Outputs \in SUBSET Outputs
        OBVIOUS
  <1> QED BY <1>1, <1>2, <1>3, <1>4, RenderStep

LEMMA VBlankStep ==
  ASSUME IInv, NEW v \in Outputs, VBlank(v)
  PROVE  IInv' /\ SettledByFrame
  <1> DEFINE pixels == [shown EXCEPT ![v] = inFlight[v]]
             flying == Cleared(inFlight, v)
  <1>1. inFlight \in [Outputs -> Frames] /\ shown \in [Outputs -> Frames] /\ blanked \in BOOLEAN
        BY DEF IInv, TypeOK, FramesTypeOK
  <1>2. /\ inFlight[v] # "none" /\ shown' = pixels
        /\ RenderOutputs({v}, flying, pixels, {})
        /\ blanked' \in BOOLEAN
        BY <1>1 DEF VBlank
  <1>3. flying \in [Outputs -> Frames] /\ pixels \in [Outputs -> Frames]
        BY <1>1 DEF Cleared, Frames
  <1>4. \A o \in Outputs : Moved(o, flying, pixels)
        BY <1>1, <1>2 DEF Moved, Cleared
  <1> HIDE DEF pixels, flying
  <1> QED BY <1>2, <1>3, <1>4, RenderStep

(* Callbacks that only mark outputs dirty or switch their power. *)
LEMMA DamageStep ==
  ASSUME IInv,
         \/ Wake
         \/ \E o \in Outputs : Damage(o) \/ DisabledRemoved(o)
         \/ \E o \in Outputs, mode \in {"on", "off"} : SetPower(o, mode)
  PROVE  IInv' /\ SettledByFrame
  <1>1. /\ UNCHANGED <<present, inFlight, shown, faults, lockVars>>
        /\ dirty \subseteq dirty' /\ dirty' \subseteq present
        /\ disabled' \subseteq disabled /\ off' \subseteq Outputs
        /\ blanked' \in BOOLEAN
    <2>0. TypeOK /\ FramesTypeOK
          BY DEF IInv, TypeOK
    <2>1. CASE Wake
          BY <2>0, <2>1 DEF Wake, FramesTypeOK, layout
    <2>2. CASE \E o \in Outputs : Damage(o)
          BY <2>0, <2>2 DEF Damage, FramesTypeOK, layout
    <2>3. CASE \E o \in Outputs : DisabledRemoved(o)
          BY <2>0, <2>3 DEF DisabledRemoved, FramesTypeOK
    <2>4. CASE \E o \in Outputs, mode \in {"on", "off"} : SetPower(o, mode)
          BY <2>0, <2>4 DEF SetPower, FramesTypeOK
    <2> QED BY <2>1, <2>2, <2>3, <2>4
  <1>2. UNCHANGED <<phase, targets, locker, client>>
        BY <1>1 DEF lockVars
  <1>3. TypeOK'
        BY <1>1, <1>2 DEF IInv, TypeOK, FramesTypeOK
  <1>4. AbsentClear' /\ ClientsMatch' /\ PendingIffOwed'
        BY <1>1, <1>2 DEF IInv, AbsentClear, ClientsMatch, PendingIffOwed
  <1>5. TargetsWillRender'
        BY <1>1, <1>2 DEF IInv, TargetsWillRender
  <1>6. CoveredSinceAsked'
        BY <1>1, <1>2 DEF IInv, CoveredSinceAsked, Covered
  <1>7. SettledByFrame
        BY <1>2 DEF SettledByFrame
  <1> QED BY <1>3, <1>4, <1>5, <1>6, <1>7 DEF IInv

-----------------------------------------------------------------------------
(* What lock clients do. *)
LEMMA LockStep ==
  ASSUME IInv, NEW l \in Locks, Lock(l)
  PROVE  IInv' /\ SettledByFrame
  <1>0. TypeOK /\ FramesTypeOK /\ ClientsMatch /\ PendingIffOwed
        BY DEF IInv, TypeOK
  <1>1. /\ client[l] \in {"none", "gone", "expelled"}
        /\ UNCHANGED <<present, disabled, off, inFlight, shown, blanked, faults>>
        BY DEF Lock, Unused, layout
  <1>2. CASE /\ phase # "Unlocked"
             /\ client' = [client EXCEPT ![l] = "finished"]
             /\ UNCHANGED <<phase, targets, locker, dirty>>
    <2>1. TypeOK'
          BY <1>0, <1>1, <1>2 DEF TypeOK, FramesTypeOK, Abstract!Answers
    <2>2. ClientsMatch'
          BY <1>0, <1>1, <1>2 DEF ClientsMatch, TypeOK
    <2>3. AbsentClear' /\ PendingIffOwed' /\ TargetsWillRender' /\ CoveredSinceAsked'
          BY <1>1, <1>2 DEF IInv, AbsentClear, PendingIffOwed, TargetsWillRender,
                            CoveredSinceAsked, Covered
    <2>6. SettledByFrame
          BY <1>2 DEF SettledByFrame
    <2> QED BY <2>1, <2>2, <2>3, <2>6 DEF IInv
  <1>3. CASE /\ phase = "Unlocked" /\ present # {}
             /\ phase' = "Pending" /\ targets' = present /\ locker' = l
             /\ client' = [client EXCEPT ![l] = "waiting"]
             /\ dirty' = present
    <2>1. TypeOK'
          BY <1>0, <1>1, <1>3 DEF TypeOK, FramesTypeOK, Abstract!Answers
    <2>2. /\ \A m \in Locks : client[m] # "locked" /\ client[m] # "waiting"
          /\ \A m \in Locks : client'[m] = IF m = l THEN "waiting" ELSE client[m]
          BY <1>0, <1>3, LocksAssumption DEF ClientsMatch, PendingIffOwed, TypeOK
    <2>3. ClientsMatch'
          BY <1>0, <1>3, <2>2 DEF ClientsMatch, TypeOK
    <2>4. PendingIffOwed'
          BY <1>3, LocksAssumption DEF PendingIffOwed
    <2>5. AbsentClear' /\ TargetsWillRender' /\ CoveredSinceAsked'
          BY <1>1, <1>3 DEF IInv, AbsentClear, TargetsWillRender, CoveredSinceAsked
    <2>8. SettledByFrame
          BY <1>0, <1>3 DEF PendingIffOwed, SettledByFrame
    <2> QED BY <2>1, <2>3, <2>4, <2>5, <2>8 DEF IInv
  <1>4. CASE /\ phase = "Unlocked" /\ present = {}
             /\ phase' = "Locked"
             /\ client' = [client EXCEPT ![l] = "locked"]
             /\ UNCHANGED <<targets, locker, dirty>>
    <2>1. TypeOK'
          BY <1>0, <1>1, <1>4 DEF TypeOK, FramesTypeOK, Abstract!Answers
    <2>2. /\ \A m \in Locks : client[m] # "locked" /\ client[m] # "waiting"
          /\ \A m \in Locks : client'[m] = IF m = l THEN "locked" ELSE client[m]
          BY <1>0, <1>4, LocksAssumption DEF ClientsMatch, PendingIffOwed, TypeOK
    <2>3. ClientsMatch'
      <3>1. locker' = NoLock
            BY <1>0, <1>4 DEF PendingIffOwed
      <3>2. \A m \in Locks : client'[m] # "waiting" /\ locker' # m
            BY <2>2, <3>1, LocksAssumption
      <3>3. \A m \in Locks : client'[m] = "locked" => m = l
            BY <2>2
      <3>4. phase' = "Locked"
            BY <1>4
      <3> QED BY <3>2, <3>3, <3>4 DEF ClientsMatch
    <2>4. PendingIffOwed'
          BY <1>0, <1>4 DEF PendingIffOwed
    <2>5. AbsentClear' /\ TargetsWillRender' /\ CoveredSinceAsked'
          BY <1>1, <1>4 DEF IInv, AbsentClear, TargetsWillRender, CoveredSinceAsked
    <2>8. SettledByFrame
          BY <1>4 DEF SettledByFrame
    <2> QED BY <2>1, <2>3, <2>4, <2>5, <2>8 DEF IInv
  <1> QED BY <1>2, <1>3, <1>4 DEF Lock, Unused

LEMMA UnlockStep ==
  ASSUME IInv, NEW l \in Locks, Unlock(l)
  PROVE  IInv' /\ SettledByFrame
  <1>0. TypeOK /\ FramesTypeOK
        BY DEF IInv, TypeOK
  <1>1. /\ phase' = "Unlocked" /\ targets' = {} /\ locker' = NoLock
        /\ client' = Abstract!Released(l)
        /\ dirty' = IF phase = "Unlocked" THEN dirty ELSE present
        /\ UNCHANGED <<present, disabled, off, inFlight, shown, blanked, faults>>
        BY DEF Unlock, layout
  <1>2. /\ client' \in [Locks -> Abstract!Answers]
        /\ \A m \in Locks : client'[m] # "locked" /\ client'[m] # "waiting"
        BY <1>0, <1>1 DEF TypeOK, Abstract!Answers, Abstract!Released
  <1>3. TypeOK'
        BY <1>0, <1>1, <1>2 DEF TypeOK, FramesTypeOK
  <1>4. ClientsMatch' /\ PendingIffOwed' /\ TargetsWillRender'
        BY <1>1, <1>2, LocksAssumption DEF ClientsMatch, PendingIffOwed, TargetsWillRender
  <1>5. AbsentClear' /\ CoveredSinceAsked'
        BY <1>1 DEF IInv, AbsentClear, CoveredSinceAsked
  <1>6. SettledByFrame
        BY <1>1 DEF SettledByFrame
  <1> QED BY <1>3, <1>4, <1>5, <1>6 DEF IInv

LEMMA AbandonStep ==
  ASSUME IInv, NEW l \in Locks, Abandon(l)
  PROVE  IInv' /\ SettledByFrame
  <1>0. TypeOK /\ FramesTypeOK /\ ClientsMatch /\ PendingIffOwed
        BY DEF IInv, TypeOK
  <1>1. /\ client' = [client EXCEPT ![l] = "gone"]
        /\ locker' = IF locker = l THEN Orphan ELSE locker
        /\ UNCHANGED <<phase, targets>>
        /\ UNCHANGED <<present, disabled, off, dirty, inFlight, shown, blanked, faults>>
        BY DEF Abandon, Unused, frameVars
  <1>2. \A m \in Locks : client'[m] = IF m = l THEN "gone" ELSE client[m]
        BY <1>0, <1>1 DEF TypeOK
  <1>3. TypeOK'
        BY <1>0, <1>1 DEF TypeOK, FramesTypeOK, Abstract!Answers
  <1>4. ClientsMatch'
    <2>1. \A m \in Locks : locker' = m <=> m # l /\ locker = m
          BY <1>1, LocksAssumption
    <2>2. \A m \in Locks : client'[m] = "waiting" <=> locker' = m
          BY <1>0, <1>2, <2>1 DEF ClientsMatch
    <2>3. \A m \in Locks : client'[m] = "locked" => client[m] = "locked"
          BY <1>2
    <2>4. phase' = phase
          BY <1>1
    <2> QED BY <1>0, <2>2, <2>3, <2>4 DEF ClientsMatch
  <1>5. PendingIffOwed'
        BY <1>0, <1>1, LocksAssumption DEF PendingIffOwed
  <1>6. AbsentClear' /\ TargetsWillRender' /\ CoveredSinceAsked'
        BY <1>1 DEF IInv, AbsentClear, TargetsWillRender, CoveredSinceAsked, Covered
  <1>8. SettledByFrame
        BY <1>1 DEF SettledByFrame
  <1> QED BY <1>3, <1>4, <1>5, <1>6, <1>8 DEF IInv

-----------------------------------------------------------------------------
(* Outputs come and go. *)
LEMMA AddedStep ==
  ASSUME IInv, NEW o \in Outputs, OutputAdded(o)
  PROVE  IInv' /\ SettledByFrame
  <1>0. TypeOK /\ FramesTypeOK
        BY DEF IInv, TypeOK
  <1>1. /\ o \notin present /\ present' = present \cup {o}
        /\ disabled' = disabled \ {o} /\ dirty' = present'
        /\ UNCHANGED <<off, inFlight, shown, blanked, faults>>
        /\ UNCHANGED <<phase, targets, locker, client>>
        BY DEF OutputAdded, lockVars
  <1>2. TypeOK'
        BY <1>0, <1>1 DEF TypeOK, FramesTypeOK
  <1>3. AbsentClear' /\ ClientsMatch' /\ PendingIffOwed'
        BY <1>1 DEF IInv, AbsentClear, ClientsMatch, PendingIffOwed
  <1>4. TargetsWillRender'
        BY <1>1 DEF IInv, TargetsWillRender
  <1>5. CoveredSinceAsked'
    <2>1. inFlight'[o] = "none" /\ o \in dirty'
          BY <1>1 DEF IInv, AbsentClear
    <2>2. Covered(o)'
          BY <2>1 DEF Covered
    <2>3. \A p \in present : Covered(p) => Covered(p)'
          BY <1>1 DEF Covered
    <2> QED BY <1>1, <2>2, <2>3 DEF IInv, CoveredSinceAsked
  <1>6. SettledByFrame
        BY <1>1 DEF SettledByFrame
  <1> QED BY <1>2, <1>3, <1>4, <1>5, <1>6 DEF IInv

LEMMA LeavesStep ==
  ASSUME IInv, NEW o \in Outputs, OutputRemoved(o) \/ OutputDisabled(o)
  PROVE  IInv' /\ SettledByFrame
  <1>0. TypeOK /\ FramesTypeOK /\ ClientsMatch /\ PendingIffOwed
        BY DEF IInv, TypeOK
  <1>1. /\ present' = present \ {o} /\ dirty' = present'
        /\ inFlight' = Cleared(inFlight, o) /\ shown' = Cleared(shown, o)
        /\ Settle({o})
        /\ UNCHANGED <<blanked, faults>>
        BY DEF OutputRemoved, OutputDisabled, OutputLeaves
  <1>2. off' \subseteq Outputs /\ disabled' \subseteq disabled \cup {o}
        BY <1>0 DEF OutputRemoved, OutputDisabled, FramesTypeOK
  <1>3. /\ phase' \in {"Unlocked", "Pending", "Locked"}
        /\ targets' = targets \ {o}
        /\ locker' \in Locks \cup {NoLock, Orphan}
        /\ client' \in [Locks -> Abstract!Answers]
        /\ ClientsMatch' /\ PendingIffOwed'
        /\ phase' = "Unlocked" <=> phase = "Unlocked"
        BY <1>0, <1>1, SettleStep
  <1>4. /\ inFlight' \in [Outputs -> Frames] /\ shown' \in [Outputs -> Frames]
        /\ inFlight'[o] = "none" /\ shown'[o] = "none"
        /\ \A p \in Outputs \ {o} : inFlight'[p] = inFlight[p] /\ shown'[p] = shown[p]
        BY <1>0, <1>1 DEF FramesTypeOK, Cleared, Frames
  <1>5. TypeOK'
        BY <1>0, <1>1, <1>2, <1>3, <1>4 DEF TypeOK, FramesTypeOK
  <1>6. AbsentClear'
        BY <1>1, <1>4 DEF IInv, AbsentClear
  <1>7. TargetsWillRender'
        BY <1>1, <1>3 DEF IInv, TargetsWillRender
  <1>8. CoveredSinceAsked'
    <2> SUFFICES ASSUME phase # "Unlocked", NEW p \in present \ {o}, p \notin targets
                 PROVE  Covered(p)'
        BY <1>1, <1>3 DEF CoveredSinceAsked
    <2>1. Covered(p) /\ p \in dirty' /\ inFlight'[p] = inFlight[p]
          BY <1>0, <1>1, <1>4 DEF IInv, CoveredSinceAsked, FramesTypeOK
    <2> QED BY <2>1 DEF Covered
  <1>9. SettledByFrame
        BY <1>1, <1>3 DEF SettledByFrame
  <1> QED BY <1>3, <1>5, <1>6, <1>7, <1>8, <1>9 DEF IInv

(* Every action keeps the invariant and settles targets by frames. *)
LEMMA NextStep == IInv /\ [Next]_vars => IInv' /\ SettledByFrame
  <1> SUFFICES ASSUME IInv, [Next]_vars
               PROVE  IInv' /\ SettledByFrame
      OBVIOUS
  <1>1. CASE IdleRepaint \/ RepaintTick
        BY <1>1, RepaintStep
  <1>2. CASE \E o \in Outputs : VBlank(o)
        BY <1>2, VBlankStep
  <1>3. CASE \/ Wake
             \/ \E o \in Outputs : Damage(o) \/ DisabledRemoved(o)
             \/ \E o \in Outputs, mode \in {"on", "off"} : SetPower(o, mode)
        BY <1>3, DamageStep
  <1>4. CASE \E l \in Locks : Lock(l)
        BY <1>4, LockStep
  <1>5. CASE \E l \in Locks : Unlock(l)
        BY <1>5, UnlockStep
  <1>6. CASE \E l \in Locks : Abandon(l)
        BY <1>6, AbandonStep
  <1>8. CASE \E o \in Outputs : OutputAdded(o)
        BY <1>8, AddedStep
  <1>9. CASE \E o \in Outputs : OutputRemoved(o) \/ OutputDisabled(o)
        BY <1>9, LeavesStep
  <1>10. CASE UNCHANGED vars
    <2>1. /\ UNCHANGED <<present, disabled, off, dirty, inFlight, shown, blanked, faults>>
          /\ UNCHANGED <<phase, targets, locker, client>>
          BY <1>10 DEF vars, frameVars, lockVars
    <2>2. TypeOK' /\ AbsentClear' /\ ClientsMatch' /\ PendingIffOwed'
          BY <2>1 DEF IInv, TypeOK, FramesTypeOK, AbsentClear, ClientsMatch, PendingIffOwed
    <2>3. TargetsWillRender' /\ CoveredSinceAsked'
          BY <2>1 DEF IInv, TargetsWillRender, CoveredSinceAsked, Covered
    <2>4. SettledByFrame
          BY <2>1 DEF SettledByFrame
    <2> QED BY <2>2, <2>3, <2>4 DEF IInv
  <1> QED BY <1>1, <1>2, <1>3, <1>4, <1>5, <1>6, <1>8, <1>9, <1>10 DEF Next

-----------------------------------------------------------------------------
(* The refinement: every step is a step of ScreenLock or changes nothing   *)
(* that ScreenLock speaks of.                                              *)
AbstractStep == [Abstract!Next]_(Abstract!vars)

(* An action that leaves phase and clients alone stutters. *)
LEMMA Stutter == UNCHANGED <<phase, client>> => AbstractStep
  BY DEF AbstractStep, Abstract!vars

(* Settling the last target grants the lock to whoever waits for it. *)
LEMMA SettleRefines ==
  ASSUME IInv, NEW done, Settle(done)
  PROVE  AbstractStep
  <1>0. TypeOK /\ ClientsMatch
        BY DEF IInv
  <1>1. CASE phase = "Pending" /\ targets \subseteq done
    <2>1. /\ phase' = "Locked"
          /\ client' = [l \in Locks |-> IF l = locker THEN "locked" ELSE client[l]]
          BY <1>1 DEF Settle
    <2>2. \A l \in Locks : l = locker <=> client[l] = "waiting"
          BY <1>0 DEF ClientsMatch
    <2>3. client' = [l \in Locks |-> IF client[l] = "waiting" THEN "locked" ELSE client[l]]
          BY <2>1, <2>2
    <2>4. Abstract!Grant
          BY <1>1, <2>1, <2>3 DEF Abstract!Grant
    <2> QED BY <2>4 DEF AbstractStep, Abstract!Next
  <1>2. CASE ~(phase = "Pending" /\ targets \subseteq done)
        BY <1>2, Stutter DEF Settle
  <1> QED BY <1>1, <1>2

LEMMA StepRefines == IInv /\ [Next]_vars => AbstractStep
  <1> SUFFICES ASSUME IInv, [Next]_vars
               PROVE  AbstractStep
      OBVIOUS
  <1>0. TypeOK /\ ClientsMatch
        BY DEF IInv
  <1>1. CASE IdleRepaint \/ RepaintTick \/ \E o \in Outputs : VBlank(o)
        BY <1>1, SettleRefines DEF IdleRepaint, RepaintTick, VBlank, RenderOutputs
  <1>2. CASE \E o \in Outputs : OutputRemoved(o) \/ OutputDisabled(o)
        BY <1>2, SettleRefines DEF OutputRemoved, OutputDisabled, OutputLeaves
  <1>3. CASE \/ Wake
             \/ \E o \in Outputs : Damage(o) \/ DisabledRemoved(o) \/ OutputAdded(o)
             \/ \E o \in Outputs, mode \in {"on", "off"} : SetPower(o, mode)
             \/ UNCHANGED vars
        BY <1>3, Stutter
        DEF Wake, Damage, DisabledRemoved, OutputAdded, SetPower, vars, lockVars
  <1>4. ASSUME NEW l \in Locks, Lock(l)
        PROVE  AbstractStep
    <2>1. /\ client[l] \in {"none", "gone", "expelled"}
          /\ \/ /\ phase # "Unlocked" /\ phase' = phase
                /\ client' = [client EXCEPT ![l] = "finished"]
             \/ /\ phase = "Unlocked" /\ phase' = "Pending"
                /\ client' = [client EXCEPT ![l] = "waiting"]
             \/ /\ phase = "Unlocked" /\ phase' = "Locked"
                /\ client' = [client EXCEPT ![l] = "locked"]
          BY <1>4 DEF Lock, Unused
    <2>2. Abstract!Request(l)
          BY <1>0, <2>1 DEF Abstract!Request, TypeOK
    <2> QED BY <2>2 DEF AbstractStep, Abstract!Next
  <1>5. ASSUME NEW l \in Locks, Unlock(l)
        PROVE  AbstractStep
    <2>1. Abstract!Release(l)
          BY <1>0, <1>5 DEF Unlock, Unused, TypeOK, Abstract!Answers, Abstract!Release
    <2> QED BY <2>1 DEF AbstractStep, Abstract!Next
  <1>6. ASSUME NEW l \in Locks, Abandon(l)
        PROVE  AbstractStep
    <2>1. Abstract!Leave(l)
          BY <1>0, <1>6 DEF Abandon, Unused, TypeOK, Abstract!Answers, Abstract!Leave
    <2> QED BY <2>1 DEF AbstractStep, Abstract!Next
  <1> QED BY <1>1, <1>2, <1>3, <1>4, <1>5, <1>6 DEF Next

(* Only an unlock request opens a session of ScreenLock.                   *)
LEMMA OpeningStep ==
  ASSUME AbstractStep, phase # "Unlocked", phase' = "Unlocked", TypeOK
  PROVE  /\ \E l \in Locks : \/ client[l] \in {"locked", "ousted"} /\ client'[l] = "none"
                             \/ client'[l] = "expelled" /\ client[l] # "expelled"
         /\ \A l \in Locks : client'[l] \notin {"waiting", "locked"}
  <1>1. Abstract!Next
        BY DEF AbstractStep, Abstract!vars, TypeOK
  <1>2. ~Abstract!Grant
        BY DEF Abstract!Grant
  <1>3. \A l \in Locks : ~Abstract!Request(l) /\ ~Abstract!Leave(l)
        BY DEF Abstract!Request, Abstract!Leave, TypeOK
  <1>4. PICK l \in Locks : Abstract!Release(l)
        BY <1>1, <1>2, <1>3 DEF Abstract!Next
  <1>5. /\ client[l] \in {"waiting", "locked", "ousted", "finished"}
        /\ client' = Abstract!Released(l)
        BY <1>4 DEF Abstract!Release
  <1>6. client'[l] = IF client[l] \in {"locked", "ousted"} THEN "none" ELSE "expelled"
        BY <1>5 DEF Abstract!Released
  <1>7. \A m \in Locks : client'[m] \notin {"waiting", "locked"}
        BY <1>5 DEF Abstract!Released
  <1> QED BY <1>5, <1>6, <1>7

(* set_mode keeps an output On; other actions leave the modes, or the set  *)
(* of outputs, not both.                                                   *)
LEMMA PowerStep ==
  ASSUME IInv, [Next]_vars, present' = present, present \ off # {}
  PROVE  present \ off' # {}
  <1>1. CASE off' = off
        BY <1>1
  <1>2. CASE \E o \in Outputs, mode \in {"on", "off"} : SetPower(o, mode)
    <2>1. PICK o \in Outputs, mode \in {"on", "off"} : SetPower(o, mode)
          BY <1>2
    <2> QED BY <2>1 DEF SetPower, OnAfter
  <1>3. ASSUME NEW o \in Outputs, OutputRemoved(o)
        PROVE  FALSE
        BY <1>3 DEF OutputRemoved, OutputLeaves
  <1>4. CASE ~\E o \in Outputs, mode \in {"on", "off"} : SetPower(o, mode)
        BY <1>3, <1>4
        DEF Next, IdleRepaint, RepaintTick, VBlank, RenderOutputs, Wake, Damage, Lock,
            Unlock, Abandon, OutputAdded, OutputDisabled, DisabledRemoved,
            vars, frameVars, layout
  <1> QED BY <1>2, <1>4
-----------------------------------------------------------------------------
(* What the steps above give for every behaviour. *)

(* The inductive invariant: whatever clients, outputs and frames do, the   *)
(* lock's bookkeeping agrees with its clients and, from the request on,    *)
(* every output it no longer waits for shows no new session frame.         *)
THEOREM Invariance == Spec => []IInv
<1>1. IInv /\ [Next]_vars => IInv'  BY NextStep
<1> QED  BY <1>1, InitIInv, PTL DEF Spec

(* Every variable keeps its type: no frame is due on an output that is not *)
(* driven, and no lock object stands in a way that has no name.            *)
THEOREM Typing == Spec => []TypeOK
<1>1. IInv => TypeOK  BY DEF IInv
<1> QED  BY <1>1, Invariance, PTL

(* A lock is pending exactly while an output owes it a frame.              *)
THEOREM OwedIsPending == Spec => []PendingIffOwed
<1>1. IInv => PendingIffOwed  BY DEF IInv
<1> QED  BY <1>1, Invariance, PTL

(* An output that owes a frame is driven and dirty: no wakeup is lost.     *)
THEOREM NoLostWakeup == Spec => []TargetsWillRender
<1>1. IInv => TargetsWillRender  BY DEF IInv
<1> QED  BY <1>1, Invariance, PTL

(* Once the lock is confirmed, a screen that still shows the session is    *)
(* about to be repainted.                                                  *)
THEOREM Cover == Spec => []LockedCovers
<1> QED  BY IInvCovers, Invariance, PTL

(* An output leaves the list the lock waits for only by a lock frame of    *)
(* its own, by leaving the registry, or because the session is opened.     *)
THEOREM Drawn == Spec => DrawnBeforeSettled
<1>1. IInv /\ [Next]_vars => SettledByFrame  BY NextStep
<1> QED  BY <1>1, Invariance, PTL DEF Spec, DrawnBeforeSettled, SettledByFrame

(* set_mode never switches off the last output that is On.                 *)
THEOREM Power == Spec => PowerNeverBlacksOut
<1> DEFINE Kept == present' = present /\ present \ off # {} => present \ off' # {}
<1>1. IInv /\ [Next]_vars => Kept  BY PowerStep
<1> QED  BY <1>1, Invariance, PTL DEF Spec, PowerNeverBlacksOut

(* The lock implements ScreenLock: every step is one of its steps or one   *)
(* its clients cannot see.                                                 *)
THEOREM Refinement == Spec => Implements
<1>1. Init => Abstract!Init  BY DEF Init, Abstract!Init
<1>2. IInv /\ [Next]_vars => [Abstract!Next]_(Abstract!vars)
  BY StepRefines DEF AbstractStep
<1> QED  BY <1>1, <1>2, Invariance, PTL DEF Spec, Implements, Abstract!Spec

(* A session that is locked or about to be opens only when a client asks   *)
(* to unlock it: the holder lets go, or another is expelled for asking;    *)
(* never by a death, a frame or an output, and nobody holds it then.       *)
THEOREM OpenedOnRequest == Spec => OpensOnRequest
<1>1. IInv /\ [Next]_vars =>
        (phase # "Unlocked" /\ phase' = "Unlocked" =>
            /\ \E l \in Locks : \/ client[l] \in {"locked", "ousted"} /\ client'[l] = "none"
                                \/ client'[l] = "expelled" /\ client[l] # "expelled"
            /\ \A l \in Locks : client'[l] \notin {"waiting", "locked"})
  BY StepRefines, OpeningStep DEF IInv
<1>2. IInv /\ [Next]_vars => Abstract!OpensByRequest
  BY <1>1 DEF IInv, TypeOK, Abstract!OpensByRequest
<1> QED  BY <1>2, Invariance, PTL DEF Spec, OpensOnRequest, Abstract!OpensOnRequest

(* Of the clients that heard `locked` since the session was last open, and *)
(* those that wait to hear it, there is at most one, and the phase says    *)
(* which: a lock is never granted to a second client before it is let go.  *)
THEOREM SingleHolder == Spec => []Abstract!OneHolder
<1>1. IInv => Abstract!OneHolder
  BY LocksAssumption DEF IInv, ClientsMatch, PendingIffOwed, Abstract!OneHolder
<1> QED  BY <1>1, Invariance, PTL
=============================================================================
