---------------------------- MODULE MCSessionParts ----------------------------
(***************************************************************************)
(* The session lock of the compositor, and beside it the program that      *)
(* draws the lock screen, the resizing of a window and the keyboard. Of    *)
(* the components below one is run in a behaviour, which `part` names:     *)
(* they share no state with each other or with the instance extended here, *)
(* whose variables stay where they start while another component runs.     *)
(***************************************************************************)
EXTENDS MCSessionLock

CONSTANTS
  Chars, Right, MaxLen, MaxInbox,             \* of LockClient
  Reach, MaxGrabs, MaxMotions, MaxFrames,     \* of ResizeGrab
  KeyNames, Clients, Files, QueueSize, Batch, \* of Keyboard
  MaxStrokes, MaxTurns

VARIABLES
  part,   \* the component this behaviour is about
  pc, pending, inbox, surf, screen, password, status, auth, asked, finished, unlocked, rect, grab,
  edge, initial, size, pacer, seen, rs, want, drags, motions, frames, down, queue, lost, pressed,
  kb, file, strokes, turns

\* [keybinds] sections: none, one that shortcuts a bare key, one with a binding that is refused.
Binding(m, k, d, w) == [mods |-> m, key |-> k, do |-> d, n |-> w]
Bindings == { {}, { Binding({"win"}, "h", "reload-config", 0), Binding({}, "1", "workspace", 2) },
              { Binding({"win"}, "h", "workspace", 0) } }

Password == << "a" >>

ASSUME SessionPartsAssumption == Reach \in Nat /\ Batch \in Nat

LockClient == INSTANCE LockClient
ResizeGrab == INSTANCE ResizeGrab
Keyboard   == INSTANCE Keyboard WITH Keys <- KeyNames

partVars == <<
  part, pc, pending, inbox, surf, screen, password, status, auth, asked, finished, unlocked, rect,
  grab, edge, initial, size, pacer, seen, rs, want, drags, motions, frames, down, queue, lost,
  pressed, kb, file, strokes, turns >>
-----------------------------------------------------------------------------
\* This instance: the other components are not there.
InitBase ==
  /\ part = "session" /\ Init
  /\ pc = 0 /\ pending = 0 /\ inbox = 0 /\ surf = 0 /\ screen = 0 /\ password = 0 /\ status = 0
     /\ auth = 0 /\ asked = 0 /\ finished = 0 /\ unlocked = 0 /\ rect = 0 /\ grab = 0 /\ edge =
     0 /\ initial = 0 /\ size = 0 /\ pacer = 0 /\ seen = 0 /\ rs = 0 /\ want = 0 /\ drags = 0
     /\ motions = 0 /\ frames = 0 /\ down = 0 /\ queue = 0 /\ lost = 0 /\ pressed = 0 /\ kb = 0
     /\ file = 0 /\ strokes = 0 /\ turns = 0
NextBase == part = "session" /\ Next /\ UNCHANGED partVars

RestLockClient == <<
  part, rect, grab, edge, initial, size, pacer, seen, rs, want, drags, motions, frames, down, queue,
  lost, pressed, kb, file, strokes, turns >>
InitLockClient ==
  /\ part = "lock" /\ LockClient!Init /\ Init /\ present = Outputs
  /\ rect = 0 /\ grab = 0 /\ edge = 0 /\ initial = 0 /\ size = 0 /\ pacer = 0 /\ seen = 0 /\ rs
     = 0 /\ want = 0 /\ drags = 0 /\ motions = 0 /\ frames = 0 /\ down = 0 /\ queue = 0 /\ lost
     = 0 /\ pressed = 0 /\ kb = 0 /\ file = 0 /\ strokes = 0 /\ turns = 0
NextLockClient == part = "lock" /\ LockClient!Next /\ UNCHANGED << RestLockClient, vars >>

RestResizeGrab == <<
  part, pc, pending, surf, screen, password, status, auth, asked, finished, unlocked, down, queue,
  lost, pressed, kb, file, strokes, turns >>
InitResizeGrab ==
  /\ part = "resize" /\ ResizeGrab!Init /\ Init /\ present = Outputs
  /\ pc = 0 /\ pending = 0 /\ surf = 0 /\ screen = 0 /\ password = 0 /\ status = 0 /\ auth = 0
     /\ asked = 0 /\ finished = 0 /\ unlocked = 0 /\ down = 0 /\ queue = 0 /\ lost = 0
     /\ pressed = 0 /\ kb = 0 /\ file = 0 /\ strokes = 0 /\ turns = 0
NextResizeGrab == part = "resize" /\ ResizeGrab!Next /\ UNCHANGED << RestResizeGrab, vars >>

RestKeyboard == <<
  part, pc, pending, inbox, surf, screen, password, status, auth, asked, finished, unlocked, rect,
  grab, edge, initial, size, pacer, seen, rs, want, drags, motions, frames >>
InitKeyboard ==
  /\ part = "keyboard" /\ Keyboard!Init /\ Init /\ present = Outputs
  /\ pc = 0 /\ pending = 0 /\ inbox = 0 /\ surf = 0 /\ screen = 0 /\ password = 0 /\ status = 0
     /\ auth = 0 /\ asked = 0 /\ finished = 0 /\ unlocked = 0 /\ rect = 0 /\ grab = 0 /\ edge =
     0 /\ initial = 0 /\ size = 0 /\ pacer = 0 /\ seen = 0 /\ rs = 0 /\ want = 0 /\ drags = 0
     /\ motions = 0 /\ frames = 0
NextKeyboard == part = "keyboard" /\ Keyboard!Next /\ UNCHANGED << RestKeyboard, vars >>

PartsInit == \/ InitBase
             \/ InitLockClient
             \/ InitResizeGrab
             \/ InitKeyboard

\* The components that may come to a stop, by themselves or at their bounds.
MayStop == { "lock", "resize", "keyboard" }

PartsNext == \/ NextBase
             \/ NextLockClient
             \/ NextResizeGrab
             \/ NextKeyboard
             \/ part \in MayStop /\ UNCHANGED << partVars, vars >>

PartsSpec == PartsInit /\ [][PartsNext]_<< partVars, vars >>
-----------------------------------------------------------------------------
(* Properties                                                              *)

\* The lock screen shows the field and the status as they are on every output, what is
\* checked is what the field holds, and nothing is drawn before it is configured.
LockScreenAgrees ==
  part = "lock" => LockClient!ShowsState /\ LockClient!FieldIsChecked /\ LockClient!AckedFirst

\* A window that is resized stays with the edge that is not dragged where it was, and comes
\* to the size that was asked for last.
ResizeAgrees == part = "resize" => ResizeGrab!AnchoredWhileHeld /\ ResizeGrab!SettlesOnTarget

\* The focused client, and no other, has those keys down that are, see Keyboard.
HeldAsPressed == part = "keyboard" => Keyboard!HeldAsPressed
=============================================================================
