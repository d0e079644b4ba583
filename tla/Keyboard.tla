------------------------------ MODULE Keyboard ------------------------------
(***************************************************************************)
(* A key from the OpenBSD keyboard device to the focused client: the       *)
(* events the device has queued, the batch the compositor reads, the       *)
(* seat's keyboard, the shortcuts of the configuration and what they do to *)
(* the keyboard itself (a workspace switch or a move takes the focus away, *)
(* a reload replaces the shortcuts while their keys are still held).       *)
(*                                                                         *)
(* A key is named by its keysym without modifiers; of the modifiers Super  *)
(* and Shift are kept.  The locks of the keyboard and its grabs are left   *)
(* out.                                                                    *)
(***************************************************************************)
EXTENDS Naturals, Sequences

CONSTANTS Keys,        \* the keys of the keyboard
          Clients,     \* the windows that may have the keyboard focus
          Files,       \* what the [keybinds] section may say: sets of bindings as written
          QueueSize,   \* events the device can hold
          Batch,       \* events one read takes
          MaxStrokes, MaxTurns  \* bounds on what is pressed, and on focus changes and edits

VARIABLES
  down,     \* the keys that are physically down
  queue,    \* events the device holds
  lost,     \* an event was lost, and the device has not said since that all keys are up
  pressed,  \* pressed_keys of the event source
  kb,       \* the seat's keyboard and what its shortcuts reach, see Init
  file,     \* the [keybinds] of config.toml
  strokes, turns

vars == << down, queue, lost, pressed, kb, file, strokes, turns >>
-----------------------------------------------------------------------------
(* Bindings: what config.toml says and what becomes of it                  *)

Digits == { "1", "2", "3", "4", "5", "6", "7", "8", "9" }
NumberOf == [d \in Digits |-> CHOOSE n \in 1 .. 9 : << "1", "2", "3", "4", "5", "6", "7", "8", "9" >>[n] = d]

AudioKeys == { "volume_up", "volume_down", "mute" }

\* parse_keybind: the names a modifier goes by
ModifierOf == [n \in { "super", "win", "mod4", "logo", "shift", "ctrl", "alt" } |->
                 IF n \in { "super", "win", "mod4", "logo" } THEN "super" ELSE n]

\* keysym_from_name, for the keys that have several names
KeyOf(name) == CASE name \in { "escape", "esc" }   -> "escape"
                 [] name \in { "return", "enter" } -> "return"
                 [] OTHER                          -> name

\* parse_keybind
ParsesKey(b) == b.mods \subseteq DOMAIN ModifierOf /\ b.key # "unknown"
Keybind(b) == [mods |-> { ModifierOf[m] : m \in b.mods }, key |-> KeyOf(b.key)]

Commands == { "workspace", "move-to-workspace", "toggle-tiling", "force-split", "resize-tile",
              "close-window", "toggle-launcher", "lock-session", "reload-config", "quit" }

\* parse_workspace_number
ParsesWorkspace(n) == n \in 1 .. 9

\* parse_action
ParsesAction(b) == /\ b.do \in Commands
                   /\ b.do \in { "workspace", "move-to-workspace" } => ParsesWorkspace(b.n)

\* KeybindConfig::from_map: one binding that does not parse fails them all
Parses(f) == \A b \in f : ParsesKey(b) /\ ParsesAction(b)
FromMap(f) == { [on |-> Keybind(b), do |-> b.do, n |-> b.n] : b \in f }

\* default_bindings
DefaultBindings ==
  { [mods |-> { "super" }, key |-> d, do |-> "workspace", n |-> NumberOf[d]] : d \in Digits }
  \cup { [mods |-> { "super", "shift" }, key |-> d, do |-> "move-to-workspace", n |-> NumberOf[d]] : d \in Digits }
  \cup { [mods |-> { "super" }, key |-> k[1], do |-> k[2], n |-> 0] :
           k \in { << "t", "toggle-tiling" >>, << "h", "force-split" >>, << "v", "force-split" >>,
                   << "left", "resize-tile" >>, << "right", "resize-tile" >>, << "up", "resize-tile" >>,
                   << "down", "resize-tile" >>, << "space", "toggle-launcher" >>,
                   << "l", "lock-session" >>, << "q", "close-window" >> } }

\* load_from: no [keybinds] means the built-in ones
Load(f) == IF f = {} THEN FromMap(DefaultBindings) ELSE FromMap(f)

\* find_action, the bindings on these modifiers and this key; the order of a HashMap decides
\* between two spellings of one keybind, so the model takes any and keeps to it.
FindAction(binds, mods, key) == { b \in binds : b.on = [mods |-> mods, key |-> key] }

\* is_workspace_fallback_shortcut, is_audio_key
IsFallback(mods, key) == key \in Digits /\ mods \in { { "super" }, { "super", "shift" } }
IsAudio(key) == key \in AudioKeys
-----------------------------------------------------------------------------
(* The seat's keyboard                                                     *)

\* set_focus: the client that is left forgets its keys, the one that is entered is told those
\* that were forwarded.
SetFocus(s, c) ==
  IF c = s.focus THEN s
  ELSE [s EXCEPT !.focus = c,
                 !.held  = [d \in Clients |-> IF d = c THEN s.forwarded ELSE {}]]

\* input_forward
Forward(s, k, isDown) ==
  LET Told(keys) == IF isDown THEN keys \cup { k } ELSE keys \ { k }
  IN  [s EXCEPT !.forwarded = Told(@),
                !.held = [d \in Clients |-> IF d = s.focus THEN Told(s.held[d]) ELSE s.held[d]]]

\* switch_workspace_for_focused_output
SwitchWorkspace(s, n) == IF n = s.active THEN s ELSE [SetFocus(s, "none") EXCEPT !.active = n]

\* move_focused_window_to_workspace_consistent
MoveToWorkspace(s, n) ==
  IF s.focus = "none" THEN s
  ELSE IF s.on[s.focus] = n THEN s
  ELSE [SetFocus(s, "none") EXCEPT !.on[s.focus] = n]

\* reload_config: what does not parse leaves the shortcuts as they are
Reload(s, f) == IF Parses(f) THEN [s EXCEPT !.binds = Load(f)] ELSE s

\* The match of handle_keyboard: those that leave the keyboard alone (a tile, a close request,
\* the launcher, the lock screen's process, the volume, the end of the session) are one.
Act(s, mods, k, f) ==
  LET found == FindAction(s.binds, mods, k)
      b == CHOOSE x \in found : TRUE
  IN  IF IsAudio(k) THEN s
      ELSE IF found = {}
      THEN IF mods = { "super" } THEN SwitchWorkspace(s, NumberOf[k]) ELSE MoveToWorkspace(s, NumberOf[k])
      ELSE CASE b.do = "workspace"         -> SwitchWorkspace(s, b.n)
             [] b.do = "move-to-workspace" -> MoveToWorkspace(s, b.n)
             [] b.do = "reload-config"     -> Reload(s, f)
             [] OTHER                      -> s

\* The filter of handle_keyboard
IsShortcut(s, mods, k) ==
  FindAction(s.binds, mods, k) # {} \/ IsFallback(mods, k) \/ IsAudio(k)

ReleasesFiltered(s, k, isDown, f) ==   \* the filter without its early return for releases
  LET t == [s EXCEPT !.keys = IF isDown THEN @ \cup { k } ELSE @ \ { k }]
      mods == t.keys \cap { "super", "shift" }
  IN  IF IsShortcut(t, mods, k)
      THEN IF isDown THEN [Act(t, mods, k, f) EXCEPT !.taken = @ \cup { k }] ELSE t
      ELSE [Forward(t, k, isDown) EXCEPT !.taken = @ \ { k }]

\* handle_keyboard: the seat notes the key, a press that is a shortcut is kept from the client
\* and acts, anything else is forwarded.
HandleKeyboard(s, k, isDown, f) ==
  LET t == [s EXCEPT !.keys = IF isDown THEN @ \cup { k } ELSE @ \ { k }]
      mods == t.keys \cap { "super", "shift" }
  IN  IF isDown /\ IsShortcut(t, mods, k)
      THEN [Act(t, mods, k, f) EXCEPT !.taken = @ \cup { k }]
      ELSE [Forward(t, k, isDown) EXCEPT !.taken = @ \ { k }]
-----------------------------------------------------------------------------
(* The event source                                                        *)

\* What HandleKeyboard(s, k, FALSE, f) for each key of `keys` leaves behind, in any order: no
\* release is a shortcut.
ReleaseAll(s, keys) ==
  [s EXCEPT !.keys = @ \ keys, !.forwarded = @ \ keys, !.taken = @ \ keys,
            !.held = [d \in Clients |-> IF d = s.focus THEN s.held[d] \ keys ELSE s.held[d]]]

\* One event of dispatch_keyboard_events, on the pair of pressed_keys and the keyboard: when
\* all keys are up, those that were down are released one by one.
DispatchEvent(e, at, f) ==
  CASE e.type = "down"  -> << at[1] \cup { e.key }, HandleKeyboard(at[2], e.key, TRUE, f) >>
    [] e.type = "up"    -> << at[1] \ { e.key }, HandleKeyboard(at[2], e.key, FALSE, f) >>
    [] e.type = "allup" -> << {}, ReleaseAll(at[2], at[1]) >>

\* dispatch_keyboard_events: the first n events of the queue, one after the other
DispatchEvents(n) ==
  LET after[i \in 0 .. n] == IF i = 0 THEN << pressed, kb >>
                             ELSE DispatchEvent(queue[i], after[i-1], file)
  IN  after[n]

\* What one read takes
BatchSize == IF Len(queue) < Batch THEN Len(queue) ELSE Batch

\* The callback of register_wscons_event_sources: read_events and dispatch_keyboard_events
Read ==
  /\ queue # << >>
  /\ queue' = SubSeq(queue, BatchSize + 1, Len(queue))
  /\ LET after == DispatchEvents(BatchSize) IN pressed' = after[1] /\ kb' = after[2]
  /\ UNCHANGED << down, lost, file, strokes, turns >>

\* read_events finds a record that is cut short and gives the whole batch up.
ReadFails ==
  /\ queue # << >>
  /\ queue' = SubSeq(queue, BatchSize + 1, Len(queue))
  /\ lost' = TRUE
  /\ UNCHANGED << down, pressed, kb, file, strokes, turns >>
-----------------------------------------------------------------------------
(* What goes on around it                                                  *)

\* The device: an event that finds the queue full is lost.
Queue(e) == IF Len(queue) < QueueSize
            THEN queue' = Append(queue, e) /\ lost' = (IF e.type = "allup" THEN FALSE ELSE lost)
            ELSE UNCHANGED queue /\ lost' = TRUE

Strike(k) ==
  /\ strokes < MaxStrokes /\ strokes' = strokes + 1
  /\ k \notin down /\ down' = down \cup { k }
  /\ Queue([type |-> "down", key |-> k])
  /\ UNCHANGED << pressed, kb, file, turns >>

Lift(k) ==
  /\ k \in down /\ down' = down \ { k }
  /\ Queue([type |-> "up", key |-> k])
  /\ UNCHANGED << pressed, kb, file, strokes, turns >>

\* The device lost sight of its keys and says that all are up.
AllKeysUp ==
  /\ down # {} \/ lost
  /\ down' = {}
  /\ Queue([type |-> "allup"])
  /\ UNCHANGED << pressed, kb, file, strokes, turns >>

\* A click, a new window, one that closes: the focus goes to a window of the active workspace,
\* or to none.
Focus(c) ==
  /\ turns < MaxTurns /\ turns' = turns + 1
  /\ c \in Clients => kb.on[c] = kb.active
  /\ kb' = SetFocus(kb, c)
  /\ UNCHANGED << down, queue, lost, pressed, file, strokes >>

Edit(f) ==
  /\ turns < MaxTurns /\ turns' = turns + 1
  /\ file' = f
  /\ UNCHANGED << down, queue, lost, pressed, kb, strokes >>

\* A reload that the shell asks for
ReloadConfig ==
  /\ kb' = Reload(kb, file) /\ kb' # kb
  /\ UNCHANGED << down, queue, lost, pressed, file, strokes, turns >>

Init ==
  /\ down = {} /\ queue = << >> /\ lost = FALSE /\ pressed = {}
  /\ file \in { f \in Files : Parses(f) }
  /\ kb = [keys      |-> {},                        \* pressed_keys of the seat
           forwarded |-> {},                        \* forwarded_pressed_keys
           focus     |-> "none",
           held      |-> [c \in Clients |-> {}],    \* what each client takes to be down
           taken     |-> {},                        \* history: keys whose press was a shortcut
           binds     |-> Load(file),                \* keybind_config
           active    |-> 1,
           on        |-> [c \in Clients |-> 1]]     \* the workspace of each window
  /\ strokes = 0 /\ turns = 0

Next == \/ Read \/ ReadFails \/ AllKeysUp \/ ReloadConfig
        \/ \E k \in Keys : Strike(k) \/ Lift(k)
        \/ \E c \in Clients \cup { "none" } : Focus(c)
        \/ \E f \in Files : Edit(f)

Spec == Init /\ [][Next]_vars
-----------------------------------------------------------------------------
(* Properties                                                              *)

\* Once every event is read and none is missing, the focused client takes those keys to be
\* down that are, but for the ones a shortcut has taken, and no other client any: however
\* focus, shortcuts and bindings changed while keys were held, and after a loss as soon as
\* the device says that all keys are up.
HeldAsPressed ==
  queue = << >> /\ ~ lost =>
    \A c \in Clients : kb.held[c] = IF c = kb.focus THEN down \ kb.taken ELSE {}
=============================================================================
