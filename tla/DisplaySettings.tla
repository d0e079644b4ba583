--------------------------- MODULE DisplaySettings ---------------------------
(***************************************************************************)
(* The page of the settings that shows an output, the section of           *)
(* config.toml that describes it, and the compositor that drives it.  A    *)
(* click writes the section, changes what the page shows and asks for a    *)
(* reload over the socket (widget_dispatch); the compositor reads the      *)
(* file, compares the section with the one before and switches the mode    *)
(* when that differs (reapply_output_layout, mode_selection.rs).  What is  *)
(* true of the output comes back with a snapshot only, which other events  *)
(* send.                                                                   *)
(*                                                                         *)
(* One output is modelled: each has a section and a row of its own.        *)
(* Enabling, positions and the choice of the primary output are in         *)
(* OutputLifecycle and OutputRegistry, the text of the file in ConfigFile. *)
(* A size is a number that grows with the area of the picture.             *)
(***************************************************************************)
EXTENDS Integers, Sequences, FiniteSets

CONSTANTS Modes,      \* what the connector offers, in its order
          Sections,   \* what the user may write about the output
          MaxRows,    \* DISPLAY_MODE_OPTION_MAX
          SafeMode, ForcedIndex, ForcedSize,  \* MERIDIAN_DRM_*, 0 for none
          MaxClicks, MaxEdits, MaxFaults, MaxNews  \* bounds, see Next

\* The refresh of a mode is never 0, which stands for one that is left out.
NoMode == [size |-> 0, hz |-> 0]
Mode == [size : Nat \ {0}, hz : Nat \ {0}, clock : Nat, odd : 0..255, preferred : BOOLEAN, wide : BOOLEAN]

\* The output's section: a mode, of which the refresh may be left out (0), a scale in
\* thousandths, which the code takes when it is positive, and a transform, "" when left out.
Section == [mode : [size : Nat, hz : Nat], scale : Nat, turn : STRING]

VARIABLES
  open,     \* display_mode_dropdown_open
  view,     \* the output in output_workspaces: marked modes, scale, transform
  disk,     \* its section of config.toml
  reloads,  \* ReloadConfig commands on their way
  news,     \* snapshots on their way
  section,  \* output_config_entries
  mode,     \* the mode the DrmCompositor uses
  info,     \* the output in the registry: marked modes, scale, transform
  picked,   \* what was chosen on the page since the user last wrote the file
  failed,   \* the last switch of the mode was refused by the driver
  clicks, edits, faults

vars == << open, view, disk, reloads, news, section, mode, info, picked, failed, clicks, edits, faults >>
-----------------------------------------------------------------------------
(* mode_selection.rs                                                       *)

Key(i) == [size |-> Modes[i].size, hz |-> Modes[i].hz]
OfSize(s) == { i \in DOMAIN Modes : Modes[i].size = s }

\* Keys that are tuples compare from the left.
Less(k, l) == \E n \in DOMAIN k : k[n] < l[n] /\ \A m \in 1 .. n - 1 : k[m] = l[m]

\* max_by_key gives the last of the best, min_by_key the first.
LastBest(S, K(_))   == CHOOSE i \in S : \A j \in S : Less(K(j), K(i)) \/ (K(j) = K(i) /\ j <= i)
FirstLeast(S, K(_)) == CHOOSE i \in S : \A j \in S : Less(K(i), K(j)) \/ (K(i) = K(j) /\ i <= j)

\* select_best_mode_for_size
BestOfSize(s) == LastBest(OfSize(s), LAMBDA i : << Modes[i].hz, 255 - Modes[i].odd, Modes[i].clock >>)

\* select_safe_mode
Safe ==
  LET wide == { i \in DOMAIN Modes : Modes[i].wide }
  IN  FirstLeast(IF wide = {} THEN DOMAIN Modes ELSE wide,
                 LAMBDA i : << Modes[i].size, - Modes[i].hz, Modes[i].odd, - Modes[i].clock >>)

\* select_add_mode
Auto ==
  LET preferred == { i \in DOMAIN Modes : Modes[i].preferred }
  IN  CASE SafeMode -> Safe
        [] ~ SafeMode /\ ForcedIndex \in DOMAIN Modes -> ForcedIndex
        [] ~ SafeMode /\ ForcedIndex \notin DOMAIN Modes /\ OfSize(ForcedSize) # {} -> BestOfSize(ForcedSize)
        [] OTHER -> IF preferred = {} THEN 1
                    ELSE BestOfSize(Modes[CHOOSE i \in preferred : \A j \in preferred : i <= j].size)

Distance(a, b) == IF a < b THEN b - a ELSE a - b

\* pick_best_mode_for_request, where a mode of that size is offered.
BestFor(m) ==
  IF m.hz = 0 THEN LastBest(OfSize(m.size), LAMBDA i : << Modes[i].hz >>)
              ELSE FirstLeast(OfSize(m.size), LAMBDA i : << Distance(Modes[i].hz, m.hz) >>)

\* select_mode_with_override
Select(m) == IF m = NoMode \/ OfSize(m.size) = {} THEN Auto ELSE BestFor(m)
-----------------------------------------------------------------------------
(* The output as compositor, file and page know it.                        *)

\* output_mode_infos, and the marks after a switch.
Marks(i) == { j \in DOMAIN Modes : Key(j) = Key(i) }

\* parse_output_transform, and the transform's name in a snapshot.
Turns == { "90", "180", "270" }
Parse(s) == IF s \in Turns THEN s ELSE "0"
Debug(t) == CASE t = "0" -> "Normal" [] t = "90" -> "_90" [] t = "180" -> "_180" [] t = "270" -> "_270"

Scale(s) == IF s > 0 THEN s ELSE 1000

\* build_output_workspace_snapshot
Snapshot == [marks |-> info.marks, scale |-> info.scale, turn |-> Debug(info.turn)]

\* The compositor starts with a section of the file.
Started(s) == [marks |-> Marks(Select(s.mode)), scale |-> Scale(s.scale), turn |-> Parse(s.turn)]

\* DISPLAY_SCALE_CYCLE and DISPLAY_ROTATE_CYCLE; a value that is not in its cycle is followed
\* by the first.
Scales    == << 1000, 1250, 1500, 2000 >>
Rotations == << "", "90", "180", "270" >>
After(cycle, x) ==
  IF \E i \in DOMAIN cycle : cycle[i] = x
    THEN cycle[((CHOOSE i \in DOMAIN cycle : cycle[i] = x) % Len(cycle)) + 1]
    ELSE cycle[1]

Nothing == [mode |-> NoMode, scale |-> 0, turn |-> "none"]
-----------------------------------------------------------------------------
Init ==
  /\ open = FALSE /\ disk \in Sections /\ section = disk
  /\ mode = Select(disk.mode) /\ info = Started(disk)
  /\ view = Snapshot
  /\ reloads = 0 /\ news = << >> /\ picked = Nothing /\ failed = FALSE
  /\ clicks = 0 /\ edits = 0 /\ faults = 0

\* ToggleOutputModeDropdown; it is closed by leaving the page, too.
ToggleDropdown ==
  /\ open' = ~ open
  /\ UNCHANGED << view, disk, reloads, news, section, mode, info, picked, failed, clicks, edits, faults >>

\* The file is written, the page shows it as done, and the compositor is asked to reload.
Choose(v, d, p) ==
  /\ clicks < MaxClicks /\ clicks' = clicks + 1
  /\ view' = v /\ disk' = d /\ picked' = p
  /\ reloads' = reloads + 1
  /\ UNCHANGED << news, section, mode, info, failed, edits, faults >>

\* The rows of the dropdown are the first modes, in the connector's order.
Rows == { i \in DOMAIN Modes : open /\ i <= MaxRows }

\* apply_output_mode_selection
SetOutputMode(i) ==
  /\ i \in Rows /\ open' = FALSE
  /\ Choose([view EXCEPT !.marks = Marks(i)], [disk EXCEPT !.mode = Key(i)], [picked EXCEPT !.mode = Key(i)])

CycleOutputScale ==
  LET s == After(Scales, view.scale) IN
    /\ Choose([view EXCEPT !.scale = s], [disk EXCEPT !.scale = s], [picked EXCEPT !.scale = s])
    /\ UNCHANGED open

CycleOutputTransform ==
  LET t == After(Rotations, view.turn) IN
    /\ Choose([view EXCEPT !.turn = t], [disk EXCEPT !.turn = t], [picked EXCEPT !.turn = t])
    /\ UNCHANGED open

\* The user edits the file himself.
Edit(s) ==
  /\ edits < MaxEdits /\ edits' = edits + 1
  /\ disk' = s /\ picked' = Nothing
  /\ UNCHANGED << open, view, reloads, news, section, mode, info, failed, clicks, faults >>
-----------------------------------------------------------------------------
(* The compositor.                                                         *)

\* detect_output_reload_diff, where a mode is named: without one the mode stays as it is.
Changed == disk.mode \notin { section.mode, NoMode }

Described(marks) == [marks |-> marks, scale |-> Scale(disk.scale), turn |-> Parse(disk.turn)]

\* rebuild_compositor_for_mode: the driver takes the mode or refuses it.
Switched ==
  \/ /\ mode' = Select(disk.mode) /\ failed' = FALSE /\ UNCHANGED faults
     /\ info' = Described(Marks(mode'))
  \/ /\ faults < MaxFaults /\ faults' = faults + 1
     /\ failed' = TRUE /\ UNCHANGED mode
     /\ info' = Described(info.marks)

\* reapply_output_layout
SwitchMode ==
  \/ Changed /\ Switched
  \/ ~ Changed /\ info' = Described(info.marks) /\ UNCHANGED << mode, failed, faults >>

\* reload_config, for a command of the shell or for the key that
\* reloads (n = 0).  No snapshot is sent.
ReloadConfig(n) ==
  /\ n <= reloads /\ reloads' = reloads - n
  /\ section' = disk
  /\ SwitchMode
  /\ UNCHANGED << open, view, disk, news, picked, clicks, edits >>

\* A workspace, a window or another output gives reason for a snapshot.
SendSnapshot ==
  /\ Len(news) < MaxNews
  /\ news' = Append(news, Snapshot)
  /\ UNCHANGED << open, view, disk, reloads, section, mode, info, picked, failed, clicks, edits, faults >>

\* The compositor is started anew; the shell connects again and gets a snapshot.
Restart ==
  /\ faults < MaxFaults /\ faults' = faults + 1
  /\ section' = disk /\ mode' = Select(disk.mode) /\ info' = Started(disk)
  /\ failed' = FALSE
  /\ reloads' = 0 /\ news' = << Snapshot' >>
  /\ UNCHANGED << open, view, disk, picked, clicks, edits >>

\* apply_output_workspace_snapshot_state
HearSnapshot ==
  /\ news # << >> /\ view' = Head(news) /\ news' = Tail(news)
  /\ UNCHANGED << open, disk, reloads, section, mode, info, picked, failed, clicks, edits, faults >>

Next ==
  \/ ToggleDropdown
  \/ \E i \in DOMAIN Modes : SetOutputMode(i)
  \/ CycleOutputScale \/ CycleOutputTransform
  \/ \E s \in Sections : Edit(s)
  \/ \E n \in 0 .. 1 : ReloadConfig(n)
  \/ SendSnapshot \/ Restart \/ HearSnapshot

Spec == Init /\ [][Next]_vars
-----------------------------------------------------------------------------
(* Properties                                                              *)

\* Once no reload is on its way the output is as it was chosen on the page, unless the
\* driver refused the mode: it runs in a mode of the size and refresh of the row that was
\* clicked, however close the others are, with that scale and rotation.
PickedHolds ==
  reloads = 0 =>
    /\ picked.mode = NoMode \/ failed \/ Key(mode) = picked.mode
    /\ picked.scale \in { 0, info.scale }
    /\ picked.turn = "none" \/ Parse(picked.turn) = info.turn

\* The modes that are marked as the current one are those of the size and refresh in use.
MarksTrue == info.marks = Marks(mode)
=============================================================================
