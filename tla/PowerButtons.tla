---------------------------- MODULE PowerButtons ----------------------------
(***************************************************************************)
(* The power buttons in the footer of the native launcher: the first click *)
(* arms a button, a second one on the same button within the time-out runs *)
(* its command.  What else the user does between the two is kept as        *)
(* history; the clock is whether the time-out has passed.                  *)
(***************************************************************************)
CONSTANTS Buttons   \* "logout" and others: the widget ids of the buttons

VARIABLES
  open,      \* launcher_state.open
  settings,  \* launcher_settings_open
  armed,     \* the id in armed_power, or "none"
  late,      \* POWER_ARM_TIMEOUT_MS have passed since it was armed
  strayed,   \* what else was clicked since it was armed: "no", "launch" (only rows of
             \* applications) or "action"
  ran        \* what strayed was when the last command ran, or "never"

vars == << open, settings, armed, late, strayed, ran >>

Palette == open /\ ~ settings

Init == /\ open = FALSE /\ settings = FALSE
        /\ armed = "none" /\ late = FALSE /\ strayed = "no" /\ ran = "never"

\* toggle_launcher
Open == ~ open /\ open' = TRUE /\ UNCHANGED << settings, armed, late, strayed, ran >>

\* toggle_launcher, Escape, a click beside it or another popup
Close == open /\ open' = FALSE /\ settings' = FALSE /\ UNCHANGED << armed, late, strayed, ran >>

\* arm_power
Arm(b) == armed' = b /\ late' = FALSE /\ strayed' = "no"

\* dispatch_power_action: without try_consume_armed_power the button is armed; with it the
\* launcher closes and the command runs, and a logout the compositor cannot be asked for
\* arms the button again.
Click(b) ==
  /\ Palette
  /\ IF armed # b \/ late
     THEN /\ Arm(b)
          /\ UNCHANGED << open, settings, ran >>
     ELSE /\ open' = FALSE /\ UNCHANGED settings
          /\ ran' = strayed
          /\ \/ armed' = "none" /\ UNCHANGED << late, strayed >>
             \/ b = "logout" /\ Arm(b)

OtherActionKeeps ==   \* only the settings' own actions cancel
  /\ open
  /\ \/ Palette /\ open' = FALSE /\ UNCHANGED << settings, armed >>
     \/ settings' = ~ settings /\ UNCHANGED << open, armed >>
     \/ settings /\ armed' = "none" /\ UNCHANGED << open, settings >>
  /\ strayed' = "action"
  /\ UNCHANGED << late, ran >>

\* dispatch_widget_action with another action, of the palette (a pinned tile closes the
\* launcher, the settings button shows the settings) or of the settings view.
OtherAction ==
  /\ open
  /\ armed' = "none"
  /\ \/ Palette /\ open' = FALSE /\ UNCHANGED settings
     \/ settings' = ~ settings /\ UNCHANGED open
     \/ settings /\ UNCHANGED << open, settings >>
  /\ strayed' = "action"
  /\ UNCHANGED << late, ran >>

\* A click on the row of an application, or Enter: launch_desktop_app and
\* close_launcher_after_launch.
LaunchRow ==
  /\ Palette
  /\ open' = FALSE
  /\ strayed' = (IF strayed = "action" THEN "action" ELSE "launch")
  /\ UNCHANGED << settings, armed, late, ran >>

Elapse == armed # "none" /\ late' = TRUE /\ UNCHANGED << open, settings, armed, strayed, ran >>

\* tick
Tick == armed # "none" /\ late /\ armed' = "none" /\ UNCHANGED << open, settings, late, strayed, ran >>

Next == \/ Open \/ Close \/ OtherAction \/ LaunchRow \/ Elapse \/ Tick
        \/ \E b \in Buttons : Click(b)

Spec == Init /\ [][Next]_vars
-----------------------------------------------------------------------------
(* Properties                                                              *)

\* dispatch.rs:7 cancels an armed button "on any non-power action - the user changed their
\* mind by clicking somewhere else": no command runs on two clicks with another action
\* between them, whichever way the launcher was closed and opened since.  (The row of an
\* application is no action, and does not cancel.)
NeverAfterAction == ran # "action"
=============================================================================
