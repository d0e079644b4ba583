----------------------------- MODULE WebHelpers -----------------------------
(***************************************************************************)
(* The WebKit panel, launcher and Quick Settings: one meridian-ui-runtime  *)
(* process per surface, owned by the shell, told what to do by lines on    *)
(* its stdin, and asking for what its document wants through the           *)
(* compositor's socket, which hands the request on to the shell.           *)
(*                                                                         *)
(* A popup's helper stays mapped: hidden is transparent and without input. *)
(* Of a snapshot only what can go wrong is kept: the theme it carries and  *)
(* whether its checks refuse it (a default output above 100 %).  The shell *)
(* itself does not end here, and one compositor connection is enough.      *)
(***************************************************************************)
EXTENDS Naturals, Sequences

CONSTANTS MaxEvents,  \* bound on requests under way to the shell
          MaxLines    \* bound on unread lines before the shell handles another event

VARIABLES
  enabled,  \* web_panel_enabled
  theme,    \* the theme of the shell, "dark" or "light"
  saved,    \* the theme in the configuration file
  refresh,  \* web_panel_theme_refresh
  held,     \* the process the shell holds: "none", or its `visible` mirror
  helper,   \* the processes
  guess,    \* the launcher's document shows a theme it asked for and was not told
  loud,     \* the default output is above 100 %
  events    \* requests on their way to the shell

vars == << enabled, theme, saved, refresh, held, helper, guess, loud, events >>

Popups  == { "launcher", "quick" }
Helpers == Popups \cup { "panel" }
Themes  == { "dark", "light" }

Gone == [at |-> "gone", pipe |-> << >>, buf |-> << >>, shown |-> "hidden", theme |-> "dark"]

\* spawn: `lines` are written before the process has started.
Started(lines) ==
  [at |-> "starting", pipe |-> lines, buf |-> << >>, shown |-> "hidden", theme |-> theme]

Running(h) == helper[h].at # "gone"

\* What the shell writes.  settings, appearance and theme lines do the same here.
Tell(t)       == [verb |-> "theme", theme |-> t, valid |-> TRUE]
Hide          == [verb |-> "hide", theme |-> "none", valid |-> TRUE]
Show(h)       == [verb |-> "show", theme |-> "none", valid |-> ~ (h = "quick" /\ loud)]
ShowSettings  == [verb |-> "show-settings", theme |-> theme, valid |-> TRUE]

\* How the shell's two tables look after a write of `lines` that makes the mirror `to`: a
\* write to a process that has ended drops it.
Written(h, lines, to) ==
  IF Running(h) THEN [held |-> to, helper |-> [helper[h] EXCEPT !.pipe = @ \o lines]]
                ELSE [held |-> "none", helper |-> Gone]

\* The outcomes of a spawn: it fails, or the process is held as `to`.
Spawned(lines, to) == { [held |-> "none", helper |-> Gone],
                        [held |-> to, helper |-> Started(lines)] }

Unchanged(h) == [held |-> held[h], helper |-> helper[h]]

\* The helpers in DOMAIN u become as in u.
Become(u) ==
  /\ held'   = [h \in Helpers |-> IF h \in DOMAIN u THEN u[h].held ELSE held[h]]
  /\ helper' = [h \in Helpers |-> IF h \in DOMAIN u THEN u[h].helper ELSE helper[h]]

Of(h, u) == [x \in {h} |-> u]
-----------------------------------------------------------------------------
(* The shell.                                                              *)

Init ==
  /\ theme \in Themes /\ saved = theme /\ refresh = "none"
  /\ guess = FALSE /\ loud = FALSE /\ events = << >>
  /\ \E panel \in Spawned(<< >>, "visible") :
       /\ enabled = (panel.held # "none")
       /\ \E launcher \in IF enabled THEN Spawned(<< Tell(theme) >>, "hidden")
                                     ELSE {[held |-> "none", helper |-> Gone]},
             quick    \in IF enabled THEN Spawned(<< >>, "hidden")
                                     ELSE {[held |-> "none", helper |-> Gone]} :
            /\ held   = [h \in Helpers |-> CASE h = "panel" -> panel.held
                                             [] h = "launcher" -> launcher.held
                                             [] OTHER -> quick.held]
            /\ helper = [h \in Helpers |-> CASE h = "panel" -> panel.helper
                                             [] h = "launcher" -> launcher.helper
                                             [] OTHER -> quick.helper]

\* The shell takes the next request; the bound keeps the pipes short.
Take(e) ==
  /\ events # << >> /\ Head(events) = e
  /\ \A h \in Helpers : Len(helper[h].pipe) < MaxLines
  /\ events' = Tail(events)

\* Mutant: the mirror follows the request although nothing was written.
ToggleMirrorOnly(h, spawned) ==
  IF held[h] # "none" /\ Running(h)
  THEN {[held |-> IF held[h] = "visible" THEN "hidden" ELSE "visible", helper |-> helper[h]]}
  ELSE Spawned(spawned, "visible")

\* toggle_web_launcher and toggle_web_quick_settings: a process that runs is told, one
\* that does not is replaced.
Toggle(h, spawned) ==
  IF held[h] # "none" /\ Running(h)
  THEN IF held[h] = "visible" THEN {Written(h, << Hide >>, "hidden")}
                              ELSE {Written(h, << Show(h) >>, "visible")}
  ELSE Spawned(spawned, "visible")

\* toggle_launcher: without the web panel it is the native launcher's.
ToggleLauncher ==
  /\ Take("ToggleLauncher")
  /\ IF enabled
     THEN \E u \in Toggle("launcher", << Tell(theme), Show("launcher") >>) : Become(Of("launcher", u))
     ELSE UNCHANGED << held, helper >>
  /\ UNCHANGED << enabled, theme, saved, refresh, guess, loud >>

\* ToggleQuickSettings: with or without the web panel.
ToggleQuickSettings ==
  /\ Take("ToggleQuickSettings")
  /\ \E u \in Toggle("quick", << Show("quick") >>) : Become(Of("quick", u))
  /\ UNCHANGED << enabled, theme, saved, refresh, guess, loud >>

\* hide_web_quick_settings
HiddenQuick == IF held["quick"] = "visible" THEN Written("quick", << Hide >>, "hidden")
                                            ELSE Unchanged("quick")

\* open_web_system_settings: Quick Settings is hidden, the launcher shows the settings.
OpenSystemSettings ==
  /\ Take("OpenSystemSettings")
  /\ \E l \in IF held["launcher"] # "none" /\ Running("launcher")
              THEN {Written("launcher", << ShowSettings >>, "visible")}
              ELSE Spawned(<< ShowSettings >>, "visible") :
       Become([h \in Popups |-> IF h = "quick" THEN HiddenQuick ELSE l])
  /\ UNCHANGED << enabled, theme, saved, refresh, guess, loud >>

\* refresh_web_appearance and refresh_web_settings, from the shell's tables `u`.
Refreshed(u, t) ==
  IF u.held # "none" /\ u.helper.at # "gone"
  THEN [u EXCEPT !.helper.pipe = Append(@, Tell(t))] ELSE u

\* SettingsRefresh and AppearanceRefresh
Refresh ==
  /\ Take("Refresh")
  /\ Become(Of("launcher", Refreshed(Unchanged("launcher"), theme)))
  /\ UNCHANGED << enabled, theme, saved, refresh, guess, loud >>

\* AppearanceThemeSet: another theme is saved and the compositor asked to reload, which
\* comes back as ConfigReloaded; the theme in use is told again.
AppearanceThemeSet(t) ==
  /\ Take(t)
  /\ IF theme # t
     THEN /\ saved' = t
          /\ UNCHANGED << held, helper >>
     ELSE /\ Become(Of("launcher", Refreshed(Unchanged("launcher"), theme)))
          /\ UNCHANGED saved
  /\ UNCHANGED << enabled, theme, refresh, guess, loud >>

\* sync_web_theme for a popup
Synced(h, t) == IF held[h] # "none" THEN Written(h, << Tell(t) >>, held[h]) ELSE Unchanged(h)

\* handle_config_reloaded, when both sides could read the file
ConfigReloaded ==
  LET t == saved
      l == IF t # theme THEN Synced("launcher", t) ELSE Unchanged("launcher")
      q == IF t # theme THEN Synced("quick", t) ELSE Unchanged("quick")
  IN /\ \A h \in Helpers : Len(helper[h].pipe) < MaxLines
     /\ theme' = t
     /\ refresh' = (IF t # theme /\ enabled THEN t ELSE refresh)
     /\ Become([h \in Popups |-> IF h = "quick" THEN q ELSE Refreshed(l, t)])
     /\ UNCHANGED << enabled, saved, guess, loud, events >>

\* apply_theme of the native settings page, which opens only after the fallback: the
\* reload it asks for finds nothing changed.
ApplyTheme(t) ==
  /\ ~ enabled
  /\ theme' = t /\ saved' = t
  /\ UNCHANGED << enabled, refresh, held, helper, guess, loud, events >>

\* A volume, mute or power-profile request, and refresh_web_quick_settings: an update
\* carries no more than the volume, which the helper only draws.
AudioChanges ==
  /\ loud' = ~ loud
  /\ UNCHANGED << enabled, theme, saved, refresh, held, helper, guess, events >>

\* The loop of main after a dispatch: the panel's theme, then its exit; without it the
\* native panel takes over for good (activate_native_panel_fallback).
AfterDispatch ==
  /\ refresh # "none" \/ (held["panel"] # "none" /\ ~ Running("panel"))
  /\ Len(helper["panel"].pipe) < MaxLines
  /\ LET told == IF refresh # "none" /\ held["panel"] # "none"
                 THEN Written("panel", << Tell(refresh) >>, "visible") ELSE Unchanged("panel")
         u == IF told.helper.at = "gone" THEN [held |-> "none", helper |-> Gone] ELSE told
     IN /\ Become(Of("panel", u))
        /\ enabled' = (enabled /\ u.held # "none")
  /\ refresh' = "none"
  /\ UNCHANGED << theme, saved, guess, loud, events >>
-----------------------------------------------------------------------------
(* A helper.                                                               *)

\* build_window: the popup is mapped, transparent and without input.
Start(h) ==
  /\ helper[h].at = "starting"
  /\ helper' = [helper EXCEPT ![h].at = "up"]
  /\ UNCHANGED << enabled, theme, saved, refresh, held, guess, loud, events >>

\* What one line does to a helper; a refused snapshot does nothing.
Obeyed(r, l) ==
  IF ~ l.valid THEN r
  ELSE [r EXCEPT !.theme = IF l.theme # "none" THEN l.theme ELSE @,
                 !.shown = CASE l.verb = "show" -> "apps"
                             [] l.verb = "show-settings" -> "settings"
                             [] l.verb = "hide" -> "hidden"
                             [] OTHER -> @]

\* The source on stdin: it fires while the pipe has something to read and takes one line,
\* from what an earlier read left in the buffer when there is any.
ReadLine(h) ==
  LET r == helper[h]
      lines == IF r.buf # << >> THEN r.buf ELSE r.pipe
      kept  == IF r.buf # << >> THEN r.pipe ELSE << >>
  IN /\ r.at = "up" /\ r.pipe # << >>
     /\ helper' = [helper EXCEPT ![h] =
                     [Obeyed(r, Head(lines)) EXCEPT !.buf = Tail(lines), !.pipe = kept]]
     /\ guess' = (guess /\ (h # "launcher" \/ Head(lines).theme = "none"))
     /\ UNCHANGED << enabled, theme, saved, refresh, held, loud, events >>

\* A helper ends on its own.
Crash(h) ==
  /\ Running(h)
  /\ helper' = [helper EXCEPT ![h] = Gone]
  /\ guess' = (guess /\ h # "launcher")
  /\ UNCHANGED << enabled, theme, saved, refresh, held, loud, events >>

\* A document's request, and the compositor's own shortcut, reach the shell in order.
Post(e) == Len(events) < MaxEvents /\ events' = Append(events, e)

\* The panel's buttons, or the shortcut of the launcher.
PanelButton ==
  /\ \E e \in { "ToggleLauncher", "ToggleQuickSettings" } : Post(e)
  /\ UNCHANGED << enabled, theme, saved, refresh, held, helper, guess, loud >>

Seen(h) == helper[h].at = "up" /\ helper[h].shown # "hidden"

\* Escape, or an application was launched: a persistent launcher asks to be toggled.
CloseLauncher ==
  /\ Seen("launcher")
  /\ Post("ToggleLauncher")
  /\ helper' = [helper EXCEPT !["launcher"].shown = "apps"]
  /\ UNCHANGED << enabled, theme, saved, refresh, held, guess, loud >>

\* Escape on a settings page that was opened from the launcher.
LeaveSettings ==
  /\ Seen("launcher") /\ helper["launcher"].shown = "settings"
  /\ helper' = [helper EXCEPT !["launcher"].shown = "apps"]
  /\ UNCHANGED << enabled, theme, saved, refresh, held, guess, loud, events >>

\* The settings page of the launcher's document.
ShowSettingsPage ==
  /\ Seen("launcher")
  /\ Post("Refresh")
  /\ helper' = [helper EXCEPT !["launcher"].shown = "settings"]
  /\ UNCHANGED << enabled, theme, saved, refresh, held, guess, loud >>

\* The document shows the theme that was clicked before the shell has agreed.
PickTheme(t) ==
  /\ Seen("launcher") /\ helper["launcher"].shown = "settings"
  /\ Post(t)
  /\ helper' = [helper EXCEPT !["launcher"].theme = t]
  /\ guess' = TRUE
  /\ UNCHANGED << enabled, theme, saved, refresh, held, loud >>

QuickSettingsButton ==
  /\ Seen("quick")
  /\ \E e \in { "ToggleQuickSettings", "OpenSystemSettings" } : Post(e)
  /\ UNCHANGED << enabled, theme, saved, refresh, held, helper, guess, loud >>

ShellStep ==
  \/ ToggleLauncher \/ ToggleQuickSettings \/ OpenSystemSettings \/ Refresh
  \/ \E t \in Themes : AppearanceThemeSet(t)
  \/ ConfigReloaded \/ AfterDispatch

HelperStep(h) == Start(h) \/ ReadLine(h)

Next ==
  \/ ShellStep
  \/ \E h \in Helpers : HelperStep(h) \/ Crash(h)
  \/ AudioChanges
  \/ PanelButton \/ CloseLauncher \/ LeaveSettings \/ ShowSettingsPage \/ QuickSettingsButton
  \/ \E t \in Themes : PickTheme(t) \/ ApplyTheme(t)

Spec == Init /\ [][Next]_vars

\* A helper's main loop runs, and the shell's does.
FairSpec == Spec /\ WF_vars(ShellStep) /\ \A h \in Helpers : WF_vars(HelperStep(h))
-----------------------------------------------------------------------------
(* Properties                                                              *)

\* Every line that was written to h has been acted on.
Drained(h) == /\ held[h] # "none" /\ helper[h].at = "up"
              /\ helper[h].pipe = << >> /\ helper[h].buf = << >>

\* A popup that has acted on all its lines is shown only if the shell believes so, and the
\* launcher exactly then: no toggle, crash, respawn or failed write lets the mirror
\* `visible` of the shell drift from what is on the screen (web_panel.rs:24-34).
MirrorAgrees ==
  \A h \in Popups : Drained(h) =>
    /\ helper[h].shown # "hidden" => held[h] = "visible"
    /\ (h = "launcher" /\ held[h] = "visible") => helper[h].shown # "hidden"

\* While the web panel is in use, a helper that has acted on all its lines shows the
\* shell's theme, whenever it was started and whichever changes it missed (sync_web_theme;
\* the panel is told after the dispatch, and the launcher may show the theme it has just
\* asked for); and the shell is never without a panel, web or native.
ThemesAgree ==
  enabled =>
  /\ \A h \in Helpers :
       (/\ Drained(h)
        /\ h = "panel" => refresh = "none"
        /\ h = "launcher" => ~ guess) => helper[h].theme = theme
  /\ held["panel"] # "none"

\* UI_PLATFORM.md:181: a launcher that is told to show is shown, unless it is told
\* otherwise or ends.
ShowReaches ==
  (held["launcher"] = "visible" /\ Running("launcher"))
    ~> (helper["launcher"].shown # "hidden" \/ held["launcher"] # "visible" \/ ~ Running("launcher"))
=============================================================================
