----------------------------- MODULE ShellPopups -----------------------------
(***************************************************************************)
(* The popups of meridian-shell and the layer surfaces they are drawn on.  *)
(* Every surface exists from start-up and is mapped and unmapped by        *)
(* attaching a buffer or none; network_layer is shared by four popups.     *)
(* Unmapping makes the compositor forget everything about the surface and  *)
(* send a new configure, and a buffer attached before that configure is    *)
(* acknowledged is a protocol error: it ends the shell, which the          *)
(* watchdog then starts again.  What the shell sends is received at once   *)
(* and in order; what the compositor sends waits until the shell reads it. *)
(* A size is a name; contents, margins and keyboard focus are left out,    *)
(* and so are the Web variants of the panel and the launcher.              *)
(***************************************************************************)
EXTENDS Naturals, Sequences

CONSTANTS MaxComing,  \* bound on configures that wait to be read
          MaxNotes,   \* bound on queued notifications
          InUse       \* the sets of surfaces that may be used together

\* The popups that are drawn on network_layer, here "shared".
Tenants  == { "network", "audio", "osd", "sni" }
Modals   == { "consent", "wifi", "region" }
Popups   == Tenants \cup Modals \cup { "launcher", "calendar", "workspace", "thumbnail", "menu" }
Surfaces == (Popups \ Tenants) \cup { "shared", "notification" }

Layer(p) == IF p \in Tenants THEN "shared" ELSE p

VARIABLES used,  \* the surfaces that are used in this behaviour
          ui     \* the shell's popups and the compositor's view of its surfaces

vars == << used, ui >>

NoError == << "none", "none" >>

\* The size a surface is created with.
Base(s) == IF s = "shared" THEN "network" ELSE s

\* A surface after its initial commit: the compositor has answered with a configure.
Created(s) == [mapped |-> FALSE, acked |-> FALSE, asked |-> Base(s), told |-> Base(s),
               coming |-> IF s \in used THEN 1 ELSE 0]

Started == [open |-> {}, notes |-> 0, full |-> FALSE, configured |-> {},
            srf |-> [s \in Surfaces |-> Created(s)], err |-> NoError]

Init == used \in InUse /\ ui = Started
-----------------------------------------------------------------------------
(* What the compositor does with a commit.  "unset" is a size of zero      *)
(* without the anchors that would stretch it.                              *)

Fail(w, why, s) == IF w.err = NoError THEN [w EXCEPT !.err = << why, s >>] ELSE w

\* LayerMap::arrange: a surface whose size changed is sent a configure.
Arrange(w, s) ==
  IF w.srf[s].asked = w.srf[s].told THEN w
  ELSE [w EXCEPT !.srf[s].told = w.srf[s].asked, !.srf[s].coming = @ + 1]

\* A commit that attaches nothing.
Commit(w, s) == IF w.srf[s].asked = "unset" THEN Fail(w, "size", s) ELSE Arrange(w, s)

\* A commit with a buffer.
Attach(w, s) ==
  CASE w.srf[s].asked = "unset" -> Fail(w, "size", s)
    [] ~ w.srf[s].acked /\ w.srf[s].asked # "unset" -> Fail(w, "unacked", s)
    [] OTHER                    -> Arrange([w EXCEPT !.srf[s].mapped = TRUE], s)

\* A commit with a null buffer: a mapped surface starts over.
Detach(w, s) ==
  CASE w.srf[s].asked = "unset" -> Fail(w, "size", s)
    [] ~ w.srf[s].mapped /\ w.srf[s].asked # "unset" -> Arrange(w, s)
    [] OTHER -> [w EXCEPT !.srf[s] = [mapped |-> FALSE, acked |-> FALSE, asked |-> "unset",
                                      told |-> "unset", coming |-> @.coming + 1]]

\* set_size with its anchors; it counts from the next commit.
Ask(w, s, size) == [w EXCEPT !.srf[s].asked = size]
-----------------------------------------------------------------------------
(* Drawing.                                                                *)

Draw(w, p) ==
  IF p \in w.open /\ Layer(p) \in w.configured THEN Attach(w, Layer(p)) ELSE w

DrawLauncher(w)  == Draw(w, "launcher")
DrawCalendar(w)  == Draw(w, "calendar")
DrawWorkspace(w) == Draw(w, "workspace")
DrawNetwork(w)   == Draw(w, "network")
DrawAudio(w)     == Draw(w, "audio")
DrawOsd(w)       == Draw(w, "osd")
DrawSni(w)       == Draw(w, "sni")
DrawThumbnail(w) == Draw(w, "thumbnail")
DrawMenu(w)      == Draw(w, "menu")
DrawConsent(w)   == Draw(w, "consent")
DrawWifi(w)      == Draw(w, "wifi")
DrawRegion(w)    == Draw(w, "region")

\* draw_notification_popup unmaps when there is nothing to show.
DrawNotification(w) ==
  IF w.notes = 0 THEN Detach(w, "notification")
  ELSE IF "notification" \in w.configured THEN Attach(w, "notification") ELSE w
-----------------------------------------------------------------------------
(* Opening and closing.  Each operator is one function of the shell: what  *)
(* it makes of the state w.                                                *)

Opened(w, p) == [w EXCEPT !.open = @ \cup {p}]

\* close_network_popup, close_audio_popup, close_volume_osd, close_status_notifier_menu
CloseTenant(w, p) ==
  [Detach([w EXCEPT !.open = @ \ {p}], "shared") EXCEPT !.configured = @ \ {"shared"}]

\* The popups on a surface of their own stay configured; the modals and the desktop menu
\* set their size once more.
CloseOwn(w, p) ==
  LET shut == [w EXCEPT !.open = @ \ {p}]
  IN  Detach(IF p \in { "menu", "consent", "wifi" } THEN Ask(shut, p, p) ELSE shut, p)

Close(w, p) == CASE p \in w.open \cap Tenants -> CloseTenant(w, p)
                 [] p \in w.open \ Tenants    -> CloseOwn(w, p)
                 [] OTHER                     -> w

\* One after the other, but for the one that is kept.
CloseOthers(w, ps, kept) ==
  LET after[i \in 0..Len(ps)] ==
        IF i = 0 THEN w ELSE Close(after[i - 1], IF ps[i] = kept THEN "nothing" ELSE ps[i])
  IN  after[Len(ps)]

CloseAll(w, ps) == CloseOthers(w, ps, "nothing")

\* Mutant: nothing closes the audio popup.
OpenLauncherOverAudio(w) ==
  LET shut == CloseAll(w, << "calendar", "workspace", "network" >>)
      full == Ask([shut EXCEPT !.full = TRUE, !.configured = @ \ {"launcher"}], "launcher", "full")
  IN  Commit(Opened(full, "launcher"), "launcher")

\* toggle_launcher when it is closed: full screen, and drawn with the next configure.
OpenLauncher(w) ==
  LET shut == CloseAll(w, << "calendar", "workspace", "network", "audio" >>)
      full == Ask([shut EXCEPT !.full = TRUE, !.configured = @ \ {"launcher"}], "launcher", "full")
  IN  Commit(Opened(full, "launcher"), "launcher")

\* toggle_launcher when it is open: the caller unmaps.
HideLauncher(w) == [w EXCEPT !.open = @ \ {"launcher"}, !.full = FALSE]

PanelTogglesLauncher(w) ==
  IF "launcher" \in w.open THEN Detach(HideLauncher(w), "launcher")
  ELSE DrawLauncher(OpenLauncher(w))

ToggleCalendar(w) ==
  IF "calendar" \in w.open THEN Close(w, "calendar")
  ELSE Ask(Opened(CloseAll(w, << "network", "workspace", "launcher" >>), "calendar"),
           "calendar", "calendar")

ToggleWorkspace(w) ==
  IF "workspace" \in w.open THEN Close(w, "workspace")
  ELSE Ask(Opened(CloseAll(w, << "launcher", "calendar", "network" >>), "workspace"),
           "workspace", "workspace")

\* A popup on the shared layer asks for its size; unless the layer is configured, a
\* commit makes the compositor answer.
Tenancy(w, p) ==
  LET asked == Ask(Opened(w, p), "shared", p)
  IN  IF "shared" \in w.configured THEN asked ELSE Commit(asked, "shared")

\* Mutant: it waits for a configure that only a change of size would bring.
ToggleNetworkWaits(w) ==
  IF "network" \in w.open THEN Close(w, "network")
  ELSE Tenancy([CloseAll(w, << "osd", "launcher", "calendar", "workspace", "audio" >>)
                  EXCEPT !.configured = @ \ {"shared"}], "network")

ToggleNetwork(w) ==
  IF "network" \in w.open THEN Close(w, "network")
  ELSE Tenancy(CloseAll(w, << "osd", "launcher", "calendar", "workspace", "audio" >>), "network")

ToggleAudio(w) ==
  IF "audio" \in w.open THEN Close(w, "audio")
  ELSE Tenancy(CloseAll(w, << "osd", "launcher", "calendar", "workspace", "network" >>), "audio")

\* show_volume_osd, show_power_profile_osd
ShowOsd(w) ==
  LET shut == CloseAll(w, << "audio", "network" >>)
  IN  DrawOsd(IF "osd" \in w.open THEN shut ELSE Tenancy(shut, "osd"))

OpenSniMenu(w) ==
  DrawSni(Tenancy(CloseAll(w, << "launcher", "calendar", "workspace", "network", "audio" >>), "sni"))

\* open_settings_category, open_sound_settings_from_tray, open_network_settings_from_tray
OpenSettings(w) ==
  LET shut == CloseAll(w, << "calendar", "workspace", "network", "audio" >>)
  IN  DrawLauncher(IF "launcher" \in w.open THEN shut ELSE OpenLauncher(shut))

OpenWifiModal(w) == DrawWifi(Ask(Opened(Close(w, "network"), "wifi"), "wifi", "wifi"))

OpenRegionPicker(w) == Ask(Opened(w, "region"), "region", "region")
-----------------------------------------------------------------------------
(* The configures the shell reads: they are acknowledged first.            *)

\* Whose turn it is on network_layer.
Shown(w) == IF "sni" \in w.open THEN "sni"
            ELSE IF "osd" \in w.open THEN "osd"
            ELSE IF "audio" \in w.open THEN "audio" ELSE "network"

\* The size the shell sets again, by surface.
Reasserted(w, s) ==
  CASE s = "launcher"  -> IF w.full THEN "full" ELSE "launcher"
    [] s = "shared"    -> IF Shown(w) = "sni" THEN "sni padded" ELSE Shown(w)
    [] s = "thumbnail" -> w.srf[s].asked
    [] OTHER           -> s

DrawShared(w) == CASE Shown(w) = "sni"     -> DrawSni(w)
                   [] Shown(w) = "osd"     -> DrawOsd(w)
                   [] Shown(w) = "audio"   -> DrawAudio(w)
                   [] Shown(w) = "network" -> DrawNetwork(w)

DrawOn(w, s) == CASE s = "shared"       -> DrawShared(w)
                  [] s = "notification" -> DrawNotification(w)
                  [] OTHER              -> Draw(w, s)

Configured(w, s) ==
  LET read == [w EXCEPT !.srf[s].coming = @ - 1, !.srf[s].acked = TRUE,
                        !.configured = @ \cup {s}]
  IN  DrawOn(Ask(read, s, Reasserted(w, s)), s)

Configure(s) == /\ ui.err = NoError /\ ui.srf[s].coming > 0
                /\ ui' = Configured(ui, s)
                /\ UNCHANGED used
-----------------------------------------------------------------------------
(* The other events of the shell's loop.                                   *)

\* The shell handles an event on a surface in use; the bound on configures is respected.
Event(s, w) == /\ ui.err = NoError
               /\ s \in used
               /\ \A q \in used : ui.srf[q].coming < MaxComing
               /\ ui' = w
               /\ UNCHANGED used

\* A press anywhere but on a popup closes what is open, the calendar excepted, before
\* what was pressed is handled; the zone that toggles a popup leaves it to the toggle.
Pressed(w, kept) ==
  CloseOthers(w, << "workspace", "network", "audio", "sni", "launcher" >>, kept)

\* handle_panel_click
PanelClick(w, p) ==
  LET shut == CloseOthers(Pressed(w, p), << "calendar", "workspace", "network", "audio" >>, p)
  IN  CASE p = "launcher"  -> PanelTogglesLauncher(shut)
        [] p = "workspace" -> DrawWorkspace(ToggleWorkspace(shut))
        [] p = "network"   -> DrawNetwork(ToggleNetwork(shut))
        [] p = "audio"     -> DrawAudio(ToggleAudio(shut))
        [] p = "calendar"  -> DrawCalendar(ToggleCalendar(shut))
        [] p = "osd"       -> ShowOsd(shut)
        [] p = "region"    -> IF "region" \in w.open THEN shut
                              ELSE DrawRegion(OpenRegionPicker(shut))

ClickPanel(p) == Event(Layer(p), PanelClick(ui, p))

\* A press on the desktop or beside the zones of the panel.
ClickElsewhere == /\ ui.open # {}
                  /\ \E s \in used : Event(s, Pressed(ui, "nothing"))

\* A press on the launcher's card that starts something, or beside the card.
ClickLauncher == "launcher" \in ui.open /\ Event("launcher", Close(ui, "launcher"))

\* A switch in the workspace popup.
ClickWorkspace == "workspace" \in ui.open /\ Event("workspace", Close(ui, "workspace"))

\* A press on the shared layer, for the first of its tenants in the pointer's order; the
\* OSD takes the press for its slider.
ClickShared ==
  LET w == CloseAll(ui, << "workspace", "launcher" >>)
  IN  /\ ui.srf["shared"].mapped /\ "osd" \notin ui.open
      /\ CASE "sni" \in ui.open -> Event("shared", Close(w, "sni"))
           [] "audio" \in ui.open /\ "sni" \notin ui.open ->
                \/ Event("shared", Close(w, "audio"))
                \/ Event("launcher", OpenSettings(Close(w, "audio")))
           [] "network" \in ui.open /\ ui.open \cap { "sni", "audio" } = {} ->
                \/ Event("shared", Close(w, "network"))
                \/ Event("launcher", OpenSettings(Close(w, "network")))
                \/ Event("wifi", OpenWifiModal(w))
           [] OTHER -> FALSE

\* press_key: Escape goes to the first popup in this order that is open.
EscapeOrder == << "region", "consent", "wifi", "menu", "network", "audio", "workspace",
                  "calendar", "launcher" >>

Escape ==
  \E i \in DOMAIN EscapeOrder :
    /\ EscapeOrder[i] \in ui.open
    /\ \A j \in DOMAIN EscapeOrder : j < i => EscapeOrder[j] \notin ui.open
    /\ Event(Layer(EscapeOrder[i]), Close(ui, EscapeOrder[i]))

\* Both buttons of a modal close it.
ClickModal(p) == p \in ui.open /\ Event(p, Close(ui, p))

\* An entry of the desktop menu, or a press with the other button.
ClickMenu == /\ "menu" \in ui.open
             /\ \/ Event("menu", Close(ui, "menu"))
                \/ "launcher" \notin ui.open /\ Event("launcher", PanelTogglesLauncher(
                     CloseAll(ui, << "menu", "calendar", "workspace", "network", "audio" >>)))
                \/ Event("launcher", OpenSettings(Close(ui, "menu")))

\* redraw_after_ipc; "dirty" is launcher_dirty.
Redrawn(w, dirty) ==
  LET launcher == CASE "launcher" \in w.open -> DrawLauncher(w)
                    [] dirty /\ "launcher" \notin w.open -> Detach(w, "launcher")
                    [] OTHER -> w
  IN  DrawRegion(DrawConsent(DrawMenu(DrawWorkspace(launcher))))

IpcToggleLauncher ==
  Event("launcher", Redrawn(IF "launcher" \in ui.open THEN HideLauncher(ui) ELSE OpenLauncher(ui), TRUE))

IpcConfigReloaded == Event("launcher", Redrawn(ui, TRUE))

IpcVolume == Event("shared", Redrawn(ShowOsd(ui), FALSE))

IpcContextMenu == Event("menu", Redrawn(Ask(Opened(ui, "menu"), "menu", "menu"), FALSE))

\* The debounce after opening may swallow the close.
IpcFocusChanged == Event("menu", Redrawn(Close(ui, "menu"), FALSE))

IpcConsentRequest == Event("consent", Redrawn(Ask(Opened(ui, "consent"), "consent", "consent"), FALSE))

IpcRegionRequest == Event("region", Redrawn(OpenRegionPicker(ui), FALSE))

SniMenuLayout == Event("shared", OpenSniMenu(ui))

OsdExpires == "osd" \in ui.open /\ Event("shared", Close(ui, "osd"))

ClockTick == Event("calendar", DrawCalendar(ui))

Notify == ui.notes < MaxNotes
          /\ Event("notification", DrawNotification([ui EXCEPT !.notes = @ + 1]))

\* The id may have expired already.
CloseNotification ==
  \E n \in { ui.notes, ui.notes - 1 } \cap Nat :
    Event("notification", DrawNotification([ui EXCEPT !.notes = n]))

NotificationExpires ==
  ui.notes > 0 /\ Event("notification", DrawNotification([ui EXCEPT !.notes = @ - 1]))

\* The pointer rests on a pinned app, and leaves it.
HoverOpens  == /\ "thumbnail" \notin ui.open
               /\ Event("thumbnail", DrawThumbnail(Ask(Opened(ui, "thumbnail"), "thumbnail", "thumbnail")))
HoverLeaves == "thumbnail" \in ui.open /\ Event("thumbnail", Close(ui, "thumbnail"))

\* The watchdog starts the shell again.
Restart == ui.err # NoError /\ ui' = Started /\ UNCHANGED used

Input == \/ \E p \in { "launcher", "workspace", "network", "audio", "calendar", "osd", "region" } :
              ClickPanel(p)
         \/ ClickElsewhere \/ ClickLauncher \/ ClickWorkspace \/ ClickShared \/ ClickMenu \/ Escape
         \/ \E p \in Modals \ {"region"} : ClickModal(p)
         \/ HoverOpens \/ HoverLeaves

Ipc == \/ IpcToggleLauncher \/ IpcConfigReloaded \/ IpcVolume \/ IpcContextMenu
       \/ IpcFocusChanged \/ IpcConsentRequest \/ IpcRegionRequest

Other == SniMenuLayout \/ OsdExpires \/ ClockTick \/ Notify \/ CloseNotification \/ NotificationExpires

Next == Input \/ Ipc \/ Other \/ Restart \/ \E s \in Surfaces : Configure(s)

Spec == Init /\ [][Next]_vars

\* The connection delivers and the shell's loop reads what it delivers.
FairSpec == Spec /\ \A s \in Surfaces : WF_vars(Configure(s))
-----------------------------------------------------------------------------
(* What holds.                                                             *)

TypeOK ==
  /\ used \in InUse
  /\ ui.open \subseteq Popups /\ ui.notes \in 0..MaxNotes /\ ui.full \in BOOLEAN
  /\ ui.configured \subseteq Surfaces
  /\ ui.srf \in [Surfaces -> [mapped: BOOLEAN, acked: BOOLEAN,
                              asked: Popups \cup Surfaces \cup {"full", "sni padded", "unset"},
                              told: Popups \cup Surfaces \cup {"full", "sni padded", "unset"},
                              coming: 0..MaxComing + 2]]
  /\ ui.err \in {NoError} \cup ({ "size", "unacked" } \X Surfaces)

\* However the panel, the keyboard and IPC open them, of the launcher, the calendar, the
\* workspace, network and audio popups one at most is open: each opener closes others,
\* and no two close the same ones.
OnePopup == \A p, q \in { "launcher", "calendar", "workspace", "network", "audio" } \cap ui.open : p = q

\* On the layer that four popups share no buffer is attached before the configure that
\* follows an unmap, whichever popup left it and whichever takes it over.
SharedWaits == ui.err # << "unacked", "shared" >>

\* Something is open that is drawn on the surface.
Wanted(s) == IF s = "notification" THEN ui.notes > 0 ELSE \E p \in ui.open : Layer(p) = s

\* No surface shows a popup that is closed.
NoGhost == \A s \in Surfaces : ui.srf[s].mapped => Wanted(s)

\* A surface with an open popup shows it (or the popup is closed again, or the shell
\* ends): none waits for a configure that the compositor has no reason to send.  The
\* launcher is not in this.
OpenIsShown == \A s \in Surfaces \ { "launcher", "notification" } :
  Wanted(s) ~> \/ ~ Wanted(s) \/ ui.srf[s].mapped \/ ui.err # NoError

\* The same of the launcher (wayland/handlers/layer.rs:231: "so reopen cycles keep a valid
\* stretched layer").
LauncherIsShown ==
  Wanted("launcher") ~>
    \/ ~ Wanted("launcher") \/ ui.srf["launcher"].mapped \/ ui.err # NoError

=============================================================================
