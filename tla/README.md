# Meridian: a verification project

TLA+ models of the stateful core of Meridian Desktop, a Wayland compositor with its
shell, login, lock, portal and polkit programs. Each model is translated from the
Rust source; `PROJECT.json` ties every definition to the lines it stands for.

- TLC checks small instances of the models (`MC*.tla`, `*.cfg`).
- TLAPS checks the proofs in `*Proofs.tla`, which hold for every value of the
  constants.

Run `tlc -config MCDesktop.cfg MCDesktop` (the table under *Runs* has the others) or
`tlapm PolkitAgentProofs.tla` in this directory. Below, `compositor/`
is `src/crates/meridian-compositor/src/` and `shell/` is
`src/crates/meridian-shell/src/`.

## Inventory

| Part | State it keeps | Operations | Talks to | Modelled |
|---|---|---|---|---|
| Output registry, layout resolver | ordered entries (id, name, primary), id counter | upsert, remove, re-flag, resolve a configuration | every output path | `OutputRegistry` |
| Output lifecycle | Wayland outputs, DRM outputs, disabled outputs, configuration | start-up, connector scan, add, remove, reload | kernel (hotplug), config file, shell (snapshots) | `OutputLifecycle` |
| Workspace mapping, focus | workspace of each output, focused output, global workspace | sync after each change, focus, switch | input, registry | `OutputLifecycle` |
| Session lock | phase, targets still owed a frame, pending confirmation, lock surfaces | lock, unlock, confirm | lock clients, repaint loop, outputs | `SessionLock`, `ScreenLock` |
| DRM repaint loop | dirty flags, frame in flight, idle blanking | timer tick, idle callback, page flip, damage, wake | kernel (page flips), lock | `OutputFrames`, `SessionLock` |
| Output power | mode per output name | set_mode, forget on removal | clients, repaint loop | `SessionLock` |
| Polkit agent | pending calls, active request, popup, helper threads, two channels | begin, cancel, key input, helper result | polkitd, helper processes | `PolkitAgent` |
| IPC server, screenshots, portal | clients and roles, write buffers, requests held for a question, capture queue | accept, dispatch, broadcast, drop, ask, capture, answer, time out | shell, portal, repaint loop | `ShellBridge` |
| Workspaces and windows | spaces, focus, hidden windows, remembered geometry, drag | map, withdraw, maximise, minimise, move, switch, drag | clients, XWayland, shell's list | `Desktop` |
| Tiling tree | tree of splits, focused leaf, next split | open, leave, resize, force a split, toggle | windows | `Tiling`, `TileList` |
| Interactive resize | grab, pacer, per-surface phase, preview | motion, release, tick, commit | client | `ResizeGrab` |
| Keyboard | device queue, pressed keys, shortcuts, focus | read a batch, key, reload, focus change | clients, config file | `Keyboard` |
| Login greeter | splash hand-over, form, PAM workers, probe, compositor, display | type, submit, answer, launch, hand over, leave | PAM, splash, compositor | `Greeter` |
| Lock client | outputs and surfaces, field, PAM thread | events, check, render | compositor, PAM | `LockClient` |
| Shell: popups and layer surfaces | what is open, configured, mapped; shared surface | open, close, configure, draw | compositor | `ShellPopups` |
| Shell: web helpers | processes, mirror of what is shown, theme | spawn, line, request, crash, reload | UI runtime, compositor | `WebHelpers` |
| Shell: native launcher | list, icons, selection, context menu; power buttons; settings pages | open, rescan, warm, click, type, arm | worker threads, tools | `Launcher`, `PowerButtons`, `SettingsPages`, `DefaultApps` |
| Display settings | page, section of the file, mode of the output | pick, rotate, scale, edit, reload, snapshot | compositor, DRM driver | `DisplaySettings` |
| Shell: network, tray, notifications | lists, prompt, menus, queue of cards | poll, click, type, answer, expire | nmcli/ifconfig, D-Bus | `Network`, `Tray`, `Notifications` |
| Configuration | text of `config.toml`, what each program runs with | save, edit, reload | shell, compositor, user | `ConfigFile` |
| Shell watchdog, idle inhibitors | a time stamp; a list of surfaces | restart; add, remove | shell; clients | as free choices in `ShellBridge`, `SessionLock` |
| Decoration, cursor, wallpaper, themes, UI toolkit, winit backend | mostly pictures | – | – | no |
| XWayland | X11 windows | – | – | external; X11 windows in `Desktop` |
| Vendored smithay | protocol objects | – | – | lock objects in `SessionLock`, commits of layer surfaces in `ShellPopups` |

The compositor is one thread: a calloop loop runs one callback at a time (a Wayland
request, a timer, a udev event, a page flip). What makes it hard is not data races but
the order of callbacks, the handlers inside one callback (each ends by broadcasting a
snapshot, so half-done states are visible), hardware that changes in between, and
clients that die at any point. The shell is one loop too, but talks to threads: workers
that scan, decode and call tools, a D-Bus thread per daemon, helper processes. Their
answers arrive when the state they were asked for has changed. The polkit agent, the
greeter and the lock client have authentication threads.

What correctness means:

- *outputs*: identities are unique over time, the shell is told only of outputs that
  are driven, no connector is tracked twice;
- *workspaces*: each registered output shows one workspace and keeps it while others
  come and go; focus never dangles and never jumps on its own;
- *session lock*: a lock is confirmed exactly when each output drew it or left, at most
  one client is told it holds the lock, and only an unlock request opens the session;
- *repaint loop*: no wakeup is lost, however frames fail; *power*: no request takes the
  last output that is on;
- *polkit agent*: no dialog outlives its call, no call hangs, late results never count
  for another request;
- *control socket*: every request is held in one place until it is answered, what was
  not allowed is never photographed, and the shell comes to show the workspace that is;
- *windows*: no window is lost, the keyboard is with a window that is shown;
- *tiling*: the tiles lie inside the work area and apart, and keep their order;
- *greeter*: whoever authenticated is logged in, each way out leaves the display free;
- *shell*: a click takes what was drawn, a popup that is open comes to be shown, nothing
  is confirmed, typed or answered for something else, and mirrors agree with what they
  mirror once everything under way has arrived;
- *configuration*: saving one thing leaves the others.

## Modules

```
OutputRegistry <- OutputLifecycle <- MCOutputLifecycle <- MCLayoutParts
                        ^                                      |
              OutputLifecycleProofs                          Tiling --implements--> TileList

OutputFrames <- SessionLock <- MCSessionLock <- MCSessionParts -> LockClient, ResizeGrab, Keyboard
                     \                           ^
                      implements ScreenLock      MCSessionPartsProofs

MCAgentAndLock -> PolkitAgent, SessionLock    (the parts with a fairness of their own)

PolkitAgent              Desktop <- MCDesktop     ShellBridge <- MCShellBridge
     ^                      ^                         ^
PolkitAgentProofs     DesktopProofs            ShellBridgeProofs

MCFairParts  -> ShellPopups, Greeter, Notifications    (MCFairPartsProofs)
MCShellParts -> WebHelpers, Launcher, PowerButtons, SettingsPages (four times), DisplaySettings,
                Network (twice), DefaultApps, ConfigFile, Tray   (MCShellPartsProofs)
```

`LoopInduction` has the induction over the passes of a loop that the proof modules share.

Components that do not touch each other's state are checked side by side: a `...Parts`
module instantiates each, a variable `part` says which one the behaviour is about, and
the variables of the others stay where they are. The state space is the sum of theirs,
not the product, and each keeps its own properties (`part = "tray" => ...`). Components
that do interact are in one module: the lock with the repaint loop, the socket with
shell, portal and capture, the configuration file with its three users.

### OutputRegistry, OutputLifecycle

`OutputRegistry` has the pure functions: `OutputRegistry::upsert`, `remove_by_*`,
`ensure_primary_after_mutation`, the resolver `OutputLayout::resolve`, and the
reconciliation `sync_outputs_with_workspace_state`. A registry is a sequence because
order decides: the first entry is the fallback when no entry is primary.

`OutputLifecycle` has one action per handler. The variable `work` holds the handlers the
running callback has left: a scan queues additions and removals, a reload one step per
output. So TLC sees each state the shell is told of, and hardware changes (`Plug`,
`Unplug`) fall between the steps.

| Action | Code |
|---|---|
| `BootOutput`, `BootPrimaries` | `init_drm` |
| `ScanConnectors`, `AddOutput`, `AddOutputSkipped`, `RemoveOutput`, `RemoveDisabled` | `backend/drm/init/hotplug.rs` |
| `ReloadConfig`, `ApplyPrimary`, `ApplyDisable`, `ApplyEnable`, `ApplyEnableSkipped`, `FinishReload` | `reload_config`, `reapply_output_layout`, `build_and_register_disabled_output` |
| `FocusOutput`, `SwitchWorkspace` | `state/layout/workspace.rs` |

Each early return or failure of a handler is in a `...Skipped` action. Names `drm-<n>`
are the number `n`, because hotplug computes them from a count; `NoName` (99) stands for
"no output named". Geometry is left out, scale and modes are in `DisplaySettings`. Every
connector can be driven by every CRTC. `order` is a history: it says whether displays so far came and left as with
a docking station (in order, one change at a time) and no configuration disabled one.

### OutputFrames, SessionLock, ScreenLock

`OutputFrames` keeps, for each output, what the screen shows and what is in flight, by
kind: session, lock scene, black, nothing. `Pass` is the second half of
`render_outputs_for_crtc`, in which each composed output ends as queued, empty (the
damage tracker found nothing new) or failed. `SessionLock` has the callbacks. `Settle`
is `record_pending_frame` / `forget_pending_target` with the confirmation that follows.
`Scene` is the choice made by `compose_output_scene`.

`ScreenLock` says what a lock client may rely on and nothing about frames: requests are
answered once, one lock is held, only an unlock request opens the session. `SessionLock`
implements it (`Implements`): `session` is the phase, `answer` is what each lock object
was told.

A lock object may be unlocked in any state. One that was not told `locked` is in error and
its client is disconnected (`expelled`), but smithay calls the compositor's `unlock` all the
same (`session_lock/lock.rs:110-118`) and that asks nothing
(`handlers/session_lock.rs:49-56`), so the session opens: who held the lock is `ousted`, who
waited is refused. The promise of `ScreenLock` is therefore about requests to unlock, from
whomever, and not about the holder.

Abstractions: output names are distinct and each output has its own CRTC (`DockAgrees` says
when that holds); lock surfaces and the keyboard focus on them are left out, as the lock
scene is dark with or without a surface; motion of the pointer is `Damage`;
`repaint_idle_scheduled` is left out, an idle repaint may happen at any time. An empty
frame is possible only when the screen already shows the same kind of frame, or both are
black to the session.

### PolkitAgent

One variable per piece of state of the three kinds of thread, two sequences for the
channels. `BeginAuthentication` is the call up to its `select!` and `ReturnCall` the rest,
so that cancellation can come between. `OnAuthRequest`, `OnCancel` and `OnPamResult` are
the UI handlers. A cookie stands for the request; polkitd never uses one twice. A password
is empty or not. `HelperEnds` stands for a whole run of `polkit-agent-helper-1`: SUCCESS
implies that it called Response on polkitd; a helper that is killed after 60 silent
seconds, or answers FAILURE to us, may have called it too.

### ShellBridge

The control socket with everyone on it. `Server` is the compositor's part of the state as a record, and
`PollIpc` one step, as `poll_ipc` is one callback: it accepts, reads each client's lines
in the order of the list, dispatches them, and drops who failed. `Each` is a loop of the
callback over a list, `Serve` the bodies of its loops. A socket holds `SockCap`
messages; a write to a full one drops the client, as `WouldBlock` does. The shell
(`ShellStep`) connects with back-off, greets, reads, answers questions and may die between
any two steps; the watchdog starts it again. Each portal request (`PortalStep`) has a
connection, waits for its answer and gives up after `READ_IDLE_TIMEOUT`. `Capture` is the
part of the render pass that answers. A pass picks whether the pointer is grabbed; while it
is, `switch_workspace` does nothing and says nothing, and `ignored` remembers which
connection asked. Consent may be withheld (`DevCapture = FALSE`), so a
request is held for the user, then for a region, then for a frame.

### Desktop

Windows of one output over the workspaces. `space` says which windows are mapped where,
`minimized`, `maximized`, `snapped` and `halfRestore` are the compositor's bookkeeping, `list` and
`shellFocus` what the shell keeps of the compositor's events. Handlers of xdg and X11 windows are separate
actions, because they differ: an X11 window maps and unmaps, asks for its own state, and
its `destroyed` event may come without an `unmapped` one. `Press`, `PressFrame`,
`DragMotion` and `Release` are the pointer with the move grab: dragging restores a
maximised window, edges snap it. Geometry is what is remembered of it.

### Tiling, TileList

`Tiling` is the tree of `meridian-wm` (insert at the focused leaf, remove and collapse,
resize by ratio, rectangles by rounding down) with the compositor's calls: windows get a
leaf when they open, lose it at the next `tile_workspace`, are placed on commit. The
operators are recursive, as the code is. `TileList` is what a user may rely on: the tiles
are a list, new windows come behind the focused one, a window keeps its place while it is
shown, and only toggling orders anew. `Tiling` implements it.

### ResizeGrab

One axis of an interactive resize: pointer, pacer (one configure per tick), per-surface
phase (`Idle`, `Active`, `WaitingForLastCommit`), commit handler and a client that answers
configures late and may draw a frame of its own in between. Positions are small integers.

### Keyboard

From the OpenBSD device (`QueueSize` events, lost beyond it, read in batches) to the
focused client: press and release bookkeeping, shortcuts that are intercepted, focus that
changes in a shortcut, reload of the bindings, console switches that drop keys. Bindings
are parsed and normalised as `config.toml` spells them.

### Greeter

`meridian-login` from splash to end of session: three processes (splash, greeter,
compositor), the form's loop, one worker thread per attempt which keeps its PAM session
open, the security-key probe, the power buttons, the hand-over protocol with its
deadlines, and every way a step fails. The display is a DRM master and a picture.

### LockClient

The loop of `meridian-lock`: result of the PAM thread, drawing, one event. An event is a
record; outputs come and go, surfaces are configured, keys edit the field.

### ShellPopups

Every layer surface of the shell, with the four popups that share one. What the
compositor sends waits in `coming`; a buffer on a surface whose configure was not
acknowledged is a protocol error and ends the shell. Operators on the record `ui` are the
shell's functions (`ToggleLauncher`, `CloseSecondary`, ...), actions are the inputs, IPC
requests and timers that call them.

### WebHelpers, Launcher, PowerButtons, SettingsPages, DefaultApps

- `WebHelpers`: the process per web surface, lines on its stdin, its requests that come
  back through the compositor, theme reloads, helpers that crash and are restarted.
- `Launcher`: two workers (scan, icons) against opening, typing, selection and menu; what
  is drawn is kept beside what is current.
- `PowerButtons`: arm, confirm, time out, and what disarms.
- `SettingsPages`: rows are indices into lists that the system changes; clicks, drags and
  the redraws in between. Instantiated four times: for the network page, the pages of
  devices, theme and wallpaper, and the pinned programs.
- `DefaultApps`: one thread per pick and one that fills what is empty. A query answers the
  default or, when the tool fails, nothing; `missed` is a history of the latter.

### DisplaySettings

One output as the settings page, its section of `config.toml`, the registry and the DRM
compositor know it. `Select` is the choice of a mode (`mode_selection.rs`): the mode asked
for by size and refresh, else environment variables, else the preferred size. Clicks write
the section and ask for a reload, which compares it with the section before; a snapshot,
sent for other reasons, tells the page what holds.

### Network, Tray, Notifications

- `Network`: the kind of connection and the Wi-Fi list as both back ends give them (devices
  have a type and an address, each back end classes and filters them in its own way), the
  popup, the password modal and for which network each character was typed.
- `Tray`: watcher thread, registration tasks, menus fetched by threads, the main loop.
- `Notifications`: the D-Bus thread that answers before anything is shown, the queue, the
  expiry timer.

### ConfigFile

The text of `config.toml` as a sequence of sections. The operators on it are the
functions of `meridian-config` that edit text; `Parsed` is what the parser makes of it, with
the defaults. Shell, user and compositor write and read in any order; a reload is a
message, so that it can be late. Each save reads the file first; a read that fails is taken
for an empty file (`Readings`).

## Runs

| Run | Module, configuration | Shows |
|---|---|---|
| `lifecycle` | `MCLayoutParts` | mapping, focus and single tracking in every interleaving of hotplug and reloads; as long as displays come and leave as with a docking station all lists agree, names included, and the configured output is primary; tiles fit, keep their order and grow when told to |
| `session_lock` | `MCSessionParts` | bookkeeping and coverage of the lock, refinement of `ScreenLock`; the lock screen shows its state, checks what was typed and draws nothing unconfigured; a held edge stays and the window ends at the asked size; clients hold the keys that are down |
| `agent_lock` | `MCAgentAndLock` | polkit: no call is lost, success is the helper's, cancelled dialogs go away, requests are decided; lock: a pending lock settles, screens get covered |
| `desktop` | `MCDesktop` | no window is lost, the keyboard follows what is shown, only a drag duplicates |
| `shell_bridge` | `MCShellBridge` | requests are conserved, only what was allowed is captured, the shell comes to show the compositor's workspace |
| `shell_parts` | `MCShellParts` | mirrors, clicks, display modes, passwords, saves (thirteen parts) |
| `fair_parts` | `MCFairParts` | popups are shown and are closed, the greeter decides, hands over and cleans up, the card is of a queued notification and those with a time-out expire |
| `greeter_user`, `launcher_stuck`, `resize_anchor`, `config_theme`, `notification_front` | `MCGreeter`, `MCShellPopups`, `ResizeGrab`, `MCConfigFile`, `Notifications` | findings, see below |

Properties that say "comes to" without being temporal (`ViewFollows`, `AllFollow`,
`SettlesOnTarget`, `IconsSettle`, `TraySettles`, `ThemesAgree`) are invariants about the
states in which nothing is under way any more: no event, message or thread is left that
could still repair a difference.

### Bounds, and why they are enough

- *Outputs*: three connectors give two that change while a third stays, and two CRTCs make
  the CRTC run out. Three ids allow an output to leave and return beside another. The
  configurations say nothing, set the primary output by hand, or turn off the first output,
  which may be the only one.
- *Lock*: two outputs are enough for one to draw while the other leaves, two lock objects
  for a lock to be refused, orphaned, unlocked by another and asked for anew; one in the
  liveness run, as `MCSessionPartsProofs` covers any number for the safety. One frame fails (`MaxFaults`).
- *Polkit*: two requests, so that one is declined while the other is shown and a late
  result of the first meets the second; two attempts at a time.
- *Socket*: two portal requests, two shell connections (a shell that reconnects while the
  server still has the old one), two workspaces. With `SockCap` 1 the greeting alone
  fills a socket and no question ever arrives; 2 lets questions through and still
  overflows.
- *Desktop*: one xdg and one X11 window and two workspaces: a window hidden, elsewhere or
  in two places while the other has the focus.
- *Tiling*: three windows make a split of a split; the area is 808 × 608, so that ten
  per cent of a tile of a tile is still wider than the gap. Smaller areas overlap, see
  below.
- *Resize*: motions of 1, two drags of two motions, one frame of the client's own: a
  second drag begins while the first is unanswered.
- *Keyboard*: four keys, two clients, a device queue of 3 read two at a time, three
  strokes and two turns of the world: a shortcut whose key is still held when the focus
  or the bindings change, and a queue that overflows.
- *Greeter*: two users and two attempts; the second is started while the first is told
  of. *Lock client*: two outputs, a one-letter password, one event waiting.
- *Popups*: groups of surfaces that close one another or share a surface, three
  configures waiting. *Web helpers*: one event and one line waiting at each end.
  *Display*: three modes of which two have the same size, one fault.
  *Launcher*, *settings*, *network*, *tray*, *defaults*: two of each thing, one or two
  changes of the world under the user's hand, which is what it takes for an index to name
  something else.
  *Network*: of two devices at most one is without an IPv4 address, which is what it takes
  for a back end to count one and not the other.
- *Configuration*: two saves and one edit, over texts with each of: no section, all
  sections, a header the writer does not recognise, a section twice.
- *Notifications*: two calls, so that one replaces or covers the other.

Every bound is a guard of the action it limits and no property depends on reaching it.
Symmetry is used only in safety runs, over things the modules tell apart by identity
only (lock objects, outputs, requests, connections, tiled windows).

Deadlock is checked except in `shell_bridge`, where the compositor may quit, and in runs of
findings, which end. In `agent_lock` a step that changes nothing stands for an agent that
waits with all requests done.

## Fairness

- *Session lock*: the repaint timer re-arms itself at each tick
  (`event_sources.rs:81-134`), so `RepaintTick` is weakly fair; the kernel completes
  each queued flip, so `VBlank` is. Nothing is assumed of clients, users or hotplug.
  Failed frames are bounded by `MaxFaults`: a device that fails for ever shows nothing.
  `PendingSettles` and `ScreensCovered` exempt outputs that are powered off: the code
  skips them, so a target that is off keeps the lock pending.
- *Polkit agent*: both event loops keep running and a helper ends. The idle time limit
  of 60 s ends a silent helper; one that talks for ever without a result is assumed away.
  Nothing is assumed of the user or of polkitd.
- *Popups*: the connection delivers a configure and the shell's loop reads it. Nothing is
  assumed of the user; a popup that is closed again need not be shown.
- *Greeter*: PAM ends each attempt, each worker and the two loops of `main` go on, the
  socket comes to be bound. Nothing is assumed of the user or of the compositor, which may
  hang (the deadlines of the hand-over are steps of `Waiting`).
- *Notifications*: the timer and the main loop run and time passes. Nothing is assumed of
  the senders.

A `...Parts` run keeps the fairness of each component on that component's own steps
(`MCFairParts!Fairness`), under its own `part`.

## Proofs

All theorems are unbounded in the size of the constants. They assume only the named
assumptions of the modules (`LifecycleAssumption`, `FramesAssumption`, `LocksAssumption`,
`AgentAssumption`, `WindowsAssumption`, `BridgeAssumption`, `PartsAssumption`,
`SessionPartsAssumption`, and of `MCShellParts` `ButtonsAssumption`, `AppsAssumption`,
`IconsAssumption`, `SSIDsAssumption`, `OutputsAssumption`, `TextsAssumption`,
`ModesAssumption`, `SectionsAssumption`), each evaluated by TLC in the runs of its module.
They type the bounds, keep the special values apart from the sets, and say of workspaces
that they are numbers and that there is a first one.

- *Output lifecycle.* `IInv` is `RegistryCore` (types of the registry, mapping and focus
  together with `RegistryIdentity`, `MappingMatchesRegistry`, `FocusIsRegistered`) and
  `BackendTyped`. The core is inductive as a whole only: that `SyncedFocus` yields a
  registered output needs the mapping's domain to be typed, a fresh id needs all ids
  below the counter, and the handlers' `work` must be typed for the steps taken from it.
  The module begins with lemmas about upsert, removal and resolution. From `IInv`
  follow the theorems `Typing`, `Identities`, `Mappings`, `Focus`, and the action
  properties `FreshIds`, `Stability`, `SteadyFocus`.

  `TInv` adds what is queued, on which `ConnectorTrackedOnce` and `RegisteredIsDriven`
  depend. `OneCallback`: the work list is of start-up, of one scan or of one reload, so
  that no addition of a scan meets a step of a reload. `AddWork`: additions come first,
  and their connectors are neither tracked nor about to be removed. `RemoveWork`: an id
  looked up when the scan began still goes with the name of the entry it was found by,
  although registrations and removals went between; ids are never used again, which is
  why. `Queue` is preserved by every handler that pops a step, and established by the two
  that fill the list.

  `DockInv` carries `DockAgrees` as long as `order` says "dock" (`StillDock`). With a dock the
  names count up and only the last one is ever taken away, so the lists are `Aligned`:
  position, name and id say the same in all three. Hardware is ahead of the compositor by new displays (`Attached`) or by the last one
  being gone (`LastLeft`), never both. Inside a callback some of this is still to come, and
  `DockWork` says what, one disjunct per callback: `k` outputs to start and then the primary
  flags, one list of new connectors, one removal, or `m` flags to set. Each handler takes a
  disjunct to the same one, one step shorter; when nothing is left the flags are the
  configuration's.
- *Session lock.* `LockedCovers` is not inductive: whether a confirmed lock covers an
  output depends on what was in flight when the output was settled.
  `CoveredSinceAsked` says it from the request on: an output the lock does not wait
  for (any more) has no session frame in flight, and one on screen is about to be
  replaced. With `ClientsMatch`, `AbsentClear`, `PendingIffOwed` and `TargetsWillRender`
  it is inductive. `Refinement` maps each step to a step or a stutter of `ScreenLock`;
  `OpenedOnRequest` and `SingleHolder` state two promises of `ScreenLock` of the session lock.
- *Polkit agent.* `DialogIsWanted` needs to know the channel: `BeginsAreNew` says that a
  queued request is queued once, is neither shown nor answered, and is still wanted or
  followed by its cancellation. It rests on the order of the channel, which both
  `begin_authentication` and `cancel_authentication` send to. `SuccessResponded` and
  `AtRest` carry `CallsAgree` (no call is lost, and one that ended in success was
  authenticated by its own helper) and `CheckingIsAnswered`.

- *Desktop.* `DesktopInv` is `TypeOK` and `NoneLost` with two facts about windows that are
  not on a workspace: one never mapped is nowhere (`NewIsNowhere`), and what is dragged was
  mapped (`GrabHolds`). `FocusStaysVisible` and `OnlyTheDragDuplicates` are action
  properties; both are shown action by action from where the operators on `space` put a
  window and take it from.
- *Socket.* One step of `PollIpc` is a loop over clients, in it one over lines, with
  dispatch, writes and drops inside. So the invariant is stated of the record that the
  loops pass on: `Keeps(s, m, n)` holds after `m` commands and `n` requests, and has three
  parts, `Lawful` for `CapturedWasAllowed`, `Follows` for `ViewFollows` and `Safe` for
  `RequestsConserved`. Each operator has a lemma, each loop an induction (`UpTo`), each
  action a lemma. `Safe` names the places a request can be in (unread, read by this
  pass, held for one of the questions, queued, answered), puts each request in one of
  them, and says that while its portal waits its connection is open and listed. `Follows` needs the newest event in flight to a shell,
  because older ones in front of it name other workspaces; a connection whose click was
  ignored is out of it until the next broadcast, which every connection gets.
- *Greeter.* A PAM session that is open or may come to be belongs to the driver or to the
  attempt that `main` waits for (`Held`); a result that is awaited is the driver's
  (`Awaited`), so from a submitted form to the end of the compositor the driver's session
  is open (`Backed`); `Display` is the hold on the card.
- *Notifications.* Every handler that changes the queue draws it, and the one drawn is in it
  (`QueuedIsShown`); the invariant types queue and channel.
- *Popups.* A handler is a sequence of operators on the record `ui`, so the invariant is
  stated of any such record. `Firm` holds at every moment, `SharedReady` (the shared layer
  is noted as configured only while it is acknowledged) does not between an unmap and the
  note, and `Clear` (no surface shows what is closed) exempts the surface at work.
  `AtMostOne` of the five panel popups is shown per opener, of what it closes first.
- *Lock client.* A buffer that is kept has the size of its surface, because a configure
  with another one drops it (`Fitting`), and the loop starts when every surface has been
  configured (`Ready`); with these `ShowsState`, `FieldIsChecked`, `AckedFirst` are inductive.
- *Resize.* `Owed`: between a release and its last commit the size that was sent last is
  the last one in the client's queue, so that what the pacer dropped does not matter;
  `Phases` ties the surface's phase to the grab, which is what anchors commits.
- *Keyboard.* The invariant reads the queue: a key is down if the last event about it says
  so, or if there is none and the source has it down (`LastSays`); since the device last
  said that all keys are up, no key goes down twice (`Alternates`). Both, and that no key
  is forwarded and taken (`Clean`), are suspended while an event is missing; that the seat,
  the focused client and the source agree (`SeatInv`) is not. `Passed(q, m, p, s)` says it
  after `m` events of a batch, which is what the induction over the batch needs.

`MCShellPartsProofs` has the components of the shell. Only one runs in a behaviour, so
each has an inductive invariant of its own (`StartsItsOwn`, `OnlyItsOwn`), and a theorem is
that invariant with the part's name in front. The modules of these components use no
operator of `SequencesExt` or `TLC`: each instance brings the definitions in once more, and
the provers do not know `@@`, `:>` and `SelectSeq`. Names, applications, networks, rows,
modes, sections and texts are constants, so the proofs cover any; the bounds that the
instances fix (how often the user clicks or the world changes) are guards no proof uses.

- *Power buttons.* `PowerInv`: while a button is armed, no other action came after the click
  that armed it.
- *Default applications.* `DefaultsInv` says of the category a fill has chosen that it is
  empty still, was filled by another thread with the same application, was picked for, or
  could not be asked for (`missed`).
- *Launcher.* While it is open, what is drawn is current (`Current`). A batch of icons that is
  under way while the cache counts as warmed was started for the theme in use and for every
  application of the list; without one every application has its icon (`Warmed`).
- *Tray.* The last list under way is what the watcher lists, however many older ones are
  before it; the zones of the panel are those of the icons drawn, and menus, open or under way, have
  rows of their owner (`Carries`).
- *Web helpers.* Of the lines a helper has not read yet, the last that decides whether it
  shows agrees with the shell's mirror, the last that decides the theme with the theme in
  use.
- *Network.* What the parsers promise is shown for every list of access points and of devices
  (`AirInv` types them), by induction over the loop of `parse_wifi_networks` and lemmas about
  the sorting that follows (`OrderedBy`, `Sorted`). That the back ends name one kind is proved for devices they class
  alike, see below.
  `PassInv` says of each thread that it carries what was typed for its own network, and that
  no two threads hold the same `wpa_cli` network.
- *Configuration.* `FileInv`: what a save is about to write has everything of the file it
  read except what it touches; the operators on text (strip a section, add a key) have a
  lemma each. `FollowInv`: while compositor or shell runs with something else than the file says,
  a write, a reload or the word of it is still to come, or an edit by hand was told to nobody.
- *Settings pages.* Every handler draws anew or leaves what is drawn and what it was drawn
  from (`TreeIsCurrent`; `DevicesInv` has it for the pages of devices, of which sound also reads
  its lists on a timer). `HiddenInv`: a connection that has been up since the list was read is
  marked in it.
- *Display.* `DisplayInv`: what was picked is what the section says, and once the reload is
  handled what the output has, provided the driver took it; a mode asked for as it is
  offered is the one `Select` chooses.

Proved and therefore not repeated in a run: `TypeOK` of the proved modules,
`IdsNeverReused`, `RegistryIdentity`, `FocusIsRegistered`, `MappingStable`,
`OpensOnRequest`, `TargetsWillRender`, `DialogIsWanted`, `CheckingIsAnswered`.

Only model-checked:

- all liveness (it needs fairness and ENABLED, which is out of the prover's reach);
- `TilingImplements` (tiles fit, the refinement of `TileList`, growing): the operators of
  `Tiling` recurse over the tree, and induction over data is out of reach.

Every other invariant and action property of a passing run is stated by a theorem.

## Findings

Five runs state what a comment or a test says and TLC refutes it.

1. `LaunchedAsAuthenticated`: the compositor is to be started as the authenticated user
   (`meridian-login/src/main/runtime.rs:122`); the security-key probe replaces the name in
   the form also while authentication is under way, and `main` takes the name from there.
2. `LauncherIsShown`: a launcher that is opened, closed and opened again before its first
   configure is read asks for a size already in force, gets no configure and stays
   invisible (`shell/wayland/state/popups.rs:44`).
3. `EdgeStays`: a window resized by its left edge is to keep its right edge; a client
   that is a configure behind when the button is released moves it, because its next
   commit ends the anchoring (`compositor/grabs/resize_grab/state.rs:200`).
4. `OnlyTheKey`: saving a theme is to change nothing else; in a file without `[general]`
   it appends that section, with which the idle time-out changes from 300 s to none
   (`meridian-config/src/config/mutation.rs:42`).
5. `ShowsFront`: the notification layer is to show the front entry of the queue
   (`shell/wayland/shell.rs:358`, `shell/wayland/render/notifications.rs:100`); it shows the
   newest one (`notifications.rs:108`), so a second notification covers the first.

Seen while modelling, with no run of their own. Most are steps of the models, which the
properties above had to leave room for.

*Outputs and lock*

- a client whose lock was refused or is still waiting opens the session by
  `unlock_and_destroy`, which smithay answers with a protocol error ("Ensure session is
  locked", `session_lock/lock.rs:111`) and then carries out; the holder is not told;
- the resolver turns all outputs back on when a configuration disables every one; the
  live reload does not (`compositor/state/setup/layout.rs:123`); one that enables the
  configured primary output leaves another one primary (`:207`);
- a hotplugged output is named after a count, so two driven outputs can share a name
  (`hotplug.rs:238`); a re-enabled output takes its stored CRTC without asking whether it
  is free (`hotplug.rs:187-190`);
- an output switched off and then disabled, or unplugged while disabled, keeps its power
  mode, and a power object keeps the name of an output that left; layer surfaces of a
  removed output are only logged;
- a page flip of a replaced `DrmOutput` on the same CRTC may clear its successor's flag;
- the lock client polls its socket but calls only `dispatch_pending`
  (`meridian-lock/src/main/runtime.rs:113`);
- shortcuts act while the session is locked, and pointer events are dropped then
  (`compositor/input/mod.rs:27-35`), so a button released under the lock leaves a grab.

*Polkit, socket, portal, login*

- the comment at `dbus.rs:135` takes a cancelled dialog to mean that no Response was
  sent; a helper that is killed may have sent it (`auth.rs:136`);
- a polkit request that arrives before the Wayland globals is active without a popup;
- a portal request gives up after 120 s (`screenshot.rs:20`) while its question is still
  open, so the picture is taken for nobody; ids of a held question can be overwritten;
- a broadcast written in part tears a line; UI helpers count as shells when it is asked
  whether a shell is there;
- the greeter answers `ok handover` before it lets go of DRM; it starts the compositor
  before the socket is bound, a 5 s deadline; an accept error ends the socket's thread;
- the shell watchdog measures its delay from the last successful start.

*Windows, grabs, tiling, keys*

- a window moved to another workspace while it is dragged is mapped on both
  (`move_grab.rs:33-35`); a switch asked for by the panel while the pointer is grabbed is
  ignored and leaves the panel on the wrong workspace (`ViewFollows` excepts it). The guard
  is meant for "move/resize/popup" (`workspace.rs:203`), but smithay's click grab of any held
  button counts too, so the very click on the panel is ignored if its request is read before
  the button is released; a new title re-assigns a hidden window; restore entries
  of windows that closed stay;
- a resize grab replaced by another leaves its phase active and its preview in place;
- tiles of small areas or deep trees overlap or leave the area (a part is at least one
  pixel); windows restored or moved in get no tile until the next toggle; those that left
  keep a leaf until the next `tile_workspace`; toggling off leaves windows in the tiled
  state; `set_floating` is never called;
- the release of an intercepted key is sent to the client; of two spellings of one
  binding, the order of a hash map decides; one bad binding refuses the whole
  configuration; a partial read of the keyboard device drops the batch.

*Shell*

- two popups can become tenants of the shared surface (volume indicator and tray menu),
  which sets a size of zero and ends the shell; so does a notification closed twice, or a
  reload between a close and its configure; the calendar may draw before its configure
  (`calendar_workspace.rs:202`);
- the Wi-Fi modal and a click on the panel make two exclusive keyboard grabs; a launcher
  opened over IPC leaves the tray menu open, and Escape does not close that menu;
- a Quick Settings snapshot is refused above 100 % volume, so the web panel does not open
  while the shell takes it for open; a shell that crashes leaves helpers with the
  keyboard; a helper whose `settings` and `show` lines arrive in one write reads the
  second one late (`docs/UI_PLATFORM.md:181-183` says lines are handled as they come);
- `redraw_after_ipc` does not draw the network popup, so a click after a re-list reaches
  another network; the settings request clears the password prompt while the modal stays;
- a power button stays armed when a row is launched; pages that search opened are never
  polled; a theme change empties the launcher until the icons are decoded anew; the
  context menu outlives the launcher; saving a pinned program drops its arguments;
- two picks of a default race, and the one that fills what is empty may overwrite a pick
  made between its query and its write;
- a snapshot names a rotation `_90`, which the settings page does not know: it shows 0° and
  its button starts anew (`CHANGELOG.md:193-196` has it show the current value); a reload
  sends no snapshot, so one from before it undoes what the page shows; a mode that the
  driver refused is not tried again by picking it again, as the section did not change;
- a tray icon is never removed when its application leaves the bus; a menu that arrives
  late replaces the one that is open; only eight icons are drawn;
- the two back ends class devices apart: a tunnel or WireGuard is Other under nmcli
  (`nmcli.rs:139-161`) and a VPN under ifconfig (`freebsd.rs:76-88`), an interface of unknown
  name is wired there; one with only an IPv6 address counts for nmcli alone; and nmcli shows
  nothing at all unless its general state is connected (`BackendsAgree` excepts these);
- a query for a default that fails is taken for "none set", and the fill then overwrites a
  default nobody touched (`default_apps.rs:344-358`, `:389`; `DefaultsKept` excepts it);
- an id of a notification named by a sender may meet one handed out later.

*Configuration*

- a header with a comment behind it is not recognised, so a save adds the section a
  second time and the file is unreadable from then on, its settings replaced by defaults;
- a save truncates first: a reload in between reads defaults; a read that fails is taken for
  an empty file, so the save leaves only its own section (`KeepsTheRest` is relative to the
  text that was read); "Never" for the idle time-out does nothing without
  `[general]`; an empty theme name means another theme to the shell than to the
  compositor.

A lock client that dies leaves the session locked: that is intended
(`docs/OPENBSD_SANDBOX_PLAN.md`) and proved as `OpensOnRequest`.

## Not modelled

- *Drawing, decoration, cursors, wallpaper, icons, themes, widgets, rendering*: little
  state beyond a picture. *winit backend*: for development.
- *Shell watchdog, idle inhibitors*: one time stamp, one list. Their effects are free
  choices elsewhere: the shell may be restarted at any time after it died, a screen may be
  blanked at any tick.
- *Geometry*: positions of outputs and windows, exclusive zones. `DisplaySettings` has
  modes, scale and rotation of one output, `Tiling` and `ResizeGrab` have the arithmetic that decides something.
- *Lock surfaces* and the keyboard focus they get: no property of the lock depends on them.
- *Portal*: file chooser, settings and access are single calls; *socket*: theme, output
  and log commands change nothing of the socket's own.
- *Windows that change outputs*, XWayland selections and override-redirect windows, the
  audio, Bluetooth, battery and printer pages, file watching.
- *smithay* and the Wayland library, beyond the calls listed above: modelled where the code
  relies on them.

## Plan

What the proofs can still gain is liveness by hand: the variants on which `PendingSettles`
and `LetsGo` rest could be stated as invariants of what is under way, which is the part of a
liveness argument the prover can check.

Models: windows that move between outputs, composed with the mapping of
`OutputLifecycle`; idle inhibitors in the repaint loop; the shell's audio and Bluetooth
lists.
