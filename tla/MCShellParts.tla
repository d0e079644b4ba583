----------------------------- MODULE MCShellParts -----------------------------
(***************************************************************************)
(* Parts of the desktop shell, and of the files and helpers around it,     *)
(* that share no state, checked side by side: `part` says which of them a  *)
(* behaviour is about, and the variables of the others stay at 0.          *)
(* Components that have a variable of the same name share it, as only one  *)
(* of them runs.                                                           *)
(***************************************************************************)
EXTENDS Integers, Sequences, FiniteSets, TLC

CONSTANTS
  MaxEvents, MaxLines,                   \* of WebHelpers
  Apps, LauncherChanges,                 \* of Launcher
  Buttons,                               \* of PowerButtons
  Names, DeviceNames, PageRows,          \* of SettingsPages
  Modes, Sections,                       \* of DisplaySettings
  SSIDs,                                 \* of Network
  Cats, Hidden, DefaultClicks,           \* of DefaultApps, which has the Launcher's Apps
  Outputs, Texts,                        \* of ConfigFile
  Services, Menus, PanelIcons, MenuRows, \* of Tray
  TrayChanges, TrayCalls, TrayClicks

VARIABLES
  part,   \* the component this behaviour is about
  enabled, theme, saved, refresh, held, helper, guess, loud, events, open, settings, apps, disk,
  scan, icons, warmed, warm, pinned, hidden, query, sel, menu, seen, changes, armed, late, strayed,
  ran, view, page, adding, list, powered, world, kept, jobs, backend, air, devices, state, profiles,
  popup, tab, rows, modal, prompt, input, threads, nets, reloads, news, section, mode, info, picked,
  failed, clicks, edits, faults, installed, index, current, picker, picks, auto, user, file, save,
  replies, running, shell, cursor, untold, saves, details, tasks, items, channel, fetches, tray,
  zones, clicked, calls

\* Texts of config.toml, and menus of an application in the tray.
Section(n, p, b) == [name |-> n, plain |-> p, body |-> b]
SomeTexts == { << >>,
  << Section("general", TRUE, ("theme" :> "light") @@ ("idle" :> "60")),
     Section("eDP", TRUE, ("primary" :> "true") @@ ("scale" :> "1")),
     Section("cursor", TRUE, "size" :> "30") >>,
  << Section("wallpaper", TRUE, "path" :> "hill"), Section("general", FALSE, "theme" :> "light"),
     Section("panel", TRUE, "pinned" :> "x") >>,
  << Section("eDP", TRUE, "mode" :> "1"), Section("eDP", FALSE, << >>) >> }
Layouts == { << "enabled" >>, << "hidden", "enabled" >> }

\* The modes of a display, and what its section says: nothing; a refresh that is not offered; a
\* size that is not, and no refresh.
Offers(s, hz, first) == [size |-> s, hz |-> hz, clock |-> hz, odd |-> 0, preferred |-> first, wide |-> TRUE]
Offered == << Offers(2, 60, TRUE), Offers(2, 75, FALSE), Offers(1, 60, FALSE) >>
Written == { [mode |-> [size |-> 0, hz |-> 0], scale |-> 1000, turn |-> ""],
             [mode |-> [size |-> 2, hz |-> 72], scale |-> 0, turn |-> "normal"],
             [mode |-> [size |-> 3, hz |-> 0], scale |-> 1100, turn |-> "90"] }

\* "none" and "" stand for no button and no application.
ASSUME ButtonsAssumption == "none" \notin Buttons
ASSUME AppsAssumption == "" \notin Apps
ASSUME IconsAssumption == PanelIcons \in Nat

\* There are finitely many networks.
ASSUME SSIDsAssumption == IsFiniteSet(SSIDs)

\* No output has the name of another section, and a text is a list of sections.
ASSUME OutputsAssumption == Outputs \cap { "general", "cursor", "wallpaper", "panel" } = {}
ASSUME TextsAssumption ==
  \A t \in Texts : /\ Len(t) \in Nat
                   /\ t = [i \in 1 .. Len(t) |-> Section(t[i].name, t[i].plain, t[i].body)]

Web      == INSTANCE WebHelpers
Launcher == INSTANCE Launcher WITH MaxChanges <- LauncherChanges
Power    == INSTANCE PowerButtons
SettingsPages == INSTANCE SettingsPages WITH
  Pages <- {"network"}, MaxRows <- PageRows, MaxChanges <- 1
DevicesPages == INSTANCE SettingsPages WITH
  Pages <- {"bluetooth", "sound", "cursor"}, Names <- DeviceNames, MaxRows <- PageRows, MaxChanges <- 0
LooksPages == INSTANCE SettingsPages WITH
  Pages <- {"theme", "wallpaper"}, MaxRows <- PageRows, MaxChanges <- 0
PinningPages == INSTANCE SettingsPages WITH
  Pages <- {"pinned"}, MaxRows <- PageRows, MaxChanges <- 1
Network == INSTANCE Network WITH
  MaxRows <- 2, MaxTyped <- 0, MaxCalls <- 0, MaxChanges <- 1
Connecting == INSTANCE Network WITH
  MaxRows <- 2, MaxTyped <- 1, MaxCalls <- 2, MaxChanges <- 0
DisplaySettings == INSTANCE DisplaySettings WITH
  MaxRows <- 8, SafeMode <- FALSE, ForcedIndex <- 0,
  ForcedSize <- 0, MaxClicks <- 2, MaxEdits <- 1, MaxFaults <- 1, MaxNews <- 1
Defaults == INSTANCE DefaultApps WITH MaxClicks <- DefaultClicks
Config == INSTANCE ConfigFile WITH MaxSaves <- 2, MaxEdits <- 1
Tray == INSTANCE Tray WITH
  MaxChanges <- TrayChanges, MaxCalls <- TrayCalls, MaxClicks <- TrayClicks

\* What a connector offers are modes, what the user writes is a section.
ASSUME ModesAssumption == Modes \in Seq(DisplaySettings!Mode)
ASSUME SectionsAssumption == Sections \subseteq DisplaySettings!Section

vars == <<
  part, enabled, theme, saved, refresh, held, helper, guess, loud, events, open, settings, apps,
  disk, scan, icons, warmed, warm, pinned, hidden, query, sel, menu, seen, changes, armed, late,
  strayed, ran, view, page, adding, list, powered, world, kept, jobs, backend, air, devices, state,
  profiles, popup, tab, rows, modal, prompt, input, threads, nets, reloads, news, section, mode,
  info, picked, failed, clicks, edits, faults, installed, index, current, picker, picks, auto, user,
  file, save, replies, running, shell, cursor, untold, saves, details, tasks, items, channel,
  fetches, tray, zones, clicked, calls >>
-----------------------------------------------------------------------------
RestWebHelpers == <<
  open, settings, apps, disk, scan, icons, warmed, warm, pinned, hidden, query, sel, menu, seen,
  changes, armed, late, strayed, ran, view, page, adding, list, powered, world, kept, jobs, backend,
  air, devices, state, profiles, popup, tab, rows, modal, prompt, input, threads, nets, reloads,
  news, section, mode, info, picked, failed, clicks, edits, faults, installed, index, current,
  picker, picks, auto, user, file, save, replies, running, shell, cursor, untold, saves, details,
  tasks, items, channel, fetches, tray, zones, clicked, calls >>
InitWebHelpers ==
  /\ part = "web" /\ Web!Init
  /\ open = 0 /\ settings = 0 /\ apps = 0 /\ disk = 0 /\ scan = 0 /\ icons = 0 /\ warmed = 0
     /\ warm = 0 /\ pinned = 0 /\ hidden = 0 /\ query = 0 /\ sel = 0 /\ menu = 0 /\ seen = 0
     /\ changes = 0 /\ armed = 0 /\ late = 0 /\ strayed = 0 /\ ran = 0 /\ view = 0 /\ page = 0
     /\ adding = 0 /\ list = 0 /\ powered = 0 /\ world = 0 /\ kept = 0 /\ jobs = 0 /\ backend = 0
     /\ air = 0 /\ devices = 0 /\ state = 0 /\ profiles = 0 /\ popup = 0 /\ tab = 0 /\ rows = 0
     /\ modal = 0 /\ prompt = 0 /\ input = 0 /\ threads = 0 /\ nets = 0 /\ reloads = 0 /\ news =
     0 /\ section = 0 /\ mode = 0 /\ info = 0 /\ picked = 0 /\ failed = 0 /\ clicks = 0 /\ edits
     = 0 /\ faults = 0 /\ installed = 0 /\ index = 0 /\ current = 0 /\ picker = 0 /\ picks = 0
     /\ auto = 0 /\ user = 0 /\ file = 0 /\ save = 0 /\ replies = 0 /\ running = 0 /\ shell = 0
     /\ cursor = 0 /\ untold = 0 /\ saves = 0 /\ details = 0 /\ tasks = 0 /\ items = 0
     /\ channel = 0 /\ fetches = 0 /\ tray = 0 /\ zones = 0 /\ clicked = 0 /\ calls = 0
NextWebHelpers == part = "web" /\ Web!Next /\ UNCHANGED << part, RestWebHelpers >>

RestLauncher == <<
  enabled, saved, refresh, held, helper, guess, loud, events, armed, late, strayed, ran, view, page,
  adding, list, powered, world, kept, jobs, backend, air, devices, state, profiles, popup, tab,
  rows, modal, prompt, input, threads, nets, reloads, news, section, mode, info, picked, failed,
  clicks, edits, faults, installed, index, current, picker, picks, auto, user, file, save, replies,
  running, shell, cursor, untold, saves, details, tasks, items, channel, fetches, tray, zones,
  clicked, calls >>
InitLauncher ==
  /\ part = "launcher" /\ Launcher!Init
  /\ enabled = 0 /\ saved = 0 /\ refresh = 0 /\ held = 0 /\ helper = 0 /\ guess = 0 /\ loud = 0
     /\ events = 0 /\ armed = 0 /\ late = 0 /\ strayed = 0 /\ ran = 0 /\ view = 0 /\ page = 0
     /\ adding = 0 /\ list = 0 /\ powered = 0 /\ world = 0 /\ kept = 0 /\ jobs = 0 /\ backend = 0
     /\ air = 0 /\ devices = 0 /\ state = 0 /\ profiles = 0 /\ popup = 0 /\ tab = 0 /\ rows = 0
     /\ modal = 0 /\ prompt = 0 /\ input = 0 /\ threads = 0 /\ nets = 0 /\ reloads = 0 /\ news =
     0 /\ section = 0 /\ mode = 0 /\ info = 0 /\ picked = 0 /\ failed = 0 /\ clicks = 0 /\ edits
     = 0 /\ faults = 0 /\ installed = 0 /\ index = 0 /\ current = 0 /\ picker = 0 /\ picks = 0
     /\ auto = 0 /\ user = 0 /\ file = 0 /\ save = 0 /\ replies = 0 /\ running = 0 /\ shell = 0
     /\ cursor = 0 /\ untold = 0 /\ saves = 0 /\ details = 0 /\ tasks = 0 /\ items = 0
     /\ channel = 0 /\ fetches = 0 /\ tray = 0 /\ zones = 0 /\ clicked = 0 /\ calls = 0
NextLauncher == part = "launcher" /\ Launcher!Next /\ UNCHANGED << part, RestLauncher >>

RestPowerButtons == <<
  enabled, theme, saved, refresh, held, helper, guess, loud, events, apps, disk, scan, icons,
  warmed, warm, pinned, hidden, query, sel, menu, seen, changes, view, page, adding, list, powered,
  world, kept, jobs, backend, air, devices, state, profiles, popup, tab, rows, modal, prompt, input,
  threads, nets, reloads, news, section, mode, info, picked, failed, clicks, edits, faults,
  installed, index, current, picker, picks, auto, user, file, save, replies, running, shell, cursor,
  untold, saves, details, tasks, items, channel, fetches, tray, zones, clicked, calls >>
InitPowerButtons ==
  /\ part = "power" /\ Power!Init
  /\ enabled = 0 /\ theme = 0 /\ saved = 0 /\ refresh = 0 /\ held = 0 /\ helper = 0 /\ guess = 0
     /\ loud = 0 /\ events = 0 /\ apps = 0 /\ disk = 0 /\ scan = 0 /\ icons = 0 /\ warmed = 0
     /\ warm = 0 /\ pinned = 0 /\ hidden = 0 /\ query = 0 /\ sel = 0 /\ menu = 0 /\ seen = 0
     /\ changes = 0 /\ view = 0 /\ page = 0 /\ adding = 0 /\ list = 0 /\ powered = 0 /\ world = 0
     /\ kept = 0 /\ jobs = 0 /\ backend = 0 /\ air = 0 /\ devices = 0 /\ state = 0 /\ profiles =
     0 /\ popup = 0 /\ tab = 0 /\ rows = 0 /\ modal = 0 /\ prompt = 0 /\ input = 0 /\ threads =
     0 /\ nets = 0 /\ reloads = 0 /\ news = 0 /\ section = 0 /\ mode = 0 /\ info = 0 /\ picked =
     0 /\ failed = 0 /\ clicks = 0 /\ edits = 0 /\ faults = 0 /\ installed = 0 /\ index = 0
     /\ current = 0 /\ picker = 0 /\ picks = 0 /\ auto = 0 /\ user = 0 /\ file = 0 /\ save = 0
     /\ replies = 0 /\ running = 0 /\ shell = 0 /\ cursor = 0 /\ untold = 0 /\ saves = 0 /\ details
     = 0 /\ tasks = 0 /\ items = 0 /\ channel = 0 /\ fetches = 0 /\ tray = 0 /\ zones = 0
     /\ clicked = 0 /\ calls = 0
NextPowerButtons == part = "power" /\ Power!Next /\ UNCHANGED << part, RestPowerButtons >>

RestSettingsPages == <<
  enabled, theme, saved, refresh, held, helper, guess, loud, events, open, settings, apps, disk,
  scan, icons, warmed, warm, pinned, hidden, sel, menu, armed, late, strayed, ran, backend, air,
  devices, state, profiles, popup, tab, rows, modal, prompt, input, threads, nets, reloads, news,
  section, mode, info, picked, failed, clicks, edits, faults, installed, index, current, picker,
  picks, auto, user, file, save, replies, running, shell, cursor, untold, saves, details, tasks,
  items, channel, fetches, tray, zones, clicked, calls >>
InitSettingsPages ==
  /\ part = "settings" /\ SettingsPages!Init
  /\ enabled = 0 /\ theme = 0 /\ saved = 0 /\ refresh = 0 /\ held = 0 /\ helper = 0 /\ guess = 0
     /\ loud = 0 /\ events = 0 /\ open = 0 /\ settings = 0 /\ apps = 0 /\ disk = 0 /\ scan = 0
     /\ icons = 0 /\ warmed = 0 /\ warm = 0 /\ pinned = 0 /\ hidden = 0 /\ sel = 0 /\ menu = 0
     /\ armed = 0 /\ late = 0 /\ strayed = 0 /\ ran = 0 /\ backend = 0 /\ air = 0 /\ devices = 0
     /\ state = 0 /\ profiles = 0 /\ popup = 0 /\ tab = 0 /\ rows = 0 /\ modal = 0 /\ prompt = 0
     /\ input = 0 /\ threads = 0 /\ nets = 0 /\ reloads = 0 /\ news = 0 /\ section = 0 /\ mode =
     0 /\ info = 0 /\ picked = 0 /\ failed = 0 /\ clicks = 0 /\ edits = 0 /\ faults = 0
     /\ installed = 0 /\ index = 0 /\ current = 0 /\ picker = 0 /\ picks = 0 /\ auto = 0 /\ user =
     0 /\ file = 0 /\ save = 0 /\ replies = 0 /\ running = 0 /\ shell = 0 /\ cursor = 0
     /\ untold = 0 /\ saves = 0 /\ details = 0 /\ tasks = 0 /\ items = 0 /\ channel = 0 /\ fetches
     = 0 /\ tray = 0 /\ zones = 0 /\ clicked = 0 /\ calls = 0
NextSettingsPages == part = "settings" /\ SettingsPages!Next /\ UNCHANGED << part, RestSettingsPages >>

RestDevicesPages == <<
  enabled, theme, saved, refresh, held, helper, guess, loud, events, open, settings, apps, disk,
  scan, icons, warmed, warm, pinned, hidden, sel, menu, armed, late, strayed, ran, backend, air,
  devices, state, profiles, popup, tab, rows, modal, prompt, input, threads, nets, reloads, news,
  section, mode, info, picked, failed, clicks, edits, faults, installed, index, current, picker,
  picks, auto, user, file, save, replies, running, shell, cursor, untold, saves, details, tasks,
  items, channel, fetches, tray, zones, clicked, calls >>
InitDevicesPages ==
  /\ part = "devices" /\ DevicesPages!Init
  /\ enabled = 0 /\ theme = 0 /\ saved = 0 /\ refresh = 0 /\ held = 0 /\ helper = 0 /\ guess = 0
     /\ loud = 0 /\ events = 0 /\ open = 0 /\ settings = 0 /\ apps = 0 /\ disk = 0 /\ scan = 0
     /\ icons = 0 /\ warmed = 0 /\ warm = 0 /\ pinned = 0 /\ hidden = 0 /\ sel = 0 /\ menu = 0
     /\ armed = 0 /\ late = 0 /\ strayed = 0 /\ ran = 0 /\ backend = 0 /\ air = 0 /\ devices = 0
     /\ state = 0 /\ profiles = 0 /\ popup = 0 /\ tab = 0 /\ rows = 0 /\ modal = 0 /\ prompt = 0
     /\ input = 0 /\ threads = 0 /\ nets = 0 /\ reloads = 0 /\ news = 0 /\ section = 0 /\ mode =
     0 /\ info = 0 /\ picked = 0 /\ failed = 0 /\ clicks = 0 /\ edits = 0 /\ faults = 0
     /\ installed = 0 /\ index = 0 /\ current = 0 /\ picker = 0 /\ picks = 0 /\ auto = 0 /\ user =
     0 /\ file = 0 /\ save = 0 /\ replies = 0 /\ running = 0 /\ shell = 0 /\ cursor = 0
     /\ untold = 0 /\ saves = 0 /\ details = 0 /\ tasks = 0 /\ items = 0 /\ channel = 0 /\ fetches
     = 0 /\ tray = 0 /\ zones = 0 /\ clicked = 0 /\ calls = 0
NextDevicesPages == part = "devices" /\ DevicesPages!Next /\ UNCHANGED << part, RestDevicesPages >>

RestLooksPages == <<
  enabled, theme, saved, refresh, held, helper, guess, loud, events, open, settings, apps, disk,
  scan, icons, warmed, warm, pinned, hidden, sel, menu, armed, late, strayed, ran, backend, air,
  devices, state, profiles, popup, tab, rows, modal, prompt, input, threads, nets, reloads, news,
  section, mode, info, picked, failed, clicks, edits, faults, installed, index, current, picker,
  picks, auto, user, file, save, replies, running, shell, cursor, untold, saves, details, tasks,
  items, channel, fetches, tray, zones, clicked, calls >>
InitLooksPages ==
  /\ part = "looks" /\ LooksPages!Init
  /\ enabled = 0 /\ theme = 0 /\ saved = 0 /\ refresh = 0 /\ held = 0 /\ helper = 0 /\ guess = 0
     /\ loud = 0 /\ events = 0 /\ open = 0 /\ settings = 0 /\ apps = 0 /\ disk = 0 /\ scan = 0
     /\ icons = 0 /\ warmed = 0 /\ warm = 0 /\ pinned = 0 /\ hidden = 0 /\ sel = 0 /\ menu = 0
     /\ armed = 0 /\ late = 0 /\ strayed = 0 /\ ran = 0 /\ backend = 0 /\ air = 0 /\ devices = 0
     /\ state = 0 /\ profiles = 0 /\ popup = 0 /\ tab = 0 /\ rows = 0 /\ modal = 0 /\ prompt = 0
     /\ input = 0 /\ threads = 0 /\ nets = 0 /\ reloads = 0 /\ news = 0 /\ section = 0 /\ mode =
     0 /\ info = 0 /\ picked = 0 /\ failed = 0 /\ clicks = 0 /\ edits = 0 /\ faults = 0
     /\ installed = 0 /\ index = 0 /\ current = 0 /\ picker = 0 /\ picks = 0 /\ auto = 0 /\ user =
     0 /\ file = 0 /\ save = 0 /\ replies = 0 /\ running = 0 /\ shell = 0 /\ cursor = 0
     /\ untold = 0 /\ saves = 0 /\ details = 0 /\ tasks = 0 /\ items = 0 /\ channel = 0 /\ fetches
     = 0 /\ tray = 0 /\ zones = 0 /\ clicked = 0 /\ calls = 0
NextLooksPages == part = "looks" /\ LooksPages!Next /\ UNCHANGED << part, RestLooksPages >>

RestPinningPages == <<
  enabled, theme, saved, refresh, held, helper, guess, loud, events, open, settings, apps, disk,
  scan, icons, warmed, warm, pinned, hidden, sel, menu, armed, late, strayed, ran, backend, air,
  devices, state, profiles, popup, tab, rows, modal, prompt, input, threads, nets, reloads, news,
  section, mode, info, picked, failed, clicks, edits, faults, installed, index, current, picker,
  picks, auto, user, file, save, replies, running, shell, cursor, untold, saves, details, tasks,
  items, channel, fetches, tray, zones, clicked, calls >>
InitPinningPages ==
  /\ part = "pinning" /\ PinningPages!Init
  /\ enabled = 0 /\ theme = 0 /\ saved = 0 /\ refresh = 0 /\ held = 0 /\ helper = 0 /\ guess = 0
     /\ loud = 0 /\ events = 0 /\ open = 0 /\ settings = 0 /\ apps = 0 /\ disk = 0 /\ scan = 0
     /\ icons = 0 /\ warmed = 0 /\ warm = 0 /\ pinned = 0 /\ hidden = 0 /\ sel = 0 /\ menu = 0
     /\ armed = 0 /\ late = 0 /\ strayed = 0 /\ ran = 0 /\ backend = 0 /\ air = 0 /\ devices = 0
     /\ state = 0 /\ profiles = 0 /\ popup = 0 /\ tab = 0 /\ rows = 0 /\ modal = 0 /\ prompt = 0
     /\ input = 0 /\ threads = 0 /\ nets = 0 /\ reloads = 0 /\ news = 0 /\ section = 0 /\ mode =
     0 /\ info = 0 /\ picked = 0 /\ failed = 0 /\ clicks = 0 /\ edits = 0 /\ faults = 0
     /\ installed = 0 /\ index = 0 /\ current = 0 /\ picker = 0 /\ picks = 0 /\ auto = 0 /\ user =
     0 /\ file = 0 /\ save = 0 /\ replies = 0 /\ running = 0 /\ shell = 0 /\ cursor = 0
     /\ untold = 0 /\ saves = 0 /\ details = 0 /\ tasks = 0 /\ items = 0 /\ channel = 0 /\ fetches
     = 0 /\ tray = 0 /\ zones = 0 /\ clicked = 0 /\ calls = 0
NextPinningPages == part = "pinning" /\ PinningPages!Next /\ UNCHANGED << part, RestPinningPages >>

RestNetwork == <<
  enabled, theme, refresh, held, helper, guess, loud, events, open, settings, apps, disk, icons,
  warmed, warm, pinned, hidden, query, sel, menu, seen, armed, late, strayed, ran, view, adding,
  list, powered, world, kept, jobs, reloads, news, section, mode, info, picked, failed, clicks,
  edits, faults, installed, index, current, picker, picks, auto, user, file, save, replies, running,
  shell, cursor, untold, saves, details, tasks, items, channel, fetches, tray, zones, clicked, calls >>
InitNetwork ==
  /\ part = "network" /\ Network!Init
  /\ enabled = 0 /\ theme = 0 /\ refresh = 0 /\ held = 0 /\ helper = 0 /\ guess = 0 /\ loud = 0
     /\ events = 0 /\ open = 0 /\ settings = 0 /\ apps = 0 /\ disk = 0 /\ icons = 0 /\ warmed =
     0 /\ warm = 0 /\ pinned = 0 /\ hidden = 0 /\ query = 0 /\ sel = 0 /\ menu = 0 /\ seen = 0
     /\ armed = 0 /\ late = 0 /\ strayed = 0 /\ ran = 0 /\ view = 0 /\ adding = 0 /\ list = 0
     /\ powered = 0 /\ world = 0 /\ kept = 0 /\ jobs = 0 /\ reloads = 0 /\ news = 0 /\ section = 0
     /\ mode = 0 /\ info = 0 /\ picked = 0 /\ failed = 0 /\ clicks = 0 /\ edits = 0 /\ faults =
     0 /\ installed = 0 /\ index = 0 /\ current = 0 /\ picker = 0 /\ picks = 0 /\ auto = 0
     /\ user = 0 /\ file = 0 /\ save = 0 /\ replies = 0 /\ running = 0 /\ shell = 0 /\ cursor = 0
     /\ untold = 0 /\ saves = 0 /\ details = 0 /\ tasks = 0 /\ items = 0 /\ channel = 0
     /\ fetches = 0 /\ tray = 0 /\ zones = 0 /\ clicked = 0 /\ calls = 0
NextNetwork == part = "network" /\ Network!Next /\ UNCHANGED << part, RestNetwork >>

RestConnecting == <<
  enabled, theme, refresh, held, helper, guess, loud, events, open, settings, apps, disk, icons,
  warmed, warm, pinned, hidden, query, sel, menu, seen, armed, late, strayed, ran, view, adding,
  list, powered, world, kept, jobs, reloads, news, section, mode, info, picked, failed, clicks,
  edits, faults, installed, index, current, picker, picks, auto, user, file, save, replies, running,
  shell, cursor, untold, saves, details, tasks, items, channel, fetches, tray, zones, clicked, calls >>
InitConnecting ==
  /\ part = "connecting" /\ Connecting!Init
  /\ enabled = 0 /\ theme = 0 /\ refresh = 0 /\ held = 0 /\ helper = 0 /\ guess = 0 /\ loud = 0
     /\ events = 0 /\ open = 0 /\ settings = 0 /\ apps = 0 /\ disk = 0 /\ icons = 0 /\ warmed =
     0 /\ warm = 0 /\ pinned = 0 /\ hidden = 0 /\ query = 0 /\ sel = 0 /\ menu = 0 /\ seen = 0
     /\ armed = 0 /\ late = 0 /\ strayed = 0 /\ ran = 0 /\ view = 0 /\ adding = 0 /\ list = 0
     /\ powered = 0 /\ world = 0 /\ kept = 0 /\ jobs = 0 /\ reloads = 0 /\ news = 0 /\ section = 0
     /\ mode = 0 /\ info = 0 /\ picked = 0 /\ failed = 0 /\ clicks = 0 /\ edits = 0 /\ faults =
     0 /\ installed = 0 /\ index = 0 /\ current = 0 /\ picker = 0 /\ picks = 0 /\ auto = 0
     /\ user = 0 /\ file = 0 /\ save = 0 /\ replies = 0 /\ running = 0 /\ shell = 0 /\ cursor = 0
     /\ untold = 0 /\ saves = 0 /\ details = 0 /\ tasks = 0 /\ items = 0 /\ channel = 0
     /\ fetches = 0 /\ tray = 0 /\ zones = 0 /\ clicked = 0 /\ calls = 0
NextConnecting == part = "connecting" /\ Connecting!Next /\ UNCHANGED << part, RestConnecting >>

RestDisplaySettings == <<
  enabled, theme, saved, refresh, held, helper, guess, loud, events, settings, apps, scan, icons,
  warmed, warm, pinned, hidden, query, sel, menu, seen, changes, armed, late, strayed, ran, page,
  adding, list, powered, world, kept, jobs, backend, air, devices, state, profiles, popup, tab,
  rows, modal, prompt, input, threads, nets, installed, index, current, picker, picks, auto, user,
  file, save, replies, running, shell, cursor, untold, saves, details, tasks, items, channel,
  fetches, tray, zones, clicked, calls >>
InitDisplaySettings ==
  /\ part = "display" /\ DisplaySettings!Init
  /\ enabled = 0 /\ theme = 0 /\ saved = 0 /\ refresh = 0 /\ held = 0 /\ helper = 0 /\ guess = 0
     /\ loud = 0 /\ events = 0 /\ settings = 0 /\ apps = 0 /\ scan = 0 /\ icons = 0 /\ warmed =
     0 /\ warm = 0 /\ pinned = 0 /\ hidden = 0 /\ query = 0 /\ sel = 0 /\ menu = 0 /\ seen = 0
     /\ changes = 0 /\ armed = 0 /\ late = 0 /\ strayed = 0 /\ ran = 0 /\ page = 0 /\ adding = 0
     /\ list = 0 /\ powered = 0 /\ world = 0 /\ kept = 0 /\ jobs = 0 /\ backend = 0 /\ air = 0
     /\ devices = 0 /\ state = 0 /\ profiles = 0 /\ popup = 0 /\ tab = 0 /\ rows = 0 /\ modal =
     0 /\ prompt = 0 /\ input = 0 /\ threads = 0 /\ nets = 0 /\ installed = 0 /\ index = 0
     /\ current = 0 /\ picker = 0 /\ picks = 0 /\ auto = 0 /\ user = 0 /\ file = 0 /\ save = 0
     /\ replies = 0 /\ running = 0 /\ shell = 0 /\ cursor = 0 /\ untold = 0 /\ saves = 0 /\ details
     = 0 /\ tasks = 0 /\ items = 0 /\ channel = 0 /\ fetches = 0 /\ tray = 0 /\ zones = 0
     /\ clicked = 0 /\ calls = 0
NextDisplaySettings == part = "display" /\ DisplaySettings!Next /\ UNCHANGED << part, RestDisplaySettings >>

RestDefaultApps == <<
  enabled, theme, saved, refresh, held, helper, guess, loud, events, open, settings, apps, scan,
  icons, warmed, warm, pinned, hidden, query, sel, menu, seen, changes, armed, late, strayed, ran,
  view, adding, list, powered, world, kept, jobs, backend, air, devices, state, profiles, popup,
  tab, modal, prompt, input, threads, nets, reloads, news, section, mode, info, picked, failed,
  edits, faults, file, save, replies, running, shell, cursor, untold, saves, details, tasks, items,
  channel, fetches, tray, zones, clicked, calls >>
InitDefaultApps ==
  /\ part = "defaults" /\ Defaults!Init
  /\ enabled = 0 /\ theme = 0 /\ saved = 0 /\ refresh = 0 /\ held = 0 /\ helper = 0 /\ guess = 0
     /\ loud = 0 /\ events = 0 /\ open = 0 /\ settings = 0 /\ apps = 0 /\ scan = 0 /\ icons = 0
     /\ warmed = 0 /\ warm = 0 /\ pinned = 0 /\ hidden = 0 /\ query = 0 /\ sel = 0 /\ menu = 0
     /\ seen = 0 /\ changes = 0 /\ armed = 0 /\ late = 0 /\ strayed = 0 /\ ran = 0 /\ view = 0
     /\ adding = 0 /\ list = 0 /\ powered = 0 /\ world = 0 /\ kept = 0 /\ jobs = 0 /\ backend =
     0 /\ air = 0 /\ devices = 0 /\ state = 0 /\ profiles = 0 /\ popup = 0 /\ tab = 0 /\ modal =
     0 /\ prompt = 0 /\ input = 0 /\ threads = 0 /\ nets = 0 /\ reloads = 0 /\ news = 0
     /\ section = 0 /\ mode = 0 /\ info = 0 /\ picked = 0 /\ failed = 0 /\ edits = 0 /\ faults = 0
     /\ file = 0 /\ save = 0 /\ replies = 0 /\ running = 0 /\ shell = 0 /\ cursor = 0 /\ untold
     = 0 /\ saves = 0 /\ details = 0 /\ tasks = 0 /\ items = 0 /\ channel = 0 /\ fetches = 0
     /\ tray = 0 /\ zones = 0 /\ clicked = 0 /\ calls = 0
NextDefaultApps == part = "defaults" /\ Defaults!Next /\ UNCHANGED << part, RestDefaultApps >>

RestConfigFile == <<
  enabled, theme, saved, refresh, held, helper, guess, loud, events, open, settings, apps, disk,
  scan, icons, warmed, warm, pinned, hidden, query, sel, menu, seen, changes, armed, late, strayed,
  ran, view, page, adding, list, powered, world, kept, jobs, backend, air, devices, state, profiles,
  popup, tab, rows, modal, prompt, input, threads, nets, news, section, mode, info, picked, failed,
  clicks, faults, installed, index, current, picker, picks, auto, user, details, tasks, items,
  channel, fetches, tray, zones, clicked, calls >>
InitConfigFile ==
  /\ part = "config" /\ Config!Init
  /\ enabled = 0 /\ theme = 0 /\ saved = 0 /\ refresh = 0 /\ held = 0 /\ helper = 0 /\ guess = 0
     /\ loud = 0 /\ events = 0 /\ open = 0 /\ settings = 0 /\ apps = 0 /\ disk = 0 /\ scan = 0
     /\ icons = 0 /\ warmed = 0 /\ warm = 0 /\ pinned = 0 /\ hidden = 0 /\ query = 0 /\ sel = 0
     /\ menu = 0 /\ seen = 0 /\ changes = 0 /\ armed = 0 /\ late = 0 /\ strayed = 0 /\ ran = 0
     /\ view = 0 /\ page = 0 /\ adding = 0 /\ list = 0 /\ powered = 0 /\ world = 0 /\ kept = 0
     /\ jobs = 0 /\ backend = 0 /\ air = 0 /\ devices = 0 /\ state = 0 /\ profiles = 0 /\ popup
     = 0 /\ tab = 0 /\ rows = 0 /\ modal = 0 /\ prompt = 0 /\ input = 0 /\ threads = 0 /\ nets =
     0 /\ news = 0 /\ section = 0 /\ mode = 0 /\ info = 0 /\ picked = 0 /\ failed = 0 /\ clicks
     = 0 /\ faults = 0 /\ installed = 0 /\ index = 0 /\ current = 0 /\ picker = 0 /\ picks = 0
     /\ auto = 0 /\ user = 0 /\ details = 0 /\ tasks = 0 /\ items = 0 /\ channel = 0 /\ fetches
     = 0 /\ tray = 0 /\ zones = 0 /\ clicked = 0 /\ calls = 0
NextConfigFile == part = "config" /\ Config!Next /\ UNCHANGED << part, RestConfigFile >>

RestTray == <<
  enabled, theme, saved, refresh, held, helper, guess, loud, events, open, settings, apps, disk,
  scan, icons, warmed, warm, pinned, hidden, query, sel, seen, changes, armed, late, strayed, ran,
  view, page, adding, list, powered, world, kept, jobs, backend, air, devices, state, profiles,
  popup, tab, rows, modal, prompt, input, threads, nets, reloads, news, section, mode, info, picked,
  failed, edits, faults, installed, index, current, picker, picks, auto, user, file, save, replies,
  running, shell, cursor, untold, saves >>
InitTray ==
  /\ part = "tray" /\ Tray!Init
  /\ enabled = 0 /\ theme = 0 /\ saved = 0 /\ refresh = 0 /\ held = 0 /\ helper = 0 /\ guess = 0
     /\ loud = 0 /\ events = 0 /\ open = 0 /\ settings = 0 /\ apps = 0 /\ disk = 0 /\ scan = 0
     /\ icons = 0 /\ warmed = 0 /\ warm = 0 /\ pinned = 0 /\ hidden = 0 /\ query = 0 /\ sel = 0
     /\ seen = 0 /\ changes = 0 /\ armed = 0 /\ late = 0 /\ strayed = 0 /\ ran = 0 /\ view = 0
     /\ page = 0 /\ adding = 0 /\ list = 0 /\ powered = 0 /\ world = 0 /\ kept = 0 /\ jobs = 0
     /\ backend = 0 /\ air = 0 /\ devices = 0 /\ state = 0 /\ profiles = 0 /\ popup = 0 /\ tab =
     0 /\ rows = 0 /\ modal = 0 /\ prompt = 0 /\ input = 0 /\ threads = 0 /\ nets = 0 /\ reloads
     = 0 /\ news = 0 /\ section = 0 /\ mode = 0 /\ info = 0 /\ picked = 0 /\ failed = 0 /\ edits
     = 0 /\ faults = 0 /\ installed = 0 /\ index = 0 /\ current = 0 /\ picker = 0 /\ picks = 0
     /\ auto = 0 /\ user = 0 /\ file = 0 /\ save = 0 /\ replies = 0 /\ running = 0 /\ shell = 0
     /\ cursor = 0 /\ untold = 0 /\ saves = 0
NextTray == part = "tray" /\ Tray!Next /\ UNCHANGED << part, RestTray >>

Init == \/ InitWebHelpers
        \/ InitLauncher
        \/ InitPowerButtons
        \/ InitSettingsPages
        \/ InitDevicesPages
        \/ InitLooksPages
        \/ InitPinningPages
        \/ InitNetwork
        \/ InitConnecting
        \/ InitDisplaySettings
        \/ InitDefaultApps
        \/ InitConfigFile
        \/ InitTray

\* The components that may come to a stop, by themselves or at their bounds.
MayStop == { "defaults", "config", "tray" }

Next == \/ NextWebHelpers
        \/ NextLauncher
        \/ NextPowerButtons
        \/ NextSettingsPages
        \/ NextDevicesPages
        \/ NextLooksPages
        \/ NextPinningPages
        \/ NextNetwork
        \/ NextConnecting
        \/ NextDisplaySettings
        \/ NextDefaultApps
        \/ NextConfigFile
        \/ NextTray
        \/ part \in MayStop /\ UNCHANGED vars

Spec == Init /\ [][Next]_vars
-----------------------------------------------------------------------------
(* Properties                                                              *)

\* The web helpers: the shell's mirror of what is shown agrees with the screen, and every
\* helper comes to the shell's theme.
HelpersAgree == part = "web" => Web!MirrorAgrees /\ Web!ThemesAgree

\* The launcher: a click takes what is drawn, and every icon comes to the theme in use.
LauncherAgrees == part = "launcher" => Launcher!SeenIsCurrent /\ Launcher!IconsSettle

\* The power buttons: no command on two clicks with another action between them.
NeverAfterAction == part = "power" => Power!NeverAfterAction

\* The settings: a click takes what is drawn, an active connection is never shown as off, and
\* an output comes to be what was picked for it.
PagesAgree == /\ part = "settings" => SettingsPages!TreeIsCurrent /\ SettingsPages!NeverHidden
              /\ part = "devices" => DevicesPages!TreeIsCurrent
              /\ part = "looks" => LooksPages!TreeIsCurrent
              /\ part = "pinning" => PinningPages!TreeIsCurrent
              /\ part = "display" => DisplaySettings!PickedHolds /\ DisplaySettings!MarksTrue

\* The network: a password goes to the network it was typed for, a scan keeps the network that
\* is connected, and both backends name the same kind of connection for the same devices, but
\* for the types and addresses they class apart (Network!BackendsAgree names them).
NetworkAgrees == /\ part = "network" => Network!ScanKeepsConnected /\ Network!BackendsAgree
                 /\ part = "connecting" => Connecting!PasswordGoesWhereTyped

\* Default applications: filling the empty categories replaces nothing but what the user has
\* picked for or what the fill failed to ask for.
DefaultsKept ==
  [][part = "defaults" => \A c \in DOMAIN disk : disk[c] \notin { "", disk'[c] } =>
       user[c] # "" \/ \E t \in auto \ auto' : t.found = c /\ t.missed]_vars

\* config.toml: a save of one thing leaves the others, and shell and compositor come to run
\* with what the file says.
ConfigAgrees == part = "config" => Config!KeepsTheRest /\ Config!AllFollow

\* The tray: a click reaches the application whose icon or row is drawn, and the panel comes
\* to show what is listed.
TrayAgrees == part = "tray" => Tray!ReachesWhatIsDrawn /\ Tray!TraySettles
=============================================================================
