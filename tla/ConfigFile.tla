------------------------------ MODULE ConfigFile ------------------------------
(***************************************************************************)
(* config.toml and the three who use it: the shell, which changes one      *)
(* thing at a time by rewriting the text (meridian-config), the compositor,*)
(* which reads it all when it is told to reload, and the user's editor.    *)
(*                                                                         *)
(* The text is the sequence of its sections.  A save looks for a section   *)
(* by the text of its header, which must be the bracketed name and nothing *)
(* else (`plain`); the parser takes one with a comment behind it as well,  *)
(* and no name twice.  Blank lines, comments of their own and the wording  *)
(* of values are left out; a theme that is named exists.                   *)
(***************************************************************************)
EXTENDS Naturals, Sequences, FiniteSets

CONSTANTS Outputs,   \* names of outputs, each with a section of its own
          Texts,     \* what the user's editor may leave, sequences of sections
          MaxSaves,  \* bound on what is changed in the shell
          MaxEdits   \* bound on what is changed in the editor

VARIABLES
  file,     \* config.toml; << >> also while a save has cut it off and not written it yet
  save,     \* {}, or the save the shell is at: what it touches, what it read (nothing, if that
            \* failed), what it writes
  reloads,  \* ReloadConfig commands the compositor has not handled
  replies,  \* ConfigReloaded events the shell has not handled, TRUE for success
  running,  \* the settings the compositor runs with
  shell,    \* the shell's own theme and wallpaper
  cursor,   \* and its cursor, the theme's name and the size
  untold,   \* the file was written since the compositor read it, and no command says so
  saves, edits

vars == << file, save, reloads, replies, running, shell, cursor, untold, saves, edits >>

Keys == [s \in { "general", "cursor", "wallpaper", "panel" } \cup Outputs |->
           CASE s = "general"   -> { "theme", "idle" }
             [] s = "cursor"    -> { "theme", "size" }
             [] s = "wallpaper" -> { "path", "mode" }
             [] s = "panel"     -> { "pinned" }
             [] OTHER           -> { "primary", "mode", "scale", "transform" }]

Settings == UNION { { << s, k >> : k \in Keys[s] } : s \in DOMAIN Keys }

Section(s, body) == [name |-> s, plain |-> TRUE, body |-> body]
-----------------------------------------------------------------------------
(* Reading: MeridianConfig::load_from.                                     *)

Valid(f) == \A i, j \in DOMAIN f : f[i].name = f[j].name => i = j

\* The serde defaults.  A [general] without the key has no idle time-out, a file without
\* [general] the built-in one; without [cursor] or [wallpaper] the theme's own is used.
Default(s, k, present) ==
  CASE << s, k >> = << "general", "theme" >> -> "dark"
    [] << s, k >> = << "general", "idle" >>  -> IF present THEN "off" ELSE "300"
    [] s \in { "cursor", "wallpaper" }       -> IF present THEN "default" ELSE "theme's"
    [] OTHER                                 -> "default"

Value(f, s, k) ==
  LET at == { i \in DOMAIN f : f[i].name = s }
      x  == f[CHOOSE i \in at : TRUE]
  IN CASE at = {}                             -> Default(s, k, FALSE)
       [] at # {} /\ k \in DOMAIN x.body      -> x.body[k]
       [] at # {} /\ k \notin DOMAIN x.body   -> Default(s, k, TRUE)

Reads(f) == [p \in Settings |-> Value(f, p[1], p[2])]

\* resolve_shell_theme_from_config: what the shell shows for a file.
Shown(f) == [theme |-> Value(f, "general", "theme"),
             path |-> Value(f, "wallpaper", "path"), mode |-> Value(f, "wallpaper", "mode")]
-----------------------------------------------------------------------------
(* Writing: the functions on the text.                                     *)

Is(x, s) == x.plain /\ x.name = s
Has(f, s) == \E i \in DOMAIN f : Is(f[i], s)

\* Mutant: from the section on, everything goes.
StripToEnd(f, s) ==
  LET at == { i \in DOMAIN f : Is(f[i], s) }
  IN IF at = {} THEN f ELSE SubSeq(f, 1, (CHOOSE i \in at : TRUE) - 1)

Ascending(S) == CHOOSE g \in [1 .. Cardinality(S) -> S] : \A i, j \in DOMAIN g : i < j => g[i] < g[j]

\* strip_toml_section: the other sections, in their order.
Strip(f, s) ==
  LET others == { i \in DOMAIN f : ~ Is(f[i], s) }
      at     == Ascending(others)
  IN [i \in 1 .. Cardinality(others) |-> f[at[i]]]

\* The lines of a section with those of `new` written over them or added.
With(x, new) ==
  [x EXCEPT !.body = [k \in DOMAIN new \cup DOMAIN @ |-> IF k \in DOMAIN new THEN new[k] ELSE @[k]]]
Line(k, v) == [x \in {k} |-> v]

\* save_theme, set_idle_timeout_in_toml, set_output_mode_in_toml and set_output_key_in_toml
SetKey(f, s, k, v) ==
  IF Has(f, s) THEN [i \in DOMAIN f |-> IF Is(f[i], s) THEN With(f[i], Line(k, v)) ELSE f[i]]
               ELSE Append(f, Section(s, Line(k, v)))

\* set_idle_timeout_in_toml without a time-out, remove_output_key_in_toml
RemoveKey(f, s, k) ==
  [i \in DOMAIN f |-> IF Is(f[i], s)
                      THEN [f[i] EXCEPT !.body = [x \in DOMAIN @ \ {k} |-> @[x]]] ELSE f[i]]

\* save_wallpaper, set_cursor_in_toml, save_pinned_apps: the section is written anew.
SetSection(f, s, body) == Append(Strip(f, s), Section(s, body))

\* set_primary_output_in_toml: every section of an output says whether it is the one.
SetPrimary(f, o) ==
  SetKey([i \in DOMAIN f |->
            IF f[i].plain /\ f[i].name \in Outputs
            THEN With(f[i], Line("primary", IF f[i].name = o THEN "true" ELSE "false"))
            ELSE f[i]],
         o, "primary", "true")
-----------------------------------------------------------------------------
Init ==
  /\ file \in { t \in Texts : Valid(t) }
  /\ save = {} /\ reloads = 0 /\ replies = << >>
  /\ running = Reads(file)
  /\ shell = Shown(file)
  /\ cursor = << running[<< "cursor", "theme" >>], running[<< "cursor", "size" >>] >>
  /\ untold = FALSE /\ saves = 0 /\ edits = 0

\* read_to_string(..).unwrap_or_default(): a file that cannot be read is taken for an empty one.
Readings == { file, << >> }

\* The shell has read the file and opens it for writing, which cuts it off; `told` is whether
\* the compositor is to reload afterwards.
Begin(read, content, touched, told) ==
  /\ save = {} /\ saves < MaxSaves /\ saves' = saves + 1
  /\ save' = {[read |-> read, content |-> content, touched |-> touched, told |-> told]}
  /\ file' = << >>
  /\ UNCHANGED << reloads, replies, running, untold, edits >>

\* The text is written, or cannot be (a full disk) and the file stays empty, which is only
\* logged; then ReloadConfig is sent.
Finish ==
  \E s \in save :
    /\ save' = {}
    /\ file' \in { s.content, << >> }
    /\ reloads' = (IF s.told THEN reloads + 1 ELSE reloads)
    /\ untold' = (untold \/ ~ s.told)
    /\ UNCHANGED << replies, running, shell, cursor, saves, edits >>

\* apply_theme shows the theme at once, the web settings (AppearanceThemeSet) wait for the
\* reload.
SaveTheme(v) ==
  /\ \E f \in Readings : Begin(f, SetKey(f, "general", "theme", v), { << "general", "theme" >> }, TRUE)
  /\ \/ shell' = [shell EXCEPT !.theme = v]
     \/ v # shell.theme /\ UNCHANGED shell
  /\ UNCHANGED cursor

\* save_idle_timeout, "off" for never
SaveIdle(v) ==
  /\ \E f \in Readings :
       Begin(f, IF v = "off" THEN RemoveKey(f, "general", "idle") ELSE SetKey(f, "general", "idle", v),
             { << "general", "idle" >> }, TRUE)
  /\ UNCHANGED << shell, cursor >>

\* save_cursor: theme and size together, the one that was not clicked as the shell has it.
SaveCursor(t, z) ==
  /\ t = cursor[1] \/ z = cursor[2]
  /\ \E f \in Readings :
       Begin(f, SetSection(f, "cursor", [theme |-> t, size |-> z]),
             { << "cursor", "theme" >>, << "cursor", "size" >> }, TRUE)
  /\ cursor' = << t, z >> /\ UNCHANGED shell

\* apply_wallpaper, AppearanceWallpaperSet, AppearanceWallpaperModeSet
SaveWallpaper(p, m) ==
  /\ p = shell.path \/ m = shell.mode
  /\ \E f \in Readings :
       Begin(f, SetSection(f, "wallpaper", [path |-> p, mode |-> m]),
             { << "wallpaper", "path" >>, << "wallpaper", "mode" >> }, TRUE)
  /\ shell' = [shell EXCEPT !.path = p, !.mode = m] /\ UNCHANGED cursor

\* save_pinned_apps: the compositor does not use them.
SavePinned(v) ==
  /\ \E f \in Readings : Begin(f, SetSection(f, "panel", [pinned |-> v]), { << "panel", "pinned" >> }, FALSE)
  /\ UNCHANGED << shell, cursor >>

SavePrimary(o) ==
  /\ \E f \in Readings : Begin(f, SetPrimary(f, o), { << x, "primary" >> : x \in Outputs }, TRUE)
  /\ UNCHANGED << shell, cursor >>

\* write_output_key, remove_output_key
SaveOutput(o, k, v) ==
  /\ \E f \in Readings :
       Begin(f, IF v = "off" THEN RemoveKey(f, o, k) ELSE SetKey(f, o, k, v), { << o, k >> }, TRUE)
  /\ UNCHANGED << shell, cursor >>

SaveMode(o) == SaveOutput(o, "mode", "2")
SaveScale(o) == SaveOutput(o, "scale", "2")
SaveTransform(o) == \E v \in { "90", "off" } : SaveOutput(o, "transform", v)

\* reload_config: a file that cannot be parsed leaves everything as it is.
Reload ==
  /\ reloads > 0 /\ reloads' = reloads - 1
  /\ replies' = Append(replies, Valid(file))
  /\ running' = (IF Valid(file) THEN Reads(file) ELSE running)
  /\ untold' = (untold /\ ~ Valid(file))
  /\ UNCHANGED << file, save, shell, cursor, saves, edits >>

\* handle_config_reloaded: after a success the shell reads the file itself, everything but
\* the cursor.
Reloaded ==
  /\ replies # << >> /\ save = {}
  /\ replies' = Tail(replies)
  /\ shell' = (IF Head(replies) /\ Valid(file)
               THEN Shown(file) ELSE shell)
  /\ UNCHANGED << file, save, reloads, running, cursor, untold, saves, edits >>

\* The user saves the file in an editor, and perhaps asks for a reload.  (Not in the moment
\* between the two steps of a save.)
Edit ==
  /\ edits < MaxEdits /\ edits' = edits + 1 /\ save = {}
  /\ file' \in Texts /\ untold' = TRUE
  /\ reloads' \in { reloads, reloads + 1 }
  /\ UNCHANGED << save, replies, running, shell, cursor, saves >>

Next ==
  \/ \E v \in { "dark", "light" } : SaveTheme(v)
  \/ \E v \in { "off", "600" } : SaveIdle(v)
  \/ \E t \in { cursor[1], "Breeze" }, z \in { cursor[2], "32" } : SaveCursor(t, z)
  \/ \E p \in { shell.path, "beach" }, m \in { shell.mode, "fit" } : SaveWallpaper(p, m)
  \/ SavePinned("some")
  \/ \E o \in Outputs : SavePrimary(o) \/ SaveMode(o) \/ SaveScale(o) \/ SaveTransform(o)
  \/ Finish \/ Reload \/ Reloaded \/ Edit

Spec == Init /\ [][Next]_vars
-----------------------------------------------------------------------------
(* Properties                                                              *)

Plain(f) == \A i \in DOMAIN f : f[i].plain

\* What a save leaves alone, for the settings in `among`.
Untouched(s, among) ==
  \A p \in among \ s.touched : Value(s.content, p[1], p[2]) = Value(s.read, p[1], p[2])

\* A save of one setting writes a file that can be read and in which every other setting
\* still reads as in the text the save was made from - the keys of the same section, the
\* sections behind it, the other outputs - whatever sequence of saves and edits came before.
\* That text is the file's, and then the save keeps the rest of it; or nothing, when the file
\* could not be read, and then everything but the new setting is lost to the defaults: of the
\* file as it was nothing is promised in that case.  Headers with a comment are beyond the
\* property, and so is the idle time-out when [general] is added: see OnlyTheKey.
KeepsTheRest ==
  \A s \in save : Valid(s.read) /\ Plain(s.read) =>
    /\ Valid(s.content)
    /\ Untouched(s, { p \in Settings : p # << "general", "idle" >> \/ Has(s.read, "general") })

\* When the last command and the last answer have been handled, compositor and shell run
\* with the theme and wallpaper that are in the file, whichever of them was first to show a
\* change, whatever was saved meanwhile, and also after a save that failed - unless the
\* file cannot be read, or was last written without a command (in an editor, or with the
\* pinned applications; a reload between the two steps of that save is never made good).
AllFollow ==
  (save = {} /\ reloads = 0 /\ replies = << >> /\ Valid(file) /\ ~ untold) =>
    LET now == Reads(file)
    IN /\ \A p \in Settings : p[1] # "panel" => running[p] = now[p]
       /\ shell = Shown(file)

\* "Write (or update) only the theme key in the config file without touching any other
\* settings the user may have made." (config/mutation.rs:2)  Here: any of those it has read.
OnlyTheKey ==
  \A s \in save : s.touched = { << "general", "theme" >> } /\ Valid(s.read) => Untouched(s, Settings)
=============================================================================
