----------------------------- MODULE DefaultApps -----------------------------
(***************************************************************************)
(* The page of default applications (default_apps.rs, content/default_     *)
(* apps.rs, and their actions in widget_dispatch/dispatch.rs).             *)
(*                                                                         *)
(* Reading and writing a default starts xdg-mime.  The page reads in the   *)
(* event loop and writes on threads: one per pick, and one that gives      *)
(* every category without a default a sensible one.  Nothing tells the     *)
(* event loop that a thread has ended, and nothing orders the threads.  A  *)
(* question to xdg-mime that fails is taken for the answer "none".         *)
(*                                                                         *)
(* A category stands for all of its MIME types; that one type of it can    *)
(* have another default than the one asked for is left out.                *)
(***************************************************************************)
EXTENDS Naturals, FiniteSets

CONSTANTS Cats,       \* categories, DefaultAppCategory::ALL
          Apps,       \* desktop ids; "" stands for none
          Hidden,     \* those whose entry says Hidden or NoDisplay
          MaxClicks   \* bound on the clicks that start a thread

VARIABLES
  installed, \* for each category the applications that can open its files
  disk,      \* for each category the default in mimeapps.list
  page,      \* the page is on the screen
  index,     \* default_apps_index, for each category the applications in its list
  current,   \* default_apps_current
  picker,    \* default_apps_picker_open, a category or ""
  rows,      \* what the last draw shows: the defaults, and the candidates in the picker
  picks,     \* threads that write a pick, records of a category and an application
  auto,      \* the threads that fill empty categories, each the categories it has yet to
             \* see, the one it has found empty and whether that was a failed query
  user,      \* for each category the application the user picked last
  clicks

vars == << installed, disk, page, index, current, picker, rows, picks, auto, user, clicks >>

\* preferred_desktop_ids, in some order
Preferred == CHOOSE f \in [1 .. Cardinality(Apps) -> Apps] : \A i, j \in DOMAIN f : f[i] = f[j] => i = j
Defaults  == [Cats -> Apps \cup {""}]
Handles   == [Cats -> SUBSET Apps]

\* build_default_apps_content: an overview, or the open category with its candidates.
Page(ix, cur, pk) ==
  IF pk = "" THEN [now |-> cur, candidates |-> {}]
             ELSE [now |-> [c \in {pk} |-> cur[c]], candidates |-> ix[pk]]

Draw == rows' = IF page' THEN Page(index', current', picker') ELSE rows

\* MimeAppIndex::load: what parse_mime_candidate makes of the desktop entries in the
\* directories of applications, which is nothing for a hidden one.
Scanned == [c \in Cats |-> installed[c] \ Hidden]

\* query_default: the default, or none, also when xdg-mime cannot be run or fails.
Answers(c) == { disk[c], "" }

\* refresh_default_apps_snapshot
Refresh == index' = Scanned /\ current' \in { f \in Defaults : \A c \in Cats : f[c] \in Answers(c) }

Init ==
  /\ installed \in Handles /\ disk \in Defaults
  /\ \A c \in Cats : disk[c] \in installed[c] \cup {""}
  /\ page = FALSE /\ index = [c \in Cats |-> {}] /\ current = [c \in Cats |-> ""]
  /\ picker = "" /\ rows = Page(index, current, "")
  /\ picks = {} /\ auto = {} /\ user = [c \in Cats |-> ""] /\ clicks = 0

\* SetSettingsCategory(DefaultApps), also when the page is on the screen already.
Enter ==
  /\ page' = TRUE /\ picker' = ""
  /\ Refresh
  /\ UNCHANGED << installed, disk, picks, auto, user, clicks >>
  /\ Draw

Leave == page /\ page' = FALSE /\ UNCHANGED << installed, disk, index, current, picker, rows, picks, auto, user, clicks >>

\* DefaultAppsTogglePicker from the overview, DefaultAppsClosePicker or the toggle of the
\* open category.
TogglePicker(c) ==
  /\ page
  /\ picker' = (IF picker = "" THEN c ELSE "")
  /\ UNCHANGED << installed, disk, page, index, current, picks, auto, user, clicks >>
  /\ Draw

\* DefaultAppsPick: the row shows the pick at once.
Pick(a) ==
  /\ page /\ picker # "" /\ a \in index[picker] /\ clicks < MaxClicks
  /\ picks' = picks \cup { [cat |-> picker, app |-> a] }
  /\ current' = [current EXCEPT ![picker] = a]
  /\ user' = [user EXCEPT ![picker] = a]
  /\ picker' = "" /\ clicks' = clicks + 1
  /\ UNCHANGED << installed, disk, page, index, auto >>
  /\ Draw

\* A thread that fills empty categories.
Fill(left, found, missed, ix) == [left |-> left, found |-> found, missed |-> missed, index |-> ix]

\* DefaultAppsAutoSet, a button of the overview: the thread takes the index as it is.
AutoSet ==
  /\ page /\ picker = "" /\ clicks < MaxClicks
  /\ auto' = auto \cup { Fill(Cats, "", FALSE, index) }
  /\ Refresh
  /\ clicks' = clicks + 1
  /\ UNCHANGED << installed, disk, page, picker, picks, user >>
  /\ Draw

\* A pick's xdg-mime ends, or fails.
PickWrites(p) ==
  /\ p \in picks /\ picks' = picks \ {p}
  /\ disk' \in { disk, [disk EXCEPT ![p.cat] = p.app] }
  /\ UNCHANGED << installed, page, index, current, picker, rows, auto, user, clicks >>

\* Mutant: every category is filled.
AutoFillsAll(t) ==
  /\ t \in auto /\ t.found = ""
  /\ IF t.left = {} THEN auto' = auto \ {t}
     ELSE \E c \in t.left :
            LET d == [t EXCEPT !.left = @ \ {c}]
            IN auto' = (auto \ {t}) \cup { IF t.index[c] # {} THEN [d EXCEPT !.found = c] ELSE d }
  /\ UNCHANGED << installed, disk, page, index, current, picker, rows, picks, user, clicks >>

\* The next category: it has a default, or none, or the query fails.
AutoQueries(t) ==
  /\ t \in auto /\ t.found = ""
  /\ IF t.left = {} THEN auto' = auto \ {t}
     ELSE \E c \in t.left : \E answer \in Answers(c) :
            auto' = (auto \ {t}) \cup
                      { IF answer = "" /\ t.index[c] # {}
                        THEN Fill(t.left \ {c}, c, disk[c] # "", t.index)
                        ELSE Fill(t.left \ {c}, "", FALSE, t.index) }
  /\ UNCHANGED << installed, disk, page, index, current, picker, rows, picks, user, clicks >>

Sensible(ix, c) == Preferred[CHOOSE i \in DOMAIN Preferred :
                     Preferred[i] \in ix[c] /\ \A k \in 1..(i - 1) : Preferred[k] \notin ix[c]]

\* The category found empty gets the first preferred application that can open it.
AutoWrites(t) ==
  /\ t \in auto /\ t.found # ""
  /\ auto' = (auto \ {t}) \cup { Fill(t.left, "", FALSE, t.index) }
  /\ disk' \in { disk, [disk EXCEPT ![t.found] = Sensible(t.index, t.found)] }
  /\ UNCHANGED << installed, page, index, current, picker, rows, picks, user, clicks >>

Next ==
  \/ Enter \/ Leave \/ AutoSet
  \/ \E c \in Cats : TogglePicker(c)
  \/ \E a \in Apps : Pick(a)
  \/ \E p \in picks : PickWrites(p)
  \/ \E t \in auto : AutoQueries(t) \/ AutoWrites(t)

Spec == Init /\ [][Next]_vars
-----------------------------------------------------------------------------
(* Properties                                                              *)

\* Filling the empty categories replaces a default that is set only where the user has picked
\* for the category, or where the fill could not ask for it: a query that fails is taken for
\* an empty category (default_apps.rs:344-358), and the fill then writes over a default nobody
\* touched.  However many fills and picks run at once, it happens in no other way.
DefaultsKept ==
  [][\A c \in Cats : disk[c] \notin { "", disk'[c] } =>
       user[c] # "" \/ \E t \in auto \ auto' : t.found = c /\ t.missed]_vars
=============================================================================
