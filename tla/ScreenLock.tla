----------------------------- MODULE ScreenLock -----------------------------
(***************************************************************************)
(* What the session lock promises its clients (ext-session-lock as the     *)
(* compositor implements it): a lock request is answered at most once, at  *)
(* most one client holds the lock, and the session opens only at an unlock *)
(* request.  The request need not be the holder's: one in error opens the  *)
(* session too and ends the client that made it.  How the compositor       *)
(* decides when to grant a lock is left to the detailed module SessionLock,*)
(* which implements this one.                                              *)
(***************************************************************************)
CONSTANT Locks   \* lock objects of the clients; a destroyed one can be made anew

VARIABLES
    session,     \* "open", "locking" or "locked"
    answer       \* how each lock object stands

vars == <<session, answer>>

(* "none" before it asks and once it has let go; told `locked` or          *)
(* `finished`; "ousted": told `locked`, but the session was opened by      *)
(* another; "gone" with its client; "expelled" for unlocking in error.     *)
Answers == {"none", "waiting", "locked", "ousted", "finished", "gone", "expelled"}

TypeOK ==
    /\ session \in {"open", "locking", "locked"}
    /\ answer \in [Locks -> Answers]

Init ==
    /\ session = "open"
    /\ answer = [l \in Locks |-> "none"]

(* Only an open session is locked, at once or later; others are refused. *)
Request(l) ==
    /\ answer[l] \in {"none", "gone", "expelled"}
    /\ \/ session = "open" /\ session' = "locking"
          /\ answer' = [answer EXCEPT ![l] = "waiting"]
       \/ session = "open" /\ session' = "locked"
          /\ answer' = [answer EXCEPT ![l] = "locked"]
       \/ session # "open" /\ UNCHANGED session
          /\ answer' = [answer EXCEPT ![l] = "finished"]

(* The lock is granted; nobody hears of it if the client has left. *)
Grant ==
    /\ session = "locking"
    /\ session' = "locked"
    /\ answer' = [l \in Locks |-> IF answer[l] = "waiting" THEN "locked" ELSE answer[l]]

(* After an unlock by l: who waits is refused, who held the lock holds it  *)
(* no longer, and l is gone, in error if it was never told `locked`.       *)
Released(l) ==
    [m \in Locks |->
        CASE m = l /\ answer[l] \in {"locked", "ousted"} -> "none"
          [] m = l /\ answer[l] \notin {"locked", "ousted"} -> "expelled"
          [] m # l /\ answer[m] = "waiting" -> "finished"
          [] m # l /\ answer[m] = "locked" -> "ousted"
          [] OTHER -> answer[m]]

Release(l) ==
    /\ answer[l] \in {"waiting", "locked", "ousted", "finished"}
    /\ session' = "open"
    /\ answer' = Released(l)

(* A client that withdraws its request or dies leaves the session as it is. *)
Leave(l) ==
    /\ answer[l] \in {"waiting", "locked", "ousted", "finished"}
    /\ answer' = [answer EXCEPT ![l] = "gone"]
    /\ UNCHANGED session

Next ==
    \/ Grant
    \/ \E l \in Locks : Request(l) \/ Release(l) \/ Leave(l)

Spec == Init /\ [][Next]_vars

-----------------------------------------------------------------------------
(* A lock that is held or asked for belongs to one client at most, and     *)
(* only a session that is locked (or locking) has one: of the clients that *)
(* heard `locked` since the session was last open there is at most one.    *)
OneHolder ==
    /\ \A l, m \in Locks : {answer[l], answer[m]} \subseteq {"waiting", "locked"} => l = m
    /\ \A l \in Locks : /\ answer[l] = "waiting" => session = "locking"
                        /\ answer[l] = "locked" => session = "locked"

(* A session that is locked, or about to be, opens only when a client asks *)
(* for it: one that heard `locked` lets go, or another is expelled for     *)
(* asking.  It never opens because a client dies or withdraws              *)
(* (docs/OPENBSD_SANDBOX_PLAN.md: a lock-process failure must never        *)
(* release an acquired session lock), and once it is open nobody holds it. *)
OpensByRequest ==
    session # "open" /\ session' = "open" =>
        /\ \E l \in Locks : \/ answer[l] \in {"locked", "ousted"} /\ answer'[l] = "none"
                            \/ answer'[l] = "expelled" /\ answer[l] # "expelled"
        /\ \A l \in Locks : answer'[l] \notin {"waiting", "locked"}

OpensOnRequest == [][OpensByRequest]_vars
=============================================================================
