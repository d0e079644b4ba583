---------------------------- MODULE SessionLock ----------------------------
(***************************************************************************)
(* The session lock of the compositor together with what it depends on:    *)
(* the repaint loop that confirms a lock, the outputs that come and go     *)
(* while it is pending, and output power, which stops repainting.          *)
(*                                                                         *)
(* Each action is one callback of the event loop.                          *)
(***************************************************************************)
EXTENDS OutputFrames

CONSTANT Locks   \* ext_session_lock_v1 objects

NoLock == "no lock"
Orphan == "destroyed lock"   \* a lock object whose client is gone

ASSUME LocksAssumption == NoLock \notin Locks /\ Orphan \notin Locks

VARIABLES
    phase,      \* LockManager::phase
    targets,    \* LockManager::pending_targets
    locker,     \* LockManager::pending_locker: the lock object it answers
    client      \* how each lock object stands, see ScreenLock

lockVars == <<phase, targets, locker, client>>
vars == <<frameVars, lockVars>>

(* What the lock's clients see of it; an object that was told `locked`     *)
(* keeps its lock_status, also when another one opened its session.        *)
Abstract == INSTANCE ScreenLock WITH
    session <- CASE phase = "Unlocked" -> "open"
                 [] phase = "Pending" -> "locking"
                 [] OTHER -> "locked",
    answer <- client

TypeOK ==
    /\ FramesTypeOK
    /\ phase \in {"Unlocked", "Pending", "Locked"}
    /\ targets \subseteq Outputs
    /\ locker \in Locks \cup {NoLock, Orphan}
    /\ client \in [Locks -> Abstract!Answers]

Init ==
    /\ FramesInit
    /\ phase = "Unlocked"
    /\ targets = {} /\ locker = NoLock
    /\ client = [l \in Locks |-> "none"]

-----------------------------------------------------------------------------
(* Mutants: the lock is confirmed by its first frame; the last target is   *)
(* dropped without a confirmation.                                         *)
SettleFirst(done) ==
    IF phase = "Pending" /\ targets \cap done # {}
    THEN /\ phase' = "Locked" /\ targets' = {} /\ locker' = NoLock
         /\ client' = [l \in Locks |-> IF l = locker THEN "locked" ELSE client[l]]
    ELSE UNCHANGED <<phase, targets, locker, client>>

SettleUnconfirmed(done) ==
    targets' = targets \ done /\ UNCHANGED <<phase, locker, client>>

(* record_pending_frame and forget_pending_target for the outputs in done, *)
(* and the confirmation that follows when no target is left.               *)
Settle(done) ==
    IF phase = "Pending" /\ targets \subseteq done
    THEN /\ phase' = "Locked" /\ targets' = {} /\ locker' = NoLock
         /\ client' = [l \in Locks |-> IF l = locker THEN "locked" ELSE client[l]]
    ELSE /\ targets' = targets \ done
         /\ UNCHANGED <<phase, locker, client>>

(* What a pass draws: nothing while blanked, only lock surfaces while the  *)
(* session is locked or about to be, else the session.                     *)
Scene ==
    CASE blanked -> "black"
      [] ~blanked /\ phase # "Unlocked" -> "lock"
      [] OTHER -> "session"

(* render_outputs_for_crtc: a lock target is settled when it is composed.  *)
RenderOutputs(S, flying, screen, after) ==
    LET composed == Composed(S, flying)
    IN  /\ Pass(composed, flying, screen, Scene, after)
        /\ Settle(composed)
        /\ UNCHANGED layout

(* The repaint an idle callback runs after something was marked dirty. *)
IdleRepaint ==
    /\ RenderOutputs(Outputs, inFlight, shown, {})
    /\ UNCHANGED <<shown, blanked>>

(* The repaint timer.  The idle timeout may strike at any tick; from then  *)
(* on every tick makes all outputs dirty again.                            *)
RepaintTick ==
    \E idle \in BOOLEAN :
        /\ blanked' = (blanked \/ idle)
        /\ RenderOutputs(Outputs, inFlight, shown, IF blanked' THEN present ELSE {})
        /\ UNCHANGED shown

Cleared(frames, o) == [frames EXCEPT ![o] = "none"]

(* A page flip has completed: the frame is on the screen, and an output    *)
(* that is dirty again is rendered at once.                                *)
VBlank(o) ==
    /\ inFlight[o] # "none"
    /\ LET screen == [shown EXCEPT ![o] = inFlight[o]]
       IN  /\ shown' = screen
           /\ RenderOutputs({o}, Cleared(inFlight, o), screen, {})
    /\ UNCHANGED blanked

(* A client, an animation or the pointer damages an output. *)
Damage(o) ==
    /\ o \in present
    /\ dirty' = dirty \cup {o}
    /\ UNCHANGED <<layout, inFlight, shown, blanked, faults, lockVars>>

(* Input ends the blanking (process_input_event). *)
Wake ==
    /\ blanked
    /\ blanked' = FALSE
    /\ dirty' = present
    /\ UNCHANGED <<layout, inFlight, shown, faults, lockVars>>

-----------------------------------------------------------------------------
(* A destroyed lock object may be made anew. *)
Unused(l) == client[l] \in {"none", "gone", "expelled"}

(* Mutant: nothing asks for the frames the lock waits for. *)
LockWithoutRepaint(l) ==
    /\ Unused(l) /\ phase = "Unlocked" /\ present # {}
    /\ phase' = "Pending" /\ targets' = present /\ locker' = l
    /\ client' = [client EXCEPT ![l] = "waiting"]
    /\ UNCHANGED frameVars

(* SessionLockHandler::lock.  Without outputs the lock is held at once.    *)
(* A lock or a pending lock refuses any other: its confirmation is dropped.*)
Lock(l) ==
    /\ Unused(l)
    /\ \/ /\ phase # "Unlocked"
          /\ client' = [client EXCEPT ![l] = "finished"]
          /\ UNCHANGED <<phase, targets, locker, dirty>>
       \/ /\ phase = "Unlocked" /\ present # {}
          /\ phase' = "Pending" /\ targets' = present /\ locker' = l
          /\ client' = [client EXCEPT ![l] = "waiting"]
          /\ dirty' = present
       \/ /\ phase = "Unlocked" /\ present = {}
          /\ phase' = "Locked"
          /\ client' = [client EXCEPT ![l] = "locked"]
          /\ UNCHANGED <<targets, locker, dirty>>
    /\ UNCHANGED <<layout, inFlight, shown, blanked, faults>>

(* Mutant: the session opens when the client that holds the lock dies.     *)
AbandonUnlocks(l) ==
    /\ ~Unused(l)
    /\ phase' = IF client[l] = "locked" THEN "Unlocked" ELSE phase
    /\ client' = [client EXCEPT ![l] = "gone"]
    /\ locker' = IF locker = l THEN Orphan ELSE locker
    /\ UNCHANGED <<targets, frameVars>>

(* unlock_and_destroy of any lock object there is: one that was not told   *)
(* `locked` is in error and its client is disconnected (lock.rs:112 of the *)
(* vendored smithay), but SessionLockHandler::unlock runs all the same.    *)
(* The confirmation a lock still waits for is dropped with it.             *)
Unlock(l) ==
    /\ ~Unused(l)
    /\ phase' = "Unlocked" /\ targets' = {} /\ locker' = NoLock
    /\ client' = Abstract!Released(l)
    /\ dirty' = IF phase = "Unlocked" THEN dirty ELSE present
    /\ UNCHANGED <<layout, inFlight, shown, blanked, faults>>

(* The client dies, or destroys the lock (one that is held in error, which *)
(* ends it too).  No handler of the compositor runs.                       *)
Abandon(l) ==
    /\ ~Unused(l)
    /\ client' = [client EXCEPT ![l] = "gone"]
    /\ locker' = IF locker = l THEN Orphan ELSE locker
    /\ UNCHANGED <<phase, targets, frameVars>>

-----------------------------------------------------------------------------
(* An output is plugged in or enabled: it is registered, which makes the   *)
(* others dirty, and its DrmOutput starts dirty.                           *)
OutputAdded(o) ==
    /\ o \notin present
    /\ present' = present \cup {o}
    /\ disabled' = disabled \ {o}
    /\ dirty' = present'
    /\ UNCHANGED <<off, inFlight, shown, blanked, faults, lockVars>>

(* Mutant: the lock is not told of the output that left. *)
OutputLeavesSilently(o) ==
    /\ present' = present \ {o}
    /\ inFlight' = Cleared(inFlight, o)
    /\ shown' = Cleared(shown, o)
    /\ dirty' = present'
    /\ UNCHANGED <<blanked, faults, lockVars>>

(* post_output_state_change after an output left the registry. *)
OutputLeaves(o) ==
    /\ present' = present \ {o}
    /\ inFlight' = Cleared(inFlight, o)
    /\ shown' = Cleared(shown, o)
    /\ dirty' = present'
    /\ Settle({o})
    /\ UNCHANGED <<blanked, faults>>

(* Unplugged: its power mode is forgotten. *)
OutputRemoved(o) ==
    /\ o \in present
    /\ OutputLeaves(o)
    /\ off' = off \ {o}
    /\ UNCHANGED disabled

(* Disabled by a reload: its power mode stays on record. *)
OutputDisabled(o) ==
    /\ o \in present
    /\ OutputLeaves(o)
    /\ disabled' = disabled \cup {o}
    /\ UNCHANGED off

(* A disabled output is unplugged: only the DRM backend notices. *)
DisabledRemoved(o) ==
    /\ o \in disabled
    /\ disabled' = disabled \ {o}
    /\ UNCHANGED <<present, off, dirty, inFlight, shown, blanked, faults, lockVars>>

(* Mutant: every output may be switched off.                               *)
SetPowerFreely(o, mode) ==
    /\ o \in present \cup disabled
    /\ (mode = "off") # (o \in off)
    /\ off' = IF mode = "off" THEN off \cup {o} ELSE off \ {o}
    /\ dirty' = IF mode = "off" THEN dirty ELSE present
    /\ UNCHANGED <<present, disabled, inFlight, shown, blanked, faults, lockVars>>

(* set_mode of an output power object.  A change that would leave no       *)
(* registered output On is refused; switching on repaints.                 *)
SetPower(o, mode) ==
    /\ o \in present \cup disabled
    /\ (mode = "off") # (o \in off)
    /\ OnAfter(o, mode) # {}
    /\ off' = IF mode = "off" THEN off \cup {o} ELSE off \ {o}
    /\ dirty' = IF mode = "off" THEN dirty ELSE present
    /\ UNCHANGED <<present, disabled, inFlight, shown, blanked, faults, lockVars>>

-----------------------------------------------------------------------------
Next ==
    \/ IdleRepaint \/ RepaintTick \/ Wake
    \/ \E o \in Outputs : VBlank(o) \/ Damage(o)
    \/ \E l \in Locks : Lock(l) \/ Unlock(l) \/ Abandon(l)
    \/ \E o \in Outputs : \/ OutputAdded(o) \/ OutputRemoved(o)
                          \/ OutputDisabled(o) \/ DisabledRemoved(o)
    \/ \E o \in Outputs, mode \in {"on", "off"} : SetPower(o, mode)

Spec == Init /\ [][Next]_vars

(* The repaint timer re-arms itself, and every queued flip completes. *)
Fairness == WF_vars(RepaintTick) /\ \A o \in Outputs : WF_vars(VBlank(o))

FairSpec == Spec /\ Fairness

-----------------------------------------------------------------------------
(* A lock is pending exactly while some output still owes a frame and the  *)
(* confirmation is still in hand, whichever way the last one was settled:  *)
(* a frame, a removal, a reload or an unlock.                              *)
PendingIffOwed ==
    /\ phase = "Pending" <=> targets # {}
    /\ phase = "Pending" <=> locker # NoLock

(* No wakeup is lost: every output the lock waits for is still driven and  *)
(* still dirty, so the next pass it takes part in settles it.              *)
TargetsWillRender == targets \subseteq present \cap dirty

(* The confirmation comes when frames are composed, before they are on     *)
(* screen.  Until then the session may still be seen on an output, but     *)
(* only while its lock frame is in flight or it is due for another try.    *)
LockedCovers ==
    phase = "Locked" =>
        \A o \in present : shown[o] = "session" =>
            inFlight[o] \in Dark \/ o \in dirty

(* Unless the session is opened meanwhile, a target is settled by a lock   *)
(* frame drawn for its own output (queued, failed, or already on screen),  *)
(* or by leaving: never by another output's frame, and never by a frame    *)
(* composed before the lock was asked for.                                 *)
DrawnBeforeSettled ==
    [][\A o \in targets \ targets' :
          \/ phase' = "Unlocked"
          \/ o \notin present'
          \/ inFlight'[o] \in Dark
          \/ shown'[o] \in Dark
          \/ faults' > faults]_vars

(* set_mode never takes the last output that is On: only an output that    *)
(* leaves can do that (handlers/output_power.rs: "would leave zero outputs *)
(* On").                                                                   *)
PowerNeverBlacksOut ==
    [][present' = present /\ present \ off # {} => present \ off' # {}]_vars

(* The lock keeps the promise of ScreenLock: with all its frames, failures,*)
(* outputs and power modes, a request is granted or refused once, and a    *)
(* session that was locked is opened by an unlock request and nothing else.*)
Implements == Abstract!Spec
OpensOnRequest == Abstract!OpensOnRequest

-----------------------------------------------------------------------------
(* Liveness, under Fairness. *)

(* A pending lock is settled unless an output it waits for is powered off. *)
PendingSettles == phase = "Pending" ~> phase # "Pending" \/ targets \cap off # {}

(* Once locked, and as long as all outputs are powered on, every screen    *)
(* comes to show something else than the session, failed frames or not.    *)
ScreensCovered ==
    phase = "Locked" ~> \/ phase # "Locked"
                        \/ \A o \in present : shown[o] # "session"
                        \/ present \cap off # {}
=============================================================================
