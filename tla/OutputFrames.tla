---------------------------- MODULE OutputFrames ----------------------------
(***************************************************************************)
(* The repaint state of the DRM outputs: which are driven, powered, dirty, *)
(* have a frame in flight, and what each screen shows.  Frames are told    *)
(* apart only by what they contain: the session, the lock scene or nothing *)
(* but black.  Outputs are known by their names, which are distinct here   *)
(* (OutputLifecycle shows when they are not), and each has its own CRTC.   *)
(***************************************************************************)
EXTENDS Naturals, FiniteSets

CONSTANTS
    Outputs,     \* output names
    MaxFaults    \* bound: failed render_frame or queue_frame calls

ASSUME FramesAssumption == IsFiniteSet(Outputs) /\ MaxFaults \in Nat

VARIABLES
    present,     \* registered outputs, each with its DrmOutput
    disabled,    \* DrmBackend::disabled_outputs, those disabled by a reload
    off,         \* OutputPowerManager::modes: the names whose mode is Off
    dirty,       \* outputs with needs_repaint set
    inFlight,    \* the frame queued and not yet flipped, "none" if there is none
    shown,       \* the frame on the screen
    blanked,     \* MeridianState::idle_blanked
    faults       \* failures so far

frameVars == <<present, disabled, off, dirty, inFlight, shown, blanked, faults>>
layout == <<present, disabled, off>>

Frames == {"none", "session", "lock", "black"}

(* A lock scene without a lock surface is black too. *)
Dark == {"lock", "black"}

FramesTypeOK ==
    /\ present \subseteq Outputs
    /\ disabled \subseteq Outputs \ present
    /\ off \subseteq Outputs
    /\ dirty \subseteq present
    /\ inFlight \in [Outputs -> Frames]
    /\ shown \in [Outputs -> Frames]
    /\ blanked \in BOOLEAN
    /\ faults \in 0..MaxFaults

(* The first frames have been shown (a failing first commit is fatal). *)
FramesInit ==
    /\ present \in SUBSET Outputs /\ present # {}
    /\ disabled = {} /\ off = {} /\ dirty = {}
    /\ inFlight = [o \in Outputs |-> "none"]
    /\ shown = [o \in Outputs |-> IF o \in present THEN "session" ELSE "none"]
    /\ blanked = FALSE
    /\ faults = 0

-----------------------------------------------------------------------------
(* The outputs a pass over S composes: render_outputs_for_crtc skips those *)
(* that are powered off, have a frame in flight or are clean.              *)
Composed(S, flying) == {o \in (S \cap dirty) \ off : flying[o] = "none"}

(* The composed outputs whose frame came to an end e. *)
Ended(end, e) == {o \in DOMAIN end : end[o] = e}

(* Mutant: an output is clean once it was composed, whatever then failed. *)
PassForgetsFailures(composed, flying, screen, frame, after) ==
    \E end \in [composed -> {"queued", "failed"}] :
        /\ faults' = faults + Cardinality(Ended(end, "failed"))
        /\ faults' <= MaxFaults
        /\ inFlight' = [o \in Outputs |-> IF o \in Ended(end, "queued") THEN frame ELSE flying[o]]
        /\ dirty' = (dirty \ composed) \cup after

(* The second half of the pass, per composed output: the frame is queued   *)
(* and in flight, or empty because the screen already shows the same, or   *)
(* rendering or queueing fails and the output stays dirty.  The rest of    *)
(* the callback then marks the outputs in `after` dirty.                   *)
Pass(composed, flying, screen, frame, after) ==
    \E end \in [composed -> {"queued", "empty", "failed"}] :
        /\ \A o \in Ended(end, "empty") :
              screen[o] = frame \/ (screen[o] \in Dark /\ frame \in Dark)
        /\ faults' = faults + Cardinality(Ended(end, "failed"))
        /\ faults' <= MaxFaults
        /\ inFlight' = [o \in Outputs |-> IF o \in Ended(end, "queued") THEN frame ELSE flying[o]]
        /\ dirty' = (dirty \ composed) \cup Ended(end, "failed") \cup after

(* The registered outputs that are On after the change: what the guard of  *)
(* set_mode counts (OutputPowerManager::projected_on_count).               *)
OnAfter(o, mode) == IF mode = "off" THEN present \ (off \cup {o}) ELSE present \ (off \ {o})
=============================================================================
