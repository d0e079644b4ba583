---------------------------- MODULE MCAgentAndLock ----------------------------
(***************************************************************************)
(* The two components whose liveness is checked on instances of their own: *)
(* the polkit agent, extended here, and the session lock.  They share no   *)
(* state; `part` says which of them a behaviour is about, and the other    *)
(* stays where it starts.                                                  *)
(***************************************************************************)
EXTENDS PolkitAgent

CONSTANTS Outputs, Locks, MaxFaults     \* of SessionLock

VARIABLES
  part,   \* the component this behaviour is about
  present, disabled, off, dirty, inFlight, shown, blanked, faults, phase, targets, locker, client

SessionLock == INSTANCE SessionLock

lockPart == << present, disabled, off, dirty, inFlight, shown, blanked, faults, phase, targets,
               locker, client >>
allVars == << part, vars, lockPart >>
-----------------------------------------------------------------------------
PartsInit == /\ Init /\ SessionLock!Init
             /\ part \in { "agent", "lock" }
             /\ part = "agent" => present = Outputs

Answers(A) == part = "agent" /\ A /\ UNCHANGED << part, lockPart >>
Locking(A) == part = "lock" /\ A /\ UNCHANGED << part, vars >>

\* The agent may come to a stop, with every request answered; the compositor never does.
PartsNext == \/ Answers(Next)
             \/ Locking(SessionLock!Next)
             \/ part = "agent" /\ UNCHANGED allVars

\* Both event loops of the agent keep running and a helper ends, if only by its time-out; the
\* compositor's repaint timer re-arms itself, and every queued flip completes.
PartsFairness ==
  /\ WF_allVars(Answers(TakeDbusEvent)) /\ WF_allVars(Answers(TakePamResult))
  /\ \A c \in Cookies : WF_allVars(Answers(ReturnCall(c))) /\ WF_allVars(Answers(HelperEnds(c)))
  /\ WF_allVars(Locking(SessionLock!RepaintTick))
  /\ \A o \in Outputs : WF_allVars(Locking(SessionLock!VBlank(o)))

PartsSpec == PartsInit /\ [][PartsNext]_allVars /\ PartsFairness
-----------------------------------------------------------------------------
(* Properties.  Those of the agent are PolkitAgent's: they hold where it   *)
(* has not started.                                                        *)

\* A pending lock is settled unless an output it waits for is powered off, see SessionLock.
PendingSettles == SessionLock!PendingSettles

\* Once locked, and as long as all outputs are powered on, every screen comes to show
\* something else than the session, failed frames or not, see SessionLock.
ScreensCovered == SessionLock!ScreensCovered
=============================================================================
