--------------------------- MODULE MCEventWriter ---------------------------
(***************************************************************************)
(* Model-checking instance of EventWriter.                                 *)
(***************************************************************************)
EXTENDS EventWriter

CONSTANTS
  MaxCrashes    \* bound on the process's deaths

VARIABLE crashes

mcVars == <<vars, crashes>>

MCInit == Init /\ crashes = 0

MCNext ==
  \/ /\ \/ Initialize \/ WriteStep
        \/ \E id \in EventId, clip \in BOOLEAN : TakeEvent(id, clip)
     /\ UNCHANGED crashes
  \/ crashes < MaxCrashes /\ Crash /\ crashes' = crashes + 1
  \/ process = "up" /\ pc = "idle" /\ used = EventId /\ UNCHANGED mcVars

MCSpec == MCInit /\ [][MCNext]_mcVars
=============================================================================
