-------------------------- MODULE MCRtspLifecycle --------------------------
(***************************************************************************)
(* Model-checking instance of RtspLifecycle: bounds the sessions.          *)
(***************************************************************************)
EXTENDS RtspLifecycle

CONSTANT MaxSessions  \* bound on the sessions of a pool

MCNext ==
  \/ StartBegin \/ StartFails \/ StopBegin \/ Caller
  \/ Loop \/ TickEnter
  \/ \E c \in Clients :
       \/ ClientConnect(c) \/ Signal(c)
       \/ /\ client[c].epoch # 0 /\ Sessions(client[c].epoch) < MaxSessions
          /\ NewSession(c)
  \/ \E e \in Epochs : SessionExpires(e) \/ Owner(e)

MCSpec == Init /\ [][MCNext]_vars /\ Fairness
=============================================================================
