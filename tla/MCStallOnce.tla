----------------------------- MODULE MCStallOnce -----------------------------
(***************************************************************************)
(* SrtpProxy for TLC with a history variable: whether the proxy has called *)
(* its stall callback before.                                              *)
(***************************************************************************)
EXTENDS SrtpProxy

VARIABLE alarmed

HistoryInit == Init /\ alarmed = FALSE
HistoryNext == Next /\ alarmed' = (alarmed \/ stallFired)
HistorySpec == HistoryInit /\ [][HistoryNext]_<<vars, alarmed>> /\ Fairness

\* What proxy.go 146 and 653 say of the stall callback: it is called "at most once
\* per proxy lifetime".  Main makes one proxy for each camera and opens it again for
\* every session, and stallFired is a local variable of the keepalive loop (643:
\* "per session"): each session of the proxy may call it.
StallOncePerProxy == [][~stallFired /\ stallFired' => ~alarmed]_<<vars, alarmed>>

=============================================================================
