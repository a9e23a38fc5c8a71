------------------------------ MODULE Lifecycle ------------------------------
(***************************************************************************)
(* What a camera's stream lifecycle promises to the callbacks it drives:   *)
(* the stream is started and stopped by one goroutine at a time, and every *)
(* start or stop that was begun is ended by the goroutine that began it.   *)
(*                                                                         *)
(* The onStart and onStop callbacks share sockets, SRTP keys and a HAP     *)
(* session without a lock of their own, so this is the guarantee that      *)
(* they rely on.  Session implements it.                                   *)
(***************************************************************************)

CONSTANT Proc                \* every goroutine that may drive the lifecycle

VARIABLES
  phase,                     \* "idle", "starting", "streaming" or "stopping"
  driver                     \* the goroutines inside onStart or onStop

vars == <<phase, driver>>

Init ==
  /\ phase = "idle"
  /\ driver = {}

BeginStart(p) ==
  /\ phase = "idle" /\ driver = {}
  /\ phase' = "starting" /\ driver' = {p}

EndStart(p) ==
  /\ phase = "starting" /\ driver = {p}
  /\ phase' \in {"streaming", "idle"} /\ driver' = {}

BeginStop(p) ==
  /\ phase = "streaming" /\ driver = {}
  /\ phase' = "stopping" /\ driver' = {p}

EndStop(p) ==
  /\ phase = "stopping" /\ driver = {p}
  /\ phase' = "idle" /\ driver' = {}

\* A restart goes from its stop straight into its start.
Turn(p) ==
  /\ phase = "stopping" /\ driver = {p}
  /\ phase' = "starting" /\ UNCHANGED driver

Next ==
  \E p \in Proc :
    BeginStart(p) \/ EndStart(p) \/ BeginStop(p) \/ EndStop(p) \/ Turn(p)

Spec == Init /\ [][Next]_vars

=============================================================================
