---------------------------- MODULE ProcessParts ----------------------------
(***************************************************************************)
(* Two small parts of the process, beside each other: the lifecycle of a   *)
(* loop, and the callbacks.  They share no state; each property is that of *)
(* its part, under its own name.                                           *)
(***************************************************************************)
CONSTANTS Loops, Callers                                        \* of Lifecycle
VARIABLES started, stopped, stop, done, loop, caller, saw       \* of Lifecycle

CONSTANTS Jobs, Slots, MaxAttempts, MaxCallbacks, MaxRestarts   \* of Callbacks
VARIABLES state, callback, received, restarts                   \* of Callbacks

LC == INSTANCE Lifecycle
CB == INSTANCE Callbacks

\* One loop runs, whoever begins it, and all who stop it learn what it did (lifecycle.go).
StopIsRight == LC!StopIsRight

\* The receivers are told of each end of a job, once, and as it was (callback.go).
EndsAreTold == CB!EndsAreTold
=============================================================================
