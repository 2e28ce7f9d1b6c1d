------------------------------ MODULE Lifecycle -------------------------------
(***************************************************************************)
(* What every holder of a RuntimeDaemon may rely on, whoever calls it: the *)
(* status and the request to shut down change by start(),                  *)
(* request_shutdown() and mark_stopped() alone.  Runtime and ControlApi    *)
(* both model the daemon, the one among its agents and the other behind    *)
(* its server, and both implement this.                                    *)
(***************************************************************************)
VARIABLES
    status,   \* RuntimeState.status
    requested \* RuntimeState.shutdown_requested

LifeInit == status = "Starting" /\ requested = FALSE

StartUp ==
    /\ status = "Starting" /\ status' = "Running"
    /\ UNCHANGED requested

\* A request that comes before the start is remembered.
Request ==
    /\ status # "Stopped"
    /\ status' = IF status = "Running" THEN "ShuttingDown" ELSE status
    /\ requested' = TRUE

\* The end may come from any status, asked for or not, and is final.
Stop == status' = "Stopped" /\ UNCHANGED requested

LifeNext == StartUp \/ Request \/ Stop

LifeSpec == LifeInit /\ [][LifeNext]_<<status, requested>>
=============================================================================
