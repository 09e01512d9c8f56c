------------------------------- MODULE Invocation -------------------------------
(***************************************************************************)
(* One invocation of `ofga` (Commands), in which `ofga init` on a terminal *)
(* runs the guided tour of SetupTour: what the tour ends with decides how  *)
(* the command goes on (internal/command/configcmd/init.go), while the     *)
(* process may be interrupted or killed at any moment.                     *)
(***************************************************************************)
EXTENDS Commands, SetupTour

OnTour == Body("tour") /\ WizardEligible(inv)

(* Confirmed, the values are saved; cancelled, nothing is; and the terminal *)
(* program itself may fail.                                                 *)
TourDecides ==
    OnTour =>
        /\ confirmed' # confirmed => tour.end = "done"
        /\ pc' = "exiting" /\ err' = NoErr => tour.end = "cancelled"

InvocationInit == Init /\ TourInit
InvocationNext ==
    \/ Next /\ TourDecides /\ UNCHANGED tourVars
    \/ OnTour /\ TourNext /\ UNCHANGED vars
InvocationSpec == InvocationInit /\ [][InvocationNext]_<<vars, tourVars>>
================================================================================
