---------------------------- MODULE MCAutoscaler ---------------------------
(* Instances of Autoscaler for TLC.                                        *)
EXTENDS Autoscaler

Scaled == [enabled |-> TRUE, min |-> 1, max |-> 3, targetCPU |-> 50,
           up |-> 1, down |-> 2, required |-> 2, step |-> 1]
Disabled == [Scaled EXCEPT !.enabled = FALSE]
MCConfigs == {Scaled, Disabled}
=============================================================================
