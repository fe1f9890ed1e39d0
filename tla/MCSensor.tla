------------------------------ MODULE MCSensor ------------------------------
(* The life of the process and the login of one connection share no state:   *)
(* a behaviour is one or the other, as `part` says.  Days of three ticks with*)
(* a window of two days, and three kills or disk errors, are enough for a    *)
(* file to expire while the process is down, while it runs and at a          *)
(* rotation, for a file to escape two sweeps and for both key files to be    *)
(* torn or unreadable.                                                       *)
EXTENDS Sensor, Login

VARIABLE part

Init ==
    /\ SensorInit /\ LoginInit /\ part \in {"process", "login"}
    /\ part = "process" => auth.mode = "accept_all" /\ auth.accept_after = 1

Next ==
    \/ part = "process" /\ SensorNext /\ UNCHANGED <<loginVars, part>>
    \/ part = "login" /\ LoginNext /\ UNCHANGED <<sensorVars, part>>

MCSpec ==
    /\ Init /\ [][Next]_<<sensorVars, loginVars, part>>
    /\ WF_sensorVars(part = "process" /\ Boot /\ UNCHANGED <<loginVars, part>>)
    /\ WF_sensorVars(part = "process" /\ (\E a \in Algorithms : KeyStep(a)) /\ UNCHANGED <<loginVars, part>>)

(* A sensor that is left alone serves, unless its Ed25519 key file is torn:  *)
(* ServesUnlessTorn of the behaviours that are about the process.            *)
ProcessServes == part = "process" => ServesUnlessTorn
=============================================================================
