---------------------------- MODULE RouteSwitching ----------------------------
(***************************************************************************)
(* What the failover of the control-plane routes promises, whatever the    *)
(* connectors report: the route changes by itself at most MaxSwitches      *)
(* times in any Window, and only an operation of the operator starts the   *)
(* count again.  ControlPlaneRouting implements it.                        *)
(***************************************************************************)
EXTENDS Naturals, Sequences

CONSTANTS Routes, NoRoute, Window, MaxSwitches

VARIABLES
    active,    \* the route in use
    switches,  \* the ages of the automatic switches of the last Window
    ordered    \* an operation of the operator is due

Init == active = NoRoute /\ switches = <<>> /\ ordered = FALSE

Obey ==
    /\ ordered
    /\ active' \in Routes \cup {NoRoute} /\ switches' = <<>>

\* An automatic switch; it counts although it may be given up before the launch.
Switch ==
    /\ active # NoRoute /\ Len(switches) < MaxSwitches
    /\ active' \in Routes /\ switches' = Append(switches, 0)

\* Time passes, and the switches that leave the window no longer count.
Pass ==
    /\ active' = active
    /\ \E n \in 0..Len(switches) :
          /\ \A i \in 1..n : switches[i] = Window
          /\ \A i \in n + 1..Len(switches) : switches[i] < Window
          /\ switches' = [i \in 1..Len(switches) - n |-> switches[n + i] + 1]

Stay == UNCHANGED <<active, switches>>

Next == (Obey \/ Switch \/ Pass \/ Stay) /\ ordered' \in BOOLEAN

Spec == Init /\ [][Next]_<<active, switches, ordered>>
=============================================================================
