---------------------------------- MODULE Names ----------------------------------
(***************************************************************************)
(* Where events get their names from: the process watcher names the local  *)
(* processes, the topology map the shippers behind the addresses.  The two *)
(* do not touch each other, so one of them at a time is followed.          *)
(***************************************************************************)
EXTENDS ProcWatcher, Topology

VARIABLE part       \* "procs" or "topology"

namesVars == <<procVars, topologyVars, part>>

Init ==
    /\ part \in {"procs", "topology"}
    /\ ProcInit /\ TopologyInit
    \* The watcher does not look at the store and the addresses.
    /\ part = "procs" => store = "redis" /\ addrs[CHOOSE s \in Shippers : TRUE] = IPs

Next ==
    \/ part = "procs" /\ ProcNext /\ UNCHANGED <<topologyVars, part>>
    \/ part = "topology" /\ TopologyNext /\ UNCHANGED <<procVars, part>>

Fairness ==
    /\ part = "procs" => ProcFairness
    /\ part = "topology" => TopologyFairness

Spec == Init /\ [][Next]_namesVars /\ Fairness

-------------------------------------------------------------------------------
\* Of the topology map, when it is the part that runs: the shippers agree in the
\* end on who reports what.
ShippersAgree == part = "topology" => TopologyAgrees
===============================================================================
