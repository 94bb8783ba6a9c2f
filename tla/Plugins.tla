--------------------------------- MODULE Plugins ---------------------------------
(***************************************************************************)
(* The redis, mysql and http plugins side by side.  The registry           *)
(* (protos/protos.go) leads from the protocol of a TCP stream to the       *)
(* plugin whose Parse, ReceivedFin and GapInStream are called for it; each *)
(* plugin has maps of its own, so one plugin at a time is followed here.   *)
(***************************************************************************)
EXTENDS ParseBuffers

CONSTANTS Ignored, ShortHeads     \* see MysqlParse

VARIABLES
    protocol,       \* the protocol of the streams
    closed          \* http: directions whose FIN was handled

allVars == <<pluginVars, protocol, closed>>

Redis == INSTANCE RedisParse
Mysql == INSTANCE MysqlParse
Http  == INSTANCE HttpParse

Init ==
    /\ protocol \in {"redis", "mysql", "http"}
    /\ PluginInit /\ closed = {}

Next ==
    /\ \/ protocol = "redis" /\ Redis!Next /\ UNCHANGED closed
       \/ protocol = "mysql" /\ Mysql!Next /\ UNCHANGED closed
       \/ protocol = "http" /\ Http!Next
    /\ UNCHANGED protocol

Spec == Init /\ [][Next]_allVars

\* Goroutines that can run do, and timers go off; the network owes nothing.
FairSpec == Spec /\ SlotFairness

-------------------------------------------------------------------------------
\* Redis pairs requests and responses as they were on the wire, as long as the
\* client waits for its responses and its requests are read as they were sent:
\* responses that are torn, misread, taken for several or dropped, a capture that
\* begins inside of a response, and expired transactions never shift the pairs.
RedisPairsMatch == protocol = "redis" => PairsMatch
===============================================================================
