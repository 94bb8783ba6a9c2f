-------------------------------- MODULE Topology ---------------------------------
(***************************************************************************)
(* The topology map of libbeat: each shipper writes its name and addresses *)
(* to a store shared by all shippers (a redis database or an index of      *)
(* elasticsearch) with a time to live, at its start and at every tick, and *)
(* reads the entries of all shippers back into its own TopologyMap         *)
(* (publisher/publish.go, outputs/redis/redis.go,                          *)
(* outputs/elasticsearch/output.go).  With ignore_outgoing, publishEvent   *)
(* leaves transactions whose server is another shipper to that shipper.    *)
(*                                                                         *)
(* Addresses move between hosts, shippers stop, and operations on the      *)
(* store fail.                                                             *)
(***************************************************************************)
EXTENDS Integers, FiniteSets

CONSTANTS
    Shippers,       \* names
    IPs,
    SearchSize,     \* entries in the result of a search that asks for no size: 10
    MaxMoves,       \* bound: addresses that move
    MaxStops,       \* bound: shippers that stop for good
    MaxStoreErrors  \* bound: operations on the store that fail

ASSUME TopologyAssumption ==
    /\ "" \notin Shippers /\ SearchSize \in Nat \ {0}
    /\ MaxMoves \in Nat /\ MaxStops \in Nat /\ MaxStoreErrors \in Nat

VARIABLES
    store,          \* "redis" or "elasticsearch", by save_topology
    addrs,          \* the addresses each host has
    moves,
    alive,          \* shippers that run
    started,        \* shippers that have published their addresses once
    entries,        \* the entry of each shipper in the store, or NoEntry
    storeErrors,
    TopologyMap,    \* of each shipper: the name of each address, or ""
    tpc,            \* where PublishTopology of each shipper stands
    localAddrs,     \* the addresses it has read
    hosts,          \* names it still has to ask the store about
    mapTmp,         \* TopologyMapTmp
    had             \* History: the addresses each host has had

topologyVars == <<store, addrs, moves, alive, started, entries, storeErrors, TopologyMap, tpc,
                  localAddrs, hosts, mapTmp, had>>

NoEntry == [there |-> FALSE, ips |-> {}, ttl |-> FALSE]
EmptyMap == [ip \in IPs |-> ""]

Goto(s, pc) == tpc' = [tpc EXCEPT ![s] = pc]
StoreError == storeErrors < MaxStoreErrors /\ storeErrors' = storeErrors + 1

\* PublishIPs returns an error, which the initialisation of the process does not
\* survive.
PublishFails(s) ==
    /\ StoreError /\ Goto(s, "idle")
    /\ alive' = IF s \in started THEN alive ELSE alive \ {s}

-------------------------------------------------------------------------------
(* The hosts and the store.                                                *)

MoveAddress(ip, from, to) ==
    /\ ip \in addrs[from] /\ from # to /\ moves < MaxMoves
    /\ moves' = moves + 1
    /\ addrs' = [addrs EXCEPT ![from] = @ \ {ip}, ![to] = @ \cup {ip}]
    /\ had' = [had EXCEPT ![to] = @ \cup {ip}]
    /\ UNCHANGED <<store, alive, started, entries, storeErrors, TopologyMap, tpc, localAddrs,
                   hosts, mapTmp>>

\* A shipper stops, at any point of PublishTopology.
StopShipper(s) ==
    /\ s \in alive /\ Cardinality(Shippers \ alive) < MaxStops
    /\ alive' = alive \ {s}
    /\ UNCHANGED <<store, addrs, moves, started, entries, storeErrors, TopologyMap, tpc,
                   localAddrs, hosts, mapTmp, had>>

\* topology_expire has passed since the last write of the entry.  It is longer than
\* refresh_topology_freq, so that a shipper that runs must have missed a refresh.
EntryExpires(s) ==
    /\ entries[s].there /\ entries[s].ttl
    /\ \/ s \notin alive /\ UNCHANGED storeErrors
       \/ s \in alive /\ StoreError
    /\ entries' = [entries EXCEPT ![s] = NoEntry]
    /\ UNCHANGED <<store, addrs, moves, alive, started, TopologyMap, tpc, localAddrs, hosts,
                   mapTmp, had>>

-------------------------------------------------------------------------------
(* The shippers.                                                           *)

\* Mutant: the addresses of the host are read at the start only.
PublishTopologyCached(s) ==
    /\ s \in alive /\ tpc[s] = "idle"
    /\ localAddrs' = [localAddrs EXCEPT ![s] = IF s \in started THEN @ ELSE addrs[s]]
    /\ Goto(s, "publish")
    /\ UNCHANGED <<store, addrs, moves, alive, started, entries, storeErrors, TopologyMap,
                   hosts, mapTmp, had>>

\* PublishTopology, at the start or at a tick.
PublishTopology(s) ==
    /\ s \in alive /\ tpc[s] = "idle"
    /\ localAddrs' = [localAddrs EXCEPT ![s] = addrs[s]]
    /\ Goto(s, "publish")
    /\ UNCHANGED <<store, addrs, moves, alive, started, entries, storeErrors, TopologyMap,
                   hosts, mapTmp, had>>

\* HSET keeps the time to live of an entry that exists and sets none; elasticsearch
\* indexes the entry together with its time to live.
PublishIPs(s) ==
    /\ s \in alive /\ tpc[s] = "publish"
    /\ \/ /\ entries' = [entries EXCEPT ![s] =
                [there |-> TRUE, ips |-> localAddrs[s],
                 ttl |-> IF store = "redis" THEN @.ttl ELSE TRUE]]
          /\ Goto(s, IF store = "redis" THEN "expire" ELSE "search")
          /\ UNCHANGED <<alive, storeErrors>>
       \/ PublishFails(s) /\ UNCHANGED entries
    /\ UNCHANGED <<store, addrs, moves, started, TopologyMap, localAddrs, hosts, mapTmp, had>>

\* EXPIRE, which finds no entry if that has expired since.
PublishIPsExpire(s) ==
    /\ s \in alive /\ tpc[s] = "expire"
    /\ \/ /\ entries' = [entries EXCEPT ![s].ttl = @ \/ entries[s].there]
          /\ Goto(s, "keys") /\ UNCHANGED <<alive, storeErrors>>
       \/ PublishFails(s) /\ UNCHANGED entries
    /\ UNCHANGED <<store, addrs, moves, started, TopologyMap, localAddrs, hosts, mapTmp, had>>

\* redis: KEYS; after an error the old map stays.
UpdateLocalTopologyMap(s) ==
    /\ s \in alive /\ tpc[s] = "keys"
    /\ started' = started \cup {s}
    /\ \/ /\ hosts' = [hosts EXCEPT ![s] = {t \in Shippers : entries[t].there}]
          /\ mapTmp' = [mapTmp EXCEPT ![s] = EmptyMap]
          /\ Goto(s, "hget") /\ UNCHANGED storeErrors
       \/ StoreError /\ Goto(s, "idle") /\ UNCHANGED <<hosts, mapTmp>>
    /\ UNCHANGED <<store, addrs, moves, alive, entries, TopologyMap, localAddrs, had>>

\* Mutant: the addresses of one entry are filed under the name of another.
UpdateLocalTopologyMapHostMixed(s) ==
    /\ s \in alive /\ tpc[s] = "hget"
    /\ \E t \in hosts[s], u \in hosts[s] :
        /\ hosts' = [hosts EXCEPT ![s] = @ \ {t}]
        /\ mapTmp' = [mapTmp EXCEPT ![s] =
              [ip \in IPs |-> IF ip \in entries[t].ips THEN u ELSE @[ip]]]
    /\ UNCHANGED <<store, addrs, moves, alive, started, entries, storeErrors, TopologyMap,
                   tpc, localAddrs, had>>

\* HGET of the next name, in any order; an entry that has expired since, or cannot
\* be read, is skipped, and an address of two entries goes to the later one.
UpdateLocalTopologyMapHost(s) ==
    /\ s \in alive /\ tpc[s] = "hget"
    /\ \E t \in hosts[s] :
        /\ hosts' = [hosts EXCEPT ![s] = @ \ {t}]
        /\ \/ /\ mapTmp' = [mapTmp EXCEPT ![s] =
                    [ip \in IPs |-> IF ip \in entries[t].ips THEN t ELSE @[ip]]]
              /\ UNCHANGED storeErrors
           \/ StoreError /\ UNCHANGED mapTmp
    /\ UNCHANGED <<store, addrs, moves, alive, started, entries, TopologyMap, tpc, localAddrs,
                   had>>

\* out.TopologyMap = TopologyMapTmp
UpdateLocalTopologyMapEnd(s) ==
    /\ s \in alive /\ tpc[s] = "hget" /\ hosts[s] = {}
    /\ TopologyMap' = [TopologyMap EXCEPT ![s] = mapTmp[s]]
    /\ mapTmp' = [mapTmp EXCEPT ![s] = EmptyMap]
    /\ Goto(s, "idle")
    /\ UNCHANGED <<store, addrs, moves, alive, started, entries, storeErrors, localAddrs, hosts,
                   had>>

\* elasticsearch: one search, which returns SearchSize of the entries at most, in any
\* order.  After an error the map is empty; a hit that cannot be decoded ends the
\* update with the old map, one whose source cannot be decoded names nobody.
UpdateLocalTopologyMapSearch(s) ==
    /\ s \in alive /\ tpc[s] = "search"
    /\ started' = started \cup {s}
    /\ \/ \E hits \in SUBSET {t \in Shippers : entries[t].there}, skipped \in BOOLEAN :
          /\ Cardinality(hits) <= SearchSize
          /\ \/ hits = {t \in Shippers : entries[t].there}
             \/ Cardinality(hits) = SearchSize
             \/ skipped
          /\ IF skipped THEN StoreError ELSE UNCHANGED storeErrors
          /\ \E m \in [IPs -> Shippers \cup {""}] :
                /\ \A ip \in IPs :
                      LET owners == {t \in hits : ip \in entries[t].ips} IN
                      IF owners = {} THEN m[ip] = "" ELSE m[ip] \in owners
                /\ TopologyMap' = [TopologyMap EXCEPT ![s] = m]
       \/ StoreError /\ TopologyMap' = [TopologyMap EXCEPT ![s] = EmptyMap]
       \/ StoreError /\ UNCHANGED TopologyMap
    /\ Goto(s, "idle")
    /\ UNCHANGED <<store, addrs, moves, alive, entries, localAddrs, hosts, mapTmp, had>>

ShipperStep(s) ==
    \/ PublishTopology(s) \/ PublishIPs(s) \/ PublishIPsExpire(s)
    \/ UpdateLocalTopologyMap(s) \/ UpdateLocalTopologyMapHost(s)
    \/ UpdateLocalTopologyMapEnd(s) \/ UpdateLocalTopologyMapSearch(s)

TopologyInit ==
    /\ store \in {"redis", "elasticsearch"}
    /\ addrs \in [Shippers -> SUBSET IPs]
    /\ \A ip \in IPs : \E s \in Shippers : \A t \in Shippers : ip \in addrs[t] <=> t = s
    /\ moves = 0 /\ alive = Shippers /\ started = {}
    /\ entries = [s \in Shippers |-> NoEntry] /\ storeErrors = 0
    /\ TopologyMap = [s \in Shippers |-> EmptyMap]
    /\ tpc = [s \in Shippers |-> "idle"]
    /\ localAddrs = [s \in Shippers |-> {}] /\ hosts = [s \in Shippers |-> {}]
    /\ mapTmp = [s \in Shippers |-> EmptyMap]
    /\ had = addrs

TopologyNext ==
    \/ \E ip \in IPs, from, to \in Shippers : MoveAddress(ip, from, to)
    \/ \E s \in Shippers : StopShipper(s) \/ EntryExpires(s) \/ ShipperStep(s)

\* Shippers refresh as long as they run, and the store drops what has expired.
TopologyFairness ==
    \A s \in Shippers :
        WF_topologyVars(ShipperStep(s)) /\ WF_topologyVars(s \notin alive /\ EntryExpires(s))

-------------------------------------------------------------------------------
\* publishEvent: "duplicated transaction -> ignore it".
Ignored(s, ip) == TopologyMap[s][ip] \notin {"", s}

\* A transaction is left to another shipper only if that shipper's host has had the
\* address of the server: while no address moves, the shipper on the server reports
\* every transaction, through all partial refreshes and failures.
LeftToFormerOwner ==
    \A s \in Shippers, ip \in IPs : Ignored(s, ip) => ip \in had[TopologyMap[s][ip]]

\* The entry of a stopped shipper without a time to live: it stopped between HSET
\* and EXPIRE.
Immortal(s) == s \notin alive /\ entries[s].there /\ ~entries[s].ttl

\* More entries than a search of elasticsearch returns.
TooMany == store = "elasticsearch" /\ Cardinality({t \in Shippers : entries[t].there}) > SearchSize

\* When addresses and shippers no longer change, all running shippers agree in the
\* end on the owner of every address that has one, so that each transaction between
\* them is reported exactly once: over failed, partial and undecodable readings, as
\* long as the search can return all entries and but for the addresses in an immortal
\* entry.
TopologyAgrees ==
    <>[](\A s \in alive, t \in alive : \A ip \in addrs[t] :
            \/ TopologyMap[s][ip] = t
            \/ TooMany
            \/ \E u \in Shippers : Immortal(u) /\ ip \in entries[u].ips)
===============================================================================
