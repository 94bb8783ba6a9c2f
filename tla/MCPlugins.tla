-------------------------------- MODULE MCPlugins --------------------------------
(* Small instances of Plugins for TLC.                                     *)
EXTENDS Plugins

\* The first response of a stream is not read as it was sent.
FirstResponse == {<<k, "server", 1>> : k \in Keys}
\* mysql: the second request is a command other than a query.
SecondRequest == {<<k, "client", 2>> : k \in Keys}
\* mysql: the header of the first request may be cut.
FirstRequest == {<<k, "client", 1>> : k \in Keys}
===============================================================================
