------------------------------- MODULE MCThrift ---------------------------------
(* Small instances of ThriftTransactions for TLC.                          *)
EXTENDS ThriftTransactions

CONSTANTS Ping, Add, Get

MCMethods == {Ping, Add, Get}
MCOneway == {Ping}
===============================================================================
