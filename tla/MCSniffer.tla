-------------------------------- MODULE MCSniffer --------------------------------
(* Small instances of Sniffer for TLC.                                     *)
EXTENDS Sniffer

MCDeviceLists == {<<>>, <<"eth0">>, <<"eth0", "eth1">>}
===============================================================================
