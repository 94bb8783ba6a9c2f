--------------------------------- MODULE MCNames ---------------------------------
(* A small instance of Names for TLC.                                      *)
EXTENDS Names

TwoProcesses == <<"nginx", "mysqld">>
===============================================================================
