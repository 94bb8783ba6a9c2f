-------------------------------- MODULE MCOutputs --------------------------------
(* Small instances of Outputs for TLC.                                     *)
EXTENDS Outputs

OneOrTwoOutputs == {<<"file">>, <<"redis">>, <<"elasticsearch", "file">>}
RedisOnly == {<<"redis">>}
FileOnly == {<<"file">>}
===============================================================================
