------------------------------- MODULE MCConsole -------------------------------
(* Console for TLC: a line for each way through the commands.                 *)
EXTENDS Console

MCLines ==
  {Typo, <<" ", "qr">>, <<"h">>, <<"qr">>, <<"qr", "list">>, <<"qr", "get", 0>>,
   <<"qr", "get", 1>>, <<"qr", "add", "url">>, <<"debug", "log", "on">>,
   <<"debug", "log", "off">>, <<"photo", "get", 0>>}
AllFaults == {"list", "read", "death"}
=============================================================================
