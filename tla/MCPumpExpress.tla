---------------------------- MODULE MCPumpExpress ----------------------------
(* PumpExpress with the code's five pulses and three tries, in three worlds: *)
(* everything may fail; ONLINE can be read; nothing fails and cables are slow. *)
EXTENDS PumpExpress

Faulty   == [failing |-> Calls, fast |-> TRUE]
Readable == [failing |-> {"set", "vbus"}, fast |-> TRUE]
Perfect  == [failing |-> {}, fast |-> FALSE]

AllWorlds   == {Faulty, Readable, Perfect}
IdealWorlds == {Perfect}
==============================================================================
