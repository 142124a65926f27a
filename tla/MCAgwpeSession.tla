--------------------------- MODULE MCAgwpeSession ---------------------------
(* Small instances of AgwpeSession: call signs shorter and longer than the   *)
(* two characters of an address, SSIDs with four bits and with more, no and   *)
(* two repeaters, a text with a zero in it.                                  *)
EXTENDS AgwpeSession

MCFrom == [call |-> <<65>>, ssid |-> 15]
MCTo == [call |-> <<66, 67, 68>>, ssid |-> 0]

MCVias == {[repeaters |-> <<>>, text |-> <<69>>],
           [repeaters |-> <<MCTo, [call |-> <<70, 71>>, ssid |-> 17]>>, text |-> <<0, 72>>]}
=============================================================================
