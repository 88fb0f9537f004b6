---------------------------- MODULE MCMultiplexing ----------------------------
(***************************************************************************)
(* Multiplexing with URLs, options and packets of every kind that matters: *)
(* the same place named in two ways, another port, a query with and        *)
(* without user info, a query table given and not given, ids of one digit  *)
(* and of two.                                                             *)
(***************************************************************************)
EXTENDS Multiplexing

Url(protocol, userInfo, port, path, query) ==
  [protocol |-> protocol, userInfo |-> userInfo, host |-> "host", port |-> port,
   path |-> path, query |-> query]

SlashA == <<"/", "a">>
Plainly == Url("http", FALSE, "", <<>>, {})
WithPort == Url("http", FALSE, "80", SlashA, {"q"})
Elsewhere == Url("http", FALSE, "3000", SlashA, {})
WithUser == Url("wss", TRUE, "", SlashA, {"q"})

Opts(path, keys, text, multiplex) ==
  [path |-> path, keys |-> keys, text |-> text, forceNew |-> FALSE, multiplex |-> multiplex]
MCGiven ==
  [none  |-> Opts("", {}, FALSE, TRUE),
   table |-> Opts("", {"k"}, FALSE, FALSE),
   other |-> Opts("/other", {"k"}, TRUE, TRUE)]

MCCalls ==
  {<<Plainly, "none">>, <<WithPort, "none">>, <<WithUser, "none">>, <<Elsewhere, "none">>,
   <<Plainly, "table">>, <<WithUser, "table">>, <<WithPort, "other">>}

(* A URL as in the README, with a query, for multiplex_url. *)
MCUrlCalls == {<<Url("http", FALSE, "3000", <<>>, {"q"}), "none">>}

Shape(type, id, data) == [type |-> type, id |-> id, data |-> data]
MCOutgoing == {Shape(EVENT, <<3>>, <<"x">>)}
MCIncoming ==
  {Shape(ACK, <<12>>, <<"y">>), Shape(BINARY_EVENT, Undefined, <<"b">>)}
=============================================================================
