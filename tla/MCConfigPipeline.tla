-------------------------- MODULE MCConfigPipeline --------------------------
(* An instance of ConfigPipeline for TLC: links that differ in what the    *)
(* parser tells apart, among them three spellings of one address.          *)
EXTENDS ConfigPipelineProps, TLC

CONSTANTS PL, US

MCAliases == <<"poland">> :> PL @@ <<"usa">> :> US @@ <<"united", "states">> :> US

Base == [scheme |-> "vless", wellFormed |-> TRUE, uuid |-> "u1", host |-> "h1",
         port |-> <<>>, query |-> <<>>, flag |-> Blank, words |-> <<>>]

MCLine == {
    Base,
    [Base EXCEPT !.port = <<443>>, !.uuid = "u2", !.words = <<"united", "states">>,
                 !.query = [type |-> <<"grpc">>,
                            path |-> <<[slashes |-> 2, rest |-> "svc"]>>]],
    [Base EXCEPT !.port = <<8>>, !.flag = PL, !.words = <<"usa">>,
                 !.query = [type |-> <<Blank, "ws">>, security |-> <<"reality">>]],
    [Base EXCEPT !.host = "h2", !.words = <<"usa", "poland">>,
                 !.query = [type |-> <<"ws", "grpc">>, security |-> <<"tls">>,
                            host |-> <<"h3">>]],
    [Base EXCEPT !.uuid = Blank],
    [Base EXCEPT !.port = <<MaxInt + 1>>, !.host = "h4"],
    [Base EXCEPT !.scheme = "mention", !.wellFormed = FALSE],
    [Base EXCEPT !.scheme = "none", !.wellFormed = FALSE]}

Good == [object |-> TRUE, tag |-> "proxy", match |-> "some", type |-> "missing"]

MCRule == {Good,
           [Good EXCEPT !.tag = "direct", !.type = "other"],
           [Good EXCEPT !.tag = "other"],
           [Good EXCEPT !.match = "empty"],
           [Good EXCEPT !.object = FALSE]}
=============================================================================
