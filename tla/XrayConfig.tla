----------------------------- MODULE XrayConfig -----------------------------
(***************************************************************************)
(* The two files xray is given (internal/xray/xray.go) and the routing     *)
(* rules a user may bring (cmd/router-app/rules.go), as pure operators.    *)
(*                                                                         *)
(* A rule is [object, tag, match, type]: tag is "missing", "other" for one *)
(* that is no string or unknown, or the tag itself; match tells whether a  *)
(* match field is absent ("none"), there but "empty", or says something    *)
(* ("some"); type is "missing" or what the rule says.                      *)
(***************************************************************************)
EXTENDS VlessLinks

CONSTANT None

ASSUME NoneAssumption == \A l \in Line : ParseLink(l) # None

validOutboundTags == {"direct", "proxy", "block"}

(* Where parseXrayRules finds the array; a routing object hides any rules  *)
(* beside it even when it has none itself.                                 *)
RulesRaw(doc) == IF doc.shape \in {"array", "rules", "routing"}
                 THEN doc.items
                 ELSE <<>>

Accepted(rule) == /\ rule.object
                  /\ rule.tag \in validOutboundTags
                  /\ rule.match = "some"

(* A missing type is filled in, any other is left alone. *)
Normalised(rule) == IF rule.type = "missing"
                    THEN [rule EXCEPT !.type = "field"]
                    ELSE rule

-----------------------------------------------------------------------------
Param(s, key) == IF key \in DOMAIN s.params THEN s.params[key] ELSE Blank

Security(s) ==
    LET security == stringOr(Param(s, "security"), "none")
        fp       == stringOr(Param(s, "fp"), "chrome")
    IN  [kind |-> security,
         settings |->
            CASE security = "reality" ->
                    [serverName |-> Param(s, "sni"), fingerprint |-> fp,
                     publicKey |-> Param(s, "pbk"), shortId |-> Param(s, "sid"),
                     spiderX |-> Param(s, "spx")]
              [] security = "tls" ->
                    [serverName |-> stringOr(Param(s, "sni"), Param(s, "host")),
                     fingerprint |-> fp]
              [] OTHER -> None]

(* A path is [slashes, rest]: how many slashes lead it, and what follows.  *)
Root == [slashes |-> 1, rest |-> Blank]

ASSUME RootAssumption == Root # Blank

trimLeadingSlash(path) == IF path = Blank THEN Blank ELSE path.rest

Transport(s) ==
    LET network == stringOr(Param(s, "type"), "tcp")
    IN  [kind |-> network,
         settings |->
            CASE network = "ws" ->
                    [path |-> stringOr(Param(s, "path"), Root),
                     host |-> Param(s, "host")]
              [] network = "grpc" ->
                    [serviceName |-> trimLeadingSlash(Param(s, "path"))]
              [] OTHER -> None]

BuildOutbound(s) == [tag       |-> "proxy",
                     address   |-> s.host,
                     port      |-> s.port,
                     user      |-> [id |-> s.uuid, flow |-> Param(s, "flow")],
                     security  |-> Security(s),
                     transport |-> Transport(s)]

Direct == [tag |-> "direct"]   \* freedom, past the redirection by its mark
Block  == [tag |-> "block"]    \* blackhole

(* Slip: the fixed outbounds first. *)
OutboundsLast(s) == <<Direct, Block>>
                    \o (IF s = None THEN <<>> ELSE <<BuildOutbound(s)>>)

(* The outbounds file; xray sends what no rule matches to the first. *)
Outbounds(s) == (IF s = None THEN <<>> ELSE <<BuildOutbound(s)>>)
                \o <<Direct, Block>>

(* Private and local addresses past the VPN, everything else through it. *)
defaultRules == <<[object |-> TRUE, tag |-> "direct", match |-> "some",
                   type |-> "field"]>>

Routing(rules) == IF rules = <<>> THEN defaultRules ELSE rules
=============================================================================
