------------------------ MODULE ConfigPipelineProps ------------------------
(***************************************************************************)
(* What xray is given is what providers and users wrote, or nothing new.   *)
(***************************************************************************)
EXTENDS ConfigPipeline

(* The reference: what a list of lines says, without going through it. *)

Address(l) == <<l.host, IF l.port = <<>> THEN 443 ELSE l.port[1]>>

(* The lines that name a server no line before them names. *)
Firsts(t) == {k \in DOMAIN t : /\ Parses(t[k])
                               /\ \A j \in 1..(k - 1) : Parses(t[j]) =>
                                      Address(t[j]) # Address(t[k])}

(* Country c is the one the fragment of l names: by its flag, or by an     *)
(* alias within it, the whole of it first; none only if no word is one.    *)
NamesCountry(c, l) ==
    IF l.flag # Blank THEN c = l.flag
    ELSE /\ c # Blank => \E i, j \in DOMAIN l.words :
                            LET phrase == SubSeq(l.words, i, j)
                            IN  phrase \in DOMAIN Aliases /\ c = Aliases[phrase]
         /\ c = Blank => \A k \in DOMAIN l.words : <<l.words[k]>> \notin DOMAIN Aliases
         /\ l.words \in DOMAIN Aliases => c = Aliases[l.words]

Describes(s, l) == /\ s.id = Address(l)
                   /\ s.uuid = l.uuid
                   /\ NamesCountry(s.country, l)

IsListingOf(list, t) ==
    /\ \A i \in DOMAIN list : \E k \in Firsts(t) : Describes(list[i], t[k])
    /\ \A k \in Firsts(t) : \E i \in DOMAIN list : Describes(list[i], t[k])
    /\ \A i, j \in DOMAIN list : \A k, m \in Firsts(t) :
          i < j /\ list[i].id = Address(t[k]) /\ list[j].id = Address(t[m])
             => k < m

(* A list that is kept has every server of the body served, each once, as  *)
(* its first line describes it, in the body's order: nothing is cut off,   *)
(* lost, doubled or replaced, however lines repeat, omit the port or make  *)
(* no sense.  The selection is by id, so a doubled id would be ambiguous.  *)
ListedAsServed ==
    pc = "lines" /\ at > Len(text) => IsListingOf(built, served.lines)

-----------------------------------------------------------------------------
Sound(rule) == /\ rule.object
               /\ rule.tag \in {"direct", "proxy", "block"}
               /\ rule.match = "some"

SameRule(new, old) == /\ new.tag = old.tag /\ new.match = old.match
                      /\ new.type # "missing"

(* The user's rules change only to the whole of a document of which every  *)
(* rule is sound: a document is never taken in part, since without one of  *)
(* its rules it routes other traffic than its author wrote.                *)
RulesAllOrNothing ==
    [][ruleset' # ruleset =>
          LET rules == served.items
          IN  /\ Len(ruleset') = Len(rules)
              /\ \A i \in DOMAIN rules : /\ Sound(rules[i])
                                         /\ SameRule(ruleset'[i], rules[i])]_vars

-----------------------------------------------------------------------------
Given(l, key) == key \in DOMAIN l.query /\ l.query[key][1] # Blank

(* The proxy outbound o leads where link l says, and is blank nowhere      *)
(* xray needs a value: a parameter that is empty counts as absent.         *)
Serves(o, l) ==
    /\ o.address = l.host
    /\ o.port = Address(l)[2]
    /\ o.user.id = l.uuid
    /\ o.transport.kind = IF Given(l, "type") THEN l.query["type"][1] ELSE "tcp"
    /\ o.security.kind =
          IF Given(l, "security") THEN l.query["security"][1] ELSE "none"
    /\ o.transport.kind = "ws" => o.transport.settings.path # Blank
    /\ o.security.kind \in {"tls", "reality"} =>
          o.security.settings.fingerprint # Blank
    /\ o.security.kind = "tls" /\ (Given(l, "sni") \/ Given(l, "host")) =>
          o.security.settings.serverName # Blank

(* The two files fit together at every moment, between their two writes    *)
(* and after one of them failed as well: each rule matches something and   *)
(* names an outbound there is - or proxy, which is missing only while no   *)
(* server is set - and a server that is set is the first outbound, the one *)
(* that takes the traffic no rule matches.                                 *)
FilesFit ==
    /\ \A i \in DOMAIN routing :
          /\ Sound(routing[i])
          /\ routing[i].tag = "proxy" \/ \E k \in DOMAIN outbounds :
                                             outbounds[k].tag = routing[i].tag
    /\ \A k \in DOMAIN outbounds :
          outbounds[k].tag = "proxy" =>
              /\ k = 1
              /\ \E l \in Line : Parses(l) /\ Serves(outbounds[k], l)
=============================================================================
