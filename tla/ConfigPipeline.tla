--------------------------- MODULE ConfigPipeline ---------------------------
(***************************************************************************)
(* From what a provider serves to what xray reads: a subscription body is  *)
(* fetched, decoded and parsed line by line into a list of servers, a      *)
(* rules document rule by rule into a list of rules, and the two config    *)
(* files are written from one server of the list and from the rules        *)
(* (fetchURL, ParseSubscription, parseXrayRules, WriteXKeenSplit).         *)
(*                                                                         *)
(* The lengths of bodies are counted in lines.  One job runs at a time;    *)
(* how requests interleave is the subject of module ApplyPath, whose       *)
(* assumption on listings ListedAsServed bears out.                        *)
(***************************************************************************)
EXTENDS XrayConfig

CONSTANTS
    Rule,       \* elements of rules documents
    Shapes,     \* how documents wrap their rules
    MaxBody,    \* subscriptionMaxBody, in lines
    MaxLines,   \* bound: lines of a body
    MaxRules,   \* bound: rules of a document
    MaxWrites   \* bound: times the files are written

ASSUME BodyAssumption == MaxBody \in Nat /\ MaxLines \in Nat
ASSUME RuleAssumption ==
    Rule \subseteq [object : BOOLEAN,
                    tag    : validOutboundTags \cup {"missing", "other"},
                    match  : {"none", "empty", "some"},
                    type   : {"missing", "field", "other"}]

VARIABLES
    pc,         \* what is being done
    served,     \* the body or document under work, as its owner wrote it
    text,       \* what was read of it: lines or rules
    at,         \* the line or rule whose turn it is
    built,      \* the servers or rules taken so far
    listing,    \* the servers of the card
    ruleset,    \* the user's rules; empty for the bundled ones
    outbounds,  \* 04_outbounds.json
    routing,    \* 05_routing.json
    done        \* bound: the fetches that ended, and writes begun

work  == <<served, text, at, built>>
kept  == <<listing, ruleset>>
files == <<outbounds, routing>>
vars  == <<pc, work, kept, files, done>>

Texts(S, n) == UNION {[1..k -> S] : k \in 0..n}

(* inline: the source is the text itself; form: plain text, base64 in      *)
(* either alphabet, with or without padding and line breaks, or bytes that *)
(* are neither.                                                            *)
Body == {b \in [inline : BOOLEAN, form : {"plain", "base64", "noise"},
                lines : Texts(Line, MaxLines)] :
            b.inline => /\ b.form = "plain"
                        /\ b.lines # <<>>
                        /\ b.lines[1].scheme = "vless"}

Document == [shape : Shapes, items : Texts(Rule, MaxRules)]

Init ==
    /\ pc = "idle"
    /\ served = None
    /\ text = <<>> /\ at = 1 /\ built = <<>>
    /\ listing = <<>> /\ ruleset = <<>>
    /\ outbounds = Outbounds(None)
    /\ routing = Routing(<<>>)
    /\ done = [subscription |-> FALSE, rules |-> FALSE, writes |-> 0]

Ends(job) == /\ pc' = "idle"
             /\ served' = None
             /\ text' = <<>> /\ at' = 1 /\ built' = <<>>
             /\ done' = [done EXCEPT ![job] = TRUE]

-----------------------------------------------------------------------------
(* POST /api/subscriptions, or a refresh: the source is fetched. *)

(* Slip: a reader that stops at the limit, so a longer body looks whole. *)
ReadToLimit(b) == IF b.inline THEN b.lines
                  ELSE SubSeq(b.lines, 1, IF Len(b.lines) < MaxBody
                                          THEN Len(b.lines) ELSE MaxBody)

(* One unit more than allowed is read, to tell a body that is too long.    *)
ReadAll(b) == IF b.inline THEN b.lines
              ELSE SubSeq(b.lines, 1, IF Len(b.lines) <= MaxBody
                                      THEN Len(b.lines) ELSE MaxBody + 1)

FetchSubscription(b) ==
    /\ pc = "idle" /\ ~done.subscription
    /\ b.inline \/ Len(ReadAll(b)) <= MaxBody
    /\ pc' = "decode"
    /\ served' = b
    /\ text' = ReadAll(b)
    /\ UNCHANGED <<at, built, kept, files, done>>

(* No answer, another status than 2xx, a broken body, or one too long. *)
FetchFails(job) ==
    /\ pc = "idle" /\ ~done[job]
    /\ Ends(job)
    /\ UNCHANGED <<kept, files>>

Mentions(t) == \E k \in DOMAIN t : t[k].scheme # "none"

Decode ==
    /\ pc = "decode"
    /\ \/ /\ served.form # "noise" /\ Mentions(text)
          /\ pc' = "lines"
          /\ UNCHANGED <<work, done>>
       \/ /\ served.form = "noise" \/ ~Mentions(text)
          /\ Ends("subscription")
    /\ UNCHANGED <<kept, files>>

(* Slip: the last server of an id replaces the first. *)
AppendLast(l) ==
    SelectSeq(built, LAMBDA s : s.id # ParseLink(l).id) \o <<ParseLink(l)>>

(* What a line that parses does to the list: of one id the first stays. *)
AppendNew(l) ==
    IF \E i \in DOMAIN built : built[i].id = ParseLink(l).id
    THEN built
    ELSE Append(built, ParseLink(l))

NextLine ==
    /\ pc = "lines" /\ at <= Len(text)
    /\ built' = IF Parses(text[at]) THEN AppendNew(text[at]) ELSE built
    /\ at' = at + 1
    /\ UNCHANGED <<pc, served, text, kept, files, done>>

(* A list without a server is refused. *)
KeepListing ==
    /\ pc = "lines" /\ at > Len(text)
    /\ listing' = IF built = <<>> THEN listing ELSE built
    /\ Ends("subscription")
    /\ UNCHANGED <<ruleset, files>>

-----------------------------------------------------------------------------
(* POST /api/rules: the document is fetched and checked, all or nothing. *)

FetchRules(d) ==
    /\ pc = "idle" /\ ~done.rules
    /\ RulesRaw(d) # <<>>
    /\ pc' = "rules"
    /\ served' = d
    /\ text' = RulesRaw(d)
    /\ UNCHANGED <<at, built, kept, files, done>>

NotRules(d) ==
    /\ RulesRaw(d) = <<>>
    /\ FetchFails("rules")

TakeRule ==
    /\ pc = "rules" /\ at <= Len(text)
    /\ Accepted(text[at])
    /\ built' = Append(built, Normalised(text[at]))
    /\ at' = at + 1
    /\ UNCHANGED <<pc, served, text, kept, files, done>>

(* Slip: a rule that will not do is left out. *)
LeaveOut ==
    /\ pc = "rules" /\ at <= Len(text)
    /\ ~Accepted(text[at])
    /\ at' = at + 1
    /\ UNCHANGED <<pc, served, text, built, kept, files, done>>

RefuseRule ==
    /\ pc = "rules" /\ at <= Len(text)
    /\ ~Accepted(text[at])
    /\ Ends("rules")
    /\ UNCHANGED <<kept, files>>

KeepRules ==
    /\ pc = "rules" /\ at > Len(text)
    /\ ruleset' = built
    /\ Ends("rules")
    /\ UNCHANGED <<listing, files>>

-----------------------------------------------------------------------------
(* WriteXKeenSplit: outbounds first, then routing; either may fail. *)

WriteOutbounds(s) ==
    /\ pc = "idle" /\ done.writes < MaxWrites
    /\ pc' = "routing"
    /\ outbounds' = Outbounds(s)
    /\ done' = [done EXCEPT !.writes = @ + 1]
    /\ UNCHANGED <<work, kept, routing>>

WriteRouting ==
    /\ pc = "routing"
    /\ pc' = "idle"
    /\ routing' = Routing(ruleset)
    /\ UNCHANGED <<work, kept, outbounds, done>>

WriteFails ==
    /\ pc = "routing"
    /\ pc' = "idle"
    /\ UNCHANGED <<work, kept, files, done>>

Next ==
    \/ \E b \in Body : FetchSubscription(b)
    \/ \E job \in {"subscription", "rules"} : FetchFails(job)
    \/ Decode
    \/ NextLine
    \/ KeepListing
    \/ \E d \in Document : FetchRules(d) \/ NotRules(d)
    \/ TakeRule
    \/ RefuseRule
    \/ KeepRules
    \/ \E s \in {listing[i] : i \in DOMAIN listing} \cup {None} : WriteOutbounds(s)
    \/ WriteRouting
    \/ WriteFails

Spec == Init /\ [][Next]_vars
=============================================================================
