----------------------------- MODULE VlessLinks -----------------------------
(***************************************************************************)
(* One vless:// link and what becomes of it (internal/vless/vless.go).     *)
(*                                                                         *)
(* A line of a subscription is a record of what the parser can tell apart: *)
(* scheme is "vless" for a line that starts with vless://, "mention" for   *)
(* one that has it further on, "none" otherwise; port is the empty         *)
(* sequence or holds one number; query gives each key the sequence of its  *)
(* values, Blank for an empty one; flag is the country of a leading flag   *)
(* emoji or Blank, words are the words of the fragment in lower case.      *)
(***************************************************************************)
EXTENDS Integers, Sequences, FiniteSetsExt

CONSTANTS
    Line,     \* lines that bodies are made of
    Aliases,  \* countryAliases: phrases, as sequences of words, to countries
    Blank,    \* the empty string
    MaxInt    \* the largest int of the build

ASSUME MaxIntAssumption == MaxInt \in Nat
ASSUME LineAssumption == \A l \in Line : l.port \in Seq(Nat) /\ l.words \in Seq(STRING)
ASSUME AliasesAssumption == /\ <<>> \notin DOMAIN Aliases
                            /\ \A p \in DOMAIN Aliases : Aliases[p] # Blank
ASSUME BlankAssumption == Blank \notin {"tcp", "none", "chrome"}

DefaultPort == 443

stringOr(s, fallback) == IF s = Blank THEN fallback ELSE s

-----------------------------------------------------------------------------
(* The country: a flag wins, then the whole fragment, then its first word  *)
(* that is an alias by itself; Blank stands for "??".                      *)

AliasAt(words) == {k \in DOMAIN words : <<words[k]>> \in DOMAIN Aliases}

nameToCountry(words) ==
    IF words \in DOMAIN Aliases THEN Aliases[words]
    ELSE IF AliasAt(words) = {} THEN Blank
    ELSE Aliases[<<words[Min(AliasAt(words))]>>]

(* Slip: any alias in the fragment, the flag looked at last. *)
DetectByName(l) == stringOr(nameToCountry(l.words), l.flag)

DetectCountry(l) == stringOr(l.flag, nameToCountry(l.words))

-----------------------------------------------------------------------------
(* A port is not held against 65535. *)
Port(l) == IF l.port = <<>> THEN DefaultPort ELSE l.port[1]

(* Of a repeated key the first value counts, and an empty one drops it. *)
Params(l) == [key \in {k \in DOMAIN l.query : l.query[k][1] # Blank}
                 |-> l.query[key][1]]

Parses(l) == /\ l.scheme = "vless"
             /\ l.wellFormed
             /\ Port(l) <= MaxInt
             /\ l.uuid # Blank
             /\ l.host # Blank

(* The server that ParseLink returns; its id is host and port. *)
ParseLink(l) == [id      |-> <<l.host, Port(l)>>,
                 country |-> DetectCountry(l),
                 host    |-> l.host,
                 port    |-> Port(l),
                 uuid    |-> l.uuid,
                 params  |-> Params(l)]
=============================================================================
