------------------------ MODULE ConfigPipelineProofs ------------------------
(***************************************************************************)
(* Theorems about ConfigPipeline, for every set of lines and rules, every  *)
(* table of aliases and every bound.                                       *)
(***************************************************************************)
EXTENDS ConfigPipelineProps, SequenceTheorems, WellFoundedInduction, TLAPS

-----------------------------------------------------------------------------
(* A set of numbers has a least one. *)
LEMMA MinIsIn ==
    ASSUME NEW S \in SUBSET Nat, S # {}
    PROVE  Min(S) \in S
<1>1. PICK x \in S : \A y \in S : <<y, x>> \notin OpToRel(<, Nat)
  BY NatLessThanWellFounded, WFMin
<1>2. \A y \in S : ~(y < x)
  BY <1>1 DEF OpToRel
<1>3. \E m \in S : \A y \in S : m <= y
  BY <1>2
<1>. QED BY <1>3 DEF Min

(* DetectCountry answers with a country the fragment names. *)
LEMMA CountryIsNamed ==
    ASSUME NEW l \in Line
    PROVE  NamesCountry(DetectCountry(l), l)
<1>. DEFINE w == l.words
<1>0. w \in Seq(STRING)
  BY LineAssumption
<1>1. CASE l.flag # Blank
  BY <1>1 DEF NamesCountry, DetectCountry, stringOr
<1>2. CASE l.flag = Blank /\ w \in DOMAIN Aliases
  <2>1. DetectCountry(l) = Aliases[w]
    BY <1>2 DEF DetectCountry, stringOr, nameToCountry
  <2>2. w # <<>> /\ Aliases[w] # Blank
    BY <1>2, AliasesAssumption
  <2>3. 1 \in DOMAIN w /\ Len(w) \in DOMAIN w
    BY <1>0, <2>2, EmptySeq, LenProperties
  <2>4. SubSeq(w, 1, Len(w)) = w
    BY <1>0, SubSeqFull
  <2>. QED BY <1>2, <2>1, <2>2, <2>3, <2>4 DEF NamesCountry
<1>3. CASE l.flag = Blank /\ w \notin DOMAIN Aliases /\ AliasAt(w) = {}
  <2>1. DetectCountry(l) = Blank
    BY <1>3 DEF DetectCountry, stringOr, nameToCountry
  <2>2. \A k \in DOMAIN w : <<w[k]>> \notin DOMAIN Aliases
    BY <1>3 DEF AliasAt
  <2>. QED BY <1>3, <2>1, <2>2 DEF NamesCountry
<1>4. CASE l.flag = Blank /\ w \notin DOMAIN Aliases /\ AliasAt(w) # {}
  <2>. DEFINE k == Min(AliasAt(w))
  <2>1. AliasAt(w) \in SUBSET Nat
    BY <1>0, LenProperties DEF AliasAt
  <2>2. k \in AliasAt(w)
    BY <1>4, <2>1, MinIsIn
  <2>3. DetectCountry(l) = Aliases[<<w[k]>>]
    BY <1>4 DEF DetectCountry, stringOr, nameToCountry
  <2>. HIDE DEF k
  <2>4. k \in DOMAIN w /\ <<w[k]>> \in DOMAIN Aliases
    BY <2>2 DEF AliasAt
  <2>5. SubSeq(w, k, k) = <<w[k]>>
    <3>1. k \in Int /\ w[k] \in STRING
      BY <1>0, <2>4, LenProperties
    <3>2. /\ SubSeq(w, k, k) \in Seq(STRING)
          /\ Len(SubSeq(w, k, k)) = 1
          /\ SubSeq(w, k, k)[1] = w[k]
      BY <3>1, SubSeqProperties
    <3>3. /\ <<w[k]>> \in Seq(STRING)
          /\ Len(<<w[k]>>) = 1
          /\ <<w[k]>>[1] = w[k]
      BY <3>1
    <3>4. \A i \in 1..Len(SubSeq(w, k, k)) : SubSeq(w, k, k)[i] = <<w[k]>>[i]
      BY <3>2, <3>3
    <3>. HIDE DEF w
    <3>. QED BY <3>2, <3>3, <3>4, SeqEqual
  <2>6. Aliases[<<w[k]>>] # Blank
    BY <2>4, AliasesAssumption
  <2>. QED BY <1>4, <2>3, <2>4, <2>5, <2>6 DEF NamesCountry
<1>. QED BY <1>1, <1>2, <1>3, <1>4

(* A link is identified by its address and described by its own fields. *)
LEMMA LinkIsDescribed ==
    ASSUME NEW l \in Line
    PROVE  ParseLink(l).id = Address(l) /\ Describes(ParseLink(l), l)
<1>1. NamesCountry(DetectCountry(l), l)
  BY CountryIsNamed
<1>2. /\ ParseLink(l).id = <<l.host, Port(l)>>
      /\ ParseLink(l).uuid = l.uuid
      /\ ParseLink(l).country = DetectCountry(l)
  BY DEF ParseLink
<1>3. <<l.host, Port(l)>> = Address(l)
  BY DEF Address, Port, DefaultPort
<1>. QED BY <1>1, <1>2, <1>3 DEF Describes

-----------------------------------------------------------------------------
(* The list is built one line at a time. *)

Goods == {ParseLink(l) : l \in {l \in Line : Parses(l)}}

(* What the list is after n lines of t. *)
ListsUpTo(list, t, n) ==
    /\ list \in Seq(Goods)
    /\ \A i \in DOMAIN list :
          \E k \in Firsts(t) : k <= n /\ list[i] = ParseLink(t[k])
    /\ \A k \in DOMAIN t :
          k <= n /\ Parses(t[k]) =>
              \E i \in DOMAIN list : list[i].id = Address(t[k])
    /\ \A i, j \in DOMAIN list : \A k, m \in Firsts(t) :
          i < j /\ list[i].id = Address(t[k]) /\ list[j].id = Address(t[m])
             => k < m

(* An address has one first line. *)
LEMMA FirstsUnique ==
    ASSUME NEW t \in Seq(Line), NEW k \in Firsts(t), NEW m \in Firsts(t),
           Address(t[k]) = Address(t[m])
    PROVE  k = m
<1>1. k \in 1..Len(t) /\ m \in 1..Len(t)
  BY LenProperties DEF Firsts
<1>2. /\ Parses(t[k]) /\ \A j \in 1..(k - 1) : Parses(t[j]) => Address(t[j]) # Address(t[k])
      /\ Parses(t[m]) /\ \A j \in 1..(m - 1) : Parses(t[j]) => Address(t[j]) # Address(t[m])
  BY DEF Firsts
<1>3. ~(k < m)
  <2>. SUFFICES ASSUME k < m PROVE FALSE
    OBVIOUS
  <2>1. k \in 1..(m - 1)
    BY <1>1
  <2>. QED BY <1>2, <2>1
<1>4. ~(m < k)
  <2>. SUFFICES ASSUME m < k PROVE FALSE
    OBVIOUS
  <2>1. m \in 1..(k - 1)
    BY <1>1
  <2>. QED BY <1>2, <2>1
<1>. QED BY <1>1, <1>3, <1>4

(* The empty list is that of no lines. *)
LEMMA EmptyLists ==
    ASSUME NEW t \in Seq(Line)
    PROVE  ListsUpTo(<<>>, t, 0)
<1>1. \A k \in DOMAIN t : ~(k <= 0)
  BY LenProperties
<1>2. <<>> \in Seq(Goods) /\ DOMAIN <<>> = {}
  OBVIOUS
<1>. QED BY <1>1, <1>2 DEF ListsUpTo

(* A line whose server is listed, or that names none, changes nothing. *)
LEMMA LineIsSkipped ==
    ASSUME NEW t \in Seq(Line), NEW list, NEW n \in Nat, n < Len(t),
           ListsUpTo(list, t, n),
           Parses(t[n + 1]) =>
               \E i \in DOMAIN list : list[i].id = Address(t[n + 1])
    PROVE  ListsUpTo(list, t, n + 1)
<1>1. \A k \in DOMAIN t : k \in Nat /\ (k <= n + 1 => k <= n \/ k = n + 1)
  BY LenProperties
<1>2. \A k \in Firsts(t) : k <= n => k <= n + 1
  BY <1>1 DEF Firsts
<1>3. \A i \in DOMAIN list :
         \E k \in Firsts(t) : k <= n + 1 /\ list[i] = ParseLink(t[k])
  BY <1>2 DEF ListsUpTo
<1>4. \A k \in DOMAIN t : k <= n + 1 /\ Parses(t[k]) =>
         \E i \in DOMAIN list : list[i].id = Address(t[k])
  BY <1>1 DEF ListsUpTo
<1>. QED BY <1>3, <1>4 DEF ListsUpTo

(* A line with a new server puts it at the end. *)
LEMMA LineIsListed ==
    ASSUME NEW t \in Seq(Line), NEW list, NEW n \in Nat, n < Len(t),
           ListsUpTo(list, t, n),
           Parses(t[n + 1]),
           \A i \in DOMAIN list : list[i].id # Address(t[n + 1])
    PROVE  ListsUpTo(Append(list, ParseLink(t[n + 1])), t, n + 1)
<1>. DEFINE s == ParseLink(t[n + 1])
            new == Append(list, s)
<1>1. /\ \A k \in DOMAIN t : k \in Nat /\ t[k] \in Line /\ k <= Len(t)
                               /\ k > 0
      /\ n + 1 \in DOMAIN t
      /\ \A k \in 1..n : k \in DOMAIN t
  BY LenProperties
<1>2. s \in Goods /\ s.id = Address(t[n + 1])
  BY <1>1, LinkIsDescribed DEF Goods
<1>3. list \in Seq(Goods)
  BY DEF ListsUpTo
<1>. HIDE DEF s
<1>4. /\ new \in Seq(Goods)
      /\ DOMAIN list = 1..Len(list) /\ Len(list) \in Nat
      /\ DOMAIN new = 1..(Len(list) + 1)
      /\ \A i \in DOMAIN list : i \in DOMAIN new /\ new[i] = list[i]
      /\ new[Len(list) + 1] = s
  BY <1>2, <1>3, AppendProperties, LenProperties
<1>5. n + 1 \in Firsts(t)
  <2>1. \A j \in 1..n : Parses(t[j]) => Address(t[j]) # Address(t[n + 1])
    BY <1>1 DEF ListsUpTo
  <2>. QED BY <1>1, <2>1 DEF Firsts
<1>. HIDE DEF new
<1>6. \A i \in DOMAIN new :
         \E k \in Firsts(t) : k <= n + 1 /\ new[i] = ParseLink(t[k])
  <2>. SUFFICES ASSUME NEW i \in DOMAIN new
                PROVE  \E k \in Firsts(t) : k <= n + 1 /\ new[i] = ParseLink(t[k])
    OBVIOUS
  <2>1. CASE i \in DOMAIN list
    <3>1. PICK k \in Firsts(t) : k <= n /\ list[i] = ParseLink(t[k])
      BY <2>1 DEF ListsUpTo
    <3>2. k \in Nat
      BY <1>1 DEF Firsts
    <3>. QED BY <1>4, <2>1, <3>1, <3>2
  <2>2. CASE i = Len(list) + 1
    BY <1>4, <1>5, <2>2 DEF s
  <2>. QED BY <1>4, <2>1, <2>2
<1>7. \A k \in DOMAIN t : k <= n + 1 /\ Parses(t[k]) =>
         \E i \in DOMAIN new : new[i].id = Address(t[k])
  <2>. SUFFICES ASSUME NEW k \in DOMAIN t, k <= n + 1, Parses(t[k])
                PROVE  \E i \in DOMAIN new : new[i].id = Address(t[k])
    OBVIOUS
  <2>1. CASE k <= n
    <3>1. PICK i \in DOMAIN list : list[i].id = Address(t[k])
      BY <2>1 DEF ListsUpTo
    <3>. QED BY <1>4, <3>1
  <2>2. CASE k = n + 1
    BY <1>2, <1>4, <2>2
  <2>. QED BY <1>1, <2>1, <2>2
<1>8. ASSUME NEW i \in DOMAIN new, NEW j \in DOMAIN new,
             NEW k \in Firsts(t), NEW m \in Firsts(t),
             i < j, new[i].id = Address(t[k]), new[j].id = Address(t[m])
      PROVE  k < m
  <2>1. i \in DOMAIN list /\ new[i] = list[i]
    BY <1>4, <1>8
  <2>2. CASE j \in DOMAIN list
    BY <1>4, <1>8, <2>1, <2>2 DEF ListsUpTo
  <2>3. CASE j = Len(list) + 1
    <3>1. Address(t[m]) = Address(t[n + 1])
      BY <1>2, <1>4, <1>8, <2>3
    <3>2. m = n + 1
      BY <1>5, <3>1, FirstsUnique
    <3>3. PICK x \in Firsts(t) : x <= n /\ list[i] = ParseLink(t[x])
      BY <2>1 DEF ListsUpTo
    <3>4. x \in DOMAIN t
      BY DEF Firsts
    <3>5. Address(t[x]) = Address(t[k])
      BY <1>1, <1>8, <2>1, <3>3, <3>4, LinkIsDescribed
    <3>6. x = k
      BY <3>5, FirstsUnique
    <3>. QED BY <1>1, <3>2, <3>3, <3>4, <3>6
  <2>. QED BY <1>4, <2>2, <2>3
<1>9. \A i, j \in DOMAIN new : \A k, m \in Firsts(t) :
         i < j /\ new[i].id = Address(t[k]) /\ new[j].id = Address(t[m]) => k < m
  BY <1>8
<1>. QED BY <1>4, <1>6, <1>7, <1>9 DEF ListsUpTo, new, s

(* After the last line it is the list of the text. *)
LEMMA AllLinesListed ==
    ASSUME NEW t \in Seq(Line), NEW list, ListsUpTo(list, t, Len(t))
    PROVE  IsListingOf(list, t)
<1>1. \A k \in Firsts(t) : /\ k \in DOMAIN t /\ t[k] \in Line
                            /\ k <= Len(t) /\ Parses(t[k])
  BY LenProperties DEF Firsts
<1>2. \A i \in DOMAIN list : \E k \in Firsts(t) : Describes(list[i], t[k])
  BY <1>1, LinkIsDescribed DEF ListsUpTo
<1>3. \A k \in Firsts(t) : \E i \in DOMAIN list : Describes(list[i], t[k])
  <2>. SUFFICES ASSUME NEW k \in Firsts(t)
                PROVE  \E i \in DOMAIN list : Describes(list[i], t[k])
    OBVIOUS
  <2>1. PICK i \in DOMAIN list : list[i].id = Address(t[k])
    BY <1>1 DEF ListsUpTo
  <2>2. PICK x \in Firsts(t) : list[i] = ParseLink(t[x])
    BY DEF ListsUpTo
  <2>3. Address(t[x]) = Address(t[k])
    BY <1>1, <2>1, <2>2, LinkIsDescribed
  <2>4. x = k
    BY <2>3, FirstsUnique
  <2>. QED BY <1>1, <2>2, <2>4, LinkIsDescribed
<1>. QED BY <1>2, <1>3 DEF IsListingOf, ListsUpTo

-----------------------------------------------------------------------------
(* The list of the card, and the job in hand. *)

ListInv ==
    /\ pc \in {"idle", "decode", "routing"} => at = 1 /\ built = <<>>
    /\ pc \in {"decode", "lines"} => text = served.lines /\ text \in Seq(Line)
    /\ pc = "lines" => /\ at \in 1..(Len(text) + 1)
                       /\ ListsUpTo(built, text, at - 1)
    /\ listing \in Seq(Goods)

(* What is read of a body that passes for whole is all of it. *)
LEMMA ReadsWhole ==
    ASSUME NEW b \in Body, b.inline \/ Len(ReadAll(b)) <= MaxBody
    PROVE  ReadAll(b) = b.lines /\ b.lines \in Seq(Line)
<1>1. b.lines \in Seq(Line)
  <2>1. PICK k \in 0..MaxLines : b.lines \in [1..k -> Line]
    BY DEF Body, Texts
  <2>2. k \in Nat
    BY BodyAssumption
  <2>. QED BY <2>1, <2>2, SeqDef
<1>2. CASE b.inline
  BY <1>1, <1>2 DEF ReadAll
<1>3. CASE ~b.inline /\ Len(b.lines) <= MaxBody
  BY <1>1, <1>3, SubSeqFull DEF ReadAll
<1>4. CASE ~b.inline /\ ~(Len(b.lines) <= MaxBody)
  <2>1. ReadAll(b) = SubSeq(b.lines, 1, MaxBody + 1)
    BY <1>4 DEF ReadAll
  <2>2. Len(b.lines) \in Nat /\ MaxBody + 1 \in 1..Len(b.lines)
    BY <1>1, <1>4, LenProperties, BodyAssumption
  <2>3. Len(SubSeq(b.lines, 1, MaxBody + 1)) = MaxBody + 1
    BY <1>1, <2>2, SubSeqProperties
  <2>. QED BY <1>4, <2>1, <2>3, BodyAssumption
<1>. QED BY <1>2, <1>3, <1>4

(* At first there is no list, *)
LEMMA ListInvInit == Init => ListInv
BY DEF Init, ListInv

(* and each step of a listing keeps what it has. *)
LEMMA ListInvStep == ListInv /\ [Next]_vars => ListInv'
<1>. SUFFICES ASSUME ListInv, [Next]_vars PROVE ListInv'
  OBVIOUS
<1>1. ASSUME NEW b \in Body, FetchSubscription(b) PROVE ListInv'
  <2>1. ReadAll(b) = b.lines /\ b.lines \in Seq(Line)
    BY <1>1, ReadsWhole DEF FetchSubscription
  <2>. QED BY <1>1, <2>1 DEF FetchSubscription, ListInv, kept
<1>2. ASSUME NEW job, FetchFails(job) PROVE ListInv'
  BY <1>2 DEF FetchFails, Ends, ListInv, kept
<1>3. ASSUME Decode PROVE ListInv'
  <2>1. CASE pc' = "lines" /\ UNCHANGED <<work, done>>
    <3>1. pc = "decode"
      BY <1>3 DEF Decode
    <3>2. /\ at = 1 /\ built = <<>> /\ text \in Seq(Line)
          /\ text = served.lines
      BY <3>1 DEF ListInv
    <3>3. ListsUpTo(built, text, at - 1)
      BY <3>2, EmptyLists
    <3>4. at \in 1..(Len(text) + 1)
      BY <3>2, LenProperties
    <3>. QED BY <1>3, <2>1, <3>2, <3>3, <3>4 DEF Decode, ListInv, work, kept
  <2>2. CASE Ends("subscription")
    BY <1>3, <2>2 DEF Decode, Ends, ListInv, kept
  <2>. QED BY <1>3, <2>1, <2>2 DEF Decode
<1>4. ASSUME NextLine PROVE ListInv'
  <2>. DEFINE n == at - 1
  <2>1. /\ pc = "lines" /\ at <= Len(text) /\ text \in Seq(Line)
        /\ text = served.lines
        /\ n \in Nat /\ n + 1 = at /\ n < Len(text) /\ Len(text) \in Nat
        /\ ListsUpTo(built, text, n)
    BY <1>4, LenProperties DEF NextLine, ListInv
  <2>2. text[at] \in Line /\ ParseLink(text[at]).id = Address(text[at])
    BY <2>1, LinkIsDescribed
  <2>. HIDE DEF n
  <2>3. ListsUpTo(built', text, n + 1)
    <3>1. CASE ~Parses(text[at])
      <4>1. built' = built
        BY <1>4, <3>1 DEF NextLine
      <4>. QED BY <2>1, <3>1, <4>1, LineIsSkipped
    <3>2. CASE Parses(text[at]) /\ \E i \in DOMAIN built : built[i].id = Address(text[at])
      <4>1. built' = built
        BY <1>4, <2>2, <3>2 DEF NextLine, AppendNew
      <4>. QED BY <2>1, <3>2, <4>1, LineIsSkipped
    <3>3. CASE Parses(text[at]) /\ \A i \in DOMAIN built : built[i].id # Address(text[at])
      <4>1. built' = Append(built, ParseLink(text[at]))
        BY <1>4, <2>2, <3>3 DEF NextLine, AppendNew
      <4>. QED BY <2>1, <3>3, <4>1, LineIsListed
    <3>. QED BY <3>1, <3>2, <3>3
  <2>4. /\ pc' = "lines" /\ at' = at + 1 /\ text' = text /\ served' = served
        /\ listing' = listing
    BY <1>4, <2>1 DEF NextLine, kept
  <2>5. at' \in 1..(Len(text') + 1) /\ at' - 1 = n + 1
    BY <2>1, <2>4
  <2>6. ListsUpTo(built', text', at' - 1)
    BY <2>3, <2>4, <2>5
  <2>. QED BY <2>1, <2>4, <2>5, <2>6 DEF ListInv
<1>5. ASSUME KeepListing PROVE ListInv'
  <2>1. built \in Seq(Goods) /\ listing \in Seq(Goods)
    BY <1>5 DEF KeepListing, ListInv, ListsUpTo
  <2>. QED BY <1>5, <2>1 DEF KeepListing, Ends, ListInv
<1>6. ASSUME NEW d \in Document, FetchRules(d) \/ NotRules(d) PROVE ListInv'
  BY <1>6 DEF FetchRules, NotRules, FetchFails, Ends, ListInv, kept
<1>7. ASSUME TakeRule \/ RefuseRule \/ KeepRules PROVE ListInv'
  BY <1>7 DEF TakeRule, RefuseRule, KeepRules, Ends, ListInv, kept
<1>8. ASSUME NEW s, WriteOutbounds(s) PROVE ListInv'
  BY <1>8 DEF WriteOutbounds, ListInv, work, kept
<1>9. ASSUME WriteRouting \/ WriteFails PROVE ListInv'
  BY <1>9 DEF WriteRouting, WriteFails, ListInv, work, kept
<1>10. ASSUME UNCHANGED vars PROVE ListInv'
  BY <1>10 DEF vars, work, kept, ListInv
<1>. QED BY <1>1, <1>2, <1>3, <1>4, <1>5, <1>6, <1>7, <1>8, <1>9, <1>10 DEF Next

(* What a provider serves is listed as it is served: see ListedAsServed.   *)
THEOREM ListsAreTrue == Spec => []ListedAsServed
<1>1. ListInv => ListedAsServed
  <2>. SUFFICES ASSUME ListInv, pc = "lines", at > Len(text)
                PROVE  IsListingOf(built, served.lines)
    BY DEF ListedAsServed
  <2>1. /\ text = served.lines /\ text \in Seq(Line)
        /\ at \in 1..(Len(text) + 1) /\ Len(text) \in Nat
        /\ ListsUpTo(built, text, at - 1)
    BY LenProperties DEF ListInv
  <2>2. at - 1 = Len(text)
    BY <2>1
  <2>. QED BY <2>1, <2>2, AllLinesListed
<1>. QED BY <1>1, ListInvInit, ListInvStep, PTL DEF Spec

-----------------------------------------------------------------------------
(* The rules of the user, and those in the file. *)

RuleRecord == [object : BOOLEAN,
               tag    : validOutboundTags \cup {"missing", "other"},
               match  : {"none", "empty", "some"},
               type   : {"missing", "field", "other"}]

AllSound(rules) == \A i \in DOMAIN rules : Sound(rules[i])

RulesInv ==
    /\ pc \in {"idle", "decode", "routing"} => at = 1 /\ built = <<>>
    /\ pc = "rules" =>
          /\ text = served.items /\ text \in Seq(Rule)
          /\ at \in 1..(Len(text) + 1)
          /\ built \in Seq(RuleRecord) /\ Len(built) = at - 1
          /\ \A i \in 1..(at - 1) : Accepted(text[i]) /\ built[i] = Normalised(text[i])
    /\ AllSound(ruleset)
    /\ AllSound(routing)

(* A rule that is accepted means the same after it was normalised. *)
LEMMA NormalisedIsSame ==
    ASSUME NEW r \in Rule, Accepted(r)
    PROVE  /\ Normalised(r) \in RuleRecord
           /\ Sound(r) /\ Sound(Normalised(r)) /\ SameRule(Normalised(r), r)
<1>1. r \in RuleRecord
  BY RuleAssumption DEF RuleRecord
<1>2. CASE r.type = "missing"
  BY <1>1, <1>2 DEF Normalised, RuleRecord, Accepted, Sound, SameRule, validOutboundTags
<1>3. CASE r.type # "missing"
  BY <1>1, <1>3 DEF Normalised, RuleRecord, Accepted, Sound, SameRule, validOutboundTags
<1>. QED BY <1>2, <1>3

(* Once the last rule is taken, each is as its author wrote it. *)
LEMMA AllRulesTaken ==
    ASSUME RulesInv, pc = "rules", at > Len(text)
    PROVE  /\ Len(built) = Len(served.items)
           /\ AllSound(built)
           /\ \A i \in DOMAIN served.items :
                 Sound(served.items[i]) /\ SameRule(built[i], served.items[i])
<1>1. /\ text = served.items /\ text \in Seq(Rule)
      /\ at \in 1..(Len(text) + 1) /\ Len(text) \in Nat
      /\ built \in Seq(RuleRecord) /\ Len(built) = at - 1
      /\ \A i \in 1..(at - 1) : Accepted(text[i]) /\ built[i] = Normalised(text[i])
  BY LenProperties DEF RulesInv
<1>2. at - 1 = Len(text)
  BY <1>1
<1>3. DOMAIN text = 1..Len(text) /\ DOMAIN built = 1..Len(text)
  BY <1>1, <1>2, LenProperties
<1>4. \A i \in 1..Len(text) : /\ Sound(text[i]) /\ Sound(built[i])
                              /\ SameRule(built[i], text[i])
  <2>. SUFFICES ASSUME NEW i \in 1..Len(text)
                PROVE  Sound(text[i]) /\ Sound(built[i]) /\ SameRule(built[i], text[i])
    OBVIOUS
  <2>1. text[i] \in Rule /\ Accepted(text[i]) /\ built[i] = Normalised(text[i])
    BY <1>1, <1>2
  <2>. QED BY <2>1, NormalisedIsSame
<1>. QED BY <1>1, <1>2, <1>3, <1>4 DEF AllSound

(* A routing file of sound rules is sound. *)
LEMMA RoutingIsSound ==
    ASSUME AllSound(ruleset)
    PROVE  AllSound(Routing(ruleset))
<1>1. AllSound(defaultRules)
  BY DEF AllSound, defaultRules, Sound
<1>. QED BY <1>1 DEF Routing

(* At first there are no rules, *)
LEMMA RulesInvInit == Init => RulesInv
<1>. SUFFICES ASSUME Init PROVE RulesInv
  OBVIOUS
<1>1. AllSound(ruleset)
  BY DEF Init, AllSound
<1>2. AllSound(routing)
  BY <1>1, RoutingIsSound DEF Init
<1>. QED BY <1>1, <1>2 DEF Init, RulesInv

(* and each step of a reading keeps what it has. *)
LEMMA RulesInvStep == RulesInv /\ [Next]_vars => RulesInv'
<1>. SUFFICES ASSUME RulesInv, [Next]_vars PROVE RulesInv'
  OBVIOUS
<1>1. ASSUME NEW b, FetchSubscription(b) PROVE RulesInv'
  BY <1>1 DEF FetchSubscription, RulesInv, AllSound, kept, files
<1>2. ASSUME NEW job, FetchFails(job) PROVE RulesInv'
  BY <1>2 DEF FetchFails, Ends, RulesInv, AllSound, kept, files
<1>3. ASSUME Decode PROVE RulesInv'
  BY <1>3 DEF Decode, Ends, RulesInv, AllSound, work, kept, files
<1>4. ASSUME NextLine PROVE RulesInv'
  BY <1>4 DEF NextLine, RulesInv, AllSound, kept, files
<1>5. ASSUME KeepListing PROVE RulesInv'
  BY <1>5 DEF KeepListing, Ends, RulesInv, AllSound, files
<1>6. ASSUME NEW d \in Document, FetchRules(d) PROVE RulesInv'
  <2>1. RulesRaw(d) = d.items
    BY <1>6 DEF FetchRules, RulesRaw
  <2>2. d.items \in Seq(Rule)
    <3>1. PICK k \in 0..MaxRules : d.items \in [1..k -> Rule]
      BY DEF Document, Texts
    <3>2. k \in Nat
      BY DEF Document
    <3>. QED BY <3>1, <3>2, SeqDef
  <2>3. at' = 1 /\ built' = <<>>
    BY <1>6 DEF FetchRules, RulesInv
  <2>4. text' = served'.items /\ text' \in Seq(Rule)
    BY <1>6, <2>1, <2>2 DEF FetchRules
  <2>5. /\ at' \in 1..(Len(text') + 1) /\ built' \in Seq(RuleRecord)
        /\ Len(built') = at' - 1 /\ 1..(at' - 1) = {}
    BY <2>3, <2>4, LenProperties
  <2>6. pc' = "rules" /\ ruleset' = ruleset /\ routing' = routing
    BY <1>6 DEF FetchRules, kept, files
  <2>. QED BY <2>4, <2>5, <2>6 DEF RulesInv, AllSound
<1>7. ASSUME NEW d, NotRules(d) PROVE RulesInv'
  BY <1>7 DEF NotRules, FetchFails, Ends, RulesInv, AllSound, kept, files
<1>8. ASSUME TakeRule PROVE RulesInv'
  <2>. DEFINE r == Normalised(text[at])
  <2>1. /\ pc = "rules" /\ pc' = "rules" /\ at' = at + 1
        /\ text' = text /\ served' = served
        /\ built' = Append(built, r)
        /\ ruleset' = ruleset /\ routing' = routing
        /\ at <= Len(text) /\ Accepted(text[at])
    BY <1>8 DEF TakeRule, kept, files
  <2>2. /\ text = served.items /\ text \in Seq(Rule)
        /\ at \in 1..(Len(text) + 1) /\ Len(text) \in Nat
        /\ built \in Seq(RuleRecord) /\ Len(built) = at - 1
        /\ \A i \in 1..(at - 1) : Accepted(text[i]) /\ built[i] = Normalised(text[i])
    BY <2>1, LenProperties DEF RulesInv
  <2>3. r \in RuleRecord
    BY <2>1, <2>2, NormalisedIsSame
  <2>. HIDE DEF r
  <2>4. /\ built' \in Seq(RuleRecord) /\ Len(built') = at' - 1
        /\ \A i \in 1..(at - 1) : built'[i] = built[i]
        /\ built'[at] = r
    BY <2>1, <2>2, <2>3, AppendProperties
  <2>5. \A i \in 1..(at' - 1) : Accepted(text[i]) /\ built'[i] = Normalised(text[i])
    <3>. SUFFICES ASSUME NEW i \in 1..(at' - 1)
                  PROVE  Accepted(text[i]) /\ built'[i] = Normalised(text[i])
      OBVIOUS
    <3>1. CASE i = at
      BY <2>1, <2>4, <3>1 DEF r
    <3>2. CASE i \in 1..(at - 1)
      BY <2>2, <2>4, <3>2
    <3>. QED BY <2>1, <2>2, <3>1, <3>2
  <2>6. at' \in 1..(Len(text) + 1)
    BY <2>1, <2>2
  <2>. QED BY <2>1, <2>2, <2>4, <2>5, <2>6 DEF RulesInv, AllSound
<1>9. ASSUME RefuseRule PROVE RulesInv'
  BY <1>9 DEF RefuseRule, Ends, RulesInv, AllSound, kept, files
<1>10. ASSUME KeepRules PROVE RulesInv'
  <2>1. AllSound(built)
    BY <1>10, AllRulesTaken DEF KeepRules
  <2>. QED BY <1>10, <2>1 DEF KeepRules, Ends, RulesInv, AllSound, files
<1>11. ASSUME NEW s, WriteOutbounds(s) PROVE RulesInv'
  BY <1>11 DEF WriteOutbounds, RulesInv, AllSound, work, kept
<1>12. ASSUME WriteRouting PROVE RulesInv'
  <2>1. AllSound(Routing(ruleset))
    BY RoutingIsSound DEF RulesInv
  <2>. QED BY <1>12, <2>1 DEF WriteRouting, RulesInv, AllSound, work, kept
<1>13. ASSUME WriteFails PROVE RulesInv'
  BY <1>13 DEF WriteFails, RulesInv, AllSound, work, kept, files
<1>14. ASSUME UNCHANGED vars PROVE RulesInv'
  BY <1>14 DEF vars, work, kept, files, RulesInv, AllSound
<1>. QED BY <1>1, <1>2, <1>3, <1>4, <1>5, <1>6, <1>7, <1>8, <1>9, <1>10, <1>11,
            <1>12, <1>13, <1>14 DEF Next

(* A document of rules is taken whole or not at all: see RulesAllOrNothing. *)
THEOREM RulesAreTakenWhole == Spec => RulesAllOrNothing
<1>. DEFINE Whole == ruleset' # ruleset =>
          LET rules == served.items
          IN  /\ Len(ruleset') = Len(rules)
              /\ \A i \in DOMAIN rules : /\ Sound(rules[i])
                                         /\ SameRule(ruleset'[i], rules[i])
<1>1. RulesInv /\ [Next]_vars => [Whole]_vars
  <2>. SUFFICES ASSUME RulesInv, Next, ruleset' # ruleset PROVE Whole
    OBVIOUS
  <2>1. KeepRules
    BY DEF Next, FetchSubscription, FetchFails, Decode, NextLine, KeepListing,
           FetchRules, NotRules, TakeRule, RefuseRule, WriteOutbounds,
           WriteRouting, WriteFails, kept
  <2>2. pc = "rules" /\ at > Len(text) /\ ruleset' = built
    BY <2>1 DEF KeepRules
  <2>. QED BY <2>2, AllRulesTaken
<1>. QED BY <1>1, RulesInvInit, RulesInvStep, PTL DEF Spec, RulesAllOrNothing

-----------------------------------------------------------------------------
(* The outbounds file holds a server of a line, or none. *)

OutboundsInv == \E s \in Goods \cup {None} : outbounds = Outbounds(s)

(* A parameter of the stored server is the first of that name in the link. *)
LEMMA ParamIsGiven ==
    ASSUME NEW l, NEW key
    PROVE  Param(ParseLink(l), key) = IF Given(l, key) THEN l.query[key][1] ELSE Blank
<1>1. ParseLink(l).params = Params(l)
  BY DEF ParseLink
<1>2. CASE Given(l, key)
  BY <1>1, <1>2 DEF Param, Params, Given
<1>3. CASE ~Given(l, key)
  BY <1>1, <1>3 DEF Param, Params, Given
<1>. QED BY <1>2, <1>3

(* The proxy outbound of a link serves that link. *)
LEMMA OutboundServes ==
    ASSUME NEW l \in Line
    PROVE  Serves(BuildOutbound(ParseLink(l)), l)
<1>. DEFINE s == ParseLink(l)
            o == BuildOutbound(s)
<1>1. \A key : Param(s, key) = IF Given(l, key) THEN l.query[key][1] ELSE Blank
  BY ParamIsGiven
<1>2. \A key : Given(l, key) => Param(s, key) # Blank
  BY <1>1 DEF Given
<1>3. /\ o.address = l.host /\ o.port = Address(l)[2] /\ o.user.id = l.uuid
  BY DEF BuildOutbound, ParseLink, Address, Port, DefaultPort
<1>. HIDE DEF s
<1>4. o.transport = Transport(s) /\ o.security = Security(s)
  BY DEF BuildOutbound
<1>. HIDE DEF o
<1>5. /\ o.transport.kind = stringOr(Param(s, "type"), "tcp")
      /\ o.transport.kind = "ws" =>
            o.transport.settings.path = stringOr(Param(s, "path"), Root)
  BY <1>4 DEF Transport
<1>6. /\ o.security.kind = stringOr(Param(s, "security"), "none")
      /\ o.security.kind \in {"tls", "reality"} =>
            o.security.settings.fingerprint = stringOr(Param(s, "fp"), "chrome")
      /\ o.security.kind = "tls" =>
            o.security.settings.serverName =
                stringOr(Param(s, "sni"), Param(s, "host"))
  BY <1>4 DEF Security
<1>7. o.transport.kind = IF Given(l, "type") THEN l.query["type"][1] ELSE "tcp"
  BY <1>1, <1>2, <1>5 DEF stringOr
<1>8. o.security.kind =
         IF Given(l, "security") THEN l.query["security"][1] ELSE "none"
  BY <1>1, <1>2, <1>6 DEF stringOr
<1>9. o.transport.kind = "ws" => o.transport.settings.path # Blank
  BY <1>5, RootAssumption DEF stringOr
<1>10. o.security.kind \in {"tls", "reality"} =>
          o.security.settings.fingerprint # Blank
  BY <1>6, BlankAssumption DEF stringOr
<1>11. o.security.kind = "tls" /\ (Given(l, "sni") \/ Given(l, "host")) =>
          o.security.settings.serverName # Blank
  BY <1>2, <1>6 DEF stringOr
<1>. QED BY <1>3, <1>7, <1>8, <1>9, <1>10, <1>11 DEF Serves, o, s

(* At first there is no server in the file, *)
LEMMA OutboundsInvInit == Init => OutboundsInv
BY DEF Init, OutboundsInv

(* and a write puts in one of the list. *)
LEMMA OutboundsInvStep == ListInv /\ OutboundsInv /\ [Next]_vars => OutboundsInv'
<1>. SUFFICES ASSUME ListInv, OutboundsInv, [Next]_vars PROVE OutboundsInv'
  OBVIOUS
<1>1. CASE outbounds' = outbounds
  BY <1>1 DEF OutboundsInv
<1>2. ASSUME NEW s \in {listing[i] : i \in DOMAIN listing} \cup {None}, WriteOutbounds(s)
      PROVE  OutboundsInv'
  <2>1. \A i \in DOMAIN listing : listing[i] \in Goods
    BY LenProperties DEF ListInv
  <2>2. s \in Goods \cup {None}
    BY <2>1
  <2>. QED BY <1>2, <2>2 DEF WriteOutbounds, OutboundsInv
<1>3. \/ outbounds' = outbounds
      \/ \E s \in {listing[i] : i \in DOMAIN listing} \cup {None} : WriteOutbounds(s)
  BY DEF Next, FetchSubscription, FetchFails, Decode, NextLine, KeepListing,
         FetchRules, NotRules, TakeRule, RefuseRule, KeepRules,
         WriteRouting, WriteFails, files, vars
<1>. QED BY <1>1, <1>2, <1>3

(* Such a file has what the rules refer to. *)
LEMMA OutboundsFit ==
    ASSUME OutboundsInv
    PROVE  /\ \A tag \in {"direct", "block"} :
                 \E k \in DOMAIN outbounds : outbounds[k].tag = tag
           /\ \A k \in DOMAIN outbounds : outbounds[k].tag = "proxy" =>
                 /\ k = 1
                 /\ \E l \in Line : Parses(l) /\ Serves(outbounds[k], l)
<1>1. PICK s \in Goods \cup {None} : outbounds = Outbounds(s)
  BY DEF OutboundsInv
<1>2. CASE s = None
  <2>1. outbounds = <<Direct, Block>>
    BY <1>1, <1>2 DEF Outbounds
  <2>2. DOMAIN outbounds = 1..2 /\ outbounds[1] = Direct /\ outbounds[2] = Block
    BY <2>1
  <2>3. /\ 1 \in DOMAIN outbounds /\ 2 \in DOMAIN outbounds
        /\ \A k \in DOMAIN outbounds : k = 1 \/ k = 2
    BY <2>2
  <2>. QED BY <2>2, <2>3 DEF Direct, Block
<1>3. CASE s # None
  <2>1. PICK l \in Line : Parses(l) /\ s = ParseLink(l)
    BY <1>3 DEF Goods
  <2>. DEFINE o == BuildOutbound(s)
  <2>2. o.tag = "proxy" /\ Serves(o, l)
    BY <2>1, OutboundServes DEF BuildOutbound
  <2>. HIDE DEF o
  <2>3. outbounds = <<o>> \o <<Direct, Block>>
    BY <1>1, <1>3 DEF Outbounds, o
  <2>4. /\ DOMAIN outbounds = 1..3
        /\ outbounds[1] = o /\ outbounds[2] = Direct /\ outbounds[3] = Block
    BY <2>3
  <2>5. /\ 2 \in DOMAIN outbounds /\ 3 \in DOMAIN outbounds
        /\ \A k \in DOMAIN outbounds : k = 1 \/ k = 2 \/ k = 3
    BY <2>4
  <2>. QED BY <2>1, <2>2, <2>4, <2>5 DEF Direct, Block
<1>. QED BY <1>2, <1>3

(* The two files fit together at every moment: see FilesFit. *)
THEOREM FilesAlwaysFit == Spec => []FilesFit
<1>1. RulesInv /\ OutboundsInv => FilesFit
  <2>. SUFFICES ASSUME RulesInv, OutboundsInv PROVE FilesFit
    OBVIOUS
  <2>1. \A i \in DOMAIN routing : Sound(routing[i])
    BY DEF RulesInv, AllSound
  <2>2. \A i \in DOMAIN routing :
           routing[i].tag \in {"direct", "proxy", "block"}
    BY <2>1 DEF Sound
  <2>. QED BY <2>1, <2>2, OutboundsFit DEF FilesFit
<1>2. Init => ListInv /\ RulesInv /\ OutboundsInv
  BY ListInvInit, RulesInvInit, OutboundsInvInit
<1>3. ListInv /\ RulesInv /\ OutboundsInv /\ [Next]_vars
         => (ListInv /\ RulesInv /\ OutboundsInv)'
  BY ListInvStep, RulesInvStep, OutboundsInvStep
<1>. QED BY <1>1, <1>2, <1>3, PTL DEF Spec
=============================================================================
