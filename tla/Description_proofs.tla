-------------------------- MODULE Description_proofs --------------------------
(***************************************************************************)
(* Proofs about session descriptions (Description): what every line that   *)
(* is read and every edit keeps true of the description and of the parser, *)
(* and that what is written is read back.                                  *)
(*                                                                         *)
(* The round trip follows the lines that generate_sdp() writes: from a     *)
(* parser At a certain point they lead to another (Takes), one line after  *)
(* another, until the description is a Copy of the one that was written.   *)
(* A parser is a fold over its input: FoldLaws is where the induction is.  *)
(***************************************************************************)
EXTENDS Description, FiniteSetTheorems, SequenceTheorems, TLAPS

Lines == INSTANCE FoldLaws WITH Op <- Feed

-----------------------------------------------------------------------------
(* The invariant                                                           *)

\* The provers do not know that a literal is in STRING: Text stays closed,
\* and the mid of a transport without a remote one is added by hand.
Mids == MidText \cup {"0"}

Cand ==
  [foundation : Text, component : DOMAIN Decimal, transport : Text,
   transport_type : {"Udp", "TcpActive", "TcpPassive", "TcpSo", "TcpUnknown", "Unknown"},
   priority : DOMAIN Decimal, node : Text, service : Text, type : Text, tail : Seq(Text),
   mid : Mids \cup {Unset}]

AppField == {"mid", "number", "direction", "extra_attrs"}

Field ==
  {"type", "role", "origin", "bundle_mids", "attr", "ice_options", "extmap_allow_mixed",
   "extra_attrs", "application", "other_sections", "candidates", "ended"}

IsApplication(app) ==
  /\ DOMAIN app = AppField
  /\ app.number \in [NumberAttr -> DOMAIN Decimal \cup {Unset}]
  /\ app.number["sctp-port"] \in Port \cup {Unset}

\* A sequence, whatever of.
IsList(s) == Len(s) \in Nat /\ s = [i \in 1..Len(s) |-> s[i]]

\* No candidate is there twice.
Distinct(cs) == \A i, j \in DOMAIN cs : i # j => ~Same(cs[i], cs[j])

IsDescription(d) ==
  /\ DOMAIN d = Field
  /\ d.type \in Type /\ d.role \in Role /\ d.ended \in BOOLEAN
  /\ IsApplication(d.application)
  /\ has_application(d) => d.application.mid \in Mids
  /\ IsList(d.bundle_mids)
  /\ d.candidates \in Seq(Cand) /\ Distinct(d.candidates)

\* The application is in the BUNDLE group.
Grouped(d) == has_application(d) => Contains(d.bundle_mids, d.application.mid)

IsParser(p) ==
  /\ DOMAIN p = {"d", "kind", "app", "other", "other_mid", "sections"}
  /\ IsDescription(p.d) /\ IsApplication(p.app)
  /\ p.kind \in {"none", "application", "other"}
  /\ p.kind = "application" => p.app.mid \in Mids
  /\ p.kind # "application" => p.app = NoApplication
  /\ p.other_mid \in Mids \cup {Unset}
  /\ p.sections \in 0..MaxLines

\* Before any section there is no application; inside one, the group may be
\* anything, since the application takes its place in it when it ends.
Reading(p) ==
  /\ p.d.bundle_mids \in Seq(Mids)
  /\ p.kind = "none" => ~has_application(p.d)
  /\ p.kind # "application" => Grouped(p.d)

IInv ==
  /\ phase \in {"parsing", "parsed", "error"} /\ renamed \in BOOLEAN
  /\ lines \in 0..MaxLines /\ edits \in 0..MaxEdits
  /\ IsParser(parser)
  /\ phase = "parsed" =>
       /\ parser.kind = "none" /\ parser.other_mid = Unset
       /\ ~renamed => Grouped(parser.d)
       /\ ~has_application(parser.d) => parser.d.bundle_mids \in Seq(Mids)
  /\ phase # "parsed" => ~renamed /\ Reading(parser) /\ parser.sections <= lines

-----------------------------------------------------------------------------
(* Operators                                                               *)

LEMMA MidsAreMids ==
  /\ Unset \notin Mids /\ "0" \in Mids /\ MidText \subseteq Mids
BY DEF Mids, MidText, Unset

LEMMA Tokens ==
  ASSUME NEW s \in Seq(Text), Len(s) >= 8
  PROVE  /\ s[1] \in Text /\ s[3] \in Text /\ s[5] \in Text /\ s[6] \in Text /\ s[8] \in Text
         /\ SubSeq(s, 9, Len(s)) \in Seq(Text)
<1>1. \A i \in 1..8 : s[i] \in Text
  OBVIOUS
<1>2. SubSeq(s, 9, Len(s)) \in Seq(Text)
  OBVIOUS
<1> QED
  BY <1>1, <1>2

\* A candidate has one of the six transport types.
LEMMA Classified ==
  ASSUME NEW transport, NEW tail
  PROVE  classify_transport(transport, tail) \in
           {"Udp", "TcpActive", "TcpPassive", "TcpSo", "TcpUnknown", "Unknown"}
<1> DEFINE tcptype == find_kv(tail, "tcptype")
           kind == CASE tcptype = "active" -> "TcpActive" [] tcptype = "passive" -> "TcpPassive"
                     [] tcptype = "so" -> "TcpSo" [] OTHER -> "TcpUnknown"
<1>1. kind \in {"TcpActive", "TcpPassive", "TcpSo", "TcpUnknown"}
  <2> HIDE DEF tcptype
  <2> QED
    OBVIOUS
<1>2. classify_transport(transport, tail) =
        CASE low(transport) = "udp" -> "Udp"
          [] low(transport) \notin {"udp", "tcp"} -> "Unknown"
          [] low(transport) = "tcp" -> kind
  BY DEF classify_transport
<1> HIDE DEF kind
<1> QED
  BY <1>1, <1>2

\* A mid without the blanks around it is one.
LEMMA TrimmedIsMid ==
  ASSUME NEW text \in MidText
  PROVE  trim(text) \in Mids
BY WordsAssumption, MidsAreMids DEF trim

\* A line that is not malformed is read as a candidate.
LEMMA ParsesToCand ==
  ASSUME NEW line \in Seq(Text), Parses(line), NEW mid \in Mids \cup {Unset, ""}
  PROVE  parse_candidate(line, mid) \in Cand
<1> DEFINE tail == SubSeq(line, 9, Len(line))
<1>0. Len(line) >= 8
  BY DEF Parses
<1>1. /\ line[1] \in Text /\ line[3] \in Text /\ line[5] \in Text
      /\ line[6] \in Text /\ line[8] \in Text
  BY <1>0, Tokens
<1>2. Decimal[line[2]] \in DOMAIN Decimal /\ Decimal[line[4]] \in DOMAIN Decimal
  BY CandidateAssumption DEF Parses
<1>3. tail \in Seq(Text)
  BY <1>0, Tokens
<1>4. classify_transport(line[3], tail) \in
        {"Udp", "TcpActive", "TcpPassive", "TcpSo", "TcpUnknown", "Unknown"}
  BY Classified
<1>5. (IF mid = "" THEN Unset ELSE mid) \in Mids \cup {Unset}
  OBVIOUS
<1> HIDE DEF tail
<1> QED
  BY <1>1, <1>2, <1>3, <1>4, <1>5 DEF parse_candidate, Cand, Text, tail

\* A candidate that is given a mid is one.
LEMMA HintsToCand ==
  ASSUME NEW c \in Cand, NEW mid \in Mids
  PROVE  hint_mid(c, mid) \in Cand
BY DEF hint_mid, Cand

\* Whatever is pushed, no candidate is there twice.
LEMMA PushKeeps ==
  ASSUME NEW cs \in Seq(Cand), Distinct(cs), NEW c \in Cand
  PROVE  push_candidate(cs, c) \in Seq(Cand) /\ Distinct(push_candidate(cs, c))
<1>1. CASE \E i \in DOMAIN cs : Same(cs[i], c)
  BY <1>1 DEF push_candidate
<1>2. CASE ~\E i \in DOMAIN cs : Same(cs[i], c)
  <2> DEFINE s == Append(cs, c)
             n == Len(cs)
  <2>1. push_candidate(cs, c) = s
    BY <1>2 DEF push_candidate
  <2>2. /\ s \in Seq(Cand) /\ n \in Nat /\ DOMAIN cs = 1..n /\ DOMAIN s = 1..(n + 1)
        /\ s[n + 1] = c /\ \A i \in 1..n : s[i] = cs[i]
    OBVIOUS
  <2> HIDE DEF s, n
  <2>3. ASSUME NEW i \in DOMAIN s, NEW j \in DOMAIN s, i # j
        PROVE  ~Same(s[i], s[j])
    <3>1. CASE i \in 1..n /\ j \in 1..n
      BY <2>2, <2>3, <3>1 DEF Distinct
    <3>2. CASE i = n + 1 /\ j \in 1..n
      BY <1>2, <2>2, <3>2 DEF Same
    <3>3. CASE i \in 1..n /\ j = n + 1
      BY <1>2, <2>2, <3>3
    <3> QED
      BY <2>2, <2>3, <3>1, <3>2, <3>3
  <2> QED
    BY <2>1, <2>2, <2>3 DEF Distinct
<1> QED
  BY <1>1, <1>2

\* What is appended, if it is new, is there, and nothing is gone.
LEMMA AppendNewKeeps ==
  ASSUME NEW s \in Seq(Mids), NEW e \in Mids
  PROVE  /\ AppendNew(s, e) \in Seq(Mids) /\ Contains(AppendNew(s, e), e)
         /\ \A x : Contains(s, x) => Contains(AppendNew(s, e), x)
<1>1. CASE Contains(s, e)
  BY <1>1 DEF AppendNew
<1>2. CASE ~Contains(s, e)
  <2>1. AppendNew(s, e) = Append(s, e)
    BY <1>2 DEF AppendNew
  <2>2. /\ Append(s, e) \in Seq(Mids) /\ Len(Append(s, e)) = Len(s) + 1 /\ Len(s) \in Nat
        /\ Append(s, e)[Len(s) + 1] = e /\ \A i \in 1..Len(s) : Append(s, e)[i] = s[i]
    OBVIOUS
  <2> QED
    BY <2>1, <2>2 DEF Contains
<1> QED
  BY <1>1, <1>2

LEMMA SeqIsList ==
  ASSUME NEW S, NEW s \in Seq(S)
  PROVE  IsList(s)
BY DEF IsList

LEMMA FirstMid ==
  ASSUME NEW s \in Seq(Mids), s # <<>>
  PROVE  Head(s) \in Mids
OBVIOUS

LEMMA MoreSeqs ==
  ASSUME NEW S, NEW T, S \subseteq T, NEW s \in Seq(S)
  PROVE  s \in Seq(T)
OBVIOUS

LEMMA ListIsSeq ==
  ASSUME NEW s, IsList(s)
  PROVE  s \in Seq({s[i] : i \in 1..Len(s)})
BY DEF IsList

\* What is left of a list is one.
LEMMA WithoutIsList ==
  ASSUME NEW s, IsList(s), NEW e
  PROVE  IsList(Without(s, e))
<1> DEFINE kept == {i \in DOMAIN s : s[i] # e}
           n == Cardinality(kept)
           at(k) == s[CHOOSE i \in kept : Cardinality({j \in kept : j <= i}) = k]
<1>1. n \in Nat
  <2>1. DOMAIN s = 1..Len(s) /\ Len(s) \in Nat
    BY DEF IsList
  <2>2. IsFiniteSet(1..Len(s))
    BY <2>1, FS_Interval
  <2>3. kept \in SUBSET (1..Len(s))
    BY <2>1
  <2> HIDE DEF kept
  <2>4. IsFiniteSet(kept)
    BY <2>2, <2>3, FS_Subset
  <2> QED
    BY <2>4, FS_CardinalityType
<1>2. Without(s, e) = [k \in 1..n |-> at(k)]
  BY DEF Without, Kept
<1> HIDE DEF n, at
<1>3. Len([k \in 1..n |-> at(k)]) = n
  BY <1>1
<1> QED
  BY <1>1, <1>2, <1>3 DEF IsList

LEMMA AnApplication ==
  ASSUME NEW mid \in Mids
  PROVE  /\ IsApplication(Application(mid)) /\ Application(mid).mid = mid
         /\ Application(mid) # NoApplication
<1>1. Application(mid).mid = mid /\ NoApplication.mid = Unset
  BY DEF Application, NoApplication
<1>2. DOMAIN Application(mid) = AppField
  BY DEF Application, AppField
<1>3. Application(mid).number = [key \in NumberAttr |-> Unset]
  BY DEF Application
<1>4. "sctp-port" \in NumberAttr
  BY DEF NumberAttr
<1> QED
  BY <1>1, <1>2, <1>3, <1>4, MidsAreMids DEF IsApplication

LEMMA NotAnApplication == IsApplication(NoApplication)
<1>1. DOMAIN NoApplication = AppField
  BY DEF Application, AppField, NoApplication
<1>2. NoApplication.number = [key \in NumberAttr |-> Unset]
  BY DEF Application, NoApplication
<1>3. "sctp-port" \in NumberAttr
  BY DEF NumberAttr
<1> QED
  BY <1>1, <1>2, <1>3 DEF IsApplication

\* An application with a mid is one.
LEMMA HasMid ==
  ASSUME NEW app, app.mid \in Mids
  PROVE  app # NoApplication
<1>1. NoApplication.mid = Unset
  BY DEF Application, NoApplication
<1> QED
  BY <1>1, MidsAreMids

\* The fields of no interest here may become anything.
LEMMA FieldKept ==
  ASSUME NEW d, IsDescription(d), NEW v,
         NEW f \in {"origin", "attr", "ice_options", "extmap_allow_mixed", "extra_attrs",
                    "other_sections"}
  PROVE  /\ IsDescription([d EXCEPT ![f] = v])
         /\ [d EXCEPT ![f] = v].application = d.application
         /\ [d EXCEPT ![f] = v].bundle_mids = d.bundle_mids
<1> DEFINE e == [d EXCEPT ![f] = v]
<1>1. /\ DOMAIN e = Field /\ e.type = d.type /\ e.role = d.role /\ e.ended = d.ended
      /\ e.application = d.application /\ e.bundle_mids = d.bundle_mids
      /\ e.candidates = d.candidates
  BY DEF IsDescription, Field
<1> QED
  BY <1>1 DEF IsDescription, has_application

LEMMA Flush ==
  ASSUME NEW p, IsParser(p), Reading(p)
  PROVE  LET q == flush_section(p)
         IN  /\ IsParser(q) /\ q.kind = "none" /\ q.other_mid = Unset /\ q.sections = p.sections
             /\ Grouped(q.d) /\ q.d.bundle_mids \in Seq(Mids)
<1> DEFINE mid == IF p.kind = "application" THEN p.app.mid ELSE p.other_mid
           app == IF p.kind = "application" THEN p.app ELSE p.d.application
           others == IF p.kind = "other" THEN Append(p.d.other_sections, p.other)
                       ELSE p.d.other_sections
           mids == IF mid = Unset THEN p.d.bundle_mids ELSE AppendNew(p.d.bundle_mids, mid)
           d == [p.d EXCEPT !.application = app, !.other_sections = others, !.bundle_mids = mids]
           q == flush_section(p)
<1>1. /\ DOMAIN p.d = Field /\ IsDescription(p.d)
      /\ p.kind \in {"none", "application", "other"} /\ p.sections \in 0..MaxLines
  BY DEF IsParser, IsDescription
<1>2. q = [Parser(d) EXCEPT !.sections = p.sections]
  BY <1>1 DEF flush_section, Field
<1>3. mid \in Mids \cup {Unset} /\ p.d.bundle_mids \in Seq(Mids)
  BY DEF IsParser, Reading
<1>4. /\ mids \in Seq(Mids) /\ (mid # Unset => Contains(mids, mid))
      /\ \A x : Contains(p.d.bundle_mids, x) => Contains(mids, x)
  <2> HIDE DEF mid
  <2> QED
    BY <1>3, AppendNewKeeps
<1>5. IsApplication(app) /\ (app # NoApplication => app.mid \in Mids)
  BY DEF IsParser, IsDescription, has_application
<1>6. app # NoApplication => Contains(mids, app.mid)
  <2>1. CASE p.kind = "application"
    <3>1. mid = p.app.mid /\ app = p.app /\ p.app.mid \in Mids
      BY <2>1 DEF IsParser
    <3> QED
      BY <1>4, <3>1, MidsAreMids
  <2>2. CASE p.kind # "application"
    <3>1. app = p.d.application
      BY <2>2
    <3> QED
      BY <1>4, <2>2, <3>1 DEF Reading, Grouped, has_application
  <2> QED
    BY <2>1, <2>2
<1> HIDE DEF mid, app, others, mids
<1>7. /\ DOMAIN d = Field /\ d.application = app /\ d.bundle_mids = mids
      /\ d.type = p.d.type /\ d.role = p.d.role /\ d.ended = p.d.ended
      /\ d.candidates = p.d.candidates
  BY <1>1 DEF Field
<1> HIDE DEF d
<1>8. IsDescription(d)
  BY <1>1, <1>4, <1>5, <1>7, SeqIsList DEF IsDescription, has_application
<1>9. Grouped(d) /\ d.bundle_mids \in Seq(Mids)
  BY <1>4, <1>6, <1>7 DEF Grouped, has_application
<1>10. /\ DOMAIN q = {"d", "kind", "app", "other", "other_mid", "sections"}
       /\ q.d = d /\ q.kind = "none" /\ q.app = NoApplication /\ q.other_mid = Unset
       /\ q.sections = p.sections
  BY <1>2 DEF Parser
<1> QED
  BY <1>1, <1>8, <1>9, <1>10, NotAnApplication DEF IsParser

-----------------------------------------------------------------------------
(* Lines                                                                   *)

\* A line that changes the description only, and not its application.
LEMMA InPlace ==
  ASSUME NEW p, IsParser(p), Reading(p), p.kind # "other",
         NEW d, IsDescription(d), d.application = p.d.application,
         d.bundle_mids \in Seq(Mids)
  PROVE  LET q == [p EXCEPT !.d = d]
         IN  IsParser(q) /\ Reading(q) /\ q.sections = p.sections
<1> DEFINE q == [p EXCEPT !.d = d]
<1>1. /\ DOMAIN q = DOMAIN p /\ q.d = d /\ q.kind = p.kind /\ q.app = p.app
      /\ q.other_mid = p.other_mid /\ q.sections = p.sections
  BY DEF IsParser
<1> HIDE DEF q
<1>2. IsParser(q)
  BY <1>1 DEF IsParser
<1>3. p.kind # "application" => p.kind = "none"
  BY DEF IsParser
<1>4. Reading(q)
  BY <1>1, <1>3 DEF Reading, Grouped, has_application
<1> QED
  BY <1>1, <1>2, <1>4 DEF q

LEMMA ReadMediaKeeps ==
  ASSUME NEW p, IsParser(p), Reading(p), NEW line, p.sections < MaxLines
  PROVE  LET q == ReadMedia(p, line)
         IN  IsParser(q) /\ Reading(q) /\ q.sections = p.sections + 1
<1> DEFINE f == flush_section(p)
           app == Application(Numeral[p.sections])
           a == [f EXCEPT !.sections = p.sections + 1, !.kind = "application", !.app = app]
           o == [f EXCEPT !.sections = p.sections + 1, !.kind = "other", !.other = <<line>>]
<1>1. /\ IsParser(f) /\ f.kind = "none" /\ f.sections = p.sections
      /\ Grouped(f.d) /\ f.d.bundle_mids \in Seq(Mids)
  BY Flush
<1>2. IsApplication(app) /\ app.mid \in Mids
  <2>1. p.sections \in 0..MaxLines
    BY DEF IsParser
  <2>2. Numeral[p.sections] \in Mids
    BY <2>1, DescriptionAssumption, MidsAreMids
  <2> QED
    BY <2>2, AnApplication
<1> HIDE DEF f, app
<1>3. p.sections + 1 \in 0..MaxLines
  BY DescriptionAssumption DEF IsParser
<1>4. IsParser(a) /\ Reading(a) /\ a.sections = p.sections + 1
  <2>1. /\ DOMAIN a = DOMAIN f /\ a.d = f.d /\ a.kind = "application" /\ a.app = app
        /\ a.other_mid = f.other_mid /\ a.sections = p.sections + 1
    BY <1>1 DEF IsParser
  <2> HIDE DEF a
  <2> QED
    BY <1>1, <1>2, <1>3, <2>1 DEF IsParser, Reading
<1>5. IsParser(o) /\ Reading(o) /\ o.sections = p.sections + 1
  <2>1. /\ DOMAIN o = DOMAIN f /\ o.d = f.d /\ o.kind = "other" /\ o.app = f.app
        /\ o.other_mid = f.other_mid /\ o.sections = p.sections + 1
    BY <1>1 DEF IsParser
  <2> HIDE DEF o
  <2> QED
    BY <1>1, <1>3, <2>1 DEF IsParser, Reading
<1>6. CASE line.value = "application"
  <2>1. ReadMedia(p, line) = a
    BY <1>1, <1>6 DEF ReadMedia, f, app, IsParser
  <2> QED
    BY <1>4, <2>1
<1>7. CASE line.value # "application"
  <2>1. ReadMedia(p, line) = o
    BY <1>1, <1>7 DEF ReadMedia, f, IsParser
  <2> QED
    BY <1>5, <2>1
<1> QED
  BY <1>6, <1>7

LEMMA ReadVerbatimKeeps ==
  ASSUME NEW p, IsParser(p), Reading(p), NEW line \in Input, p.kind = "other"
  PROVE  LET q == ReadVerbatim(p, line)
         IN  IsParser(q) /\ Reading(q) /\ q.sections = p.sections
<1> DEFINE mid == IF line.key = "mid" THEN trim(line.value) ELSE p.other_mid
           q == ReadVerbatim(p, line)
<1>1. mid \in Mids \cup {Unset}
  BY DescriptionAssumption, TrimmedIsMid DEF IsParser
<1>2. q = [p EXCEPT !.other = Append(p.other, line), !.other_mid = mid]
  BY DEF ReadVerbatim, IsParser
<1> HIDE DEF mid
<1>3. /\ DOMAIN q = DOMAIN p /\ q.d = p.d /\ q.kind = p.kind /\ q.app = p.app
      /\ q.other_mid = mid /\ q.sections = p.sections
  BY <1>2 DEF IsParser
<1> HIDE DEF q
<1>4. IsParser(q) /\ Reading(q)
  BY <1>1, <1>3 DEF IsParser, Reading
<1> QED
  BY <1>3, <1>4 DEF q

LEMMA ReadCandidateKeeps ==
  ASSUME NEW p, IsParser(p), Reading(p), NEW line \in Input, p.kind # "other",
         line.key = "candidate", Parses(line.value)
  PROVE  LET q == ReadCandidate(p, line)
         IN  IsParser(q) /\ Reading(q) /\ q.sections = p.sections
<1> DEFINE mid == CASE p.kind = "application" -> p.app.mid
                    [] p.kind # "application" /\ p.d.bundle_mids # <<>> -> Head(p.d.bundle_mids)
                    [] OTHER -> "0"
           cs == push_candidate(p.d.candidates, parse_candidate(line.value, mid))
           d == [p.d EXCEPT !.candidates = cs]
<1>1. mid \in Mids
  <2>1. p.kind = "application" => p.app.mid \in Mids
    BY DEF IsParser
  <2>2. p.d.bundle_mids # <<>> => Head(p.d.bundle_mids) \in Mids
    BY DEF Reading
  <2>3. "0" \in Mids
    BY MidsAreMids
  <2> QED
    BY <2>1, <2>2, <2>3
<1>2. /\ ReadCandidate(p, line) = [p EXCEPT !.d = d]
  BY DEF ReadCandidate, IsParser, IsDescription, Field
<1>3. p.d.candidates \in Seq(Cand) /\ Distinct(p.d.candidates)
  BY DEF IsParser, IsDescription
<1>4. line.value \in Seq(Text)
  BY DescriptionAssumption
<1> HIDE DEF mid
<1>5. cs \in Seq(Cand) /\ Distinct(cs)
  BY <1>1, <1>3, <1>4, ParsesToCand, PushKeeps
<1> HIDE DEF cs
<1>6. IsDescription(d) /\ d.application = p.d.application /\ d.bundle_mids \in Seq(Mids)
  <2>1. /\ DOMAIN d = Field /\ d.type = p.d.type /\ d.role = p.d.role /\ d.ended = p.d.ended
        /\ d.application = p.d.application /\ d.bundle_mids = p.d.bundle_mids
        /\ d.candidates = cs
    BY DEF IsParser, IsDescription, Field
  <2> HIDE DEF d
  <2> QED
    BY <1>5, <2>1 DEF IsParser, IsDescription, has_application, Reading
<1> HIDE DEF d
<1> QED
  BY <1>2, <1>6, InPlace

\* Attributes of the session.
LEMMA ReadSessionKeeps ==
  ASSUME NEW p, IsParser(p), Reading(p), NEW line \in Input, p.kind # "other",
         line.key \in SessionKey, ~Malformed(p, line)
  PROVE  LET q == ReadSession(p, line)
         IN  IsParser(q) /\ Reading(q) /\ q.sections = p.sections
<1> DEFINE Fine(q) == IsParser(q) /\ Reading(q) /\ q.sections = p.sections
<1>1. /\ DOMAIN p.d = Field /\ IsDescription(p.d) /\ p.d.bundle_mids \in Seq(Mids)
      /\ DOMAIN p = {"d", "kind", "app", "other", "other_mid", "sections"}
  BY DEF IsParser, IsDescription, Reading
<1>2. ASSUME NEW f \in {"attr", "ice_options", "extmap_allow_mixed"}, NEW v
      PROVE  Fine([p EXCEPT !.d = [p.d EXCEPT ![f] = v]])
  <2> DEFINE d == [p.d EXCEPT ![f] = v]
  <2> SUFFICES Fine([p EXCEPT !.d = d])
    OBVIOUS
  <2>1. f \in {"origin", "attr", "ice_options", "extmap_allow_mixed", "extra_attrs",
               "other_sections"}
    BY <1>2
  <2>2. IsDescription(d) /\ d.application = p.d.application /\ d.bundle_mids = p.d.bundle_mids
    <3>1. ASSUME NEW b, IsDescription(b)
          PROVE  /\ IsDescription([b EXCEPT ![f] = v])
                 /\ [b EXCEPT ![f] = v].application = b.application
                 /\ [b EXCEPT ![f] = v].bundle_mids = b.bundle_mids
      BY ONLY <2>1, <3>1, FieldKept, Zenon
    <3>2. IsDescription(p.d)
      BY <1>1
    <3> QED
      BY ONLY <3>1, <3>2, Zenon
  <2> HIDE DEF d
  <2> QED
    BY <1>1, <2>2, InPlace
<1>3. CASE line.key = "group"
  <2> DEFINE d == [p.d EXCEPT !.bundle_mids = line.value]
  <2>1. ReadSession(p, line) = [p EXCEPT !.d = d]
    BY <1>1, <1>3 DEF ReadSession, SessionAttr
  <2>2. line.value \in Seq(Mids)
    <3>1. line.value \in Seq(MidText)
      BY <1>3, DescriptionAssumption
    <3> QED
      BY <3>1, MidsAreMids, MoreSeqs
  <2>3. IsList(line.value)
    BY <2>2, SeqIsList
  <2>4. /\ DOMAIN d = Field /\ d.type = p.d.type /\ d.role = p.d.role /\ d.ended = p.d.ended
        /\ d.application = p.d.application /\ d.bundle_mids = line.value
        /\ d.candidates = p.d.candidates
    BY <1>1 DEF Field
  <2> HIDE DEF d
  <2>5. IsDescription(d)
    BY <1>1, <2>3, <2>4 DEF IsDescription, has_application
  <2> QED
    BY <2>1, <2>2, <2>4, <2>5, InPlace
<1>4. CASE line.key = "extmap-allow-mixed"
  <2>1. ReadSession(p, line) = [p EXCEPT !.d = [p.d EXCEPT !.extmap_allow_mixed = TRUE]]
    BY <1>1, <1>4 DEF ReadSession, SessionAttr
  <2> QED
    BY <1>2, <2>1
<1>5. CASE line.key = "ice-options"
  <2> DEFINE v == IF p.d.ice_options = <<>> THEN line.value ELSE p.d.ice_options
  <2>1. ReadSession(p, line) = [p EXCEPT !.d = [p.d EXCEPT !.ice_options = v]]
    BY <1>1, <1>5 DEF ReadSession, SessionAttr, Field
  <2> HIDE DEF v
  <2> QED
    BY <1>2, <2>1
<1>6. CASE line.key \in SessionAttr
  <2>1. ReadSession(p, line) = ReadSessionAttr(p, line)
    BY <1>6 DEF ReadSession, SessionAttr
  <2>2. CASE ReadSessionAttr(p, line) = p
    BY <2>1, <2>2
  <2>3. CASE ReadSessionAttr(p, line) # p
    <3> DEFINE v == [p.d.attr EXCEPT ![line.key] = line.value]
    <3>1. ReadSessionAttr(p, line) = [p EXCEPT !.d = [p.d EXCEPT !.attr = v]]
      BY <1>1, <2>3 DEF ReadSessionAttr, Field
    <3> HIDE DEF v
    <3> QED
      BY <1>2, <2>1, <3>1
  <2> QED
    BY <2>2, <2>3
<1>7. CASE line.key = "setup"
  <2> DEFINE r == CASE line.value = "active" -> "Active" [] line.value = "passive" -> "Passive"
                    [] OTHER -> "ActPass"
             d == [p.d EXCEPT !.role = r]
  <2>1. ReadSession(p, line) = [p EXCEPT !.d = d]
    BY <1>1, <1>7 DEF ReadSession, ReadSetup, SessionAttr
  <2>2. r \in Role
    BY DEF Role
  <2> HIDE DEF r
  <2>3. /\ DOMAIN d = Field /\ d.type = p.d.type /\ d.role = r /\ d.ended = p.d.ended
        /\ d.application = p.d.application /\ d.bundle_mids = p.d.bundle_mids
        /\ d.candidates = p.d.candidates
    BY <1>1 DEF Field
  <2> HIDE DEF d
  <2>4. IsDescription(d)
    BY <1>1, <2>2, <2>3 DEF IsDescription, has_application
  <2> QED
    BY <1>1, <2>1, <2>3, <2>4, InPlace
<1>8. CASE line.key = "candidate"
  <2>1. ReadSession(p, line) = ReadCandidate(p, line)
    BY <1>8 DEF ReadSession, SessionAttr
  <2>2. Parses(line.value)
    BY <1>8 DEF Malformed
  <2> QED
    BY <1>8, <2>1, <2>2, ReadCandidateKeeps
<1>9. CASE line.key = "end-of-candidates"
  <2> DEFINE d == [p.d EXCEPT !.ended = TRUE]
  <2>1. ReadSession(p, line) = [p EXCEPT !.d = d]
    BY <1>1, <1>9 DEF ReadSession, SessionAttr
  <2>2. /\ DOMAIN d = Field /\ d.type = p.d.type /\ d.role = p.d.role /\ d.ended = TRUE
        /\ d.application = p.d.application /\ d.bundle_mids = p.d.bundle_mids
        /\ d.candidates = p.d.candidates
    BY <1>1 DEF Field
  <2> HIDE DEF d
  <2>3. IsDescription(d)
    BY <1>1, <2>2 DEF IsDescription, has_application
  <2> QED
    BY <1>1, <2>1, <2>2, <2>3, InPlace
<1>10. CASE line.key = "msid-semantic"
  <2>1. ReadSession(p, line) = p
    BY <1>10 DEF ReadSession, SessionAttr
  <2> QED
    BY <2>1
<1> QED
  BY <1>3, <1>4, <1>5, <1>6, <1>7, <1>8, <1>9, <1>10 DEF SessionKey

LEMMA ReadApplicationKeeps ==
  ASSUME NEW p, IsParser(p), Reading(p), NEW line \in Input, p.kind = "application",
         ~Malformed(p, line)
  PROVE  LET q == ReadApplication(p, line)
         IN  IsParser(q) /\ Reading(q) /\ q.sections = p.sections
<1>1. /\ DOMAIN p = {"d", "kind", "app", "other", "other_mid", "sections"}
      /\ DOMAIN p.app = AppField /\ IsApplication(p.app) /\ p.app.mid \in Mids
  BY DEF IsParser, IsApplication
<1>2. ASSUME NEW app, IsApplication(app), app.mid \in Mids
      PROVE  LET q == [p EXCEPT !.app = app]
             IN  IsParser(q) /\ Reading(q) /\ q.sections = p.sections
  <2> DEFINE q == [p EXCEPT !.app = app]
  <2>1. /\ DOMAIN q = DOMAIN p /\ q.d = p.d /\ q.kind = p.kind /\ q.app = app
        /\ q.other_mid = p.other_mid /\ q.sections = p.sections
    BY <1>1
  <2> HIDE DEF q
  <2>2. IsParser(q) /\ Reading(q)
    BY <1>1, <1>2, <2>1 DEF IsParser, Reading
  <2> QED
    BY <2>1, <2>2 DEF q
<1>3. CASE line.key = "mid"
  <2> DEFINE app == [p.app EXCEPT !.mid = line.value]
  <2>1. ReadApplication(p, line) = [p EXCEPT !.app = app]
    BY <1>1, <1>3 DEF ReadApplication, NumberAttr, DirectionAttr
  <2>2. line.value \in Mids
    BY <1>3, DescriptionAssumption, MidsAreMids
  <2>3. DOMAIN app = AppField /\ app.mid = line.value /\ app.number = p.app.number
    BY <1>1 DEF AppField
  <2> HIDE DEF app
  <2>4. IsApplication(app)
    BY <1>1, <2>3 DEF IsApplication
  <2> QED
    BY <1>2, <2>1, <2>2, <2>3, <2>4
<1>4. CASE line.key \in NumberAttr
  <2> DEFINE n == Decimal[line.value]
             number == [p.app.number EXCEPT ![line.key] = n]
             app == [p.app EXCEPT !.number = number]
  <2>1. ReadApplication(p, line) = [p EXCEPT !.app = app]
    BY <1>1, <1>4 DEF ReadApplication, NumberAttr, DirectionAttr, AppField
  <2>2. line.value \in Accepted(line.key) /\ Accepted(line.key) \subseteq DOMAIN Decimal
    BY <1>4, CandidateAssumption DEF Malformed, Accepted
  <2>3. n \in DOMAIN Decimal /\ (line.key = "sctp-port" => n \in Port)
    BY <2>2, CandidateAssumption DEF Accepted
  <2> HIDE DEF n
  <2>4. /\ number \in [NumberAttr -> DOMAIN Decimal \cup {Unset}]
        /\ number["sctp-port"] \in Port \cup {Unset}
    <3>1. p.app.number \in [NumberAttr -> DOMAIN Decimal \cup {Unset}]
      BY <1>1 DEF IsApplication
    <3>2. "sctp-port" \in NumberAttr /\ p.app.number["sctp-port"] \in Port \cup {Unset}
      BY <1>1 DEF IsApplication, NumberAttr
    <3>3. number \in [NumberAttr -> DOMAIN Decimal \cup {Unset}]
      BY <1>4, <2>3, <3>1
    <3>4. CASE line.key = "sctp-port"
      BY <2>3, <3>1, <3>2, <3>4
    <3>5. CASE line.key # "sctp-port"
      <4>1. \A k \in NumberAttr : k # line.key => number[k] = p.app.number[k]
        BY <3>1
      <4>2. number["sctp-port"] = p.app.number["sctp-port"]
        BY <3>2, <3>5, <4>1
      <4> HIDE DEF number
      <4> QED
        BY <3>2, <3>3, <4>2
    <3> QED
      BY <3>3, <3>4, <3>5
  <2> HIDE DEF number
  <2>5. DOMAIN app = AppField /\ app.mid = p.app.mid /\ app.number = number
    BY <1>1 DEF AppField
  <2> HIDE DEF app
  <2>6. IsApplication(app)
    BY <2>4, <2>5 DEF IsApplication
  <2> QED
    BY <1>1, <1>2, <2>1, <2>5, <2>6
<1>5. CASE line.key \notin NumberAttr \cup {"mid"}
  <2>1. PICK f \in {"direction", "extra_attrs"} : \E v :
          ReadApplication(p, line) = [p EXCEPT !.app = [p.app EXCEPT ![f] = v]]
    <3>1. CASE line.key \in DirectionAttr
      <4>1. ReadApplication(p, line) = [p EXCEPT !.app = [p.app EXCEPT !["direction"] = line.key]]
        BY <1>1, <1>5, <3>1 DEF ReadApplication, NumberAttr, DirectionAttr
      <4> QED
        BY <4>1
    <3>2. CASE line.key \notin DirectionAttr
      <4> DEFINE v == Append(p.app.extra_attrs, line)
      <4>1. ReadApplication(p, line) = [p EXCEPT !.app = [p.app EXCEPT !["extra_attrs"] = v]]
        BY <1>1, <1>5, <3>2 DEF ReadApplication, AppField
      <4> HIDE DEF v
      <4> QED
        BY <4>1
    <3> QED
      BY <3>1, <3>2
  <2>2. PICK v : ReadApplication(p, line) = [p EXCEPT !.app = [p.app EXCEPT ![f] = v]]
    BY <2>1
  <2> DEFINE app == [p.app EXCEPT ![f] = v]
  <2>3. DOMAIN app = AppField /\ app.mid = p.app.mid /\ app.number = p.app.number
    BY <1>1, <2>1 DEF AppField
  <2>4. ReadApplication(p, line) = [p EXCEPT !.app = app]
    BY <2>2
  <2> HIDE DEF app
  <2>5. IsApplication(app)
    BY <1>1, <2>3 DEF IsApplication
  <2> QED
    BY <1>1, <1>2, <2>3, <2>4, <2>5
<1> QED
  BY <1>3, <1>4, <1>5

LEMMA ReadLineKeeps ==
  ASSUME NEW p, IsParser(p), Reading(p), NEW line \in Input, p.sections < MaxLines,
         ~Malformed(p, line)
  PROVE  LET q == ReadLine(p, line)
         IN  IsParser(q) /\ Reading(q) /\ q.sections <= p.sections + 1
<1> DEFINE q == ReadLine(p, line)
<1>1. /\ p.kind \in {"none", "application", "other"} /\ p.sections \in 0..MaxLines
      /\ MaxLines \in Nat
      /\ DOMAIN p = {"d", "kind", "app", "other", "other_mid", "sections"}
      /\ DOMAIN p.d = Field /\ IsDescription(p.d) /\ p.d.bundle_mids \in Seq(Mids)
  BY DescriptionAssumption DEF IsParser, IsDescription, Reading
<1>2. CASE line.key = "m"
  <2>1. q = ReadMedia(p, line)
    BY <1>2 DEF ReadLine, SessionKey, SessionAttr
  <2> QED
    BY <1>1, <2>1, ReadMediaKeeps
<1>3. CASE line.key \notin {"m", "o"} /\ p.kind = "other"
  <2>1. q = ReadVerbatim(p, line)
    BY <1>3 DEF ReadLine
  <2> QED
    BY <1>1, <1>3, <2>1, ReadVerbatimKeeps
<1>4. CASE line.key = "c" /\ p.kind # "other"
  <2>1. q = p
    BY <1>4 DEF ReadLine, SessionKey, SessionAttr
  <2> QED
    BY <1>1, <2>1
<1>5. CASE line.key \in SessionKey /\ p.kind # "other"
  <2>1. line.key \notin {"m", "o", "c"}
    BY <1>5 DEF SessionKey, SessionAttr
  <2>2. q = ReadSession(p, line)
    BY <1>5, <2>1 DEF ReadLine
  <2> QED
    BY <1>1, <1>5, <2>2, ReadSessionKeeps
<1>6. CASE line.key \notin SessionKey \cup {"m", "o", "c"} /\ p.kind = "application"
  <2>1. q = ReadApplication(p, line)
    BY <1>6 DEF ReadLine
  <2> QED
    BY <1>1, <1>6, <2>1, ReadApplicationKeeps
<1>7. CASE line.key = "o"
  <2>1. q = [p EXCEPT !.d = [p.d EXCEPT !["origin"] = line.value]]
    BY <1>1, <1>7 DEF ReadLine, SessionKey, SessionAttr
  <2> DEFINE d == [p.d EXCEPT !["origin"] = line.value]
  <2>2. IsDescription(d) /\ d.application = p.d.application /\ d.bundle_mids = p.d.bundle_mids
    BY <1>1, FieldKept
  <2>3. q = [p EXCEPT !.d = d]
    BY <2>1
  <2> HIDE DEF d, q
  <2>4. DOMAIN q = DOMAIN p /\ q.d = d /\ q.kind = p.kind /\ q.app = p.app
        /\ q.other_mid = p.other_mid /\ q.sections = p.sections
    BY <1>1, <2>3
  <2>5. IsParser(q)
    BY <2>2, <2>4 DEF IsParser
  <2>6. Reading(q)
    BY <2>2, <2>4 DEF Reading, Grouped, has_application
  <2>7. q.sections <= p.sections + 1
    BY <1>1, <2>4
  <2> QED
    BY <2>5, <2>6, <2>7 DEF q
<1>8. CASE line.key \notin SessionKey \cup {"m", "o", "c"} /\ p.kind = "none"
  <2> DEFINE v == Append(p.d.extra_attrs, line)
             d == [p.d EXCEPT !["extra_attrs"] = v]
  <2>1. q = [p EXCEPT !.d = d]
    BY <1>1, <1>8 DEF ReadLine, Field
  <2> HIDE DEF v
  <2>2. IsDescription(d) /\ d.application = p.d.application /\ d.bundle_mids = p.d.bundle_mids
    BY <1>1, FieldKept
  <2> HIDE DEF d
  <2> QED
    BY <1>1, <1>8, <2>1, <2>2, InPlace
<1> QED
  BY <1>1, <1>2, <1>3, <1>4, <1>5, <1>6, <1>7, <1>8

-----------------------------------------------------------------------------
(* Steps                                                                   *)

\* An edit keeps what it has to: the group, unless a mid was set.
LEMMA EditKeeps ==
  ASSUME IInv, NEW d, Edit(d), IsDescription(d), renamed' \in BOOLEAN,
         ~renamed' => Grouped(d),
         ~has_application(d) => d.bundle_mids \in Seq(Mids)
  PROVE  IInv'
<1>1. /\ phase = "parsed" /\ edits < MaxEdits /\ edits' = edits + 1
      /\ parser' = [parser EXCEPT !.d = d] /\ UNCHANGED <<phase, lines>>
  BY DEF Edit
<1>2. /\ DOMAIN parser' = DOMAIN parser /\ parser'.d = d /\ parser'.kind = parser.kind
      /\ parser'.app = parser.app /\ parser'.other_mid = parser.other_mid
      /\ parser'.sections = parser.sections
  BY <1>1 DEF IInv, IsParser
<1>3. IsParser(parser')
  BY <1>2 DEF IInv, IsParser
<1>4. edits' \in 0..MaxEdits
  BY <1>1, DescriptionAssumption DEF IInv
<1>5. /\ parser'.kind = "none" /\ parser'.other_mid = Unset
      /\ ~renamed' => Grouped(parser'.d)
      /\ ~has_application(parser'.d) => parser'.d.bundle_mids \in Seq(Mids)
  BY <1>1, <1>2 DEF IInv
<1> QED
  BY <1>1, <1>3, <1>4, <1>5 DEF IInv, Reading, Grouped, has_application, IsParser, IsDescription,
                                IsApplication, IsList, Distinct

\* An edit that leaves the application and the group alone.
LEMMA OtherEditKeeps ==
  ASSUME IInv, NEW d, Edit(d), IsDescription(d), UNCHANGED renamed,
         d.application = parser.d.application, d.bundle_mids = parser.d.bundle_mids
  PROVE  IInv'
<1>1. phase = "parsed" /\ renamed' \in BOOLEAN
  BY DEF Edit, IInv
<1>2. ~renamed' => Grouped(d)
  BY <1>1 DEF IInv, Grouped, has_application
<1>3. ~has_application(d) => d.bundle_mids \in Seq(Mids)
  BY <1>1 DEF IInv, has_application
<1> QED
  BY <1>1, <1>2, <1>3, EditKeeps

\* An edit of the application that keeps its mid.
LEMMA ApplicationEditKeeps ==
  ASSUME IInv, has_application(parser.d), NEW app, IsApplication(app),
         app.mid = parser.d.application.mid, UNCHANGED renamed,
         Edit([parser.d EXCEPT !.application = app])
  PROVE  IInv'
<1> DEFINE d == [parser.d EXCEPT !.application = app]
<1>1. /\ phase = "parsed" /\ renamed' \in BOOLEAN /\ IsDescription(parser.d)
      /\ app.mid \in Mids /\ DOMAIN parser.d = Field
  BY DEF Edit, IInv, IsParser, IsDescription
<1>2. /\ DOMAIN d = Field /\ d.type = parser.d.type /\ d.role = parser.d.role
      /\ d.ended = parser.d.ended /\ d.candidates = parser.d.candidates
      /\ d.bundle_mids = parser.d.bundle_mids /\ d.application = app
  BY <1>1 DEF Field
<1>3. Edit(d)
  OBVIOUS
<1> HIDE DEF d
<1>4. IsDescription(d)
  BY <1>1, <1>2 DEF IsDescription
<1>5. has_application(d)
  BY <1>1, <1>2, HasMid DEF has_application
<1>6. ~renamed' => Grouped(d)
  BY <1>1, <1>2 DEF IInv, Grouped
<1> QED
  BY <1>1, <1>3, <1>4, <1>5, <1>6, EditKeeps

\* A new application is in the group.
LEMMA WithApplication ==
  ASSUME NEW d, IsDescription(d), NEW app, IsApplication(app), app.mid \in Mids
  PROVE  LET e == with_application(d, app)
         IN  IsDescription(e) /\ has_application(e) /\ Grouped(e)
<1> DEFINE kept == Without(d.bundle_mids, d.application.mid)
           mids == IF Contains(kept, app.mid) THEN kept ELSE <<app.mid>> \o kept
           e == [d EXCEPT !.application = app, !.bundle_mids = mids]
<1>1. with_application(d, app) = e
  BY DEF with_application
<1>2. IsList(kept)
  BY WithoutIsList DEF IsDescription
<1> HIDE DEF kept
<1>3. IsList(mids) /\ Contains(mids, app.mid)
  <2>1. CASE Contains(kept, app.mid)
    BY <1>2, <2>1
  <2>2. CASE ~Contains(kept, app.mid)
    <3> DEFINE S == {kept[i] : i \in 1..Len(kept)} \cup {app.mid}
    <3>1. kept \in Seq({kept[i] : i \in 1..Len(kept)})
      BY <1>2, ListIsSeq
    <3>2. kept \in Seq(S)
      BY <3>1, MoreSeqs
    <3>3. app.mid \in S /\ mids = <<app.mid>> \o kept
      BY <2>2
    <3> HIDE DEF S, mids
    <3>4. mids \in Seq(S) /\ Len(mids) = 1 + Len(kept) /\ mids[1] = app.mid /\ Len(kept) \in Nat
      BY <3>2, <3>3
    <3> QED
      BY <3>4, SeqIsList DEF Contains
  <2> QED
    BY <2>1, <2>2
<1> HIDE DEF mids
<1>4. /\ DOMAIN e = Field /\ e.type = d.type /\ e.role = d.role /\ e.ended = d.ended
      /\ e.candidates = d.candidates /\ e.bundle_mids = mids /\ e.application = app
  BY DEF IsDescription, Field
<1> HIDE DEF e
<1>5. IsDescription(e) /\ has_application(e) /\ Grouped(e)
  BY <1>3, <1>4, HasMid DEF IsDescription, has_application, Grouped
<1> QED
  BY <1>1, <1>5

LEMMA set_applicationKeeps ==
  ASSUME IInv, NEW mid \in Mid, set_application(mid)
  PROVE  IInv'
<1> DEFINE d == with_application(parser.d, Application(mid))
<1>1. Edit(d) /\ UNCHANGED renamed /\ renamed \in BOOLEAN /\ IsDescription(parser.d)
  BY DEF set_application, IInv, IsParser
<1>2. mid \in Mids
  BY DescriptionAssumption, MidsAreMids
<1>3. IsDescription(d) /\ has_application(d) /\ Grouped(d)
  BY <1>1, <1>2, AnApplication, WithApplication
<1> HIDE DEF d
<1> QED
  BY <1>1, <1>3, EditKeeps

LEMMA set_midKeeps ==
  ASSUME IInv, NEW mid \in Mid, set_mid(mid)
  PROVE  IInv'
<1> DEFINE app == [parser.d.application EXCEPT !.mid = mid]
           d == [parser.d EXCEPT !.application = app]
<1>1. /\ Edit(d) /\ renamed' /\ IsDescription(parser.d) /\ DOMAIN parser.d = Field
      /\ IsApplication(parser.d.application)
  BY DEF set_mid, IInv, IsParser, IsDescription
<1>2. mid \in Mids
  BY DescriptionAssumption, MidsAreMids
<1>3. IsApplication(app) /\ app.mid = mid
  <2>1. DOMAIN app = AppField /\ app.mid = mid /\ app.number = parser.d.application.number
    BY <1>1 DEF IsApplication, AppField
  <2> HIDE DEF app
  <2> QED
    BY <1>1, <2>1 DEF IsApplication
<1> HIDE DEF app
<1>4. /\ DOMAIN d = Field /\ d.type = parser.d.type /\ d.role = parser.d.role
      /\ d.ended = parser.d.ended /\ d.candidates = parser.d.candidates
      /\ d.bundle_mids = parser.d.bundle_mids /\ d.application = app
  BY <1>1 DEF Field
<1> HIDE DEF d
<1>5. IsDescription(d) /\ has_application(d)
  BY <1>1, <1>2, <1>3, <1>4, HasMid DEF IsDescription, has_application
<1>6. renamed' \in BOOLEAN
  BY DEF set_mid
<1> QED
  BY <1>1, <1>5, <1>6, EditKeeps

LEMMA set_numberKeeps ==
  ASSUME IInv, NEW key \in NumberAttr, NEW n \in Port, set_number(key, Decimal[n])
  PROVE  IInv'
<1> DEFINE x == Decimal[n]
           old == parser.d.application
           number == [old.number EXCEPT ![key] = x]
           app == [old EXCEPT !.number = number]
<1>1. x \in Port /\ x \in DOMAIN Decimal
  BY CandidateAssumption
<1>2. /\ IsApplication(old) /\ DOMAIN old = AppField /\ DOMAIN parser.d = Field
      /\ old.number \in [NumberAttr -> DOMAIN Decimal \cup {Unset}]
      /\ old.number["sctp-port"] \in Port \cup {Unset} /\ "sctp-port" \in NumberAttr
  BY DEF IInv, IsParser, IsDescription, IsApplication, NumberAttr
<1>3. /\ has_application(parser.d) /\ UNCHANGED renamed
      /\ Edit([parser.d EXCEPT !.application = app])
  BY <1>2 DEF set_number, AppField, Field
<1> HIDE DEF x
<1>4. number \in [NumberAttr -> DOMAIN Decimal \cup {Unset}]
  BY <1>1, <1>2
<1>5. number["sctp-port"] \in Port \cup {Unset}
  <2>1. \A k \in NumberAttr : k # key => number[k] = old.number[k]
    BY <1>2
  <2>2. number[key] = x
    BY <1>2
  <2> HIDE DEF number
  <2> QED
    BY <1>1, <1>2, <2>1, <2>2
<1> HIDE DEF number
<1>6. DOMAIN app = AppField /\ app.mid = old.mid /\ app.number = number
  BY <1>2 DEF AppField
<1> HIDE DEF app
<1>7. IsApplication(app)
  BY <1>4, <1>5, <1>6 DEF IsApplication
<1> QED
  BY <1>3, <1>6, <1>7, ApplicationEditKeeps

LEMMA set_directionKeeps ==
  ASSUME IInv, NEW direction, set_direction(direction)
  PROVE  IInv'
<1> DEFINE old == parser.d.application
           app == [old EXCEPT !.direction = direction]
<1>1. IsApplication(old) /\ DOMAIN old = AppField /\ DOMAIN parser.d = Field
  BY DEF IInv, IsParser, IsDescription, IsApplication
<1>2. /\ has_application(parser.d) /\ UNCHANGED renamed
      /\ Edit([parser.d EXCEPT !.application = app])
  BY <1>1 DEF set_direction, AppField, Field
<1>3. DOMAIN app = AppField /\ app.mid = old.mid /\ app.number = old.number
  BY <1>1 DEF AppField
<1> HIDE DEF app
<1>4. IsApplication(app)
  BY <1>1, <1>3 DEF IsApplication
<1> QED
  BY <1>2, <1>3, <1>4, ApplicationEditKeeps

LEMMA add_candidateKeeps ==
  ASSUME IInv, NEW line \in CandidateLine, NEW mid \in Mid \cup {""}, add_candidate(line, mid)
  PROVE  IInv'
<1> DEFINE c == hint_mid(parse_candidate(line, mid), bundle_mid(parser.d))
           cs == push_candidate(parser.d.candidates, c)
           d == [parser.d EXCEPT !.candidates = cs]
<1>1. line \in Seq(Text) /\ Parses(line)
  BY DescriptionAssumption DEF CandidateLine
<1>2. parse_candidate(line, mid) \in Cand
  <2>1. mid \in Mids \cup {Unset, ""}
    BY DescriptionAssumption, MidsAreMids
  <2> QED
    BY <1>1, <2>1, ParsesToCand
<1>3. /\ IsDescription(parser.d) /\ DOMAIN parser.d = Field
      /\ parser.d.candidates \in Seq(Cand) /\ Distinct(parser.d.candidates)
      /\ phase = "parsed"
  BY DEF IInv, IsParser, IsDescription, add_candidate, Edit
<1>4. bundle_mid(parser.d) \in Mids
  <2>1. CASE has_application(parser.d)
    BY <1>3, <2>1 DEF bundle_mid, IsDescription
  <2>2. CASE ~has_application(parser.d) /\ parser.d.bundle_mids # <<>>
    <3>1. parser.d.bundle_mids \in Seq(Mids)
      BY <1>3, <2>2 DEF IInv
    <3>2. Head(parser.d.bundle_mids) \in Mids
      BY <2>2, <3>1, FirstMid
    <3> QED
      BY <2>2, <3>2 DEF bundle_mid
  <2>3. CASE ~has_application(parser.d) /\ parser.d.bundle_mids = <<>>
    BY <2>3, MidsAreMids DEF bundle_mid
  <2> QED
    BY <2>1, <2>2, <2>3
<1>5. c \in Cand
  BY <1>2, <1>4, HintsToCand
<1>6. Edit(d) /\ UNCHANGED renamed
  BY <1>3 DEF add_candidate, Field
<1> HIDE DEF c
<1>7. cs \in Seq(Cand) /\ Distinct(cs)
  BY <1>3, <1>5, PushKeeps
<1> HIDE DEF cs
<1>8. /\ DOMAIN d = Field /\ d.type = parser.d.type /\ d.role = parser.d.role
      /\ d.ended = parser.d.ended /\ d.candidates = cs
      /\ d.bundle_mids = parser.d.bundle_mids /\ d.application = parser.d.application
  BY <1>3 DEF Field
<1> HIDE DEF d
<1>9. IsDescription(d)
  BY <1>3, <1>7, <1>8 DEF IsDescription, has_application
<1> QED
  BY <1>6, <1>8, <1>9, OtherEditKeeps

LEMMA SetSessionKeeps ==
  ASSUME IInv, SetSession
  PROVE  IInv'
<1> DEFINE d == parser.d
<1>1. UNCHANGED renamed /\ IsDescription(d) /\ DOMAIN d = Field
  BY DEF SetSession, IInv, IsParser, IsDescription
<1>2. ASSUME NEW f \in {"type", "role", "attr", "ice_options", "extmap_allow_mixed", "ended"},
             NEW v, Edit([d EXCEPT ![f] = v]),
             f = "type" => v \in Type, f = "role" => v \in Role, f = "ended" => v \in BOOLEAN
      PROVE  IInv'
  <2> DEFINE e == [d EXCEPT ![f] = v]
  <2>1. /\ DOMAIN e = Field /\ e.type \in Type /\ e.role \in Role /\ e.ended \in BOOLEAN
        /\ e.candidates = d.candidates /\ e.bundle_mids = d.bundle_mids
        /\ e.application = d.application
    BY <1>1, <1>2 DEF IsDescription, Field
  <2>2. Edit(e)
    BY <1>2
  <2> HIDE DEF e
  <2>3. IsDescription(e)
    BY <1>1, <2>1 DEF IsDescription, has_application
  <2> QED
    BY <1>1, <2>1, <2>2, <2>3, OtherEditKeeps
<1>3. ASSUME NEW t \in Type, Edit([d EXCEPT !.type = IF @ = "Unspec" THEN t ELSE @])
      PROVE  IInv'
  <2> DEFINE v == IF d.type = "Unspec" THEN t ELSE d.type
  <2>1. v \in Type /\ Edit([d EXCEPT !["type"] = v])
    BY <1>1, <1>3 DEF IsDescription, Field
  <2> HIDE DEF v
  <2> QED
    BY <1>2, <2>1
<1>4. ASSUME NEW r \in Role, Edit([d EXCEPT !.role = r])
      PROVE  IInv'
  BY <1>2, <1>4
<1>5. ASSUME NEW key \in SessionAttr, Edit([d EXCEPT !.attr[key] = "edited"])
      PROVE  IInv'
  <2> DEFINE v == [d.attr EXCEPT ![key] = "edited"]
  <2>1. Edit([d EXCEPT !["attr"] = v])
    BY <1>1, <1>5 DEF Field
  <2> HIDE DEF v
  <2> QED
    BY <1>2, <2>1
<1>6. ASSUME Edit([d EXCEPT !.ice_options = AppendNew(@, "trickle")])
      PROVE  IInv'
  <2> DEFINE v == AppendNew(d.ice_options, "trickle")
  <2>1. Edit([d EXCEPT !["ice_options"] = v])
    BY <1>1, <1>6 DEF Field
  <2> HIDE DEF v
  <2> QED
    BY <1>2, <2>1
<1>7. ASSUME NEW on \in BOOLEAN, Edit([d EXCEPT !.extmap_allow_mixed = on])
      PROVE  IInv'
  BY <1>2, <1>7
<1>8. ASSUME Edit([d EXCEPT !.ended = TRUE])
      PROVE  IInv'
  BY <1>2, <1>8
<1> QED
  BY <1>3, <1>4, <1>5, <1>6, <1>7, <1>8 DEF SetSession

LEMMA ReadKeeps ==
  ASSUME IInv, NEW line \in Input, Read(line)
  PROVE  IInv'
<1>1. /\ phase = "parsing" /\ lines < MaxLines /\ lines' = lines + 1
      /\ UNCHANGED <<edits, renamed>>
  BY DEF Read
<1>2. lines' \in 0..MaxLines /\ lines \in Nat
  BY <1>1, DescriptionAssumption DEF IInv
<1>3. IsParser(parser) /\ Reading(parser) /\ parser.sections <= lines /\ ~renamed
      /\ parser.sections \in Nat
  BY <1>1 DEF IInv, IsParser
<1>4. CASE Malformed(parser, line)
  <2>1. phase' = "error" /\ parser' = parser
    BY <1>4 DEF Read
  <2>2. IsParser(parser') /\ Reading(parser') /\ parser'.sections <= lines'
    BY <1>1, <1>2, <1>3, <2>1
  <2> QED
    BY <1>1, <1>2, <1>3, <2>1, <2>2 DEF IInv, Reading, Grouped, has_application, IsParser,
       IsDescription, IsApplication, IsList, Distinct
<1>5. CASE ~Malformed(parser, line)
  <2>1. phase' = "parsing" /\ parser' = ReadLine(parser, line)
    BY <1>1, <1>5 DEF Read
  <2>2. parser.sections < MaxLines
    BY <1>1, <1>2, <1>3, DescriptionAssumption
  <2>3. IsParser(parser') /\ Reading(parser') /\ parser'.sections <= parser.sections + 1
    BY <1>3, <1>5, <2>1, <2>2, ReadLineKeeps
  <2>4. parser'.sections <= lines'
    BY <1>1, <1>2, <1>3, <2>3 DEF IsParser
  <2> QED
    BY <1>1, <1>2, <1>3, <2>1, <2>3, <2>4 DEF IInv, Reading, Grouped, has_application, IsParser,
       IsDescription, IsApplication, IsList, Distinct
<1> QED
  BY <1>4, <1>5

LEMMA EndOfInputKeeps ==
  ASSUME IInv, EndOfInput
  PROVE  IInv'
<1>1. /\ phase = "parsing" /\ phase' = "parsed" /\ parser' = flush_section(parser)
      /\ UNCHANGED <<lines, edits, renamed>>
  BY DEF EndOfInput
<1>2. IsParser(parser) /\ Reading(parser)
  BY <1>1 DEF IInv
<1>3. /\ IsParser(parser') /\ parser'.kind = "none" /\ parser'.other_mid = Unset
      /\ Grouped(parser'.d)
      /\ parser'.d.bundle_mids \in Seq(Mids)
  BY <1>1, <1>2, Flush
<1> QED
  BY <1>1, <1>3 DEF IInv, Reading, Grouped, has_application, IsParser, IsDescription,
                    IsApplication, IsList, Distinct

LEMMA NextKeeps ==
  ASSUME IInv, [Next]_vars
  PROVE  IInv'
<1>1. ASSUME NEW line \in Input, Read(line) PROVE IInv'
  BY <1>1, ReadKeeps
<1>2. CASE EndOfInput
  BY <1>2, EndOfInputKeeps
<1>3. ASSUME NEW mid \in Mid, \/ set_application(mid) \/ application_or_create(mid)
                              \/ set_mid(mid)
      PROVE  IInv'
  BY <1>3, set_applicationKeeps, set_midKeeps DEF application_or_create
<1>4. ASSUME NEW key \in NumberAttr, NEW n \in Port, set_number(key, Decimal[n]) PROVE IInv'
  BY <1>4, set_numberKeeps
<1>5. ASSUME NEW direction, set_direction(direction) PROVE IInv'
  BY <1>5, set_directionKeeps
<1>6. ASSUME NEW line \in CandidateLine, NEW mid \in Mid \cup {""}, add_candidate(line, mid)
      PROVE  IInv'
  BY <1>6, add_candidateKeeps
<1>7. CASE SetSession
  BY <1>7, SetSessionKeeps
<1>8. CASE UNCHANGED vars
  <2>1. UNCHANGED <<parser, phase, lines, edits, renamed>>
    BY <1>8 DEF vars
  <2>2. /\ IsParser(parser') <=> IsParser(parser)
        /\ Grouped(parser'.d) <=> Grouped(parser.d)
        /\ Reading(parser') <=> Reading(parser)
        /\ has_application(parser'.d) <=> has_application(parser.d)
    BY <2>1
  <2> QED
    BY <2>1, <2>2 DEF IInv, Reading, Grouped, has_application, IsParser, IsDescription,
                      IsApplication, IsList, Distinct
<1> QED
  BY <1>1, <1>2, <1>3, <1>4, <1>5, <1>6, <1>7, <1>8 DEF Next

\* A description that has just been made, or read no line yet.
LEMMA NewIsDescription ==
  ASSUME NEW type \in Type, NEW role \in Role
  PROVE  LET d == new(type, role)
         IN  /\ IsDescription(d) /\ ~has_application(d) /\ Grouped(d)
             /\ d.bundle_mids \in Seq(Mids)
<1> DEFINE d == new(type, role)
<1>1. /\ DOMAIN d = Field /\ d.type = type /\ d.role = role /\ d.ended = FALSE
      /\ d.candidates = <<>> /\ d.bundle_mids = <<>> /\ d.application = NoApplication
  BY DEF new, Field
<1> HIDE DEF d
<1>2. ~has_application(d) /\ Grouped(d)
  BY <1>1 DEF has_application, Grouped
<1>3. d.bundle_mids \in Seq(Mids) /\ IsList(d.bundle_mids)
  BY <1>1 DEF IsList
<1>4. d.candidates \in Seq(Cand) /\ Distinct(d.candidates)
  BY <1>1 DEF Distinct
<1>5. IsDescription(d)
  BY <1>1, <1>2, <1>3, <1>4, NotAnApplication DEF IsDescription
<1> QED
  BY <1>2, <1>3, <1>5 DEF d

LEMMA FreshParser ==
  ASSUME NEW d, IsDescription(d)
  PROVE  LET p == Parser(d)
         IN  IsParser(p) /\ p.d = d /\ p.kind = "none" /\ p.other_mid = Unset /\ p.sections = 0
<1> DEFINE p == Parser(d)
<1>1. /\ DOMAIN p = {"d", "kind", "app", "other", "other_mid", "sections"}
      /\ p.d = d /\ p.kind = "none" /\ p.app = NoApplication /\ p.other_mid = Unset
      /\ p.sections = 0
  BY DEF Parser
<1> HIDE DEF p
<1>2. 0 \in 0..MaxLines
  BY DescriptionAssumption
<1> QED
  BY <1>1, <1>2, NotAnApplication DEF IsParser, p

LEMMA InitHolds ==
  ASSUME Init
  PROVE  IInv
<1>1. /\ lines = 0 /\ edits = 0 /\ renamed = FALSE /\ lines \in 0..MaxLines
      /\ edits \in 0..MaxEdits
  BY DescriptionAssumption DEF Init
<1>2. CASE phase = "parsing" /\ parser = Parser(new("Unspec", "ActPass"))
  <2> DEFINE d == new("Unspec", "ActPass")
  <2>1. IsDescription(d) /\ ~has_application(d) /\ Grouped(d) /\ d.bundle_mids \in Seq(Mids)
    BY NewIsDescription DEF Type, Role
  <2>2. parser = Parser(d)
    BY <1>2
  <2> HIDE DEF d
  <2>3. IsParser(parser) /\ parser.d = d /\ parser.kind = "none" /\ parser.sections = 0
        /\ parser.other_mid = Unset
    BY <2>1, <2>2, FreshParser
  <2>4. Reading(parser)
    BY <2>1, <2>3 DEF Reading
  <2>5. parser.sections <= lines
    BY <1>1, <2>3
  <2>6. phase \in {"parsing", "parsed", "error"} /\ phase # "parsed"
    BY <1>2
  <2> QED
    BY <1>1, <2>3, <2>4, <2>5, <2>6 DEF IInv
<1>3. ASSUME NEW r \in Role, phase = "parsed", parser = Parser(new("Offer", r))
      PROVE  IInv
  <2> DEFINE d == new("Offer", r)
  <2>1. IsDescription(d) /\ ~has_application(d) /\ Grouped(d) /\ d.bundle_mids \in Seq(Mids)
    BY NewIsDescription DEF Type
  <2>2. parser = Parser(d)
    BY <1>3
  <2> HIDE DEF d
  <2>3. IsParser(parser) /\ parser.d = d /\ parser.kind = "none" /\ parser.sections = 0
        /\ parser.other_mid = Unset
    BY <2>1, <2>2, FreshParser
  <2> QED
    BY <1>1, <1>3, <2>1, <2>3 DEF IInv
<1>4. ASSUME NEW t \in Type, NEW r \in Role, NEW fragment \in Fragment, NEW mid \in Mid \cup {"0"},
             phase = "parsed", parser = Parser(get_local_description(t, r, fragment, mid))
      PROVE  IInv
  <2> DEFINE role == IF t = "Offer" THEN "ActPass" ELSE r
             d == new(t, role)
             found == extract_ice_creds(fragment)
             creds == [key \in SessionAttr |-> IF key \in DOMAIN found THEN found[key]
                                                ELSE d.attr[key]]
             options == AppendNew(d.ice_options, "trickle")
             e == [d EXCEPT !["attr"] = creds]
             f == [e EXCEPT !["ice_options"] = options]
             g == with_application(f, Application(mid))
  <2>1. role \in Role
    BY DEF Role
  <2>2. get_local_description(t, r, fragment, mid) = g
    BY DEF get_local_description, new
  <2> HIDE DEF role, creds, options
  <2>3. IsDescription(d)
    BY <2>1, NewIsDescription
  <2> HIDE DEF d
  <2>4. IsDescription(e)
    BY <2>3, FieldKept
  <2> HIDE DEF e
  <2>5. IsDescription(f)
    BY <2>4, FieldKept
  <2> HIDE DEF f
  <2>6. mid \in Mids
    BY DescriptionAssumption, MidsAreMids
  <2>7. IsDescription(g) /\ has_application(g) /\ Grouped(g)
    BY <2>5, <2>6, AnApplication, WithApplication
  <2>8. parser = Parser(g)
    BY <1>4, <2>2
  <2> HIDE DEF g
  <2>9. IsParser(parser) /\ parser.d = g /\ parser.kind = "none" /\ parser.sections = 0
        /\ parser.other_mid = Unset
    BY <2>7, <2>8, FreshParser
  <2> QED
    BY <1>1, <1>4, <2>7, <2>9 DEF IInv
<1> QED
  BY <1>2, <1>3, <1>4 DEF Init

-----------------------------------------------------------------------------
(* Sequences                                                               *)

\* What a parser makes of some lines.
Reads(p, s) == FoldLeft(Feed, p, s)

\* The parser does not give up at the line.
Fits(p, line) == p.kind # "error" /\ ~Malformed(p, line)

\* A line at which the parser does not give up is read.
LEMMA Fed ==
  ASSUME NEW p, NEW line, Fits(p, line)
  PROVE  Feed(p, line) = ReadLine(p, line)
  BY DEF Feed, Fits

\* Only candidates and numbers can be malformed.
LEMMA OtherLinesFit ==
  ASSUME NEW p, p.kind # "error", NEW line, line.key \notin NumberAttr \cup {"candidate"}
  PROVE  Fits(p, line)
  BY DEF Fits, Malformed

\* The fold of FoldLaws is the one parse() is defined by.
LEMMA ReadsIsFold ==
  ASSUME NEW p, NEW s
  PROVE  Lines!Fold(p, s) = Reads(p, s)
  BY DEF Lines!Fold, Lines!FoldLeft, Lines!MapThenFoldSet, Lines!Max, FoldLeft,
     MapThenFoldSet, Max, Reads

LEMMA ListsJoin ==
  ASSUME NEW s, NEW t, IsList(s), IsList(t)
  PROVE  /\ \E X : s \in Seq(X) /\ t \in Seq(X)
         /\ IsList(s \o t)
<1> DEFINE X == {s[i] : i \in 1..Len(s)} \cup {t[i] : i \in 1..Len(t)}
<1>1. s \in Seq({s[i] : i \in 1..Len(s)}) /\ t \in Seq({t[i] : i \in 1..Len(t)})
  BY ListIsSeq
<1>2. s \in Seq(X) /\ t \in Seq(X)
  BY <1>1, MoreSeqs
<1> HIDE DEF X
<1>3. s \o t \in Seq(X)
  BY <1>2
<1>4. IsList(s \o t)
  BY <1>3, SeqIsList
<1> QED
  BY <1>2, <1>4

LEMMA ReadsNothing ==
  ASSUME NEW p
  PROVE  Reads(p, <<>>) = p
  BY Lines!FoldEmpty, ReadsIsFold

LEMMA ReadsOne ==
  ASSUME NEW p, NEW line
  PROVE  Reads(p, <<line>>) = Feed(p, line)
<1>1. Lines!Fold(p, <<line>>) = Feed(p, line)
  BY Lines!FoldOne
<1> QED
  BY <1>1, ReadsIsFold

\* What stands after s is read from where s led.
LEMMA ReadsOn ==
  ASSUME NEW p, NEW s, NEW t, IsList(s), IsList(t)
  PROVE  Reads(p, s \o t) = Reads(Reads(p, s), t)
<1>1. PICK X : s \in Seq(X) /\ t \in Seq(X)
  BY ListsJoin
<1>2. Lines!Fold(p, s \o t) = Lines!Fold(Lines!Fold(p, s), t)
  BY <1>1, Lines!FoldConcat
<1>3. \A q, u : Lines!Fold(q, u) = Reads(q, u)
  BY ReadsIsFold
<1> QED
  BY <1>2, <1>3

LEMMA ReadsMore ==
  ASSUME NEW p, NEW X, NEW s \in Seq(X), NEW line \in X
  PROVE  Reads(p, Append(s, line)) = Feed(Reads(p, s), line)
<1>1. Lines!Fold(p, Append(s, line)) = Feed(Lines!Fold(p, s), line)
  BY Lines!FoldAppend
<1>2. \A q, u : Lines!Fold(q, u) = Reads(q, u)
  BY ReadsIsFold
<1> QED
  BY <1>1, <1>2

-----------------------------------------------------------------------------
(* Kept                                                                    *)

Place(I, i) == Cardinality({j \in I : j <= i})

\* Some index stands at each place.
Filled(I) == \A k \in 1..Cardinality(I) : \E i \in I : Place(I, i) = k

LEMMA IndicesAreFinite ==
  ASSUME NEW n \in Nat, NEW I \in SUBSET (1..n)
  PROVE  IsFiniteSet(I) /\ Cardinality(I) \in Nat
<1>1. IsFiniteSet(1..n)
  BY FS_Interval
<1> QED
  BY <1>1, FS_Subset, FS_CardinalityType

\* Every place up to the number of indices is taken, by induction on the indices.
LEMMA PlacesFilled ==
  ASSUME NEW n \in Nat, NEW I \in SUBSET (1..n)
  PROVE  Filled(I)
<1> DEFINE S == {m \in Nat : \A J \in SUBSET (1..m) : Filled(J)}
<1>1. 0 \in S
  <2> SUFFICES ASSUME NEW J \in SUBSET (1..0) PROVE Filled(J)
    OBVIOUS
  <2>1. J = {} /\ Cardinality({}) = 0
    BY FS_EmptySet
  <2> QED
    BY <2>1 DEF Filled
<1>2. ASSUME NEW m \in Nat, m \in S PROVE m + 1 \in S
  <2> SUFFICES ASSUME NEW J \in SUBSET (1..m + 1) PROVE Filled(J)
    OBVIOUS
  <2> DEFINE K == J \ {m + 1}
             c == Cardinality(K)
  <2>1. K \in SUBSET (1..m)
    OBVIOUS
  <2>2. Filled(K) /\ IsFiniteSet(K) /\ c \in Nat
    BY <1>2, <2>1, IndicesAreFinite
  <2>3. CASE m + 1 \notin J
    BY <2>2, <2>3
  <2>4. CASE m + 1 \in J
    <3>1. J = K \cup {m + 1} /\ m + 1 \notin K
      BY <2>4
    <3>2. Cardinality(J) = c + 1
      BY <2>2, <3>1, FS_AddElement
    <3>3. {j \in J : j <= m + 1} = J
      <4>1. \A j \in 1..m + 1 : j <= m + 1
        OBVIOUS
      <4> QED
        BY <4>1
    <3>4. Place(J, m + 1) = c + 1
      BY <3>2, <3>3 DEF Place
    <3>5. ASSUME NEW i \in K PROVE Place(J, i) = Place(K, i)
      <4>1. {j \in J : j <= i} = {j \in K : j <= i}
        BY <2>1, <3>1
      <4> QED
        BY <4>1 DEF Place
    <3> HIDE DEF K, c
    <3>6. ASSUME NEW k \in 1..c + 1 PROVE \E i \in J : Place(J, i) = k
      <4>1. CASE k = c + 1
        BY <2>4, <3>4, <4>1
      <4>2. CASE k # c + 1
        <5>1. k \in 1..c
          BY <2>2, <4>2
        <5>2. PICK i \in K : Place(K, i) = k
          BY <2>2, <5>1 DEF Filled, c
        <5> QED
          BY <3>1, <3>5, <5>2
      <4> QED
        BY <4>1, <4>2
    <3> QED
      BY <3>2, <3>6 DEF Filled
  <2> QED
    BY <2>3, <2>4
<1> HIDE DEF S
<1>3. n \in S
  BY <1>1, <1>2, Lines!Induction
<1> QED
  BY <1>3 DEF S

\* No two indices stand at one place.
LEMMA PlacesDiffer ==
  ASSUME NEW n \in Nat, NEW I \in SUBSET (1..n), NEW i \in I, NEW j \in I, Place(I, i) = Place(I, j)
  PROVE  i = j
<1>1. ASSUME NEW a \in I, NEW b \in I, a < b PROVE Place(I, a) # Place(I, b)
  <2> DEFINE A == {k \in I : k <= a}
             B == {k \in I : k <= b}
  <2>1. A \in SUBSET B /\ b \in B /\ b \notin A /\ B \in SUBSET I
    <3>1. \A k \in I : k \in Nat
      OBVIOUS
    <3>2. (\A k \in I : k <= a => k <= b) /\ b <= b /\ ~(b <= a)
      BY <1>1, <3>1
    <3> QED
      BY <3>2
  <2> HIDE DEF A, B
  <2>2. IsFiniteSet(B)
    BY <2>1, IndicesAreFinite, FS_Subset
  <2>3. Cardinality(A) # Cardinality(B)
    BY <2>1, <2>2, FS_Subset
  <2> QED
    BY <2>3 DEF Place, A, B
<1>2. i < j \/ j < i \/ i = j
  OBVIOUS
<1> QED
  BY <1>1, <1>2

LEMMA PlaceIn ==
  ASSUME NEW n \in Nat, NEW I \in SUBSET (1..n), NEW i \in I
  PROVE  Place(I, i) \in 1..Cardinality(I)
<1> DEFINE A == {k \in I : k <= i}
<1>1. A \in SUBSET I /\ i \in A
  OBVIOUS
<1> HIDE DEF A
<1>2. IsFiniteSet(I) /\ Cardinality(I) \in Nat
  BY IndicesAreFinite
<1>3. IsFiniteSet(A) /\ Cardinality(A) <= Cardinality(I)
  BY <1>1, <1>2, FS_Subset
<1>4. Cardinality(A) \in Nat /\ Cardinality(A) # 0
  BY <1>1, <1>3, FS_CardinalityType, FS_EmptySet
<1>5. Cardinality(A) \in 1..Cardinality(I)
  BY <1>2, <1>3, <1>4
<1> QED
  BY <1>5 DEF Place, A

\* All that is kept is of s, and each element to be kept is.
KeptFrom(t, s, I) ==
  /\ \A k \in DOMAIN t : \E i \in I : t[k] = s[i]
  /\ \A i \in I : \E k \in DOMAIN t : t[k] = s[i]

\* What is kept of s are the elements at I, all of them and no other.
LEMMA KeptIs ==
  ASSUME NEW X, NEW s \in Seq(X), NEW I \in SUBSET (DOMAIN s)
  PROVE  Kept(s, I) \in Seq(X) /\ KeptFrom(Kept(s, I), s, I)
<1> DEFINE n == Cardinality(I)
           at(k) == CHOOSE i \in I : Place(I, i) = k
           t == [k \in 1..n |-> s[at(k)]]
<1>1. Kept(s, I) = t
  BY DEF Kept, Place
<1>2. Len(s) \in Nat /\ I \in SUBSET (1..Len(s)) /\ \A i \in I : s[i] \in X
  OBVIOUS
<1>3. Filled(I) /\ n \in Nat
  BY <1>2, PlacesFilled, IndicesAreFinite
<1>4. ASSUME NEW k \in 1..n PROVE at(k) \in I /\ Place(I, at(k)) = k
  BY <1>3 DEF Filled
<1>5. ASSUME NEW i \in I PROVE Place(I, i) \in 1..n /\ at(Place(I, i)) = i
  <2>1. Place(I, i) \in 1..n
    BY <1>2, PlaceIn
  <2>2. at(Place(I, i)) \in I /\ Place(I, at(Place(I, i))) = Place(I, i)
    BY <1>4, <2>1
  <2> HIDE DEF at
  <2> QED
    BY <1>2, <2>1, <2>2, PlacesDiffer
<1> HIDE DEF n, at
<1>6. t \in Seq(X)
  BY <1>2, <1>3, <1>4
<1>7. DOMAIN t = 1..n
  OBVIOUS
<1>8. KeptFrom(t, s, I)
  BY <1>4, <1>5, <1>7 DEF KeptFrom
<1> QED
  BY <1>1, <1>6, <1>8

\* If all is kept, nothing changes.
LEMMA KeptAll ==
  ASSUME NEW X, NEW s \in Seq(X)
  PROVE  Kept(s, DOMAIN s) = s
<1> DEFINE n == Len(s)
           I == 1..n
           at(k) == CHOOSE i \in I : Place(I, i) = k
<1>1. DOMAIN s = I /\ n \in Nat /\ s = [k \in 1..n |-> s[k]] /\ I \in SUBSET (1..n)
  OBVIOUS
<1>2. Cardinality(I) = n
  BY <1>1, FS_Interval
<1>3. Kept(s, I) = [k \in 1..n |-> s[at(k)]]
  BY <1>2 DEF Kept, Place
<1>4. ASSUME NEW k \in 1..n PROVE at(k) = k
  <2>1. {j \in I : j <= k} = 1..k
    BY <1>1
  <2>2. Cardinality(1..k) = k
    <3>1. 1 \in Int /\ k \in Int /\ ~(1 > k) /\ k - 1 + 1 = k
      BY <1>1
    <3> QED
      BY <3>1, FS_Interval
  <2>3. Place(I, k) = k /\ k \in I
    BY <2>1, <2>2 DEF Place
  <2>4. at(k) \in I /\ Place(I, at(k)) = k
    BY <2>3
  <2> HIDE DEF at
  <2> QED
    BY <1>1, <2>3, <2>4, PlacesDiffer
<1> HIDE DEF n, at
<1> QED
  BY <1>1, <1>3, <1>4

-----------------------------------------------------------------------------
(* Candidates                                                              *)

\* What a candidate is read back as, in the section of mid.
Reparsed(c, mid) == parse_candidate(to_sdp(c), mid)

LEMMA EndpointIs ==
  ASSUME NEW c \in Cand
  PROVE  \E node \in Text, service \in Text : Endpoint(c) = <<node, service>>
<1>1. c.node \in Text /\ c.service \in Text
  BY DEF Cand
<1>2. is_resolved(c) => IpLiteral[c.node] \in Text /\ Decimal[c.service] \in Text
  BY CandidateAssumption DEF is_resolved
<1> QED
  BY <1>1, <1>2 DEF Endpoint

\* The line of a candidate, token by token.
LEMMA LineOf ==
  ASSUME NEW X, NEW a \in X, NEW b \in X, NEW c \in X, NEW d \in X, NEW e \in X, NEW f \in X,
         NEW g \in X, NEW h \in X, NEW tail \in Seq(X),
         NEW line, line = <<a, b, c, d>> \o <<e, f>> \o <<g, h>> \o tail
  PROVE  /\ line[1] = a /\ line[2] = b /\ line[3] = c /\ line[4] = d /\ line[5] = e
         /\ line[6] = f /\ line[7] = g /\ line[8] = h
         /\ Len(line) >= 8 /\ SubSeq(line, 9, Len(line)) = tail
<1> DEFINE head == <<a, b, c, d>> \o <<e, f>> \o <<g, h>>
<1>1. line = head \o tail
  OBVIOUS
<1>2. head \in Seq(X) /\ Len(head) = 8
  OBVIOUS
<1>3. /\ head[1] = a /\ head[2] = b /\ head[3] = c /\ head[4] = d /\ head[5] = e
      /\ head[6] = f /\ head[7] = g /\ head[8] = h
  OBVIOUS
<1> HIDE DEF head
<1>4. /\ line \in Seq(X) /\ Len(line) = 8 + Len(tail) /\ Len(tail) \in Nat
      /\ \A i \in 1..8 : line[i] = head[i]
      /\ \A i \in 1..Len(tail) : line[8 + i] = tail[i]
  <2>1. /\ line \in Seq(X) /\ Len(line) = Len(head) + Len(tail)
        /\ \A i \in 1..Len(head) + Len(tail) :
             line[i] = IF i <= Len(head) THEN head[i] ELSE tail[i - Len(head)]
    BY ONLY <1>1, <1>2, tail \in Seq(X), ConcatProperties
  <2>2. Len(tail) \in Nat
    OBVIOUS
  <2>3. \A i \in 1..8 : line[i] = head[i]
    BY <1>2, <2>1, <2>2
  <2>4. ASSUME NEW i \in 1..Len(tail) PROVE line[8 + i] = tail[i]
    <3>1. 8 + i \in 1..8 + Len(tail) /\ ~(8 + i <= 8) /\ 8 + i - 8 = i
      BY <2>2
    <3> QED
      BY <1>2, <2>1, <3>1
  <2> QED
    BY <1>2, <2>1, <2>2, <2>3, <2>4
<1>5. SubSeq(line, 9, Len(line)) = tail
  <2> DEFINE t == SubSeq(line, 9, Len(line))
  <2>1. 9 \in Int /\ Len(line) \in Int /\ \A i \in 9..Len(line) : line[i] \in X
    BY <1>4
  <2>2. /\ t \in Seq(X) /\ Len(t) = (IF 9 <= Len(line) THEN Len(line) - 9 + 1 ELSE 0)
        /\ \A i \in 1..Len(line) - 9 + 1 : t[i] = line[9 + i - 1]
    BY ONLY <2>1, SubSeqProperties
  <2> HIDE DEF t
  <2>3. Len(t) = Len(tail)
    BY <1>4, <2>2
  <2>4. \A i \in 1..Len(tail) : t[i] = tail[i]
    BY <1>4, <2>2
  <2>5. t = tail
    BY ONLY <2>2, <2>3, <2>4, tail \in Seq(X)
  <2> QED
    BY <2>5 DEF t
<1>6. /\ line[1] = a /\ line[2] = b /\ line[3] = c /\ line[4] = d /\ line[5] = e
      /\ line[6] = f /\ line[7] = g /\ line[8] = h
  BY <1>3, <1>4
<1>7. Len(line) >= 8
  BY <1>4
<1> QED
  BY <1>5, <1>6, <1>7

LEMMA EndpointPair ==
  ASSUME NEW c \in Cand
  PROVE  /\ Endpoint(c)[1] \in Text /\ Endpoint(c)[2] \in Text
         /\ Endpoint(c) = <<Endpoint(c)[1], Endpoint(c)[2]>>
<1>1. PICK node \in Text, service \in Text : Endpoint(c) = <<node, service>>
  BY EndpointIs
<1> QED
  BY <1>1

\* The line of a candidate, token by token.
LEMMA WrittenTokens ==
  ASSUME NEW c \in Cand, NEW line, line = to_sdp(c)
  PROVE  /\ line[1] = c.foundation /\ line[2] = c.component /\ line[3] = c.transport
         /\ line[4] = c.priority /\ line[5] = Endpoint(c)[1] /\ line[6] = Endpoint(c)[2]
         /\ line[7] = "typ" /\ line[8] = c.type
         /\ Len(line) >= 8 /\ SubSeq(line, 9, Len(line)) = c.tail
<1> DEFINE X == Text \cup {"typ"}
           e == Endpoint(c)
           f == c.foundation
           i == c.component
           t == c.transport
           p == c.priority
           y == c.type
           typ == "typ"
           tail == c.tail
<1>1. e[1] \in X /\ e[2] \in X /\ e = <<e[1], e[2]>>
  BY EndpointPair
<1>2. f \in X /\ i \in X /\ t \in X /\ p \in X /\ y \in X /\ typ \in X /\ tail \in Seq(X)
  BY CandidateAssumption DEF Cand
<1>3. line = <<f, i, t, p>> \o <<e[1], e[2]>> \o <<typ, y>> \o tail
  BY <1>1 DEF to_sdp
<1> HIDE DEF X, e, f, i, t, p, y, typ, tail
<1>4. /\ line[1] = f /\ line[2] = i /\ line[3] = t /\ line[4] = p /\ line[5] = e[1]
      /\ line[6] = e[2] /\ line[7] = typ /\ line[8] = y
      /\ Len(line) >= 8 /\ SubSeq(line, 9, Len(line)) = tail
  BY ONLY <1>1, <1>2, <1>3, LineOf, SMTT(20)
<1> QED
  BY <1>4 DEF e, f, i, t, p, y, typ, tail

\* What is written of a candidate is accepted.
LEMMA WrittenParses ==
  ASSUME NEW c \in Cand
  PROVE  Parses(to_sdp(c))
<1> DEFINE line == to_sdp(c)
<1>1. line[2] = c.component /\ line[4] = c.priority /\ line[7] = "typ" /\ Len(line) >= 8
  BY WrittenTokens
<1>2. c.component \in DOMAIN Decimal /\ c.priority \in DOMAIN Decimal
  BY DEF Cand
<1> HIDE DEF line
<1>3. Parses(line)
  BY <1>1, <1>2 DEF Parses
<1> QED
  BY <1>3 DEF line

\* The mid that a candidate of a section with this mid is read back with.
Given(mid) == IF mid = "" THEN Unset ELSE mid

\* What is read back of a candidate, field by field.
LEMMA ReparsedIs ==
  ASSUME NEW c \in Cand, NEW mid \in Mids
  PROVE  Reparsed(c, mid) =
           [foundation |-> c.foundation, component |-> Decimal[c.component],
            transport |-> c.transport, transport_type |-> classify_transport(c.transport, c.tail),
            priority |-> Decimal[c.priority], node |-> Endpoint(c)[1], service |-> Endpoint(c)[2],
            type |-> c.type, tail |-> c.tail, mid |-> Given(mid)]
<1> DEFINE e == Endpoint(c)
           line == to_sdp(c)
           tail == SubSeq(line, 9, Len(line))
<1>1. /\ line[1] = c.foundation /\ line[2] = c.component /\ line[3] = c.transport
      /\ line[4] = c.priority /\ line[5] = e[1] /\ line[6] = e[2] /\ line[8] = c.type
      /\ tail = c.tail
  BY WrittenTokens
<1> HIDE DEF line
<1>2. parse_candidate(line, mid) =
        [foundation |-> line[1], component |-> Decimal[line[2]],
         transport |-> line[3], transport_type |-> classify_transport(line[3], tail),
         priority |-> Decimal[line[4]], node |-> line[5], service |-> line[6],
         type |-> line[8], tail |-> tail, mid |-> Given(mid)]
  BY DEF parse_candidate, Given
<1> HIDE DEF tail
<1> QED
  BY <1>1, <1>2 DEF Reparsed, line, e

\* A candidate that is read back is one, of the same foundation and endpoint,
\* and stays as it is from then on.
Spelled(c, mid) ==
  /\ Reparsed(c, mid) \in Cand /\ Reparsed(c, mid).mid = Given(mid)
  /\ Reparsed(c, mid).foundation = c.foundation
  /\ Endpoint(Reparsed(c, mid)) = Endpoint(c)
  /\ Reparsed(Reparsed(c, mid), mid) = Reparsed(c, mid)

\* Decimal and IpLiteral print what they print again in the same way.
LEMMA SpellingSettles ==
  ASSUME NEW c \in Cand, NEW mid \in Mids
  PROVE  Spelled(c, mid)
<1> DEFINE r == Reparsed(c, mid)
           e == Endpoint(c)
           kind == classify_transport(c.transport, c.tail)
           v == Given(mid)
<1>1. r = [foundation |-> c.foundation, component |-> Decimal[c.component],
           transport |-> c.transport, transport_type |-> kind,
           priority |-> Decimal[c.priority], node |-> e[1], service |-> e[2],
           type |-> c.type, tail |-> c.tail, mid |-> v]
  BY ReparsedIs
<1>2. /\ e[1] \in Text /\ e[2] \in Text /\ e = <<e[1], e[2]>>
  BY EndpointPair
<1>3. /\ Decimal[c.component] \in DOMAIN Decimal /\ Decimal[c.priority] \in DOMAIN Decimal
      /\ Decimal[Decimal[c.component]] = Decimal[c.component]
      /\ Decimal[Decimal[c.priority]] = Decimal[c.priority]
  BY CandidateAssumption DEF Cand
<1>4. kind \in {"Udp", "TcpActive", "TcpPassive", "TcpSo", "TcpUnknown", "Unknown"}
  BY Classified
<1> HIDE DEF r, kind
<1>5. /\ r.foundation = c.foundation /\ r.component = Decimal[c.component]
      /\ r.transport = c.transport /\ r.priority = Decimal[c.priority]
      /\ r.node = e[1] /\ r.service = e[2] /\ r.type = c.type /\ r.tail = c.tail /\ r.mid = v
  BY <1>1
<1>6. r \in Cand
  <2>1. v \in Mids \cup {Unset}
    BY DEF Given
  <2> HIDE DEF e, v
  <2> QED
    BY <1>1, <1>2, <1>3, <1>4, <2>1 DEF Cand
<1>7. Endpoint(r) = e
  <2>1. CASE is_resolved(c)
    <3>1. e = <<IpLiteral[c.node], Decimal[c.service]>>
      BY <2>1 DEF Endpoint
    <3>2. c.node \in DOMAIN IpLiteral /\ c.service \in Port
      BY <2>1 DEF is_resolved
    <3>3. /\ e[1] = IpLiteral[c.node] /\ e[2] = Decimal[c.service]
      BY <3>1
    <3>4. /\ e[1] \in DOMAIN IpLiteral /\ IpLiteral[e[1]] = e[1]
      BY <3>2, <3>3, CandidateAssumption
    <3>5. e[2] \in Port /\ Decimal[e[2]] = e[2]
      BY <3>2, <3>3, CandidateAssumption
    <3> HIDE DEF e
    <3>6. is_resolved(r)
      BY <1>5, <3>4, <3>5 DEF is_resolved
    <3> QED
      BY <1>2, <1>5, <3>4, <3>5, <3>6 DEF Endpoint
  <2>2. CASE ~is_resolved(c)
    <3>1. e = <<c.node, c.service>>
      BY <2>2 DEF Endpoint
    <3> HIDE DEF e
    <3>2. r.node = c.node /\ r.service = c.service
      BY <1>5, <3>1
    <3>3. ~is_resolved(r)
      BY <2>2, <3>2 DEF is_resolved
    <3> QED
      BY <3>1, <3>2, <3>3 DEF Endpoint
  <2> QED
    BY <2>1, <2>2
<1>8. Reparsed(r, mid) = r
  <2>1. Reparsed(r, mid) =
          [foundation |-> r.foundation, component |-> Decimal[r.component],
           transport |-> r.transport,
           transport_type |-> classify_transport(r.transport, r.tail),
           priority |-> Decimal[r.priority], node |-> Endpoint(r)[1],
           service |-> Endpoint(r)[2], type |-> r.type, tail |-> r.tail, mid |-> v]
    BY <1>6, ReparsedIs
  <2>2. classify_transport(r.transport, r.tail) = kind
    BY <1>5 DEF kind
  <2> HIDE DEF e, v
  <2> QED
    BY <1>1, <1>3, <1>5, <1>7, <2>1, <2>2
<1> QED
  BY <1>5, <1>6, <1>7, <1>8 DEF Spelled, r

-----------------------------------------------------------------------------
(* Candidates, read                                                        *)

\* cs is what becomes of candidates u that are read in the section of mid.
PushedFrom(cs, u, mid) ==
  /\ cs \in Seq(Cand) /\ Distinct(cs)
  /\ \A j \in DOMAIN cs : cs[j].mid = Given(mid) /\ Reparsed(cs[j], mid) = cs[j]
  /\ \A i \in DOMAIN u : \E j \in DOMAIN cs : Same(cs[j], Reparsed(u[i], mid))
  /\ Distinct(u) /\ (\A i \in DOMAIN u : Reparsed(u[i], mid) = u[i]) => cs = u

LEMMA PushedNothing ==
  ASSUME NEW mid
  PROVE  PushedFrom(<<>>, <<>>, mid)
  BY DEF PushedFrom, Distinct

\* One candidate more is pushed.
LEMMA PushedMore ==
  ASSUME NEW mid \in Mids, NEW u \in Seq(Cand), NEW cs, PushedFrom(cs, u, mid), NEW c \in Cand
  PROVE  PushedFrom(push_candidate(cs, Reparsed(c, mid)), Append(u, c), mid)
<1> DEFINE r == Reparsed(c, mid)
           cr == push_candidate(cs, r)
           v == Append(u, c)
           n == Len(u)
<1>1. /\ r \in Cand /\ r.mid = Given(mid) /\ Reparsed(r, mid) = r
  BY SpellingSettles DEF Spelled
<1>2. /\ cs \in Seq(Cand) /\ Distinct(cs)
      /\ \A j \in DOMAIN cs : cs[j].mid = Given(mid) /\ Reparsed(cs[j], mid) = cs[j]
      /\ \A i \in DOMAIN u : \E j \in DOMAIN cs : Same(cs[j], Reparsed(u[i], mid))
      /\ Distinct(u) /\ (\A i \in DOMAIN u : Reparsed(u[i], mid) = u[i]) => cs = u
  BY DEF PushedFrom
<1>3. /\ v \in Seq(Cand) /\ n \in Nat /\ DOMAIN u = 1..n /\ DOMAIN v = 1..n + 1
      /\ v[n + 1] = c /\ n + 1 \in DOMAIN v
      /\ \A i \in 1..n : v[i] = u[i] /\ i \in DOMAIN v /\ i # n + 1
  OBVIOUS
<1>4. r = Reparsed(c, mid)
  OBVIOUS
<1> HIDE DEF r
<1>5. cr \in Seq(Cand) /\ Distinct(cr)
  BY <1>1, <1>2, PushKeeps
<1>6. /\ \A j \in DOMAIN cs : \E k \in DOMAIN cr : cr[k] = cs[j]
      /\ \A k \in DOMAIN cr : cr[k] = r \/ \E j \in DOMAIN cs : cr[k] = cs[j]
      /\ \E k \in DOMAIN cr : Same(cr[k], r)
  <2>1. CASE \E i \in DOMAIN cs : Same(cs[i], r)
    BY <2>1 DEF push_candidate
  <2>2. CASE ~\E i \in DOMAIN cs : Same(cs[i], r)
    <3> DEFINE m == Len(cs)
    <3>1. cr = Append(cs, r)
      BY <2>2 DEF push_candidate
    <3>2. /\ DOMAIN cs = 1..m /\ m \in Nat /\ DOMAIN cr = 1..m + 1 /\ cr[m + 1] = r
          /\ \A i \in 1..m : cr[i] = cs[i]
      BY <1>2, <3>1
    <3> HIDE DEF m, cr
    <3> QED
      BY <3>2 DEF Same
  <2> QED
    BY <2>1, <2>2
<1> HIDE DEF cr, v, n
<1>7. \A j \in DOMAIN cr : cr[j].mid = Given(mid) /\ Reparsed(cr[j], mid) = cr[j]
  BY <1>1, <1>2, <1>6
<1>8. ASSUME NEW i \in DOMAIN v PROVE \E j \in DOMAIN cr : Same(cr[j], Reparsed(v[i], mid))
  <2>1. CASE i = n + 1
    BY <1>3, <1>4, <1>6, <2>1
  <2>2. CASE i # n + 1
    <3>1. i \in DOMAIN u /\ v[i] = u[i]
      BY <1>3, <2>2
    <3> QED
      BY <1>2, <1>6, <3>1
  <2> QED
    BY <2>1, <2>2
<1>9. ASSUME Distinct(v), \A i \in DOMAIN v : Reparsed(v[i], mid) = v[i] PROVE cr = v
  <2>1. r = c
    BY <1>3, <1>4, <1>9
  <2>2. Distinct(u) /\ \A i \in DOMAIN u : Reparsed(u[i], mid) = u[i]
    BY <1>3, <1>9 DEF Distinct
  <2>3. cs = u
    BY <1>2, <2>2
  <2>4. \A i \in DOMAIN cs : ~Same(cs[i], r)
    BY <1>3, <1>9, <2>1, <2>3 DEF Distinct
  <2> QED
    BY <2>1, <2>3, <2>4 DEF cr, v, push_candidate
<1> QED
  BY <1>5, <1>7, <1>8, <1>9 DEF PushedFrom, cr, v, r

-----------------------------------------------------------------------------
(* The parser before the application ends                                  *)

Draft(role, origin, mids, attr, options, mixed, extra, cs, ended) ==
  [type |-> "Unspec", role |-> role, origin |-> origin, bundle_mids |-> mids, attr |-> attr,
   ice_options |-> options, extmap_allow_mixed |-> mixed, extra_attrs |-> extra,
   application |-> NoApplication, other_sections |-> <<>>, candidates |-> cs, ended |-> ended]

At(d, kind, app, n) ==
  [d |-> d, kind |-> kind, app |-> app, other |-> <<>>, other_mid |-> Unset, sections |-> n]

\* From p the lines s lead to q.
Takes(p, s, q) == IsList(s) /\ Reads(p, s) = q

\* Lines that follow one another.
LEMMA Then ==
  ASSUME NEW p, NEW q, NEW r, NEW s, NEW t, Takes(p, s, q), Takes(q, t, r)
  PROVE  Takes(p, s \o t, r)
<1>1. IsList(s) /\ IsList(t) /\ Reads(p, s) = q /\ Reads(q, t) = r
  BY DEF Takes
<1>2. IsList(s \o t)
  BY <1>1, ListsJoin
<1>3. Reads(p, s \o t) = Reads(Reads(p, s), t)
  BY <1>1, ReadsOn
<1> QED
  BY <1>1, <1>2, <1>3 DEF Takes

LEMMA TakesOne ==
  ASSUME NEW p, NEW line, Fits(p, line)
  PROVE  Takes(p, <<line>>, ReadLine(p, line))
<1>1. IsList(<<line>>)
  BY DEF IsList
<1> QED
  BY <1>1, ReadsOne, Fed DEF Takes

LEMMA TakesNothing ==
  ASSUME NEW p
  PROVE  Takes(p, <<>>, p)
<1>1. IsList(<<>>)
  BY DEF IsList
<1> QED
  BY <1>1, ReadsNothing DEF Takes

\* A line that may be missing when it would change nothing.
LEMMA TakesIf ==
  ASSUME NEW p, NEW q, NEW line, NEW condition \in BOOLEAN,
         condition => Fits(p, line) /\ ReadLine(p, line) = q,
         ~condition => p = q
  PROVE  Takes(p, If(condition, line), q)
<1>1. CASE condition
  BY <1>1, TakesOne DEF If
<1>2. CASE ~condition
  BY <1>2, TakesNothing DEF If
<1> QED
  BY <1>1, <1>2

\* Where an input starts.
LEMMA AtStarts ==
  At(Draft("ActPass", "rtc", <<>>, [key \in SessionAttr |-> Unset], <<>>, FALSE, <<>>, <<>>, FALSE),
     "none", NoApplication, 0) = Parser(new("Unspec", "ActPass"))
  BY DEF At, Draft, Parser, new

-----------------------------------------------------------------------------
(* The session                                                             *)

\* The attributes of d that were read so far.
Some(d, K) == [key \in SessionAttr |-> IF key \in K THEN d.attr[key] ELSE Unset]

\* An attribute is written if it has a value, and read unless it was read before.
LEMMA AttrTaken ==
  ASSUME NEW d, NEW K, NEW key \in SessionAttr, NEW kind \in {"none", "application"}, NEW n,
         key \in K => n = 1,
         NEW role, NEW origin, NEW mids, NEW options, NEW mixed, NEW extra, NEW cs, NEW ended,
         NEW app
  PROVE  Takes(At(Draft(role, origin, mids, Some(d, K), options, mixed, extra, cs, ended),
                  kind, app, n),
               WriteAttr(d, key),
               At(Draft(role, origin, mids, Some(d, K \cup {key}), options, mixed, extra, cs, ended),
                  kind, app, n))
<1> DEFINE v == d.attr[key]
           a == Some(d, K)
           b == Some(d, K \cup {key})
           D(attr) == Draft(role, origin, mids, attr, options, mixed, extra, cs, ended)
           p == At(D(a), kind, app, n)
           q == At(D(b), kind, app, n)
           line == Line(key, v)
<1>1. b = [a EXCEPT ![key] = v]
  BY DEF Some
<1>2. v = Unset => a = b
  BY DEF Some
<1>3. a[key] = Unset \/ n = 1
  BY DEF Some
<1> HIDE DEF a, b, v
<1>4. ReadLine(p, line) = ReadSessionAttr(p, line)
  <2>1. line.key = key /\ p.kind = kind
    BY DEF Line, At
  <2>2. /\ key \in SessionKey /\ key \notin {"m", "o", "c"}
        /\ key \notin {"group", "extmap-allow-mixed", "ice-options", "setup", "candidate",
                       "end-of-candidates", "msid-semantic"}
    BY DEF SessionKey, SessionAttr
  <2> HIDE DEF p, line
  <2>3. ReadLine(p, line) = ReadSession(p, line)
    BY <2>1, <2>2 DEF ReadLine
  <2>4. ReadSession(p, line) = ReadSessionAttr(p, line)
    BY <2>1, <2>2 DEF ReadSession
  <2> QED
    BY <2>3, <2>4
<1>5. ReadSessionAttr(p, line) = At(D([a EXCEPT ![key] = v]), kind, app, n)
  <2>1. /\ p.d.attr = a /\ p.sections = n /\ line.key = key /\ line.value = v
    BY DEF Draft, At, Line
  <2>2. ReadSessionAttr(p, line) = [p EXCEPT !.d.attr[key] = v]
    <3> HIDE DEF p, line
    <3> QED
      BY <1>3, <2>1 DEF ReadSessionAttr
  <2> QED
    BY <2>2 DEF At, Draft
<1>6. Fits(p, line)
  <2>1. line.key = key /\ p.kind = kind
    BY DEF Line, At
  <2>2. key \notin NumberAttr \cup {"candidate"}
    BY DEF SessionAttr, NumberAttr
  <2> HIDE DEF p, line
  <2> QED
    BY <2>1, <2>2, OtherLinesFit
<1> HIDE DEF p, line
<1>7. Fits(p, line) /\ ReadLine(p, line) = q
  BY <1>1, <1>4, <1>5, <1>6
<1>8. v = Unset => p = q
  BY <1>2 DEF p
<1>9. WriteAttr(d, key) = If(v # Unset, line)
  BY DEF WriteAttr, v, line
<1>10. (v # Unset) \in BOOLEAN
  OBVIOUS
<1> HIDE DEF q
<1>11. Takes(p, If(v # Unset, line), q)
  BY <1>7, <1>8, <1>10, TakesIf
<1> QED
  BY <1>9, <1>11 DEF p, q, a, b

\* Lines that the session keeps as they are.
Plain == {line \in Input : line.key \notin SessionKey \cup {"m", "o", "c"}}

\* Lines that the session keeps, by induction on how many they are.
LEMMA PlainTaken ==
  ASSUME NEW s \in Seq(Plain), NEW app, NEW n,
         NEW role, NEW origin, NEW mids, NEW attr, NEW options, NEW mixed, NEW cs, NEW ended
  PROVE  Takes(At(Draft(role, origin, mids, attr, options, mixed, <<>>, cs, ended), "none", app, n),
               s,
               At(Draft(role, origin, mids, attr, options, mixed, s, cs, ended), "none", app, n))
<1> DEFINE P(extra) == At(Draft(role, origin, mids, attr, options, mixed, extra, cs, ended),
                          "none", app, n)
           G == {u \in Seq(Plain) : Reads(P(<<>>), u) = P(u)}
<1>1. ASSUME NEW u \in Seq(Plain), NEW line \in Plain PROVE Feed(P(u), line) = P(Append(u, line))
  <2>1. line.key \notin SessionKey \cup {"m", "o", "c"}
    BY DEF Plain
  <2>2. P(u).kind = "none" /\ P(u).d.extra_attrs = u
    BY DEF At, Draft
  <2> DEFINE p == P(u)
             w == Append(u, line)
  <2>3. [p EXCEPT !.d.extra_attrs = w] = P(w)
    <3> HIDE DEF w
    <3> QED
      BY DEF At, Draft
  <2> HIDE DEF p, w
  <2>4. ReadLine(p, line) = [p EXCEPT !.d.extra_attrs = Append(@, line)]
    BY <2>1, <2>2 DEF ReadLine, p
  <2>5. Feed(p, line) = ReadLine(p, line)
    BY <2>1, <2>2 DEF Feed, Malformed, p, SessionKey
  <2> QED
    BY <2>2, <2>3, <2>4, <2>5 DEF p, w
<1> HIDE DEF P
<1>2. <<>> \in G
  BY ReadsNothing
<1>3. Lines!Grows(G, Plain)
  <2> SUFFICES ASSUME NEW u \in Seq(Plain), NEW line \in Plain, u \in G
               PROVE  Append(u, line) \in G
    BY DEF Lines!Grows
  <2>1. Reads(P(<<>>), Append(u, line)) = Feed(Reads(P(<<>>), u), line)
    BY ReadsMore
  <2> QED
    BY <1>1, <2>1
<1> HIDE DEF G
<1>4. s \in G
  BY <1>2, <1>3, Lines!SeqInduction
<1>5. IsList(s)
  BY SeqIsList
<1> QED
  BY <1>4, <1>5 DEF Takes, G, P

LEMMA FlattenIsSame ==
  ASSUME NEW ss
  PROVE  Lines!FlattenSeq(ss) = FlattenSeq(ss)
  BY DEF FlattenSeq, Lines!FlattenSeq

\* The words of a mid are mids.
LEMMA WordsAreMids ==
  ASSUME NEW mid \in Mids
  PROVE  words(mid) \in Seq(Mids)
<1>1. CASE mid \in DOMAIN Words
  <2>1. Words[mid] \in Seq(MidText \ DOMAIN Words)
    BY <1>1, WordsAssumption
  <2>2. Words[mid] \in Seq(Mids)
    BY <2>1, MidsAreMids, MoreSeqs
  <2> QED
    BY <1>1, <2>2 DEF words
<1>2. CASE mid \notin DOMAIN Words
  BY <1>2 DEF words
<1> QED
  BY <1>1, <1>2

\* Every mid of mids is one word.
Ones(mids) == \A i \in DOMAIN mids : words(mids[i]) = <<mids[i]>>

LEMMA SpreadMore ==
  ASSUME NEW mids \in Seq(Mids), NEW mid \in Mids
  PROVE  Spread(Append(mids, mid)) = Spread(mids) \o words(mid)
<1> DEFINE W(m) == [i \in DOMAIN m |-> words(m[i])]
           more == Append(mids, mid)
           n == Len(mids)
<1>1. /\ n \in Nat /\ DOMAIN mids = 1..n /\ DOMAIN more = 1..(n + 1) /\ more[n + 1] = mid
      /\ \A i \in 1..n : more[i] = mids[i] /\ mids[i] \in Mids
  OBVIOUS
<1>2. W(mids) = [i \in 1..n |-> words(mids[i])] /\ W(more) = [i \in 1..(n + 1) |-> words(more[i])]
  BY <1>1
<1>3. \A i \in 1..n : words(mids[i]) \in Seq(Mids)
  BY <1>1, WordsAreMids
<1>4. words(mid) \in Seq(Mids)
  BY WordsAreMids
<1> HIDE DEF n, more
<1>5. W(mids) \in Seq(Seq(Mids)) /\ Len(W(mids)) = n
  BY <1>1, <1>2, <1>3
<1>6. W(more) = Append(W(mids), words(mid))
  BY <1>1, <1>2, <1>4, <1>5
<1>7. Lines!FlattenSeq(Append(W(mids), words(mid))) = Lines!FlattenSeq(W(mids)) \o words(mid)
  BY <1>4, <1>5, Lines!FlattenAppend
<1>8. Spread(mids) = FlattenSeq(W(mids)) /\ Spread(more) = FlattenSeq(W(more))
  BY DEF Spread
<1> HIDE DEF W
<1> QED
  BY <1>6, <1>7, <1>8, FlattenIsSame DEF more

\* A group is read as a sequence of mids, and when each is one word, as it
\* was written.
LEMMA SpreadIs ==
  ASSUME NEW mids \in Seq(Mids)
  PROVE  Spread(mids) \in Seq(Mids) /\ (Ones(mids) => Spread(mids) = mids)
<1> DEFINE G == {m \in Seq(Mids) : Spread(m) \in Seq(Mids) /\ (Ones(m) => Spread(m) = m)}
<1>1. Spread(<<>>) = <<>>
  <2>1. [i \in DOMAIN <<>> |-> words(<<>>[i])] = <<>>
    OBVIOUS
  <2> QED
    BY <2>1, FlattenIsSame, Lines!FlattenEmpty DEF Spread
<1>2. <<>> \in G
  <2>1. <<>> \in Seq(Mids)
    OBVIOUS
  <2> QED
    BY ONLY <1>1, <2>1 DEF G
<1>3. ASSUME NEW m \in Seq(Mids), NEW mid \in Mids, m \in G
      PROVE  Append(m, mid) \in G
  <2> DEFINE more == Append(m, mid)
             w == words(mid)
             n == Len(m)
  <2>1. Spread(more) = Spread(m) \o w
    BY SpreadMore
  <2>2. w \in Seq(Mids) /\ more \in Seq(Mids)
    BY WordsAreMids
  <2>3. ASSUME Ones(more) PROVE Spread(m) = m /\ w = <<mid>>
    <3>1. /\ n \in Nat /\ DOMAIN m = 1..n /\ DOMAIN more = 1..(n + 1) /\ more[n + 1] = mid
          /\ \A i \in 1..n : more[i] = m[i]
      OBVIOUS
    <3> HIDE DEF more, n
    <3>2. Ones(m) /\ w = <<mid>>
      BY <2>3, <3>1 DEF Ones
    <3> QED
      BY <1>3, <3>2
  <2>4. m \o <<mid>> = more
    OBVIOUS
  <2>5. Spread(m) \in Seq(Mids)
    BY <1>3
  <2> HIDE DEF more, w
  <2>6. Spread(more) \in Seq(Mids)
    BY <2>1, <2>2, <2>5
  <2>7. Ones(more) => Spread(more) = more
    BY <2>1, <2>3, <2>4
  <2> QED
    BY <2>2, <2>6, <2>7 DEF more
<1>4. Lines!Grows(G, Mids)
  BY <1>3 DEF Lines!Grows
<1> HIDE DEF G
<1>5. mids \in G
  BY <1>2, <1>4, Lines!SeqInduction
<1> QED
  BY <1>5 DEF G

LEMMA SpreadNone == Spread(<<>>) = <<>>
<1>1. <<>> \in Seq(Mids) /\ Ones(<<>>)
  BY DEF Ones
<1> QED
  BY <1>1, SpreadIs

\* What is written before the application, and what it leads to.
Header(d) ==
  <<Line("o", d.origin)>>
    \o If(d.bundle_mids # <<>>, Line("group", Spread(d.bundle_mids)))
    \o <<Line("msid-semantic", "")>>
    \o If(d.ice_options # <<>>, Line("ice-options", d.ice_options))
    \o If(d.extmap_allow_mixed, Line("extmap-allow-mixed", ""))
    \o WriteAttr(d, "fingerprint")
    \o d.extra_attrs

Headed(d) ==
  Draft("ActPass", d.origin, Spread(d.bundle_mids), Some(d, {"fingerprint"}), d.ice_options,
        d.extmap_allow_mixed, d.extra_attrs, <<>>, FALSE)

\* All that is written before the application, line by line.
LEMMA HeaderTaken ==
  ASSUME NEW d, d.extra_attrs \in Seq(Plain), d.extmap_allow_mixed \in BOOLEAN
  PROVE  Takes(Parser(new("Unspec", "ActPass")), Header(d), At(Headed(d), "none", NoApplication, 0))
<1> DEFINE D(origin, mids, attr, options, mixed, extra) ==
             At(Draft("ActPass", origin, mids, attr, options, mixed, extra, <<>>, FALSE),
                "none", NoApplication, 0)
           a == Some(d, {})
           b == Some(d, {"fingerprint"})
           o == d.origin
           g == d.bundle_mids
           m == Spread(g)
           i == d.ice_options
           e == d.extmap_allow_mixed
           x == d.extra_attrs
           s1 == <<Line("o", o)>>
           s2 == If(g # <<>>, Line("group", m))
           s3 == <<Line("msid-semantic", "")>>
           s4 == If(i # <<>>, Line("ice-options", i))
           s5 == If(e, Line("extmap-allow-mixed", ""))
           s6 == WriteAttr(d, "fingerprint")
           p0 == D("rtc", <<>>, a, <<>>, FALSE, <<>>)
           p1 == D(o, <<>>, a, <<>>, FALSE, <<>>)
           p2 == D(o, m, a, <<>>, FALSE, <<>>)
           p4 == D(o, m, a, i, FALSE, <<>>)
           p5 == D(o, m, a, i, e, <<>>)
           p6 == D(o, m, b, i, e, <<>>)
           p7 == D(o, m, b, i, e, x)
<1>1. p0 = Parser(new("Unspec", "ActPass"))
  <2>1. a = [key \in SessionAttr |-> Unset]
    BY DEF Some
  <2> QED
    BY <2>1, AtStarts
<1>2. ReadLine(p0, Line("o", o)) = p1
  <2> HIDE DEF a
  <2> QED
    BY DEF ReadLine, At, Draft, Line, SessionKey, SessionAttr
<1>3. ReadLine(p1, Line("group", m)) = p2
  <2> HIDE DEF a
  <2> QED
    BY ZenonT(40) DEF ReadLine, ReadSession, At, Draft, Line, SessionKey, SessionAttr
<1>4. ReadLine(p2, Line("msid-semantic", "")) = p2
  <2> HIDE DEF a
  <2> QED
    BY DEF ReadLine, ReadSession, At, Draft, Line, SessionKey, SessionAttr
<1>5. ReadLine(p2, Line("ice-options", i)) = p4
  <2> HIDE DEF a
  <2> QED
    BY ZenonT(40) DEF ReadLine, ReadSession, At, Draft, Line, SessionKey, SessionAttr
<1>6. e => ReadLine(p4, Line("extmap-allow-mixed", "")) = p5
  <2> HIDE DEF a
  <2> QED
    BY ZenonT(40) DEF ReadLine, ReadSession, At, Draft, Line, SessionKey, SessionAttr
<1>7. Takes(p5, s6, p6)
  <2>1. {} \cup {"fingerprint"} = {"fingerprint"} /\ "fingerprint" \notin {}
    OBVIOUS
  <2>2. "fingerprint" \in SessionAttr /\ "none" \in {"none", "application"}
    BY DEF SessionAttr
  <2>3. Takes(p5, s6, D(o, m, Some(d, {} \cup {"fingerprint"}), i, e, <<>>))
    BY <2>1, <2>2, AttrTaken
  <2> QED
    BY <2>1, <2>3
<1>8. Takes(p6, x, p7)
  <2>1. x \in Seq(Plain)
    OBVIOUS
  <2> HIDE DEF o, m, b, i, e, x
  <2> QED
    BY <2>1, PlainTaken
<1>9. g = <<>> => p1 = p2
  BY SpreadNone
<1>10. i = <<>> => p2 = p4
  OBVIOUS
<1>11. ~e => p4 = p5
  <2>1. ~e => e = FALSE
    OBVIOUS
  <2> QED
    BY <2>1
<1>12. e \in BOOLEAN
  OBVIOUS
<1> DEFINE gl == Line("group", m)
           il == Line("ice-options", i)
           el == Line("extmap-allow-mixed", "")
           sl == Line("msid-semantic", "")
           ol == Line("o", o)
<1>13. /\ p0.kind = "none" /\ p1.kind = "none" /\ p2.kind = "none" /\ p4.kind = "none"
  BY DEF At
<1>14. /\ ol.key = "o" /\ gl.key = "group" /\ sl.key = "msid-semantic" /\ il.key = "ice-options"
       /\ el.key = "extmap-allow-mixed"
  BY DEF Line
<1>15. {"o", "group", "msid-semantic", "ice-options", "extmap-allow-mixed"}
          \cap (NumberAttr \cup {"candidate"}) = {}
  BY DEF NumberAttr
<1> HIDE DEF p0, p1, p2, p4, p5, p6, p7
<1>16. Fits(p0, ol) /\ Fits(p1, gl) /\ Fits(p2, sl) /\ Fits(p2, il) /\ Fits(p4, el)
  <2> HIDE DEF ol, gl, sl, il, el
  <2> QED
    BY <1>13, <1>14, <1>15, OtherLinesFit
<1>17. Takes(p0, s1, p1)
  BY <1>2, <1>16, TakesOne
<1>18. Takes(p1, s2, p2)
  <2>1. /\ Fits(p1, gl) /\ ReadLine(p1, gl) = p2
        /\ (~(g # <<>>) => p1 = p2) /\ (g # <<>>) \in BOOLEAN
    BY <1>3, <1>9, <1>16
  <2> HIDE DEF gl, g
  <2>2. Takes(p1, If(g # <<>>, gl), p2)
    BY <2>1, TakesIf
  <2> QED
    BY <2>2 DEF gl, g
<1>19. Takes(p2, s3, p2)
  BY <1>4, <1>16, TakesOne
<1>20. Takes(p2, s4, p4)
  <2>1. /\ Fits(p2, il) /\ ReadLine(p2, il) = p4
        /\ (~(i # <<>>) => p2 = p4) /\ (i # <<>>) \in BOOLEAN
    BY <1>5, <1>10, <1>16
  <2> HIDE DEF il, i
  <2>2. Takes(p2, If(i # <<>>, il), p4)
    BY <2>1, TakesIf
  <2> QED
    BY <2>2 DEF il, i
<1>21. Takes(p4, s5, p5)
  <2>1. /\ (e => Fits(p4, el) /\ ReadLine(p4, el) = p5) /\ (~e => p4 = p5) /\ e \in BOOLEAN
    BY <1>6, <1>11, <1>12, <1>16
  <2> HIDE DEF el, e
  <2>2. Takes(p4, If(e, el), p5)
    BY <2>1, TakesIf
  <2> QED
    BY <2>2 DEF el, e
<1> HIDE DEF s1, s2, s3, s4, s5, s6
<1>22. Takes(p0, s1 \o s2, p2)
  BY <1>17, <1>18, Then
<1>23. Takes(p0, s1 \o s2 \o s3, p2)
  BY <1>19, <1>22, Then
<1>24. Takes(p0, s1 \o s2 \o s3 \o s4, p4)
  BY <1>20, <1>23, Then
<1>25. Takes(p0, s1 \o s2 \o s3 \o s4 \o s5, p5)
  BY <1>21, <1>24, Then
<1>26. Takes(p0, s1 \o s2 \o s3 \o s4 \o s5 \o s6, p6)
  BY <1>7, <1>25, Then
<1>27. Takes(p0, s1 \o s2 \o s3 \o s4 \o s5 \o s6 \o x, p7)
  BY <1>8, <1>26, Then
<1>28. Header(d) = s1 \o s2 \o s3 \o s4 \o s5 \o s6 \o x
  BY DEF Header, s1, s2, s3, s4, s5, s6
<1>29. p7 = At(Headed(d), "none", NoApplication, 0)
  BY DEF p7, Headed
<1> QED
  BY <1>1, <1>27, <1>28, <1>29

-----------------------------------------------------------------------------
(* The application                                                         *)

Printed == {n \in DOMAIN Decimal : Decimal[n] = n}

\* Lines that an application keeps as they are.
PlainInApp ==
  {line \in Input : line.key \notin SessionKey \cup {"m", "o", "c", "mid"} \cup NumberAttr
                                      \cup DirectionAttr}

\* Numbers are kept as they are printed.
AppSet ==
  [mid : Mids \cup {Unset}, number : [NumberAttr -> Printed \cup {Unset}],
   direction : DirectionAttr \cup {"unknown"}, extra_attrs : Seq(PlainInApp)]

App(mid, number, direction, extra) ==
  [mid |-> mid, number |-> number, direction |-> direction, extra_attrs |-> extra]

\* The numbers of app that were read so far.
Numbers(app, K) == [key \in NumberAttr |-> IF key \in K THEN app.number[key] ELSE Unset]

\* A number is read as it is printed.
LEMMA NumberTaken ==
  ASSUME NEW a \in AppSet, NEW K, NEW key \in NumberAttr,
         a.number[key] \in Accepted(key) \cup {Unset}, NEW d, NEW mid, NEW direction, NEW extra
  PROVE  Takes(At(d, "application", App(mid, Numbers(a, K), direction, extra), 1),
               WriteNumber(a, key),
               At(d, "application", App(mid, Numbers(a, K \cup {key}), direction, extra), 1))
<1> DEFINE v == a.number[key]
           b == Numbers(a, K)
           c == Numbers(a, K \cup {key})
           P(number) == At(d, "application", App(mid, number, direction, extra), 1)
           p == P(b)
           q == P(c)
           line == Line(key, v)
<1>1. c = [b EXCEPT ![key] = v]
  BY DEF Numbers
<1>2. v = Unset => b = c
  BY DEF Numbers
<1>3. v # Unset => Decimal[v] = v
  BY DEF AppSet, Printed
<1>4. v \in Accepted(key) \cup {Unset}
  OBVIOUS
<1> HIDE DEF b, c, v
<1>5. ReadLine(p, line) = [p EXCEPT !.app.number[key] = Decimal[v]]
  <2>1. line.key = key /\ line.value = v /\ p.kind = "application"
    BY DEF Line, At
  <2>2. /\ key \notin SessionKey \cup {"m", "o", "c"} /\ key # "mid" /\ key \notin DirectionAttr
    BY DEF SessionKey, SessionAttr, NumberAttr, DirectionAttr
  <2> HIDE DEF p, line
  <2>3. ReadLine(p, line) = ReadApplication(p, line)
    BY <2>1, <2>2 DEF ReadLine
  <2>4. ReadApplication(p, line) = [p EXCEPT !.app.number[line.key] = Decimal[line.value]]
    BY <2>1, <2>2 DEF ReadApplication
  <2> QED
    BY <2>1, <2>3, <2>4
<1>6. [p EXCEPT !.app.number[key] = v] = P([b EXCEPT ![key] = v])
  BY DEF At, App
<1>7. v # Unset => Fits(p, line)
  <2>1. line.key = key /\ line.value = v /\ p.kind = "application"
    BY DEF Line, At
  <2>2. key # "candidate"
    BY DEF NumberAttr
  <2> HIDE DEF p, line
  <2> QED
    BY <1>4, <2>1, <2>2 DEF Fits, Malformed
<1> HIDE DEF p, line
<1>8. v # Unset => Fits(p, line) /\ ReadLine(p, line) = q
  BY <1>1, <1>3, <1>5, <1>6, <1>7
<1>9. v = Unset => p = q
  BY <1>2 DEF p
<1>10. WriteNumber(a, key) = If(v # Unset, line)
  BY DEF WriteNumber, v, line
<1>11. (v # Unset) \in BOOLEAN
  OBVIOUS
<1> HIDE DEF q
<1>12. Takes(p, If(v # Unset, line), q)
  BY <1>8, <1>9, <1>11, TakesIf
<1> QED
  BY <1>10, <1>12 DEF p, q, b, c

\* Lines that the application keeps.
LEMMA PlainInAppTaken ==
  ASSUME NEW s \in Seq(PlainInApp), NEW d, NEW mid, NEW number, NEW direction
  PROVE  Takes(At(d, "application", App(mid, number, direction, <<>>), 1), s,
               At(d, "application", App(mid, number, direction, s), 1))
<1> DEFINE P(extra) == At(d, "application", App(mid, number, direction, extra), 1)
           G == {u \in Seq(PlainInApp) : Reads(P(<<>>), u) = P(u)}
<1>1. ASSUME NEW u \in Seq(PlainInApp), NEW line \in PlainInApp
      PROVE  Feed(P(u), line) = P(Append(u, line))
  <2>1. /\ line.key \notin SessionKey \cup {"m", "o", "c"} /\ line.key # "mid"
        /\ line.key \notin NumberAttr /\ line.key \notin DirectionAttr
    BY DEF PlainInApp
  <2>2. P(u).kind = "application" /\ P(u).app.extra_attrs = u
    BY DEF At, App
  <2> DEFINE p == P(u)
             w == Append(u, line)
  <2>3. [p EXCEPT !.app.extra_attrs = w] = P(w)
    <3> HIDE DEF w
    <3> QED
      BY DEF At, App
  <2> HIDE DEF p, w
  <2>4. ReadLine(p, line) = ReadApplication(p, line)
    BY <2>1, <2>2 DEF ReadLine, p
  <2>5. ReadApplication(p, line) = [p EXCEPT !.app.extra_attrs = Append(@, line)]
    BY <2>1 DEF ReadApplication
  <2>6. Feed(p, line) = ReadLine(p, line)
    BY <2>1, <2>2 DEF Feed, Malformed, p, SessionKey
  <2> QED
    BY <2>2, <2>3, <2>4, <2>5, <2>6 DEF p, w
<1> HIDE DEF P
<1>2. <<>> \in G
  BY ReadsNothing
<1>3. Lines!Grows(G, PlainInApp)
  <2> SUFFICES ASSUME NEW u \in Seq(PlainInApp), NEW line \in PlainInApp, u \in G
               PROVE  Append(u, line) \in G
    BY DEF Lines!Grows
  <2>1. Reads(P(<<>>), Append(u, line)) = Feed(Reads(P(<<>>), u), line)
    BY ReadsMore
  <2> QED
    BY <1>1, <2>1
<1> HIDE DEF G
<1>4. s \in G
  BY <1>2, <1>3, Lines!SeqInduction
<1>5. IsList(s)
  BY SeqIsList
<1> QED
  BY <1>4, <1>5 DEF Takes, G, P

\* The lines of candidates u.
CandidateLines(u) == [i \in DOMAIN u |-> Line("candidate", to_sdp(u[i]))]

\* The candidates of the application, by induction on how many they are.
LEMMA CandidatesTaken ==
  ASSUME NEW u \in Seq(Cand), NEW app, app.mid \in Mids,
         NEW role, NEW origin, NEW mids, NEW attr, NEW options, NEW mixed, NEW extra,
         NEW ended
  PROVE  \E cs : /\ PushedFrom(cs, u, app.mid)
                 /\ Takes(At(Draft(role, origin, mids, attr, options, mixed, extra, <<>>, ended),
                             "application", app, 1),
                          CandidateLines(u),
                          At(Draft(role, origin, mids, attr, options, mixed, extra, cs, ended),
                             "application", app, 1))
<1> DEFINE P(cs) == At(Draft(role, origin, mids, attr, options, mixed, extra, cs, ended),
                       "application", app, 1)
           mid == app.mid
           G == {v \in Seq(Cand) :
                   \E cs : PushedFrom(cs, v, mid) /\ Reads(P(<<>>), CandidateLines(v)) = P(cs)}
           Y == {Line("candidate", to_sdp(c)) : c \in Cand}
<1>1. ASSUME NEW cs, NEW c \in Cand
      PROVE  Feed(P(cs), Line("candidate", to_sdp(c))) = P(push_candidate(cs, Reparsed(c, mid)))
  <2> DEFINE p == P(cs)
             line == Line("candidate", to_sdp(c))
             w == push_candidate(cs, Reparsed(c, mid))
  <2>1. line.key = "candidate" /\ line.value = to_sdp(c)
    BY DEF Line
  <2>2. p.kind = "application" /\ p.d.candidates = cs /\ p.app = app
    BY DEF At, Draft
  <2>3. [p EXCEPT !.d.candidates = w] = P(w)
    <3> HIDE DEF w
    <3> DEFINE D(v) == Draft(role, origin, mids, attr, options, mixed, extra, v, ended)
               d == D(cs)
    <3>1. [d EXCEPT !.candidates = w] = D(w)
      BY DEF Draft
    <3>2. p = At(d, "application", app, 1) /\ P(w) = At(D(w), "application", app, 1)
      OBVIOUS
    <3> HIDE DEF D, p, P
    <3>3. [p EXCEPT !.d.candidates = w] = At([d EXCEPT !.candidates = w], "application", app, 1)
      BY ONLY <3>2 DEF At
    <3> QED
      BY <3>1, <3>2, <3>3
  <2> HIDE DEF p, line
  <2>4. ReadLine(p, line) = ReadSession(p, line)
    BY <2>1, <2>2 DEF ReadLine, SessionKey, SessionAttr
  <2>5. ReadSession(p, line) = ReadCandidate(p, line)
    BY <2>1 DEF ReadSession, SessionAttr
  <2> DEFINE m == CASE p.kind = "application" -> p.app.mid
                    [] p.kind # "application" /\ p.d.bundle_mids # <<>> -> Head(p.d.bundle_mids)
                    [] OTHER -> "0"
  <2>6. m = mid
    BY <2>2
  <2>7. ReadCandidate(p, line) =
          [p EXCEPT !.d.candidates = push_candidate(@, parse_candidate(line.value, m))]
    BY DEF ReadCandidate
  <2> HIDE DEF m
  <2>8. push_candidate(p.d.candidates, parse_candidate(line.value, m)) = w
    BY <2>1, <2>2, <2>6 DEF Reparsed
  <2>9. Feed(p, line) = ReadLine(p, line)
    <3>1. Parses(to_sdp(c))
      BY WrittenParses
    <3>2. line.key \notin NumberAttr
      BY <2>1 DEF NumberAttr
    <3> QED
      BY <2>1, <2>2, <3>1, <3>2 DEF Feed, Malformed
  <2> QED
    BY <2>3, <2>4, <2>5, <2>7, <2>8, <2>9 DEF p, line
<1> HIDE DEF P
<1>2. <<>> \in G
  <2>1. CandidateLines(<<>>) = <<>>
    BY DEF CandidateLines
  <2> QED
    BY <2>1, PushedNothing, ReadsNothing
<1>3. Lines!Grows(G, Cand)
  <2> SUFFICES ASSUME NEW v \in Seq(Cand), NEW c \in Cand, v \in G
               PROVE  Append(v, c) \in G
    BY DEF Lines!Grows
  <2> DEFINE s == CandidateLines(v)
             line == Line("candidate", to_sdp(c))
  <2>1. PICK cs : PushedFrom(cs, v, mid) /\ Reads(P(<<>>), s) = P(cs)
    OBVIOUS
  <2>2. CandidateLines(Append(v, c)) = Append(s, line) /\ s \in Seq(Y) /\ line \in Y
    <3> DEFINE L(e) == Line("candidate", to_sdp(e))
    <3>1. /\ s = [i \in DOMAIN v |-> L(v[i])]
          /\ CandidateLines(Append(v, c)) = [i \in DOMAIN Append(v, c) |-> L(Append(v, c)[i])]
          /\ line = L(c) /\ Y = {L(e) : e \in Cand}
      BY DEF CandidateLines
    <3> HIDE DEF L, s, line, Y
    <3>2. [i \in DOMAIN Append(v, c) |-> L(Append(v, c)[i])]
            = Append([i \in DOMAIN v |-> L(v[i])], L(c))
      OBVIOUS
    <3>3. [i \in DOMAIN v |-> L(v[i])] \in Seq(Y)
      BY <3>1
    <3> QED
      BY <3>1, <3>2, <3>3
  <2>3. Reads(P(<<>>), Append(s, line)) = Feed(Reads(P(<<>>), s), line)
    <3> HIDE DEF s, line, Y
    <3> QED
      BY <2>2, ReadsMore
  <2>4. Feed(P(cs), line) = P(push_candidate(cs, Reparsed(c, mid)))
    BY <1>1
  <2>5. PushedFrom(push_candidate(cs, Reparsed(c, mid)), Append(v, c), mid)
    BY <2>1, PushedMore
  <2> HIDE DEF s, line
  <2>6. Reads(P(<<>>), CandidateLines(Append(v, c))) = P(push_candidate(cs, Reparsed(c, mid)))
    BY <2>1, <2>2, <2>3, <2>4
  <2>7. Append(v, c) \in Seq(Cand)
    OBVIOUS
  <2> QED
    BY <2>5, <2>6, <2>7
<1> HIDE DEF G
<1>4. u \in G
  BY <1>2, <1>3, Lines!SeqInduction
<1>5. PICK cs : PushedFrom(cs, u, mid) /\ Reads(P(<<>>), CandidateLines(u)) = P(cs)
  BY <1>4 DEF G
<1>6. IsList(CandidateLines(u))
  <2>1. CandidateLines(u) = [i \in 1..Len(u) |-> Line("candidate", to_sdp(u[i]))]
    BY DEF CandidateLines
  <2> QED
    BY <2>1 DEF IsList
<1> QED
  BY <1>5, <1>6 DEF Takes, P

\* Other sections, as the parser keeps them.
Verbatim == {line \in Input : line.key \notin {"m", "o"}}
Media == {line \in Input : line.key = "m" /\ line.value # "application"}
Section ==
  {s \in Seq(Input) : \E line \in Media, rest \in Seq(Verbatim) : s = <<line>> \o rest}

\* What can be written and read back.
IsWritable(d) ==
  /\ d.role \in Role /\ d.ended \in BOOLEAN /\ d.extmap_allow_mixed \in BOOLEAN
  /\ d.attr = [key \in SessionAttr |-> d.attr[key]]
  /\ d.bundle_mids \in Seq(Mids)
  /\ d.extra_attrs \in Seq(Plain)
  /\ d.application \in AppSet /\ (has_application(d) => d.application.mid \in Mids)
  /\ \A key \in NumberAttr : d.application.number[key] \in Accepted(key) \cup {Unset}
  /\ d.other_sections \in Seq(Section)
  /\ d.candidates \in Seq(Cand) /\ Distinct(d.candidates)

\* The direction an application is read back with.
Heading(app) == IF app.direction = "unknown" THEN "sendrecv" ELSE app.direction

\* What the lines up to those of an application lead to, cs being what is
\* read of its candidates.
Applied(d, cs) ==
  At(Draft(d.role, d.origin, Spread(d.bundle_mids), d.attr, d.ice_options, d.extmap_allow_mixed,
           d.extra_attrs, cs, d.ended),
     "application", [d.application EXCEPT !.direction = Heading(d.application)], 1)

LEMMA AllAttrs ==
  ASSUME NEW d, d.attr = [key \in SessionAttr |-> d.attr[key]]
  PROVE  Some(d, {"fingerprint"} \cup {"ice-ufrag"} \cup {"ice-pwd"} \cup {"fingerprint"}) = d.attr
<1>1. \A key \in SessionAttr :
        key \in {"fingerprint"} \cup {"ice-ufrag"} \cup {"ice-pwd"} \cup {"fingerprint"}
  BY DEF SessionAttr
<1> QED
  BY <1>1 DEF Some

LEMMA AllNumbers ==
  ASSUME NEW app \in AppSet
  PROVE  Numbers(app, {} \cup {"sctp-port"} \cup {"max-message-size"}) = app.number
<1>1. \A key \in NumberAttr : key \in {} \cup {"sctp-port"} \cup {"max-message-size"}
  BY DEF NumberAttr
<1>2. app.number = [key \in NumberAttr |-> app.number[key]]
  BY DEF AppSet
<1> QED
  BY <1>1, <1>2 DEF Numbers

\* The role is read back from setup.
LEMMA SetupTaken ==
  ASSUME NEW role \in Role, NEW r, NEW origin, NEW mids, NEW attr, NEW options, NEW mixed,
         NEW extra, NEW ended, NEW app, NEW text,
         text = CASE role = "Active" -> "active" [] role = "Passive" -> "passive"
                  [] OTHER -> "actpass"
  PROVE  ReadLine(At(Draft(r, origin, mids, attr, options, mixed, extra, <<>>, ended),
                     "application", app, 1), Line("setup", text))
           = At(Draft(role, origin, mids, attr, options, mixed, extra, <<>>, ended),
                "application", app, 1)
<1> DEFINE d == Draft(r, origin, mids, attr, options, mixed, extra, <<>>, ended)
           e == Draft(role, origin, mids, attr, options, mixed, extra, <<>>, ended)
           p == At(d, "application", app, 1)
           line == Line("setup", text)
           v == CASE text = "active" -> "Active" [] text = "passive" -> "Passive"
                  [] OTHER -> "ActPass"
<1>1. v = role
  <2>1. role \in {"ActPass", "Passive", "Active"}
    BY DEF Role
  <2>2. CASE role = "ActPass"
    BY <2>2
  <2>3. CASE role = "Passive"
    BY <2>3
  <2>4. CASE role = "Active"
    BY <2>4
  <2> QED
    BY <2>1, <2>2, <2>3, <2>4
<1> HIDE DEF v
<1>2. [d EXCEPT !.role = v] = e
  BY <1>1 DEF Draft
<1>3. line.key = "setup" /\ line.value = text /\ p.kind = "application"
  BY DEF Line, At
<1> HIDE DEF line, d, e
<1>4. [p EXCEPT !.d.role = v] = At([d EXCEPT !.role = v], "application", app, 1)
  BY ONLY DEF At, p
<1> HIDE DEF p
<1>5. ReadLine(p, line) = ReadSession(p, line)
  BY <1>3 DEF ReadLine, SessionKey, SessionAttr
<1>6. ReadSession(p, line) = ReadSetup(p, line)
  BY <1>3 DEF ReadSession, SessionAttr
<1>7. ReadSetup(p, line) = [p EXCEPT !.d.role = v]
  BY <1>3 DEF ReadSetup, v
<1> QED
  BY <1>2, <1>4, <1>5, <1>6, <1>7 DEF p, line, d, e

\* The section of the application begins, and is the first.
LEMMA MediaTaken ==
  ASSUME NEW d
  PROVE  Takes(At(Headed(d), "none", NoApplication, 0), <<Line("m", "application")>>,
               At(Headed(d), "application", Application(Numeral[0]), 1))
<1> DEFINE h == Headed(d)
           p == At(h, "none", NoApplication, 0)
           line == Line("m", "application")
           q == At(h, "application", Application(Numeral[0]), 1)
<1>1. p.kind = "none" /\ p.other_mid = Unset /\ p.sections = 0 /\ p.d = h
  BY DEF At
<1>2. h = [h EXCEPT !.application = h.application, !.other_sections = h.other_sections,
                    !.bundle_mids = h.bundle_mids]
  <2> DEFINE a == Some(d, {"fingerprint"})
             o == d.origin
             m == Spread(d.bundle_mids)
             i == d.ice_options
             e == d.extmap_allow_mixed
             x == d.extra_attrs
             g == Draft("ActPass", o, m, a, i, e, x, <<>>, FALSE)
  <2>1. h = g
    BY DEF Headed
  <2> HIDE DEF a, o, m, i, e, x, h
  <2>2. g = [f \in Field |-> g[f]]
    BY DEF Draft, Field
  <2> HIDE DEF g
  <2> QED
    BY <2>1, <2>2 DEF Field
<1>3. line.key = "m" /\ line.value = "application"
  BY DEF Line
<1> HIDE DEF h, p, line
<1>4. flush_section(p) = [Parser(h) EXCEPT !.sections = 0]
  BY <1>1, <1>2 DEF flush_section
<1>5. ReadLine(p, line) = ReadMedia(p, line)
  BY <1>3 DEF ReadLine, SessionKey, SessionAttr
<1>6. ReadMedia(p, line) = q
  <2>1. flush_section(p) = At(h, "none", NoApplication, 0)
    BY <1>4 DEF Parser, At
  <2> DEFINE n == Numeral[p.sections]
             app == Application(n)
  <2>2. n = Numeral[0]
    BY <1>1
  <2> DEFINE f == flush_section(p)
             k == f.sections + 1
  <2>3. k = 1
    BY <2>1 DEF At
  <2>4. ReadMedia(p, line) = [[f EXCEPT !.sections = k] EXCEPT !.kind = "application", !.app = app]
    BY <1>3 DEF ReadMedia
  <2>5. app = Application(Numeral[0])
    BY <2>2
  <2> HIDE DEF app, f, k
  <2>6. f = At(h, "none", NoApplication, 0)
    BY <2>1 DEF f
  <2>7. ReadMedia(p, line) = At(h, "application", app, 1)
    BY <2>3, <2>4, <2>6 DEF At
  <2> QED
    BY <2>5, <2>7
<1> QED
  <2>1. line.key \notin NumberAttr \cup {"candidate"} /\ p.kind # "error"
    BY <1>1, <1>3 DEF NumberAttr
  <2>2. Fits(p, line)
    BY <2>1, OtherLinesFit
  <2> QED
    BY <1>5, <1>6, <2>2, TakesOne DEF h, p, line

\* The mid replaces the number of the section.
LEMMA MidTaken ==
  ASSUME NEW d, NEW n, NEW mid, NEW app
  PROVE  ReadLine(At(d, "application", Application(n), 1), Line("mid", mid))
           = At(d, "application", App(mid, Numbers(app, {}), "sendrecv", <<>>), 1)
<1> DEFINE p == At(d, "application", Application(n), 1)
           line == Line("mid", mid)
<1>1. line.key = "mid" /\ line.value = mid /\ p.kind = "application"
  BY DEF Line, At
<1>2. Numbers(app, {}) = [key \in NumberAttr |-> Unset]
  BY DEF Numbers
<1>3. [Application(n) EXCEPT !.mid = mid] = App(mid, Numbers(app, {}), "sendrecv", <<>>)
  BY <1>2 DEF Application, App
<1> HIDE DEF line
<1>4. ReadLine(p, line) = ReadApplication(p, line)
  BY <1>1 DEF ReadLine, SessionKey, SessionAttr
<1>5. ReadApplication(p, line) = [p EXCEPT !.app.mid = mid]
  BY <1>1 DEF ReadApplication, NumberAttr, DirectionAttr
<1>6. [p EXCEPT !.app.mid = mid] = At(d, "application", [Application(n) EXCEPT !.mid = mid], 1)
  BY DEF At
<1> QED
  BY <1>3, <1>4, <1>5, <1>6 DEF line

\* Without a direction the application is read back as sendrecv.
LEMMA DirectionTaken ==
  ASSUME NEW d, NEW mid, NEW number, NEW app, app.direction \in DirectionAttr \cup {"unknown"}
  PROVE  Takes(At(d, "application", App(mid, number, "sendrecv", <<>>), 1),
               If(app.direction # "unknown", Line(app.direction, "")),
               At(d, "application", App(mid, number, Heading(app), <<>>), 1))
<1> DEFINE v == app.direction
           P(direction) == At(d, "application", App(mid, number, direction, <<>>), 1)
           p == P("sendrecv")
           q == P(Heading(app))
           line == Line(v, "")
<1>1. v # "unknown" => v \in DirectionAttr /\ Heading(app) = v
  BY DEF Heading
<1>2. v = "unknown" => Heading(app) = "sendrecv"
  BY DEF Heading
<1>3. ASSUME v # "unknown" PROVE Fits(p, line) /\ ReadLine(p, line) = q
  <2>1. line.key = v /\ p.kind = "application"
    BY DEF Line, At
  <2>2. v \in DirectionAttr /\ Heading(app) = v
    BY <1>1, <1>3
  <2>3. v \notin SessionKey \cup {"m", "o", "c", "mid"} \cup NumberAttr
    BY <2>2 DEF SessionKey, SessionAttr, NumberAttr, DirectionAttr
  <2>4. [p EXCEPT !.app.direction = v] = P(v)
    <3> HIDE DEF v
    <3> QED
      BY DEF At, App
  <2> HIDE DEF line, v, p
  <2>5. ReadLine(p, line) = ReadApplication(p, line)
    BY <2>1, <2>3 DEF ReadLine
  <2>6. ReadApplication(p, line) = [p EXCEPT !.app.direction = v]
    BY <2>1, <2>2, <2>3 DEF ReadApplication
  <2>7. Fits(p, line)
    <3>1. v # "candidate"
      BY <2>2 DEF DirectionAttr
    <3> QED
      BY <2>1, <2>3, <3>1, OtherLinesFit
  <2> QED
    BY <2>2, <2>4, <2>5, <2>6, <2>7
<1>4. v = "unknown" => p = q
  BY <1>2
<1>5. (v # "unknown") \in BOOLEAN
  OBVIOUS
<1>6. v # "unknown" => Fits(p, line) /\ ReadLine(p, line) = q
  BY <1>3
<1> HIDE DEF p, q, line, v
<1>7. Takes(p, If(v # "unknown", line), q)
  BY <1>4, <1>5, <1>6, TakesIf
<1> QED
  BY <1>7 DEF p, q, line, v

\* The end of candidates.
LEMMA EndTaken ==
  ASSUME NEW role, NEW origin, NEW mids, NEW attr, NEW options, NEW mixed, NEW extra, NEW cs,
         NEW ended \in BOOLEAN, NEW app
  PROVE  Takes(At(Draft(role, origin, mids, attr, options, mixed, extra, cs, FALSE),
                  "application", app, 1),
               If(ended, Line("end-of-candidates", "")),
               At(Draft(role, origin, mids, attr, options, mixed, extra, cs, ended),
                  "application", app, 1))
<1> DEFINE D(v) == Draft(role, origin, mids, attr, options, mixed, extra, cs, v)
           p == At(D(FALSE), "application", app, 1)
           q == At(D(ended), "application", app, 1)
           line == Line("end-of-candidates", "")
<1>1. CASE ended
  <2> DEFINE no == FALSE
             yes == TRUE
             d == D(no)
             e == D(yes)
  <2>1. p = At(d, "application", app, 1)
    OBVIOUS
  <2>2. q = At(e, "application", app, 1)
    <3>1. ended = yes
      BY <1>1
    <3> QED
      BY <3>1
  <2>3. line.key = "end-of-candidates" /\ p.kind = "application"
    BY DEF Line, At
  <2>4. yes = TRUE
    OBVIOUS
  <2>5. [d EXCEPT !.ended = yes] = e
    <3> HIDE DEF no, yes
    <3> QED
      BY DEF Draft
  <2>6. ReadLine(p, line) = ReadSession(p, line)
    <3> HIDE DEF p, line
    <3> QED
      BY <2>3 DEF ReadLine, SessionKey, SessionAttr
  <2>7. ReadSession(p, line) = [p EXCEPT !.d.ended = TRUE]
    <3> HIDE DEF p, line
    <3> QED
      BY <2>3 DEF ReadSession, SessionAttr
  <2> HIDE DEF line, p, q, d, e
  <2>8. ReadSession(p, line) = [p EXCEPT !.d.ended = yes]
    BY <2>7
  <2> HIDE DEF yes, no
  <2>9. [p EXCEPT !.d.ended = yes] = At([d EXCEPT !.ended = yes], "application", app, 1)
    BY ONLY <2>1 DEF At
  <2>10. ReadLine(p, line) = q
    BY <2>2, <2>5, <2>6, <2>8, <2>9
  <2>11. Takes(p, <<line>>, q)
    <3>1. line.key \notin NumberAttr \cup {"candidate"} /\ p.kind # "error"
      BY <2>3 DEF NumberAttr
    <3>2. Fits(p, line)
      BY <3>1, OtherLinesFit
    <3> QED
      BY <2>10, <3>2, TakesOne
  <2>12. If(ended, Line("end-of-candidates", "")) = <<line>>
    BY <1>1 DEF If, line
  <2> QED
    BY <2>11, <2>12 DEF p, q
<1>2. CASE ~ended
  <2>1. ended = FALSE
    BY <1>2
  <2>2. If(ended, Line("end-of-candidates", "")) = <<>>
    BY <1>2 DEF If
  <2>3. p = q
    BY <2>1
  <2> HIDE DEF p, q
  <2>4. Takes(p, <<>>, q)
    BY <2>3, TakesNothing
  <2> QED
    BY <2>2, <2>4 DEF p, q
<1> QED
  BY <1>1, <1>2

LEMMA OneByOne ==
  ASSUME NEW a, NEW b
  PROVE  <<a>> \o <<b>> = <<a, b>>
<1> DEFINE s == <<a>> \o <<b>>
           X == {a, b}
<1>1. <<a>> \in Seq(X) /\ <<b>> \in Seq(X) /\ <<a, b>> \in Seq(X)
  OBVIOUS
<1>2. s \in Seq(X) /\ Len(s) = 2 /\ s[1] = a /\ s[2] = b
  BY <1>1
<1>3. Len(<<a, b>>) = 2 /\ <<a, b>>[1] = a /\ <<a, b>>[2] = b
  OBVIOUS
<1> DEFINE t == <<a, b>>
<1>4. /\ t \in Seq(X) /\ Len(t) = 2 /\ \A i \in 1..2 : t[i] = s[i]
  BY <1>1, <1>2, <1>3
<1> HIDE DEF s, t, X
<1>5. s = t
  BY <1>2, <1>4
<1> QED
  BY <1>5 DEF s, t

LEMMA AppIs ==
  ASSUME NEW a \in AppSet
  PROVE  App(a.mid, a.number, Heading(a), a.extra_attrs) = [a EXCEPT !.direction = Heading(a)]
<1>1. a = App(a.mid, a.number, a.direction, a.extra_attrs)
  BY DEF AppSet, App
<1> DEFINE mid == a.mid
           number == a.number
           direction == a.direction
           extra == a.extra_attrs
           v == Heading(a)
<1>2. a = App(mid, number, direction, extra)
  BY <1>1
<1> HIDE DEF mid, number, direction, extra, v
<1>3. [App(mid, number, direction, extra) EXCEPT !.direction = v] = App(mid, number, v, extra)
  BY DEF App
<1>4. App(mid, number, v, extra) = [a EXCEPT !.direction = v]
  BY <1>2, <1>3
<1> QED
  BY <1>4 DEF mid, number, extra, v

\* From the application's own line to its candidates.
LEMMA ApplicationHeadTaken ==
  ASSUME NEW d, IsWritable(d)
  PROVE  LET app == d.application
         IN Takes(At(Headed(d), "none", NoApplication, 0),
               <<Line("m", "application"), Line("mid", app.mid)>>
                 \o If(app.direction # "unknown", Line(app.direction, ""))
                 \o <<Line("setup", CASE d.role = "Active" -> "active"
                                      [] d.role = "Passive" -> "passive" [] OTHER -> "actpass")>>
                 \o WriteAttr(d, "ice-ufrag") \o WriteAttr(d, "ice-pwd")
                 \o WriteAttr(d, "fingerprint")
                 \o WriteNumber(app, "sctp-port") \o WriteNumber(app, "max-message-size")
                 \o app.extra_attrs,
               At(Draft(d.role, d.origin, Spread(d.bundle_mids), d.attr, d.ice_options,
                        d.extmap_allow_mixed, d.extra_attrs, <<>>, FALSE),
                  "application", [app EXCEPT !.direction = Heading(app)], 1))
<1> DEFINE a == d.application
           o == d.origin
           m == Spread(d.bundle_mids)
           i == d.ice_options
           e == d.extmap_allow_mixed
           x == d.extra_attrs
           no == FALSE
           D(role, attr) == Draft(role, o, m, attr, i, e, x, <<>>, no)
           A(number, direction, extra) == App(a.mid, number, direction, extra)
           K1 == {"fingerprint"}
           K2 == K1 \cup {"ice-ufrag"}
           K3 == K2 \cup {"ice-pwd"}
           K4 == K3 \cup {"fingerprint"}
           N0 == Numbers(a, {})
           N1 == Numbers(a, {} \cup {"sctp-port"})
           N2 == Numbers(a, {} \cup {"sctp-port"} \cup {"max-message-size"})
           v == Heading(a)
           text == CASE d.role = "Active" -> "active" [] d.role = "Passive" -> "passive"
                     [] OTHER -> "actpass"
           s1 == <<Line("m", "application")>>
           s2 == <<Line("mid", a.mid)>>
           s3 == If(a.direction # "unknown", Line(a.direction, ""))
           s4 == <<Line("setup", text)>>
           s5 == WriteAttr(d, "ice-ufrag")
           s6 == WriteAttr(d, "ice-pwd")
           s7 == WriteAttr(d, "fingerprint")
           s8 == WriteNumber(a, "sctp-port")
           s9 == WriteNumber(a, "max-message-size")
           s10 == a.extra_attrs
           p0 == At(Headed(d), "none", NoApplication, 0)
           p1 == At(D("ActPass", Some(d, K1)), "application", Application(Numeral[0]), 1)
           p2 == At(D("ActPass", Some(d, K1)), "application", A(N0, "sendrecv", <<>>), 1)
           p3 == At(D("ActPass", Some(d, K1)), "application", A(N0, v, <<>>), 1)
           p4 == At(D(d.role, Some(d, K1)), "application", A(N0, v, <<>>), 1)
           p5 == At(D(d.role, Some(d, K2)), "application", A(N0, v, <<>>), 1)
           p6 == At(D(d.role, Some(d, K3)), "application", A(N0, v, <<>>), 1)
           p7 == At(D(d.role, Some(d, K4)), "application", A(N0, v, <<>>), 1)
           p8 == At(D(d.role, Some(d, K4)), "application", A(N1, v, <<>>), 1)
           p9 == At(D(d.role, Some(d, K4)), "application", A(N2, v, <<>>), 1)
           p10 == At(D(d.role, Some(d, K4)), "application", A(N2, v, s10), 1)
<1>1. /\ a \in AppSet /\ d.role \in Role /\ s10 \in Seq(PlainInApp)
      /\ a.direction \in DirectionAttr \cup {"unknown"}
      /\ d.attr = [key \in SessionAttr |-> d.attr[key]]
      /\ \A key \in NumberAttr : a.number[key] \in Accepted(key) \cup {Unset}
  BY DEF IsWritable, AppSet
<1>2. Takes(p0, s1, p1)
  <2>1. Headed(d) = D("ActPass", Some(d, K1))
    BY DEF Headed
  <2> QED
    BY <2>1, MediaTaken
<1>3. Takes(p1, s2, p2)
  <2> HIDE DEF D
  <2>1. ReadLine(p1, Line("mid", a.mid)) = p2
    BY MidTaken
  <2>2. Fits(p1, Line("mid", a.mid))
    <3> DEFINE line == Line("mid", a.mid)
    <3>1. line.key = "mid" /\ p1.kind = "application" /\ "mid" \notin NumberAttr
      BY DEF Line, At, NumberAttr
    <3> HIDE DEF line, p1
    <3>2. Fits(p1, line)
      BY <3>1, OtherLinesFit
    <3> QED
      BY <3>2 DEF line
  <2> QED
    BY <2>1, <2>2, TakesOne
<1>4. Takes(p2, s3, p3)
  <2> HIDE DEF D, N0
  <2> QED
    BY <1>1, DirectionTaken
<1>5. Takes(p3, s4, p4)
  <2>1. ReadLine(p3, Line("setup", text)) = p4
    <3> DEFINE b == Some(d, K1)
               app == A(N0, v, <<>>)
    <3>1. d.role \in Role /\ text = CASE d.role = "Active" -> "active"
                                     [] d.role = "Passive" -> "passive" [] OTHER -> "actpass"
      BY <1>1
    <3> HIDE DEF text, o, m, i, e, x, b, app, no
    <3> QED
      BY <3>1, SetupTaken
  <2>2. Fits(p3, Line("setup", text))
    <3> DEFINE line == Line("setup", text)
    <3>1. line.key = "setup" /\ p3.kind = "application" /\ "setup" \notin NumberAttr
      BY DEF Line, At, NumberAttr
    <3> HIDE DEF line, p3
    <3>2. Fits(p3, line)
      BY <3>1, OtherLinesFit
    <3> QED
      BY <3>2 DEF line
  <2> HIDE DEF p3, p4
  <2> QED
    BY <2>1, <2>2, TakesOne
<1>6. /\ "application" \in {"none", "application"}
      /\ SessionAttr = {"fingerprint", "ice-ufrag", "ice-pwd"}
  BY DEF SessionAttr
<1>7. Takes(p4, s5, p5)
  <2> DEFINE app == A(N0, v, <<>>)
             r == d.role
             key == "ice-ufrag"
  <2>1. key \in SessionAttr /\ "application" \in {"none", "application"}
    BY <1>6
  <2> HIDE DEF app, r, o, m, i, e, x, no, K1, key
  <2>2. Takes(At(D(r, Some(d, K1)), "application", app, 1), WriteAttr(d, key),
              At(D(r, Some(d, K1 \cup {key})), "application", app, 1))
    BY <2>1, AttrTaken
  <2> QED
    BY <2>2 DEF app, r, key, K1
<1>8. Takes(p5, s6, p6)
  <2> DEFINE app == A(N0, v, <<>>)
             r == d.role
             key == "ice-pwd"
  <2>1. key \in SessionAttr /\ "application" \in {"none", "application"}
    BY <1>6
  <2> HIDE DEF app, r, o, m, i, e, x, no, K2, key
  <2>2. Takes(At(D(r, Some(d, K2)), "application", app, 1), WriteAttr(d, key),
              At(D(r, Some(d, K2 \cup {key})), "application", app, 1))
    BY <2>1, AttrTaken
  <2> QED
    BY <2>2 DEF app, r, key, K2
<1>9. Takes(p6, s7, p7)
  <2> DEFINE app == A(N0, v, <<>>)
             r == d.role
             key == "fingerprint"
  <2>1. key \in SessionAttr /\ "application" \in {"none", "application"}
    BY <1>6
  <2> HIDE DEF app, r, o, m, i, e, x, no, K3, key
  <2>2. Takes(At(D(r, Some(d, K3)), "application", app, 1), WriteAttr(d, key),
              At(D(r, Some(d, K3 \cup {key})), "application", app, 1))
    BY <2>1, AttrTaken
  <2> QED
    BY <2>2 DEF app, r, key, K3
<1> DEFINE b == D(d.role, Some(d, K4))
<1>10. Takes(p7, s8, p8)
  <2>1. "sctp-port" \in NumberAttr
    BY DEF NumberAttr
  <2> HIDE DEF D, v, b
  <2> QED
    BY <1>1, <2>1, NumberTaken
<1>11. Takes(p8, s9, p9)
  <2> DEFINE K == {} \cup {"sctp-port"}
             key == "max-message-size"
  <2>1. key \in NumberAttr
    BY DEF NumberAttr
  <2> HIDE DEF D, v, b, key, K
  <2>2. Takes(At(b, "application", A(Numbers(a, K), v, <<>>), 1), WriteNumber(a, key),
              At(b, "application", A(Numbers(a, K \cup {key}), v, <<>>), 1))
    BY <1>1, <2>1, NumberTaken
  <2> QED
    BY <2>2 DEF key, K, b
<1>12. Takes(p9, s10, p10)
  <2> HIDE DEF D, v, N2, s10
  <2> QED
    BY <1>1, PlainInAppTaken
<1> HIDE DEF s1, s2, s3, s4, s5, s6, s7, s8, s9, s10, p0, p1, p2, p3, p4, p5, p6, p7, p8, p9, p10
<1>13. Takes(p0, s1 \o s2, p2)
  BY <1>2, <1>3, Then
<1>14. Takes(p0, s1 \o s2 \o s3, p3)
  BY <1>4, <1>13, Then
<1>15. Takes(p0, s1 \o s2 \o s3 \o s4, p4)
  BY <1>5, <1>14, Then
<1>16. Takes(p0, s1 \o s2 \o s3 \o s4 \o s5, p5)
  BY <1>7, <1>15, Then
<1>17. Takes(p0, s1 \o s2 \o s3 \o s4 \o s5 \o s6, p6)
  BY <1>8, <1>16, Then
<1>18. Takes(p0, s1 \o s2 \o s3 \o s4 \o s5 \o s6 \o s7, p7)
  BY <1>9, <1>17, Then
<1>19. Takes(p0, s1 \o s2 \o s3 \o s4 \o s5 \o s6 \o s7 \o s8, p8)
  BY <1>10, <1>18, Then
<1>20. Takes(p0, s1 \o s2 \o s3 \o s4 \o s5 \o s6 \o s7 \o s8 \o s9, p9)
  BY <1>11, <1>19, Then
<1>21. Takes(p0, s1 \o s2 \o s3 \o s4 \o s5 \o s6 \o s7 \o s8 \o s9 \o s10, p10)
  BY <1>12, <1>20, Then
<1>22. s1 \o s2 = <<Line("m", "application"), Line("mid", a.mid)>>
  <2> DEFINE e1 == Line("m", "application")
             e2 == Line("mid", a.mid)
  <2> HIDE DEF e1, e2
  <2>1. <<e1>> \o <<e2>> = <<e1, e2>>
    BY OneByOne
  <2> QED
    BY <2>1 DEF s1, s2, e1, e2
<1>23. p10 = At(Draft(d.role, o, m, d.attr, i, e, x, <<>>, FALSE), "application",
                [a EXCEPT !.direction = v], 1)
  <2>1. Some(d, K4) = d.attr
    BY <1>1, AllAttrs
  <2>2. N2 = a.number
    BY <1>1, AllNumbers
  <2>3. A(a.number, v, s10) = [a EXCEPT !.direction = v]
    BY <1>1, AppIs DEF s10
  <2> HIDE DEF K4, N2, A, v, a, o, m, i, e, x
  <2> QED
    BY <2>1, <2>2, <2>3 DEF p10
<1> QED
  BY <1>21, <1>22, <1>23 DEF p0, s3, s4, s5, s6, s7, s8, s9, s10

\* All of the application.
LEMMA ApplicationTaken ==
  ASSUME NEW d, IsWritable(d), has_application(d)
  PROVE  \E cs : /\ PushedFrom(cs, CandidatesOf(d, d.application.mid), d.application.mid)
                 /\ Takes(At(Headed(d), "none", NoApplication, 0), write_application(d),
                          Applied(d, cs))
<1> DEFINE a == d.application
           mid == a.mid
           u == CandidatesOf(d, mid)
           b == [a EXCEPT !.direction = Heading(a)]
           o == d.origin
           m == Spread(d.bundle_mids)
           i == d.ice_options
           e == d.extmap_allow_mixed
           x == d.extra_attrs
           t == d.attr
           r == d.role
           P(cs, ended) == At(Draft(r, o, m, t, i, e, x, cs, ended), "application", b, 1)
           no == FALSE
           p0 == At(Headed(d), "none", NoApplication, 0)
           s1 == <<Line("m", "application"), Line("mid", a.mid)>>
                   \o If(a.direction # "unknown", Line(a.direction, ""))
                   \o <<Line("setup", CASE r = "Active" -> "active"
                                        [] r = "Passive" -> "passive" [] OTHER -> "actpass")>>
                   \o WriteAttr(d, "ice-ufrag") \o WriteAttr(d, "ice-pwd")
                   \o WriteAttr(d, "fingerprint")
                   \o WriteNumber(a, "sctp-port") \o WriteNumber(a, "max-message-size")
                   \o a.extra_attrs
           s2 == CandidateLines(u)
           s3 == If(d.ended, Line("end-of-candidates", ""))
<1>1. /\ a \in AppSet /\ mid \in Mids /\ d.ended \in BOOLEAN
      /\ d.candidates \in Seq(Cand)
  BY DEF IsWritable
<1>2. b.mid = mid
  BY <1>1 DEF AppSet
<1>3. u \in Seq(Cand)
  <2> DEFINE I == {k \in DOMAIN d.candidates : mid_of(d.candidates[k]) = mid}
  <2>1. u = Kept(d.candidates, I) /\ I \in SUBSET (DOMAIN d.candidates)
    BY DEF CandidatesOf
  <2> HIDE DEF I, u
  <2> QED
    BY <1>1, <2>1, KeptIs
<1>4. Takes(p0, s1, P(<<>>, no))
  BY ApplicationHeadTaken
<1>5. PICK cs : PushedFrom(cs, u, mid) /\ Takes(P(<<>>, no), s2, P(cs, no))
  <2>1. b.mid \in Mids
    BY <1>1, <1>2
  <2> HIDE DEF b, no, u, o, m, i, e, x, t, r, mid
  <2>2. \E cs : PushedFrom(cs, u, b.mid) /\ Takes(P(<<>>, no), CandidateLines(u), P(cs, no))
    BY <1>3, <2>1, CandidatesTaken
  <2> QED
    BY <1>2, <2>2
<1>6. Takes(P(cs, no), s3, P(cs, d.ended))
  <2> HIDE DEF b, o, m, i, e, x, t, r
  <2> QED
    BY <1>1, EndTaken
<1>7. write_application(d) = s1 \o s2 \o s3
  BY DEF write_application, CandidateLines
<1>8. P(cs, d.ended) = Applied(d, cs)
  BY DEF Applied
<1> HIDE DEF s1, s2, s3, P, p0, u, mid
<1>9. Takes(p0, s1 \o s2, P(cs, no))
  BY <1>4, <1>5, Then
<1>10. Takes(p0, s1 \o s2 \o s3, P(cs, d.ended))
  BY <1>6, <1>9, Then
<1>11. Takes(p0, write_application(d), Applied(d, cs))
  BY <1>7, <1>8, <1>10
<1> QED
  BY <1>5, <1>11 DEF u, mid, p0

-----------------------------------------------------------------------------
(* The other sections                                                      *)

\* Inside another section.
In(d, s, mid, n) ==
  [d |-> d, kind |-> "other", app |-> NoApplication, other |-> s, other_mid |-> mid, sections |-> n]

\* The mid a section adds to the group.
MidOf(s) == Reads(Parser(new("Unspec", "ActPass")), s).other_mid

\* The lines s, from wherever they are read.
Enters(s, mid) ==
  \A p : p.kind # "error" => Reads(p, s) = In(flush_section(p).d, s, mid, p.sections + 1)

\* After a section the parser is outside of any.
LEMMA FlushedIs ==
  ASSUME NEW p
  PROVE  flush_section(p) = At(flush_section(p).d, "none", NoApplication, p.sections)
<1> DEFINE mid == IF p.kind = "application" THEN p.app.mid ELSE p.other_mid
           d == [p.d EXCEPT
                  !.application = IF p.kind = "application" THEN p.app ELSE @,
                  !.other_sections = IF p.kind = "other" THEN Append(@, p.other) ELSE @,
                  !.bundle_mids = IF mid = Unset THEN @ ELSE AppendNew(@, mid)]
<1>1. flush_section(p) = [Parser(d) EXCEPT !.sections = p.sections]
  BY DEF flush_section
<1> HIDE DEF d
<1>2. flush_section(p) = At(d, "none", NoApplication, p.sections)
  BY <1>1 DEF Parser, At
<1>3. flush_section(p).d = d
  BY <1>2 DEF At
<1> QED
  BY <1>2, <1>3

\* Whatever stands in another section is kept, whoever reads it.
LEMMA SectionEnters ==
  ASSUME NEW s \in Section
  PROVE  MidOf(s) \in Mids \cup {Unset} /\ Enters(s, MidOf(s)) /\ s \in Seq(Input)
<1>1. PICK line \in Media, rest \in Seq(Verbatim) : s = <<line>> \o rest
  BY DEF Section
<1> DEFINE S(u) == <<line>> \o u
           G == {u \in Seq(Verbatim) : \E mid \in Mids \cup {Unset} : Enters(S(u), mid)}
<1>2. line \in Input /\ line.key = "m" /\ line.value # "application" /\ Verbatim \subseteq Input
  BY DEF Media, Verbatim
<1>3. ASSUME NEW u \in Seq(Verbatim), NEW l \in Verbatim
      PROVE  S(u) \in Seq(Input) /\ S(Append(u, l)) = Append(S(u), l) /\ l \in Input
  <2>1. u \in Seq(Input) /\ l \in Input /\ <<line>> \in Seq(Input)
    BY <1>2, MoreSeqs
  <2> QED
    BY <2>1
<1>4. S(<<>>) = <<line>>
  BY <1>2
<1> HIDE DEF S
<1>5. <<>> \in G
  <2>1. ASSUME NEW p, p.kind # "error"
        PROVE  Feed(p, line) = In(flush_section(p).d, <<line>>, Unset, p.sections + 1)
    <3> DEFINE f == flush_section(p)
               n == p.sections
    <3>1. f = At(f.d, "none", NoApplication, n)
      BY FlushedIs
    <3>2. ReadLine(p, line) = ReadMedia(p, line)
      BY <1>2 DEF ReadLine, SessionKey, SessionAttr
    <3>3. ReadMedia(p, line) = [[f EXCEPT !.sections = f.sections + 1]
                                  EXCEPT !.kind = "other", !.other = <<line>>]
      BY <1>2 DEF ReadMedia
    <3> DEFINE d == f.d
               k == f.sections + 1
    <3>4. f.sections = n
      BY <3>1 DEF At
    <3>5. k = n + 1
      BY <3>4
    <3> HIDE DEF f, n, d, k
    <3>6. f = At(d, "none", NoApplication, n)
      BY <3>1 DEF d
    <3>7. ReadMedia(p, line) = In(d, <<line>>, Unset, k)
      BY <3>3, <3>6 DEF At, In, k
    <3>8. Feed(p, line) = ReadLine(p, line)
      <4>1. line.key \notin NumberAttr \cup {"candidate"}
        BY <1>2 DEF NumberAttr
      <4> QED
        BY <2>1, <4>1, OtherLinesFit, Fed
    <3> QED
      BY <3>2, <3>5, <3>7, <3>8 DEF f, d, n
  <2>2. ASSUME NEW p, p.kind # "error"
        PROVE  Reads(p, <<line>>) = In(flush_section(p).d, <<line>>, Unset, p.sections + 1)
    BY <2>1, <2>2, ReadsOne
  <2>3. Enters(S(<<>>), Unset)
    BY <1>4, <2>2 DEF Enters
  <2> QED
    BY <2>3
<1>6. Lines!Grows(G, Verbatim)
  <2> SUFFICES ASSUME NEW u \in Seq(Verbatim), NEW l \in Verbatim, u \in G
               PROVE  Append(u, l) \in G
    BY DEF Lines!Grows
  <2>1. PICK mid \in Mids \cup {Unset} : Enters(S(u), mid)
    OBVIOUS
  <2> DEFINE mid2 == IF l.key = "mid" THEN trim(l.value) ELSE mid
             t == S(u)
  <2>2. mid2 \in Mids \cup {Unset}
    BY <1>3, DescriptionAssumption, TrimmedIsMid
  <2>3. l.key \notin {"m", "o"}
    BY DEF Verbatim
  <2>4. t \in Seq(Input) /\ S(Append(u, l)) = Append(t, l) /\ l \in Input
    BY <1>3
  <2>5. Enters(t, mid)
    BY <2>1
  <2> HIDE DEF t, mid2
  <2>6. ASSUME NEW p, p.kind # "error"
        PROVE  Reads(p, Append(t, l)) = In(flush_section(p).d, Append(t, l), mid2, p.sections + 1)
    <3> DEFINE d == flush_section(p).d
               n == p.sections + 1
               q == In(d, t, mid, n)
               w == Append(t, l)
    <3>1. Reads(p, t) = q
      BY <2>5, <2>6 DEF Enters
    <3>2. Reads(p, w) = Feed(Reads(p, t), l)
      BY <2>4, ReadsMore
    <3> HIDE DEF d, n, w
    <3>3. q.kind = "other" /\ q.other = t /\ q.other_mid = mid
      BY DEF In
    <3>4. q = In(d, t, mid, n)
      OBVIOUS
    <3> HIDE DEF q
    <3>5. [q EXCEPT !.other = w, !.other_mid = mid2] = In(d, w, mid2, n)
      <4>1. [q EXCEPT !.other = w] = In(d, w, mid, n)
        BY ONLY <3>4 DEF In
      <4>2. [In(d, w, mid, n) EXCEPT !.other_mid = mid2] = In(d, w, mid2, n)
        BY ONLY DEF In
      <4>3. [q EXCEPT !.other = w, !.other_mid = mid2]
              = [[q EXCEPT !.other = w] EXCEPT !.other_mid = mid2]
        BY ONLY <3>4 DEF In
      <4> QED
        BY ONLY <4>1, <4>2, <4>3
    <3>6. ReadLine(q, l) = ReadVerbatim(q, l)
      BY <2>3, <3>3 DEF ReadLine
    <3>7. ReadVerbatim(q, l) = [q EXCEPT !.other = Append(q.other, l),
                                         !.other_mid = IF l.key = "mid" THEN trim(l.value)
                                                          ELSE q.other_mid]
      BY DEF ReadVerbatim
    <3>8. ReadVerbatim(q, l) = [q EXCEPT !.other = w, !.other_mid = mid2]
      BY <3>3, <3>7 DEF w, mid2
    <3>9. Feed(q, l) = ReadLine(q, l)
      BY <3>3 DEF Feed, Malformed
    <3> QED
      BY <3>1, <3>2, <3>5, <3>6, <3>8, <3>9 DEF d, n, w
  <2>7. Enters(S(Append(u, l)), mid2)
    BY <2>4, <2>6 DEF Enters
  <2>8. Append(u, l) \in Seq(Verbatim)
    OBVIOUS
  <2> QED
    BY <2>2, <2>7, <2>8
<1> HIDE DEF G
<1>7. rest \in G
  BY <1>5, <1>6, Lines!SeqInduction
<1>8. PICK mid \in Mids \cup {Unset} : Enters(s, mid)
  BY <1>1, <1>7 DEF G, S
<1>9. MidOf(s) = mid
  <2> DEFINE p == Parser(new("Unspec", "ActPass"))
  <2>1. Reads(p, s) = In(flush_section(p).d, s, mid, p.sections + 1)
    <3>1. p.kind = "none"
      BY DEF Parser
    <3> QED
      BY <1>8, <3>1 DEF Enters
  <2> HIDE DEF p
  <2>2. Reads(p, s).other_mid = mid
    BY <2>1 DEF In
  <2> QED
    BY <2>2 DEF MidOf, p
<1>10. s \in Seq(Input)
  <2>1. rest \in Seq(Input) /\ <<line>> \in Seq(Input)
    BY <1>2, MoreSeqs
  <2> QED
    BY <1>1, <2>1
<1> QED
  BY <1>8, <1>9, <1>10

\* b is a and the mids of the sections ss.
Joined(b, a, ss) ==
  /\ b \in Seq(Mids) /\ Len(a) <= Len(b) /\ \A i \in 1..Len(a) : b[i] = a[i]
  /\ \A k \in DOMAIN ss : MidOf(ss[k]) # Unset => Contains(b, MidOf(ss[k]))
  /\ (\A k \in DOMAIN ss : MidOf(ss[k]) # Unset => Contains(a, MidOf(ss[k]))) => b = a

LEMMA JoinedNone ==
  ASSUME NEW a \in Seq(Mids)
  PROVE  Joined(a, a, <<>>)
<1>1. Len(a) \in Nat
  OBVIOUS
<1> QED
  BY <1>1 DEF Joined

\* The group with one more mid.
Grown(b, mid) == IF mid = Unset THEN b ELSE AppendNew(b, mid)

\* What a section adds to the group.
LEMMA GrownIs ==
  ASSUME NEW b \in Seq(Mids), NEW mid \in Mids \cup {Unset}
  PROVE  /\ Grown(b, mid) \in Seq(Mids) /\ Len(b) <= Len(Grown(b, mid))
         /\ \A i \in 1..Len(b) : Grown(b, mid)[i] = b[i]
         /\ \A x : Contains(b, x) => Contains(Grown(b, mid), x)
         /\ mid # Unset => Contains(Grown(b, mid), mid)
         /\ (mid # Unset => Contains(b, mid)) => Grown(b, mid) = b
<1>1. Len(b) \in Nat
  OBVIOUS
<1>2. CASE mid = Unset
  BY <1>1, <1>2 DEF Grown
<1>3. CASE mid # Unset
  <2>1. Grown(b, mid) = AppendNew(b, mid) /\ mid \in Mids
    BY <1>3 DEF Grown
  <2>2. /\ AppendNew(b, mid) \in Seq(Mids) /\ Contains(AppendNew(b, mid), mid)
        /\ \A x : Contains(b, x) => Contains(AppendNew(b, mid), x)
    BY <2>1, AppendNewKeeps
  <2>3. Contains(b, mid) => AppendNew(b, mid) = b
    BY DEF AppendNew
  <2>4. /\ Len(b) <= Len(AppendNew(b, mid))
        /\ \A i \in 1..Len(b) : AppendNew(b, mid)[i] = b[i]
    <3>1. CASE Contains(b, mid)
      BY <1>1, <2>3, <3>1
    <3>2. CASE ~Contains(b, mid)
      <4>1. AppendNew(b, mid) = Append(b, mid)
        BY <3>2 DEF AppendNew
      <4>2. Len(Append(b, mid)) = Len(b) + 1 /\ \A i \in 1..Len(b) : Append(b, mid)[i] = b[i]
        BY <2>1
      <4> QED
        BY <1>1, <4>1, <4>2
    <3> QED
      BY <3>1, <3>2
  <2> QED
    BY <1>3, <2>1, <2>2, <2>3, <2>4
<1> QED
  BY <1>2, <1>3

\* One section more.
LEMMA JoinedMore ==
  ASSUME NEW a \in Seq(Mids), NEW ss \in Seq(Section), NEW b, Joined(b, a, ss), NEW s \in Section
  PROVE  Joined(Grown(b, MidOf(s)), a, Append(ss, s))
<1> DEFINE mid == MidOf(s)
           c == Grown(b, mid)
           tt == Append(ss, s)
           n == Len(ss)
<1>1. /\ b \in Seq(Mids) /\ Len(a) <= Len(b) /\ (\A i \in 1..Len(a) : b[i] = a[i])
      /\ \A k \in DOMAIN ss : MidOf(ss[k]) # Unset => Contains(b, MidOf(ss[k]))
      /\ (\A k \in DOMAIN ss : MidOf(ss[k]) # Unset => Contains(a, MidOf(ss[k]))) => b = a
  BY DEF Joined
<1>2. mid \in Mids \cup {Unset}
  BY SectionEnters
<1>3. /\ DOMAIN ss = 1..n /\ DOMAIN tt = 1..n + 1 /\ tt[n + 1] = s /\ n + 1 \in DOMAIN tt
      /\ \A k \in 1..n : tt[k] = ss[k] /\ k \in DOMAIN tt
      /\ \A k \in DOMAIN tt : k = n + 1 \/ k \in 1..n
  OBVIOUS
<1> HIDE DEF mid
<1>4. /\ c \in Seq(Mids) /\ Len(b) <= Len(c) /\ (\A i \in 1..Len(b) : c[i] = b[i])
      /\ (\A x : Contains(b, x) => Contains(c, x))
      /\ (mid # Unset => Contains(c, mid))
      /\ (mid # Unset => Contains(b, mid)) => c = b
  <2>1. ASSUME NEW b2 \in Seq(Mids), NEW m2 \in Mids \cup {Unset}
        PROVE  /\ Grown(b2, m2) \in Seq(Mids) /\ Len(b2) <= Len(Grown(b2, m2))
               /\ (\A i \in 1..Len(b2) : Grown(b2, m2)[i] = b2[i])
               /\ (\A x : Contains(b2, x) => Contains(Grown(b2, m2), x))
               /\ (m2 # Unset => Contains(Grown(b2, m2), m2))
               /\ (m2 # Unset => Contains(b2, m2)) => Grown(b2, m2) = b2
    BY GrownIs
  <2> QED
    BY <1>1, <1>2, <2>1
<1> HIDE DEF c, tt, n
<1>5. Len(a) <= Len(c) /\ \A i \in 1..Len(a) : c[i] = a[i]
  <2>1. Len(a) \in Nat /\ Len(b) \in Nat /\ Len(c) \in Nat
    BY <1>1, <1>4
  <2>2. \A i \in 1..Len(a) : i \in 1..Len(b)
    BY <1>1, <2>1
  <2> QED
    BY <1>1, <1>4, <2>1, <2>2
<1>6. ASSUME NEW k \in DOMAIN tt, MidOf(tt[k]) # Unset PROVE Contains(c, MidOf(tt[k]))
  <2>1. CASE k = n + 1
    BY <1>3, <1>4, <1>6, <2>1 DEF mid
  <2>2. CASE k \in 1..n
    BY <1>1, <1>3, <1>4, <1>6, <2>2
  <2> QED
    BY <1>3, <2>1, <2>2
<1>7. ASSUME \A k \in DOMAIN tt : MidOf(tt[k]) # Unset => Contains(a, MidOf(tt[k]))
      PROVE  c = a
  <2>1. \A k \in DOMAIN ss : MidOf(ss[k]) # Unset => Contains(a, MidOf(ss[k]))
    BY <1>3, <1>7
  <2>2. b = a
    BY <1>1, <2>1
  <2>3. mid # Unset => Contains(a, mid)
    BY <1>3, <1>7 DEF mid
  <2> QED
    BY <1>4, <2>2, <2>3
<1> QED
  BY <1>4, <1>5, <1>6, <1>7 DEF Joined, c, tt, mid

\* What the sections ss make of a description that had none.
WithSections(d, ss, b) == [d EXCEPT !.other_sections = ss, !.bundle_mids = b]

Full(d) == d = [f \in Field |-> d[f]]

\* All the other sections, by induction on how many they are.
LEMMA SectionsTaken ==
  ASSUME NEW p, p.kind # "error",
         Full(flush_section(p).d), flush_section(p).d.other_sections = <<>>,
         flush_section(p).d.bundle_mids \in Seq(Mids), NEW sections \in Seq(Section)
  PROVE  /\ IsList(FlattenSeq(sections))
         /\ \E b : /\ Joined(b, flush_section(p).d.bundle_mids, sections)
                   /\ flush_section(Reads(p, FlattenSeq(sections))).d
                        = WithSections(flush_section(p).d, sections, b)
                   /\ Reads(p, FlattenSeq(sections)).kind # "error"
<1> DEFINE d == flush_section(p).d
           a == d.bundle_mids
           R(ss) == Reads(p, FlattenSeq(ss))
           Q(ss, b) == /\ Joined(b, a, ss)
                       /\ flush_section(R(ss)).d = WithSections(d, ss, b)
                       /\ R(ss).kind # "error"
           G == {ss \in Seq(Section) : FlattenSeq(ss) \in Seq(Input) /\ \E b : Q(ss, b)}
<1>1. Full(d) /\ d.other_sections = <<>> /\ a \in Seq(Mids)
  OBVIOUS
<1> HIDE DEF d
<1>2. <<>> \in G
  <2>1. Joined(a, a, <<>>)
    BY <1>1, JoinedNone
  <2>2. FlattenSeq(<<>>) = <<>> /\ <<>> \in Seq(Input) /\ <<>> \in Seq(Section)
    <3>1. FlattenSeq(<<>>) = <<>>
      BY Lines!FlattenEmpty, FlattenIsSame
    <3>2. \A X : <<>> \in Seq(X)
      OBVIOUS
    <3> QED
      BY ONLY <3>1, <3>2
  <2>3. R(<<>>) = p
    BY <2>2, ReadsNothing
  <2>4. WithSections(d, <<>>, a) = d
    BY <1>1 DEF WithSections, Full, Field
  <2>5. Q(<<>>, a)
    BY <2>1, <2>3, <2>4 DEF d
  <2> HIDE DEF Q
  <2> QED
    BY <2>2, <2>5
<1>3. Lines!Grows(G, Section)
  <2> SUFFICES ASSUME NEW ss \in Seq(Section), NEW s \in Section, ss \in G
               PROVE  Append(ss, s) \in G
    BY DEF Lines!Grows
  <2>1. PICK b : Q(ss, b)
    OBVIOUS
  <2> DEFINE t == FlattenSeq(ss)
             tt == Append(ss, s)
             mid == MidOf(s)
             q == R(ss)
             e == flush_section(q).d
             c == Grown(b, mid)
  <2>2. t \in Seq(Input)
    OBVIOUS
  <2>3. mid \in Mids \cup {Unset} /\ Enters(s, mid) /\ s \in Seq(Input)
    BY SectionEnters
  <2>4. FlattenSeq(tt) = t \o s
    <3>1. Section \subseteq Seq(Input)
      BY DEF Section
    <3>2. ss \in Seq(Seq(Input))
      BY <3>1, MoreSeqs
    <3> QED
      <4>1. Lines!FlattenSeq(Append(ss, s)) = Lines!FlattenSeq(ss) \o s
        BY ONLY <2>3, <3>2, Lines!FlattenAppend
      <4> QED
        BY <4>1, FlattenIsSame
  <2>5. t \o s \in Seq(Input) /\ tt \in Seq(Section)
    BY <2>2, <2>3
  <2>6. R(tt) = Reads(q, s)
    <3>1. IsList(t) /\ IsList(s)
      BY <2>2, <2>3, SeqIsList
    <3> HIDE DEF t
    <3>2. Reads(p, t \o s) = Reads(Reads(p, t), s)
      BY <3>1, ReadsOn
    <3> QED
      BY <2>4, <3>2 DEF t
  <2>7. Reads(q, s) = In(e, s, mid, q.sections + 1)
    BY <2>1, <2>3 DEF Enters
  <2>8. e = WithSections(d, ss, b) /\ Joined(b, a, ss)
    BY <2>1
  <2>9. Joined(c, a, tt)
    BY <1>1, <2>8, JoinedMore
  <2>10. flush_section(R(tt)).d = WithSections(d, tt, c)
    <3> DEFINE n == q.sections + 1
               i == In(e, s, mid, n)
               others == Append(e.other_sections, s)
               mids == Grown(e.bundle_mids, mid)
    <3>1. R(tt) = i
      BY <2>6, <2>7
    <3>2. i.kind = "other" /\ i.d = e /\ i.other = s /\ i.other_mid = mid
      BY DEF In
    <3>3. e.other_sections = ss /\ e.bundle_mids = b /\ e.application = d.application
          /\ DOMAIN e = Field
      BY <1>1, <2>8 DEF WithSections, Full, Field
    <3> HIDE DEF i, e, c, n
    <3> DEFINE f == [e EXCEPT !.application = e.application, !.other_sections = others,
                              !.bundle_mids = mids]
    <3>4. flush_section(i).d = f
      <4>1. flush_section(i) = [Parser(f) EXCEPT !.sections = i.sections]
        BY <3>2, <3>3 DEF flush_section, Grown, Field
      <4> HIDE DEF f
      <4> QED
        BY <4>1 DEF Parser
    <3>5. others = tt /\ mids = c
      BY <3>3 DEF c
    <3> HIDE DEF others, mids, tt
    <3>6. f = WithSections(d, tt, c)
      BY <1>1, <2>8, <3>3, <3>5 DEF WithSections, Full, Field
    <3> QED
      BY <3>1, <3>4, <3>6
  <2>11. R(tt).kind # "error"
    <3>1. In(e, s, mid, q.sections + 1).kind = "other"
      BY DEF In
    <3> QED
      BY <2>6, <2>7, <3>1
  <2>12. Q(tt, c)
    BY <2>9, <2>10, <2>11
  <2> HIDE DEF Q, R, t
  <2> QED
    BY <2>4, <2>5, <2>12 DEF t
<1> HIDE DEF G
<1>4. sections \in G
  BY <1>2, <1>3, Lines!SeqInduction
<1>5. FlattenSeq(sections) \in Seq(Input) /\ \E b : Q(sections, b)
  BY <1>4 DEF G
<1> QED
  BY <1>5, SeqIsList DEF d

-----------------------------------------------------------------------------
(* The whole description                                                   *)

\* What is read back of x, given the group and the candidates.
Copy(x, mids, cs) ==
  [type |-> "Unspec", role |-> x.role, origin |-> x.origin, bundle_mids |-> mids,
   attr |-> x.attr, ice_options |-> x.ice_options, extmap_allow_mixed |-> x.extmap_allow_mixed,
   extra_attrs |-> x.extra_attrs,
   application |-> [x.application EXCEPT !.direction = Heading(x.application)],
   other_sections |-> x.other_sections, candidates |-> cs, ended |-> x.ended]

\* Without an application, only the session and the other sections are.
Bare(x, mids) ==
  [type |-> "Unspec", role |-> "ActPass", origin |-> x.origin, bundle_mids |-> mids,
   attr |-> Some(x, {"fingerprint"}), ice_options |-> x.ice_options,
   extmap_allow_mixed |-> x.extmap_allow_mixed, extra_attrs |-> x.extra_attrs,
   application |-> NoApplication, other_sections |-> x.other_sections, candidates |-> <<>>,
   ended |-> FALSE]

LEMMA CopyGrows ==
  ASSUME NEW x, NEW a, NEW b, NEW cs
  PROVE  WithSections([Copy(x, a, cs) EXCEPT !.other_sections = <<>>], x.other_sections, b)
           = Copy(x, b, cs)
<1> DEFINE r == x.role
           o == x.origin
           t == x.attr
           i == x.ice_options
           k == x.extmap_allow_mixed
           u == x.extra_attrs
           n == x.ended
           v == x.other_sections
           app == [x.application EXCEPT !.direction = Heading(x.application)]
           C(mids, others) ==
             [type |-> "Unspec", role |-> r, origin |-> o, bundle_mids |-> mids, attr |-> t,
              ice_options |-> i, extmap_allow_mixed |-> k, extra_attrs |-> u,
              application |-> app, other_sections |-> others, candidates |-> cs, ended |-> n]
<1>1. Copy(x, a, cs) = C(a, v) /\ Copy(x, b, cs) = C(b, v)
  BY DEF Copy
<1> HIDE DEF r, o, t, i, k, u, n, app
<1>2. [C(a, v) EXCEPT !.other_sections = <<>>] = C(a, <<>>)
  OBVIOUS
<1>3. [C(a, <<>>) EXCEPT !.other_sections = v] = C(a, v)
  OBVIOUS
<1>4. [C(a, v) EXCEPT !.bundle_mids = b] = C(b, v)
  OBVIOUS
<1> HIDE DEF C
<1> QED
  BY <1>1, <1>2, <1>3, <1>4 DEF WithSections

LEMMA BareGrows ==
  ASSUME NEW x, NEW a, NEW b
  PROVE  WithSections([Bare(x, a) EXCEPT !.other_sections = <<>>], x.other_sections, b)
           = Bare(x, b)
<1> DEFINE o == x.origin
           t == Some(x, {"fingerprint"})
           i == x.ice_options
           k == x.extmap_allow_mixed
           u == x.extra_attrs
           n == FALSE
           v == x.other_sections
           C(mids, others) ==
             [type |-> "Unspec", role |-> "ActPass", origin |-> o, bundle_mids |-> mids, attr |-> t,
              ice_options |-> i, extmap_allow_mixed |-> k, extra_attrs |-> u,
              application |-> NoApplication, other_sections |-> others, candidates |-> <<>>, ended |-> n]
<1>1. Bare(x, a) = C(a, v) /\ Bare(x, b) = C(b, v)
  BY DEF Bare
<1> HIDE DEF o, t, i, k, u, n
<1>2. [C(a, v) EXCEPT !.other_sections = <<>>] = C(a, <<>>)
  OBVIOUS
<1>3. [C(a, <<>>) EXCEPT !.other_sections = v] = C(a, v)
  OBVIOUS
<1>4. [C(a, v) EXCEPT !.bundle_mids = b] = C(b, v)
  OBVIOUS
<1> HIDE DEF C
<1> QED
  BY <1>1, <1>2, <1>3, <1>4 DEF WithSections

\* Header, application and sections make up what is read.
LEMMA ReadsThrough ==
  ASSUME NEW x, NEW q, NEW block, IsWritable(x),
         block = IF has_application(x) THEN write_application(x) ELSE <<>>,
         Takes(At(Headed(x), "none", NoApplication, 0), block, q),
         IsList(FlattenSeq(x.other_sections)),
         Reads(q, FlattenSeq(x.other_sections)).kind # "error"
  PROVE  Again(x) = flush_section(Reads(q, FlattenSeq(x.other_sections))).d
<1> DEFINE p == Parser(new("Unspec", "ActPass"))
           h == At(Headed(x), "none", NoApplication, 0)
           t == FlattenSeq(x.other_sections)
           head == Header(x)
           r == Reads(q, t)
<1>1. Takes(p, head, h)
  BY HeaderTaken DEF IsWritable
<1>2. generate_sdp(x) = head \o block \o t
  BY DEF generate_sdp, Header
<1>3. Again(x) = IF Reads(p, generate_sdp(x)).kind = "error" THEN Failed
                 ELSE flush_section(Reads(p, generate_sdp(x))).d
  BY DEF Again, parse, Reads
<1>4. r.kind # "error"
  OBVIOUS
<1>5. Takes(q, t, r)
  BY DEF Takes
<1>6. Takes(h, block, q)
  OBVIOUS
<1> HIDE DEF p, h, t, head, r
<1>7. Takes(p, head \o block, q)
  BY <1>1, <1>6, Then
<1>8. Takes(p, head \o block \o t, r)
  BY <1>5, <1>7, Then
<1>9. Reads(p, generate_sdp(x)) = r
  BY <1>2, <1>8 DEF Takes
<1> QED
  BY <1>3, <1>9, <1>4 DEF r, t

\* With an application, a copy is read back.
LEMMA CopyRead ==
  ASSUME NEW x, IsWritable(x), has_application(x)
  PROVE  \E mids, cs :
           /\ PushedFrom(cs, CandidatesOf(x, x.application.mid), x.application.mid)
           /\ Joined(mids, AppendNew(Spread(x.bundle_mids), x.application.mid), x.other_sections)
           /\ Again(x) = Copy(x, mids, cs)
<1> DEFINE mid == x.application.mid
           a == AppendNew(Spread(x.bundle_mids), mid)
           app == [x.application EXCEPT !.direction = Heading(x.application)]
           ss == x.other_sections
<1>1. PICK cs : /\ PushedFrom(cs, CandidatesOf(x, mid), mid)
                /\ Takes(At(Headed(x), "none", NoApplication, 0), write_application(x),
                         Applied(x, cs))
  BY ApplicationTaken
<1>2. mid \in Mids /\ app.mid = mid /\ Spread(x.bundle_mids) \in Seq(Mids) /\ ss \in Seq(Section)
  BY SpreadIs DEF IsWritable, AppSet
<1>3. a \in Seq(Mids)
  BY <1>2, AppendNewKeeps
<1> DEFINE q == Applied(x, cs)
           d == flush_section(q).d
           e == [Copy(x, a, cs) EXCEPT !.other_sections = <<>>]
<1>4. d = e
  <2> DEFINE r == x.role
             o == x.origin
             m == Spread(x.bundle_mids)
             t == x.attr
             i == x.ice_options
             k == x.extmap_allow_mixed
             u == x.extra_attrs
             n == x.ended
             g == Draft(r, o, m, t, i, k, u, cs, n)
             f == [g EXCEPT !.application = app, !.other_sections = g.other_sections,
                            !.bundle_mids = a]
  <2>1. q = At(g, "application", app, 1)
    BY DEF Applied
  <2>2. mid # Unset
    BY <1>2, MidsAreMids
  <2>3. e = [type |-> "Unspec", role |-> r, origin |-> o, bundle_mids |-> a, attr |-> t,
             ice_options |-> i, extmap_allow_mixed |-> k, extra_attrs |-> u,
             application |-> app, other_sections |-> <<>>, candidates |-> cs, ended |-> n]
    <3> DEFINE v == x.other_sections
    <3>1. Copy(x, a, cs) =
            [type |-> "Unspec", role |-> r, origin |-> o, bundle_mids |-> a, attr |-> t,
             ice_options |-> i, extmap_allow_mixed |-> k, extra_attrs |-> u,
             application |-> app, other_sections |-> v, candidates |-> cs, ended |-> n]
      BY DEF Copy
    <3> DEFINE c == Copy(x, a, cs)
    <3> HIDE DEF r, o, a, t, i, k, u, n, app, v, c
    <3>2. e = [c EXCEPT !.other_sections = <<>>]
      BY DEF c
    <3> HIDE DEF e
    <3>3. c = [type |-> "Unspec", role |-> r, origin |-> o, bundle_mids |-> a, attr |-> t,
               ice_options |-> i, extmap_allow_mixed |-> k, extra_attrs |-> u,
               application |-> app, other_sections |-> v, candidates |-> cs, ended |-> n]
      BY <3>1 DEF c
    <3> QED
      BY ONLY <3>2, <3>3
  <2>4. g.bundle_mids = m /\ a = AppendNew(m, mid)
    BY DEF Draft
  <2>5. g = [type |-> "Unspec", role |-> r, origin |-> o, bundle_mids |-> m, attr |-> t,
             ice_options |-> i, extmap_allow_mixed |-> k, extra_attrs |-> u,
             application |-> NoApplication, other_sections |-> <<>>, candidates |-> cs, ended |-> n]
    BY DEF Draft
  <2> HIDE DEF r, o, m, t, i, k, u, n, app, a, e, g
  <2>6. f = e
    <3> DEFINE C(mids, ap) ==
                 [type |-> "Unspec", role |-> r, origin |-> o, bundle_mids |-> mids, attr |-> t,
                  ice_options |-> i, extmap_allow_mixed |-> k, extra_attrs |-> u,
                  application |-> ap, other_sections |-> <<>>, candidates |-> cs, ended |-> n]
    <3>1. [C(m, NoApplication) EXCEPT !.application = app] = C(m, app)
      BY ONLY TRUE
    <3>2. [C(m, app) EXCEPT !.other_sections = <<>>] = C(m, app)
      BY ONLY TRUE
    <3>3. [C(m, app) EXCEPT !.bundle_mids = a] = C(a, app)
      BY ONLY TRUE
    <3>4. g = C(m, NoApplication) /\ g.other_sections = <<>> /\ e = C(a, app)
      BY ONLY <2>3, <2>5
    <3> HIDE DEF C
    <3> QED
      BY ONLY <3>1, <3>2, <3>3, <3>4
  <2>7. q.kind = "application" /\ q.d = g /\ q.app = app
    BY <2>1 DEF At
  <2> HIDE DEF q
  <2>8. flush_section(q) = [Parser(f) EXCEPT !.sections = q.sections]
    BY <1>2, <2>2, <2>4, <2>7 DEF flush_section
  <2> HIDE DEF f
  <2>9. flush_section(q).d = f
    BY <2>8 DEF Parser
  <2> QED
    BY <2>6, <2>9
<1>5. q.kind # "error"
  BY DEF Applied, At
<1> HIDE DEF d, q
<1>6. Full(d) /\ d.other_sections = <<>> /\ d.bundle_mids = a
  BY <1>4 DEF Copy, Full, Field
<1>7. PICK mids : /\ Joined(mids, a, ss) /\ IsList(FlattenSeq(ss))
                  /\ flush_section(Reads(q, FlattenSeq(ss))).d = WithSections(d, ss, mids)
                  /\ Reads(q, FlattenSeq(ss)).kind # "error"
  BY <1>2, <1>3, <1>6, <1>5, SectionsTaken DEF d
<1>8. Again(x) = WithSections(d, ss, mids)
  BY <1>1, <1>7, ReadsThrough DEF q
<1>9. WithSections(d, ss, mids) = Copy(x, mids, cs)
  <2> HIDE DEF ss, a
  <2> QED
    BY <1>4, CopyGrows DEF ss
<1> QED
  BY <1>1, <1>7, <1>8, <1>9

\* Without one, what the session has.
LEMMA BareRead ==
  ASSUME NEW x, IsWritable(x), ~has_application(x)
  PROVE  \E mids : /\ Joined(mids, Spread(x.bundle_mids), x.other_sections)
                   /\ Again(x) = Bare(x, mids)
<1> DEFINE a == Spread(x.bundle_mids)
           ss == x.other_sections
           q == At(Headed(x), "none", NoApplication, 0)
           d == flush_section(q).d
           e == [Bare(x, a) EXCEPT !.other_sections = <<>>]
<1>1. Takes(q, <<>>, q)
  BY TakesNothing
<1>2. a \in Seq(Mids) /\ ss \in Seq(Section)
  BY SpreadIs DEF IsWritable
<1>3. d = e
  <2> DEFINE o == x.origin
             t == Some(x, {"fingerprint"})
             i == x.ice_options
             k == x.extmap_allow_mixed
             u == x.extra_attrs
             n == FALSE
             g == Headed(x)
             f == [g EXCEPT !.application = g.application, !.other_sections = g.other_sections,
                            !.bundle_mids = g.bundle_mids]
  <2>1. g = [type |-> "Unspec", role |-> "ActPass", origin |-> o, bundle_mids |-> a, attr |-> t,
             ice_options |-> i, extmap_allow_mixed |-> k, extra_attrs |-> u,
             application |-> NoApplication, other_sections |-> <<>>, candidates |-> <<>>,
             ended |-> n]
    BY DEF Headed, Draft
  <2>2. e = [type |-> "Unspec", role |-> "ActPass", origin |-> o, bundle_mids |-> a, attr |-> t,
             ice_options |-> i, extmap_allow_mixed |-> k, extra_attrs |-> u,
             application |-> NoApplication, other_sections |-> <<>>, candidates |-> <<>>,
             ended |-> n]
    <3> DEFINE c == Bare(x, a)
    <3>1. c = [type |-> "Unspec", role |-> "ActPass", origin |-> o, bundle_mids |-> a, attr |-> t,
               ice_options |-> i, extmap_allow_mixed |-> k, extra_attrs |-> u,
               application |-> NoApplication, other_sections |-> ss, candidates |-> <<>>,
               ended |-> n]
      BY DEF Bare
    <3> HIDE DEF o, a, t, i, k, u, n, ss, c
    <3>2. e = [c EXCEPT !.other_sections = <<>>]
      BY DEF c
    <3> HIDE DEF e
    <3> QED
      BY ONLY <3>1, <3>2
  <2>3. q.kind = "none" /\ q.d = g /\ q.other_mid = Unset
    BY DEF At
  <2> HIDE DEF o, a, t, i, k, u, n, e, g, q
  <2>4. f = g
    BY ONLY <2>1
  <2>5. flush_section(q) = [Parser(f) EXCEPT !.sections = q.sections]
    BY <2>3 DEF flush_section
  <2> HIDE DEF f
  <2>6. flush_section(q).d = f
    BY <2>5 DEF Parser
  <2> QED
    BY <2>1, <2>2, <2>4, <2>6
<1>4. Full(d) /\ d.other_sections = <<>> /\ d.bundle_mids = a
  <2> HIDE DEF d
  <2> QED
    BY <1>3 DEF Bare, Full, Field
<1>5. q.kind # "error"
  BY DEF At
<1>6. PICK mids : /\ Joined(mids, a, ss) /\ IsList(FlattenSeq(ss))
                  /\ flush_section(Reads(q, FlattenSeq(ss))).d = WithSections(d, ss, mids)
                  /\ Reads(q, FlattenSeq(ss)).kind # "error"
  <2> HIDE DEF q
  <2> QED
    BY <1>2, <1>4, <1>5, SectionsTaken DEF d
<1>7. Again(x) = WithSections(d, ss, mids)
  <2> HIDE DEF d
  <2> QED
    BY <1>1, <1>6, ReadsThrough
<1>8. WithSections(d, ss, mids) = Bare(x, mids)
  <2> HIDE DEF d
  <2> QED
    BY <1>3, BareGrows
<1> QED
  BY <1>6, <1>7, <1>8

LEMMA Prefixed ==
  ASSUME NEW X, NEW a \in Seq(X), NEW b \in Seq(X), Len(a) <= Len(b),
         \A i \in 1..Len(a) : b[i] = a[i]
  PROVE  IsPrefix(a, b)
<1> DEFINE n == Len(a)
           s == SubSeq(a, 1, n)
           t == SubSeq(b, 1, n)
<1>1. n \in Nat /\ Len(b) \in Nat /\ n <= Len(b) /\ \A i \in 1..n : i \in 1..Len(b)
  OBVIOUS
<1>2. s \in Seq(X) /\ Len(s) = n /\ \A i \in 1..n : s[i] = a[i]
  BY <1>1
<1>3. t \in Seq(X) /\ Len(t) = n /\ \A i \in 1..n : t[i] = b[i]
  <2>1. 1 \in Int /\ n \in Int /\ \A i \in 1..n : b[i] \in X
    BY <1>1
  <2>2. /\ t \in Seq(X) /\ Len(t) = (IF 1 <= n THEN n - 1 + 1 ELSE 0)
        /\ \A i \in 1..n - 1 + 1 : t[i] = b[1 + i - 1]
    BY ONLY <2>1, SubSeqProperties
  <2> HIDE DEF t
  <2> QED
    BY <1>1, <2>2
<1> HIDE DEF s, t
<1>4. s = t
  BY <1>2, <1>3
<1> QED
  BY <1>1, <1>4 DEF IsPrefix, s, t, n

\* The group with the application in it.
LEMMA GroupExtends ==
  ASSUME NEW a \in Seq(Mids), NEW mid \in Mids, NEW b, NEW ss, Joined(b, AppendNew(a, mid), ss)
  PROVE  IsPrefix(a, b) /\ Contains(b, mid) /\ b \in Seq(Mids)
<1> DEFINE c == Grown(a, mid)
<1>1. mid # Unset
  BY MidsAreMids
<1>2. c = AppendNew(a, mid)
  BY <1>1 DEF Grown
<1>3. /\ c \in Seq(Mids) /\ Len(a) <= Len(c) /\ (\A i \in 1..Len(a) : c[i] = a[i])
      /\ Contains(c, mid)
  BY <1>1, GrownIs
<1>4. /\ b \in Seq(Mids) /\ Len(c) <= Len(b) /\ (\A i \in 1..Len(c) : b[i] = c[i])
  BY <1>2 DEF Joined
<1> HIDE DEF c
<1>5. Len(a) \in Nat /\ Len(b) \in Nat /\ Len(c) \in Nat
  BY <1>3, <1>4
<1>6. (\A i \in 1..Len(a) : i \in 1..Len(c)) /\ (\A i \in 1..Len(c) : i \in 1..Len(b))
  BY <1>3, <1>4, <1>5
<1>7. Len(a) <= Len(b) /\ \A i \in 1..Len(a) : b[i] = a[i]
  BY <1>3, <1>4, <1>5, <1>6
<1>8. IsPrefix(a, b)
  BY <1>4, <1>7, Prefixed
<1>9. Contains(b, mid)
  BY <1>3, <1>4, <1>6 DEF Contains
<1> QED
  BY <1>4, <1>8, <1>9

LEMMA HeadingIs ==
  ASSUME NEW a \in AppSet
  PROVE  LET b == [a EXCEPT !.direction = Heading(a)]
         IN  b \in AppSet /\ b.mid = a.mid /\ [b EXCEPT !.direction = Heading(b)] = b
<1> DEFINE v == Heading(a)
           b == [a EXCEPT !.direction = v]
<1>1. v \in DirectionAttr
  BY DEF AppSet, Heading, DirectionAttr
<1>2. "unknown" \notin DirectionAttr
  BY DEF DirectionAttr
<1> HIDE DEF v
<1>3. b \in AppSet /\ b.mid = a.mid /\ b.direction = v
  BY <1>1 DEF AppSet
<1> HIDE DEF b
<1>4. Heading(b) = v
  BY <1>1, <1>2, <1>3 DEF Heading
<1>5. [b EXCEPT !.direction = v] = b
  BY <1>3 DEF AppSet
<1> QED
  BY <1>3, <1>4, <1>5 DEF b, v

\* A text that is one word is not empty.
LEMMA OneIsNotEmpty ==
  ASSUME NEW mid \in Mids, words(mid) = <<mid>>
  PROVE  mid # ""
<1> SUFFICES ASSUME mid = "" PROVE FALSE
  OBVIOUS
<1> DEFINE S == MidText \ DOMAIN Words
           s == Words[mid]
<1>1. mid \in DOMAIN Words /\ s \in Seq(S)
  BY WordsAssumption
<1>2. s = <<mid>>
  BY <1>1 DEF words
<1>3. mid \notin S
  BY <1>1
<1> HIDE DEF S, s
<1>4. Len(s) = 1 /\ s[1] = mid
  BY ONLY <1>2
<1>5. 1 \in 1..Len(s)
  BY ONLY <1>4
<1>6. s[1] \in S
  BY ONLY <1>1, <1>5, ElementOfSeq
<1> QED
  BY ONLY <1>3, <1>4, <1>6

\* A copy is read back as it is, if the group of it is.
LEMMA CopySettles ==
  ASSUME NEW x, IsWritable(x), has_application(x), OneWord(Again(x))
  PROVE  Again(Again(x)) = Again(x)
<1> DEFINE mid == x.application.mid
           app == [x.application EXCEPT !.direction = Heading(x.application)]
           ss == x.other_sections
<1>1. PICK mids, cs : /\ PushedFrom(cs, CandidatesOf(x, mid), mid)
                      /\ Joined(mids, AppendNew(Spread(x.bundle_mids), mid), ss)
                      /\ Again(x) = Copy(x, mids, cs)
  BY CopyRead
<1> DEFINE y == Copy(x, mids, cs)
<1>2. /\ x.application \in AppSet /\ mid \in Mids /\ Spread(x.bundle_mids) \in Seq(Mids)
  BY SpreadIs DEF IsWritable
<1>3. app \in AppSet /\ app.mid = mid /\ [app EXCEPT !.direction = Heading(app)] = app
  BY <1>2, HeadingIs
<1> HIDE DEF app, mid
<1>4. Contains(mids, mid) /\ mids \in Seq(Mids)
  BY <1>1, <1>2, GroupExtends
<1>5. /\ y.role = x.role /\ y.ended = x.ended /\ y.extmap_allow_mixed = x.extmap_allow_mixed
      /\ y.attr = x.attr /\ y.bundle_mids = mids /\ y.extra_attrs = x.extra_attrs
      /\ y.application = app /\ y.other_sections = ss /\ y.candidates = cs
      /\ y.origin = x.origin /\ y.ice_options = x.ice_options
  BY DEF Copy, app
<1>6. y = [type |-> "Unspec", role |-> y.role, origin |-> y.origin, bundle_mids |-> y.bundle_mids,
           attr |-> y.attr, ice_options |-> y.ice_options,
           extmap_allow_mixed |-> y.extmap_allow_mixed, extra_attrs |-> y.extra_attrs,
           application |-> y.application, other_sections |-> y.other_sections,
           candidates |-> y.candidates, ended |-> y.ended]
  BY <1>5 DEF Copy, app
<1>7. Spread(mids) = mids /\ mid # ""
  <2>1. Ones(mids)
    BY <1>1, <1>5 DEF OneWord, Ones
  <2>2. PICK i \in DOMAIN mids : mids[i] = mid
    BY <1>4 DEF Contains
  <2>3. words(mid) = <<mid>>
    BY <2>1, <2>2 DEF Ones
  <2>4. mid # ""
    BY <1>2, <2>3, OneIsNotEmpty
  <2>5. Spread(mids) = mids
    BY <1>4, <2>1, SpreadIs
  <2> QED
    BY <2>4, <2>5
<1> HIDE DEF y
<1>8. has_application(y)
  BY <1>2, <1>3, <1>5, HasMid DEF has_application
<1>9. /\ cs \in Seq(Cand) /\ Distinct(cs)
      /\ \A j \in DOMAIN cs : cs[j].mid = Given(mid) /\ Reparsed(cs[j], mid) = cs[j]
  BY <1>1 DEF PushedFrom
<1>10. \A key \in NumberAttr : app.number[key] \in Accepted(key) \cup {Unset}
  <2>1. app.number = x.application.number
    BY <1>2 DEF app, AppSet
  <2> QED
    BY <2>1 DEF IsWritable
<1>11. IsWritable(y)
  BY <1>2, <1>3, <1>4, <1>5, <1>9, <1>10 DEF IsWritable
<1>12. y.application.mid = mid
  BY <1>3, <1>5
<1>13. PICK mids2, cs2 : /\ PushedFrom(cs2, CandidatesOf(y, mid), mid)
                         /\ Joined(mids2, AppendNew(mids, mid), ss)
                         /\ Again(y) = Copy(y, mids2, cs2)
  <2>1. \E mids2, cs2 : /\ PushedFrom(cs2, CandidatesOf(y, y.application.mid), y.application.mid)
                        /\ Joined(mids2, AppendNew(Spread(y.bundle_mids), y.application.mid),
                                  y.other_sections)
                        /\ Again(y) = Copy(y, mids2, cs2)
    BY <1>8, <1>11, CopyRead
  <2> QED
    BY <1>5, <1>12, <1>7, <2>1
<1>14. CandidatesOf(y, mid) = cs
  <2>1. {i \in DOMAIN cs : mid_of(cs[i]) = mid} = DOMAIN cs
    BY <1>2, <1>9, <1>7, MidsAreMids DEF mid_of, Given
  <2>2. Kept(cs, DOMAIN cs) = cs
    BY <1>9, KeptAll
  <2> QED
    BY <1>5, <2>1, <2>2 DEF CandidatesOf
<1>15. cs2 = cs
  <2>1. Distinct(cs) /\ (\A i \in DOMAIN cs : Reparsed(cs[i], mid) = cs[i]) => cs2 = cs
    BY <1>13, <1>14 DEF PushedFrom
  <2> QED
    BY <1>9, <2>1
<1>16. AppendNew(mids, mid) = mids
  BY <1>4 DEF AppendNew
<1>17. mids2 = mids
  <2>1. \A k \in DOMAIN ss : MidOf(ss[k]) # Unset => Contains(mids, MidOf(ss[k]))
    BY <1>1 DEF Joined
  <2>2. (\A k \in DOMAIN ss : MidOf(ss[k]) # Unset => Contains(mids, MidOf(ss[k]))) => mids2 = mids
    BY <1>13, <1>16 DEF Joined
  <2> QED
    BY <2>1, <2>2
<1>18. Copy(y, mids, cs) = y
  <2>1. [y.application EXCEPT !.direction = Heading(y.application)] = y.application
    BY <1>3, <1>5
  <2>2. Copy(y, y.bundle_mids, y.candidates) = y
    BY <1>6, <2>1 DEF Copy
  <2> QED
    BY <1>5, <2>2
<1> QED
  BY <1>1, <1>13, <1>15, <1>17, <1>18 DEF y

LEMMA BareSettles ==
  ASSUME NEW x, IsWritable(x), ~has_application(x), OneWord(Again(x))
  PROVE  Again(Again(x)) = Again(x)
<1> DEFINE ss == x.other_sections
           K == {"fingerprint"}
<1>1. PICK mids : Joined(mids, Spread(x.bundle_mids), ss) /\ Again(x) = Bare(x, mids)
  BY BareRead
<1> DEFINE y == Bare(x, mids)
<1>2. /\ y.role = "ActPass" /\ y.ended = FALSE /\ y.extmap_allow_mixed = x.extmap_allow_mixed
      /\ y.attr = Some(x, K) /\ y.bundle_mids = mids /\ y.extra_attrs = x.extra_attrs
      /\ y.application = NoApplication /\ y.other_sections = ss /\ y.candidates = <<>>
      /\ y.origin = x.origin /\ y.ice_options = x.ice_options
  BY DEF Bare
<1>3. mids \in Seq(Mids)
  BY <1>1 DEF Joined
<1>4. Spread(mids) = mids
  <2>1. Ones(mids)
    BY <1>1, <1>2 DEF OneWord, Ones
  <2> QED
    BY <1>3, <2>1, SpreadIs
<1>5. Some(y, K) = y.attr /\ y.attr = [key \in SessionAttr |-> y.attr[key]]
  <2> DEFINE t == Some(x, K)
  <2>1. t = [key \in SessionAttr |-> IF key \in K THEN x.attr[key] ELSE Unset]
    BY DEF Some
  <2>2. Some(y, K) = [key \in SessionAttr |-> IF key \in K THEN t[key] ELSE Unset]
    BY <1>2 DEF Some
  <2>3. y.attr = t
    BY <1>2
  <2> HIDE DEF t, y, K
  <2>4. \A key \in SessionAttr : t[key] = IF key \in K THEN x.attr[key] ELSE Unset
    BY <2>1
  <2>5. [key \in SessionAttr |-> IF key \in K THEN t[key] ELSE Unset] = t
    BY <2>1, <2>4
  <2>6. t = [key \in SessionAttr |-> t[key]]
    BY <2>1
  <2> QED
    BY <2>2, <2>3, <2>5, <2>6
<1>6. NoApplication \in AppSet
  BY DEF NoApplication, Application, AppSet, DirectionAttr
<1>7. \A key \in NumberAttr : NoApplication.number[key] \in Accepted(key) \cup {Unset}
  BY DEF NoApplication, Application
<1> HIDE DEF y
<1>8. ~has_application(y)
  BY <1>2 DEF has_application
<1>9. <<>> \in Seq(Cand) /\ Distinct(<<>>) /\ "ActPass" \in Role /\ FALSE \in BOOLEAN
  BY DEF Distinct, Role
<1>10. /\ x.extmap_allow_mixed \in BOOLEAN /\ x.extra_attrs \in Seq(Plain) /\ ss \in Seq(Section)
  BY DEF IsWritable
<1>11. IsWritable(y)
  <2>1. /\ y.role \in Role /\ y.ended \in BOOLEAN
        /\ y.candidates \in Seq(Cand) /\ Distinct(y.candidates)
    BY <1>2, <1>9
  <2> QED
    BY <1>2, <1>3, <1>5, <1>6, <1>8, <1>10, <1>7, <2>1 DEF IsWritable
<1>12. PICK mids2 : Joined(mids2, mids, ss) /\ Again(y) = Bare(y, mids2)
  <2>1. \E mids2 : /\ Joined(mids2, Spread(y.bundle_mids), y.other_sections)
                   /\ Again(y) = Bare(y, mids2)
    BY <1>8, <1>11, BareRead
  <2> QED
    BY <1>2, <1>4, <2>1
<1>13. mids2 = mids
  <2>1. \A k \in DOMAIN ss : MidOf(ss[k]) # Unset => Contains(mids, MidOf(ss[k]))
    BY <1>1 DEF Joined
  <2>2. (\A k \in DOMAIN ss : MidOf(ss[k]) # Unset => Contains(mids, MidOf(ss[k]))) => mids2 = mids
    BY <1>12 DEF Joined
  <2> QED
    BY <2>1, <2>2
<1>14. Bare(y, mids) = y
  <2>1. Bare(y, mids) =
          [type |-> "Unspec", role |-> "ActPass", origin |-> x.origin, bundle_mids |-> mids,
           attr |-> Some(x, K), ice_options |-> x.ice_options,
           extmap_allow_mixed |-> x.extmap_allow_mixed, extra_attrs |-> x.extra_attrs,
           application |-> NoApplication, other_sections |-> ss, candidates |-> <<>>,
           ended |-> FALSE]
    BY <1>2, <1>5 DEF Bare
  <2> QED
    BY <2>1 DEF y, Bare
<1> QED
  BY <1>1, <1>12, <1>13, <1>14 DEF y

\* Candidates with the same texts have the same endpoint.
LEMMA EndpointKept ==
  ASSUME NEW c, NEW e, Same(c, e)
  PROVE  Endpoint(c) = Endpoint(e)
<1>1. c.node = e.node /\ c.service = e.service
  BY DEF Same
<1> QED
  BY <1>1 DEF Endpoint, is_resolved

\* Whatever is written of a description is in what is read.
LEMMA CopyLosesNothing ==
  ASSUME NEW x, IsWritable(x), has_application(x)
  PROVE  LET y == Again(x)
         IN  /\ y.application = [x.application EXCEPT !.direction = Heading(x.application)]
             /\ \A field \in {"role", "origin", "attr", "ice_options", "extmap_allow_mixed",
                              "extra_attrs", "other_sections", "ended"} : y[field] = x[field]
             /\ (OneWord(x) => IsPrefix(x.bundle_mids, y.bundle_mids))
             /\ \A i \in DOMAIN x.candidates :
                  mid_of(x.candidates[i]) = x.application.mid =>
                    \E j \in DOMAIN y.candidates :
                       /\ y.candidates[j].foundation = x.candidates[i].foundation
                       /\ Endpoint(y.candidates[j]) = Endpoint(x.candidates[i])
<1> DEFINE mid == x.application.mid
           app == [x.application EXCEPT !.direction = Heading(x.application)]
           u == CandidatesOf(x, mid)
           y == Again(x)
           I == {i \in DOMAIN x.candidates : mid_of(x.candidates[i]) = mid}
<1>1. PICK mids, cs : /\ PushedFrom(cs, u, mid)
                      /\ Joined(mids, AppendNew(Spread(x.bundle_mids), mid), x.other_sections)
                      /\ y = Copy(x, mids, cs)
  BY CopyRead
<1>2. /\ mid \in Mids /\ x.bundle_mids \in Seq(Mids) /\ x.candidates \in Seq(Cand)
  BY DEF IsWritable
<1> HIDE DEF y, u
<1>3. /\ y.role = x.role /\ y.ended = x.ended /\ y.extmap_allow_mixed = x.extmap_allow_mixed
      /\ y.attr = x.attr /\ y.bundle_mids = mids /\ y.extra_attrs = x.extra_attrs
      /\ y.application = app /\ y.other_sections = x.other_sections /\ y.candidates = cs
      /\ y.origin = x.origin /\ y.ice_options = x.ice_options
  BY <1>1 DEF Copy
<1>4. OneWord(x) => IsPrefix(x.bundle_mids, mids)
  <2>1. /\ Spread(x.bundle_mids) \in Seq(Mids)
        /\ (Ones(x.bundle_mids) => Spread(x.bundle_mids) = x.bundle_mids)
    BY <1>2, SpreadIs
  <2>2. IsPrefix(Spread(x.bundle_mids), mids)
    BY <1>1, <1>2, <2>1, GroupExtends
  <2> QED
    BY <2>1, <2>2 DEF OneWord, Ones
<1> HIDE DEF app, mid
<1>5. \A field \in {"role", "origin", "attr", "ice_options", "extmap_allow_mixed",
                    "extra_attrs", "other_sections", "ended"} : y[field] = x[field]
  BY <1>3
<1>6. ASSUME NEW i \in DOMAIN x.candidates, mid_of(x.candidates[i]) = mid
      PROVE  \E j \in DOMAIN cs : /\ cs[j].foundation = x.candidates[i].foundation
                                  /\ Endpoint(cs[j]) = Endpoint(x.candidates[i])
  <2> DEFINE c == x.candidates[i]
             r == Reparsed(c, mid)
  <2>1. u = Kept(x.candidates, I) /\ I \in SUBSET (DOMAIN x.candidates) /\ i \in I
    BY <1>6 DEF u, CandidatesOf
  <2> HIDE DEF I
  <2>2. KeptFrom(u, x.candidates, I)
    BY <1>2, <2>1, KeptIs
  <2>3. PICK k \in DOMAIN u : u[k] = c
    BY <2>1, <2>2 DEF KeptFrom
  <2>4. PICK j \in DOMAIN cs : Same(cs[j], r)
    <3>1. \E j \in DOMAIN cs : Same(cs[j], Reparsed(u[k], mid))
      BY <1>1 DEF PushedFrom
    <3> QED
      BY <2>3, <3>1
  <2>5. c \in Cand
    BY <1>2
  <2>6. r.foundation = c.foundation /\ Endpoint(r) = Endpoint(c)
    BY <1>2, <2>5, SpellingSettles DEF Spelled
  <2> HIDE DEF r, c
  <2>7. cs[j].foundation = c.foundation /\ Endpoint(cs[j]) = Endpoint(c)
    BY <2>4, <2>6, EndpointKept DEF Same
  <2> QED
    BY <2>7 DEF c
<1> QED
  BY <1>3, <1>4, <1>5, <1>6 DEF y, app, mid

\* The parser does not give up on what was written.
LEMMA IsAccepted ==
  ASSUME NEW x, IsWritable(x)
  PROVE  Again(x) # Failed
<1>1. Failed.type = "error"
  BY DEF Failed, new
<1>2. CASE has_application(x)
  <2>1. PICK mids, cs : Again(x) = Copy(x, mids, cs)
    BY <1>2, CopyRead
  <2>2. Copy(x, mids, cs).type = "Unspec"
    BY DEF Copy
  <2> QED
    BY <1>1, <2>1, <2>2
<1>3. CASE ~has_application(x)
  <2>1. PICK mids : Again(x) = Bare(x, mids)
    BY <1>3, BareRead
  <2>2. Bare(x, mids).type = "Unspec"
    BY DEF Bare
  <2> QED
    BY <1>1, <2>1, <2>2
<1> QED
  BY <1>2, <1>3

LEMMA NothingIsLostOf ==
  ASSUME IsWritable(Now)
  PROVE  NothingLost
<1> DEFINE x == Now
           y == Again(x)
           a == x.application
           b == [a EXCEPT !.direction = IF @ = "unknown" THEN "sendrecv" ELSE @]
           Rest == /\ \A field \in {"role", "origin", "attr", "ice_options", "extmap_allow_mixed",
                                    "extra_attrs", "other_sections", "ended"} : y[field] = x[field]
                   /\ (OneWord(x) => IsPrefix(x.bundle_mids, y.bundle_mids))
                   /\ \A i \in DOMAIN x.candidates :
                        mid_of(x.candidates[i]) = a.mid =>
                          \E j \in DOMAIN y.candidates :
                             /\ y.candidates[j].foundation = x.candidates[i].foundation
                             /\ Endpoint(y.candidates[j]) = Endpoint(x.candidates[i])
<1>1. NothingLost <=> y # Failed /\ (has_application(x) => y.application = b /\ Rest)
  BY DEF NothingLost
<1>2. IsWritable(x)
  OBVIOUS
<1> HIDE DEF x
<1>3. y # Failed
  BY <1>2, IsAccepted
<1>4. ASSUME has_application(x) PROVE y.application = b /\ Rest
  <2>1. y.application = [a EXCEPT !.direction = Heading(a)] /\ Rest
    BY <1>2, <1>4, CopyLosesNothing
  <2>2. a \in AppSet
    BY <1>2 DEF IsWritable
  <2>3. b = [a EXCEPT !.direction = Heading(a)]
    BY <2>2 DEF AppSet, Heading
  <2> HIDE DEF Rest, a, b, y
  <2> QED
    BY <2>1, <2>3
<1> HIDE DEF Rest, b, y
<1> QED
  BY <1>1, <1>3, <1>4

LEMMA SettlesIfWritable ==
  ASSUME IsWritable(Now)
  PROVE  SettlesOnce
  BY CopySettles, BareSettles DEF SettlesOnce

-----------------------------------------------------------------------------
(* All that is kept can be written                                         *)

Writes(d) ==
  /\ d.extmap_allow_mixed \in BOOLEAN
  /\ d.attr = [key \in SessionAttr |-> d.attr[key]]
  /\ d.bundle_mids \in Seq(Mids)
  /\ d.extra_attrs \in Seq(Plain)
  /\ d.application \in AppSet
  /\ d.other_sections \in Seq(Section)

Storable(p) ==
  /\ Writes(p.d) /\ p.app \in AppSet
  /\ p.kind = "other" => p.other \in Section

\* What an application has of a number fits its type.
LEMMA NumbersFit ==
  ASSUME NEW app \in AppSet, IsApplication(app)
  PROVE  \A key \in NumberAttr : app.number[key] \in Accepted(key) \cup {Unset}
<1>1. /\ \A key \in NumberAttr : app.number[key] \in DOMAIN Decimal \cup {Unset}
      /\ app.number["sctp-port"] \in Port \cup {Unset}
  BY DEF IsApplication
<1> QED
  BY <1>1 DEF Accepted

\* Fields of no interest here may become anything.
LEMMA FieldWrites ==
  ASSUME NEW d, DOMAIN d = Field, Writes(d), NEW v,
         NEW f \in {"type", "role", "origin", "ice_options", "candidates", "ended"}
  PROVE  Writes([d EXCEPT ![f] = v])
<1> DEFINE e == [d EXCEPT ![f] = v]
<1>1. /\ e.extmap_allow_mixed = d.extmap_allow_mixed /\ e.attr = d.attr
      /\ e.bundle_mids = d.bundle_mids /\ e.extra_attrs = d.extra_attrs
      /\ e.application = d.application /\ e.other_sections = d.other_sections
  BY DEF Field
<1> HIDE DEF e
<1> QED
  BY <1>1 DEF Writes, e

LEMMA AnApplicationWrites ==
  ASSUME NEW mid \in Mids
  PROVE  Application(mid) \in AppSet
  BY DEF Application, AppSet, DirectionAttr

LEMMA NoApplicationWrites == NoApplication \in AppSet
  BY DEF NoApplication, Application, AppSet, DirectionAttr

\* The end of a section, and with it all that can be written in a state.
LEMMA FlushWrites ==
  ASSUME NEW p, IsParser(p), Storable(p)
  PROVE  Storable(flush_section(p)) /\ IsWritable(flush_section(p).d)
<1> DEFINE mid == IF p.kind = "application" THEN p.app.mid ELSE p.other_mid
           app == IF p.kind = "application" THEN p.app ELSE p.d.application
           others == IF p.kind = "other" THEN Append(p.d.other_sections, p.other)
                       ELSE p.d.other_sections
           mids == Grown(p.d.bundle_mids, mid)
           d == [p.d EXCEPT !.application = app, !.other_sections = others, !.bundle_mids = mids]
           q == flush_section(p)
<1>1. /\ DOMAIN p.d = Field /\ IsDescription(p.d) /\ Writes(p.d) /\ p.app \in AppSet
      /\ p.other_mid \in Mids \cup {Unset}
  BY DEF IsParser, IsDescription, Storable
<1>2. q = [Parser(d) EXCEPT !.sections = p.sections]
  BY <1>1 DEF flush_section, Field, Grown
<1>3. /\ app \in AppSet /\ mid \in Mids \cup {Unset}
      /\ app # NoApplication => app.mid \in Mids
  <2>1. CASE p.kind = "application"
    BY <1>1, <2>1 DEF IsParser
  <2>2. CASE p.kind # "application"
    BY <1>1, <2>2 DEF Writes, IsDescription, has_application
  <2> QED
    BY <2>1, <2>2
<1>4. others \in Seq(Section)
  BY <1>1 DEF Storable, Writes
<1>5. mids \in Seq(Mids)
  <2>1. p.d.bundle_mids \in Seq(Mids)
    BY <1>1 DEF Writes
  <2> HIDE DEF mid
  <2> QED
    BY <1>3, <2>1, GrownIs
<1> HIDE DEF mid, app, others, mids
<1>6. /\ d.application = app /\ d.bundle_mids = mids /\ d.other_sections = others
      /\ d.role = p.d.role /\ d.ended = p.d.ended /\ d.candidates = p.d.candidates
      /\ d.extmap_allow_mixed = p.d.extmap_allow_mixed /\ d.attr = p.d.attr
      /\ d.extra_attrs = p.d.extra_attrs
  BY <1>1 DEF Field
<1> HIDE DEF d
<1>7. Writes(d)
  BY <1>1, <1>3, <1>4, <1>5, <1>6 DEF Writes
<1>8. \A key \in NumberAttr : app.number[key] \in Accepted(key) \cup {Unset}
  <2>1. IsApplication(app)
    BY <1>1 DEF app, IsParser, IsDescription
  <2> QED
    BY <1>3, <2>1, NumbersFit
<1>9. IsWritable(d)
  BY <1>1, <1>3, <1>6, <1>7, <1>8 DEF Writes, IsWritable, IsDescription, has_application
<1>10. q.d = d /\ q.kind = "none" /\ q.app = NoApplication
  BY <1>2 DEF Parser
<1> QED
  BY <1>7, <1>9, <1>10, NoApplicationWrites DEF Storable

LEMMA InPlaceWrites ==
  ASSUME NEW p, IsParser(p), Storable(p), NEW d, Writes(d)
  PROVE  Storable([p EXCEPT !.d = d])
<1> DEFINE q == [p EXCEPT !.d = d]
<1>1. q.d = d /\ q.kind = p.kind /\ q.app = p.app /\ q.other = p.other
  BY DEF IsParser
<1> HIDE DEF q
<1> QED
  BY <1>1 DEF Storable, q

\* What every line does to what is kept.
LEMMA ReadMediaWrites ==
  ASSUME NEW p, IsParser(p), Storable(p), NEW line \in Input, line.key = "m", p.sections < MaxLines
  PROVE  Storable(ReadMedia(p, line))
<1> DEFINE f == flush_section(p)
           app == Application(Numeral[p.sections])
           d == f.d
           n == p.sections
           k == f.sections + 1
<1>1. Writes(d)
  BY FlushWrites DEF Storable
<1>2. f = At(d, "none", NoApplication, n)
  BY FlushedIs
<1>3. app \in AppSet
  <2>1. p.sections \in 0..MaxLines
    BY DEF IsParser
  <2>2. Numeral[p.sections] \in Mids
    BY <2>1, DescriptionAssumption, MidsAreMids
  <2> QED
    BY <2>2, AnApplicationWrites
<1> HIDE DEF app, k, n
<1>4. CASE line.value = "application"
  <2> DEFINE q == [[f EXCEPT !.sections = k] EXCEPT !.kind = "application", !.app = app]
  <2>1. ReadMedia(p, line) = q
    BY <1>4 DEF ReadMedia, k, app
  <2> HIDE DEF f, d
  <2>2. q.d = d /\ q.app = app /\ q.kind = "application"
    BY <1>2 DEF At
  <2> HIDE DEF q
  <2> QED
    BY <1>1, <1>3, <2>1, <2>2 DEF Storable
<1>5. CASE line.value # "application"
  <2> DEFINE s == <<line>>
             q == [[f EXCEPT !.sections = k] EXCEPT !.kind = "other", !.other = s]
  <2>1. ReadMedia(p, line) = q
    BY <1>5 DEF ReadMedia, k
  <2>2. s \in Section
    <3>1. line \in Media /\ <<>> \in Seq(Verbatim)
      BY <1>5 DEF Media
    <3>2. s = <<line>> \o <<>> /\ s \in Seq(Input)
      OBVIOUS
    <3> HIDE DEF s
    <3> QED
      BY <3>1, <3>2 DEF Section
  <2> HIDE DEF f, d, s
  <2>3. q.d = d /\ q.app = NoApplication /\ q.kind = "other" /\ q.other = s
    BY <1>2 DEF At
  <2> HIDE DEF q
  <2> QED
    BY <1>1, <2>1, <2>2, <2>3, NoApplicationWrites DEF Storable
<1> QED
  BY <1>4, <1>5

LEMMA ReadVerbatimWrites ==
  ASSUME NEW p, IsParser(p), Storable(p), NEW line \in Input, p.kind = "other",
         line.key \notin {"m", "o"}
  PROVE  Storable(ReadVerbatim(p, line))
<1> DEFINE mid == IF line.key = "mid" THEN trim(line.value) ELSE p.other_mid
           s == p.other
           t == Append(s, line)
           q == [p EXCEPT !.other = t, !.other_mid = mid]
<1>1. ReadVerbatim(p, line) = q
  BY DEF ReadVerbatim, IsParser
<1>2. t \in Section
  <2>1. s \in Section
    BY DEF Storable
  <2>2. PICK head \in Media, rest \in Seq(Verbatim) : s = <<head>> \o rest
    BY <2>1 DEF Section
  <2>3. line \in Verbatim /\ s \in Seq(Input)
    BY <2>1 DEF Verbatim, Section
  <2> HIDE DEF s
  <2>4. Append(rest, line) \in Seq(Verbatim) /\ t \in Seq(Input)
    BY <2>3
  <2>5. t = <<head>> \o Append(rest, line)
    <3>1. head \in Input /\ Verbatim \subseteq Input
      BY DEF Media, Verbatim
    <3>2. rest \in Seq(Input) /\ line \in Input /\ <<head>> \in Seq(Input)
      BY <3>1, MoreSeqs
    <3> QED
      BY <2>2, <3>2
  <2> QED
    BY <2>4, <2>5 DEF Section
<1> HIDE DEF mid, t
<1>3. q.d = p.d /\ q.app = p.app /\ q.other = t
  BY DEF IsParser
<1> HIDE DEF q
<1> QED
  BY <1>1, <1>2, <1>3 DEF Storable

LEMMA ReadSessionWrites ==
  ASSUME NEW p, IsParser(p), Storable(p), NEW line \in Input, p.kind # "other",
         line.key \in SessionKey
  PROVE  Storable(ReadSession(p, line))
<1>1. DOMAIN p.d = Field /\ Writes(p.d)
  BY DEF IsParser, IsDescription, Storable
<1>2. ASSUME NEW f \in {"role", "ice_options", "candidates", "ended"}, NEW v
      PROVE  Storable([p EXCEPT !.d = [p.d EXCEPT ![f] = v]])
  <2> DEFINE d == [p.d EXCEPT ![f] = v]
  <2>1. f \in {"type", "role", "origin", "ice_options", "candidates", "ended"}
    OBVIOUS
  <2>2. Writes(d)
    BY <1>1, <2>1, FieldWrites
  <2> HIDE DEF d
  <2>3. Storable([p EXCEPT !.d = d])
    BY <2>2, InPlaceWrites
  <2> QED
    BY <2>3 DEF d
<1>3. CASE line.key = "group"
  <2> DEFINE v == line.value
             d == [p.d EXCEPT !.bundle_mids = v]
  <2>1. ReadSession(p, line) = [p EXCEPT !.d = d]
    BY <1>1, <1>3 DEF ReadSession, SessionAttr
  <2>2. v \in Seq(Mids)
    <3>1. v \in Seq(MidText)
      BY <1>3, DescriptionAssumption
    <3> QED
      BY <3>1, MidsAreMids, MoreSeqs
  <2> HIDE DEF v
  <2>3. /\ d.extmap_allow_mixed = p.d.extmap_allow_mixed /\ d.attr = p.d.attr
        /\ d.bundle_mids = v /\ d.extra_attrs = p.d.extra_attrs
        /\ d.application = p.d.application /\ d.other_sections = p.d.other_sections
    BY <1>1 DEF Field
  <2> HIDE DEF d
  <2>4. Writes(d)
    BY <1>1, <2>2, <2>3 DEF Writes
  <2> QED
    BY <2>1, <2>4, InPlaceWrites
<1>4. CASE line.key = "extmap-allow-mixed"
  <2> DEFINE v == TRUE
             d == [p.d EXCEPT !.extmap_allow_mixed = v]
  <2>1. ReadSession(p, line) = [p EXCEPT !.d = d]
    BY <1>1, <1>4 DEF ReadSession, SessionAttr
  <2>2. v \in BOOLEAN
    OBVIOUS
  <2> HIDE DEF v
  <2>3. /\ d.extmap_allow_mixed = v /\ d.attr = p.d.attr
        /\ d.bundle_mids = p.d.bundle_mids /\ d.extra_attrs = p.d.extra_attrs
        /\ d.application = p.d.application /\ d.other_sections = p.d.other_sections
    BY <1>1 DEF Field
  <2> HIDE DEF d
  <2>4. Writes(d)
    BY <1>1, <2>2, <2>3 DEF Writes
  <2> QED
    BY <2>1, <2>4, InPlaceWrites
<1>5. CASE line.key = "ice-options"
  <2> DEFINE v == IF p.d.ice_options = <<>> THEN line.value ELSE p.d.ice_options
  <2>1. ReadSession(p, line) = [p EXCEPT !.d = [p.d EXCEPT !.ice_options = v]]
    BY <1>1, <1>5 DEF ReadSession, SessionAttr, Field
  <2> HIDE DEF v
  <2> QED
    BY <1>2, <2>1
<1>6. CASE line.key \in SessionAttr
  <2>1. ReadSession(p, line) = ReadSessionAttr(p, line)
    BY <1>6 DEF ReadSession, SessionAttr
  <2>2. CASE ReadSessionAttr(p, line) = p
    BY <2>1, <2>2
  <2>3. CASE ReadSessionAttr(p, line) # p
    <3> DEFINE v == [p.d.attr EXCEPT ![line.key] = line.value]
               d == [p.d EXCEPT !.attr = v]
    <3>1. ReadSessionAttr(p, line) = [p EXCEPT !.d = d]
      BY <1>1, <2>3 DEF ReadSessionAttr, Field
    <3>2. v = [key \in SessionAttr |-> v[key]]
      <4>1. p.d.attr = [key \in SessionAttr |-> p.d.attr[key]]
        BY <1>1 DEF Writes
      <4> DEFINE t == p.d.attr
      <4> HIDE DEF t
      <4>2. t = [key \in SessionAttr |-> t[key]]
        BY <4>1 DEF t
      <4> QED
        BY <4>2 DEF t
    <3> HIDE DEF v
    <3>3. /\ d.extmap_allow_mixed = p.d.extmap_allow_mixed /\ d.attr = v
          /\ d.bundle_mids = p.d.bundle_mids /\ d.extra_attrs = p.d.extra_attrs
          /\ d.application = p.d.application /\ d.other_sections = p.d.other_sections
      BY <1>1 DEF Field
    <3> HIDE DEF d
    <3>4. Writes(d)
      BY <1>1, <3>2, <3>3 DEF Writes
    <3> QED
      BY <2>1, <3>1, <3>4, InPlaceWrites
  <2> QED
    BY <2>2, <2>3
<1>7. CASE line.key = "setup"
  <2> DEFINE v == CASE line.value = "active" -> "Active" [] line.value = "passive" -> "Passive"
                    [] OTHER -> "ActPass"
  <2>1. ReadSession(p, line) = [p EXCEPT !.d = [p.d EXCEPT !.role = v]]
    BY <1>1, <1>7 DEF ReadSession, ReadSetup, SessionAttr
  <2> HIDE DEF v
  <2> QED
    BY <1>2, <2>1
<1>8. CASE line.key = "candidate"
  <2> DEFINE mid == CASE p.kind = "application" -> p.app.mid
                      [] p.kind # "application" /\ p.d.bundle_mids # <<>> -> Head(p.d.bundle_mids)
                      [] OTHER -> "0"
             v == push_candidate(p.d.candidates, parse_candidate(line.value, mid))
  <2>1. ReadSession(p, line) = ReadCandidate(p, line)
    BY <1>8 DEF ReadSession, SessionAttr
  <2>2. ReadCandidate(p, line) = [p EXCEPT !.d = [p.d EXCEPT !.candidates = v]]
    BY <1>1 DEF ReadCandidate, Field
  <2> HIDE DEF v
  <2> QED
    BY <1>2, <2>1, <2>2
<1>9. CASE line.key = "end-of-candidates"
  <2>1. ReadSession(p, line) = [p EXCEPT !.d = [p.d EXCEPT !.ended = TRUE]]
    BY <1>1, <1>9 DEF ReadSession, SessionAttr
  <2> QED
    BY <1>2, <2>1
<1>10. CASE line.key = "msid-semantic"
  <2>1. ReadSession(p, line) = p
    BY <1>10 DEF ReadSession, SessionAttr
  <2> QED
    BY <2>1
<1> QED
  BY <1>3, <1>4, <1>5, <1>6, <1>7, <1>8, <1>9, <1>10 DEF SessionKey

\* One field of an application.
LEMMA FieldOfApplication ==
  ASSUME NEW a \in AppSet, NEW f \in AppField, NEW v,
         f = "mid" => v \in Mids, f = "number" => v \in [NumberAttr -> Printed \cup {Unset}],
         f = "direction" => v \in DirectionAttr \cup {"unknown"},
         f = "extra_attrs" => v \in Seq(PlainInApp)
  PROVE  [a EXCEPT ![f] = v] \in AppSet
  BY DEF AppSet, AppField

LEMMA ReadApplicationWrites ==
  ASSUME NEW p, IsParser(p), Storable(p), NEW line \in Input, p.kind = "application",
         line.key \notin SessionKey \cup {"m", "o", "c"}, ~Malformed(p, line)
  PROVE  Storable(ReadApplication(p, line))
<1> DEFINE a == p.app
<1>1. a \in AppSet /\ DOMAIN p = {"d", "kind", "app", "other", "other_mid", "sections"}
      /\ DOMAIN a = AppField
  BY DEF Storable, IsParser, AppSet, AppField
<1>2. ASSUME NEW f \in AppField, NEW v, [a EXCEPT ![f] = v] \in AppSet
      PROVE  Storable([p EXCEPT !.app = [a EXCEPT ![f] = v]])
  <2> DEFINE b == [a EXCEPT ![f] = v]
             q == [p EXCEPT !.app = b]
  <2>1. b \in AppSet
    BY <1>2
  <2> HIDE DEF b
  <2>2. q.d = p.d /\ q.app = b /\ q.kind = p.kind
    BY <1>1
  <2> HIDE DEF q
  <2>3. Storable(q)
    BY <2>1, <2>2 DEF Storable
  <2> QED
    BY <2>3 DEF q, b
<1>3. CASE line.key = "mid"
  <2> DEFINE v == line.value
  <2>1. ReadApplication(p, line) = [p EXCEPT !.app = [a EXCEPT !["mid"] = v]]
    BY <1>1, <1>3 DEF ReadApplication, NumberAttr, DirectionAttr
  <2>2. v \in Mids /\ "mid" \in AppField
    BY <1>3, DescriptionAssumption, MidsAreMids DEF AppField
  <2> HIDE DEF v
  <2>3. [a EXCEPT !["mid"] = v] \in AppSet
    BY <1>1, <2>2, FieldOfApplication
  <2> QED
    BY <1>2, <2>1, <2>2, <2>3
<1>4. CASE line.key \in NumberAttr
  <2> DEFINE n == Decimal[line.value]
             v == [a.number EXCEPT ![line.key] = n]
  <2>1. ReadApplication(p, line) = [p EXCEPT !.app = [a EXCEPT !["number"] = v]]
    BY <1>1, <1>4 DEF ReadApplication, NumberAttr, DirectionAttr, AppField
  <2>2. line.value \in Accepted(line.key) /\ Accepted(line.key) \subseteq DOMAIN Decimal
    BY <1>4, CandidateAssumption DEF Malformed, Accepted
  <2>3. n \in Printed
    BY <2>2, CandidateAssumption DEF Printed
  <2>4. a.number \in [NumberAttr -> Printed \cup {Unset}] /\ "number" \in AppField
    BY <1>1 DEF AppSet, AppField
  <2> HIDE DEF n
  <2>5. v \in [NumberAttr -> Printed \cup {Unset}]
    BY <1>4, <2>3, <2>4
  <2> HIDE DEF v
  <2>6. [a EXCEPT !["number"] = v] \in AppSet
    BY <1>1, <2>4, <2>5, FieldOfApplication
  <2> QED
    BY <1>2, <2>1, <2>4, <2>6
<1>5. CASE line.key \in DirectionAttr
  <2> DEFINE v == line.key
  <2>1. ReadApplication(p, line) = [p EXCEPT !.app = [a EXCEPT !["direction"] = v]]
    BY <1>1, <1>5 DEF ReadApplication, NumberAttr, DirectionAttr
  <2>2. v \in DirectionAttr \cup {"unknown"} /\ "direction" \in AppField
    BY <1>5 DEF AppField
  <2> HIDE DEF v
  <2>3. [a EXCEPT !["direction"] = v] \in AppSet
    BY <1>1, <2>2, FieldOfApplication
  <2> QED
    BY <1>2, <2>1, <2>2, <2>3
<1>6. CASE line.key \notin NumberAttr \cup DirectionAttr \cup {"mid"}
  <2> DEFINE v == Append(a.extra_attrs, line)
  <2>1. ReadApplication(p, line) = [p EXCEPT !.app = [a EXCEPT !["extra_attrs"] = v]]
    BY <1>1, <1>6 DEF ReadApplication, AppField
  <2>2. a.extra_attrs \in Seq(PlainInApp) /\ "extra_attrs" \in AppField
    BY <1>1 DEF AppSet, AppField
  <2>3. line \in PlainInApp
    BY <1>6 DEF PlainInApp
  <2>4. v \in Seq(PlainInApp)
    BY <2>2, <2>3
  <2> HIDE DEF v
  <2>5. [a EXCEPT !["extra_attrs"] = v] \in AppSet
    BY <1>1, <2>2, <2>4, FieldOfApplication
  <2> QED
    BY <1>2, <2>1, <2>2, <2>5, ZenonT(40)
<1> QED
  BY <1>3, <1>4, <1>5, <1>6

LEMMA ReadLineWrites ==
  ASSUME NEW p, IsParser(p), Storable(p), NEW line \in Input, p.sections < MaxLines,
         ~Malformed(p, line)
  PROVE  Storable(ReadLine(p, line))
<1>1. /\ p.kind \in {"none", "application", "other"} /\ DOMAIN p.d = Field /\ Writes(p.d)
      /\ DOMAIN p = {"d", "kind", "app", "other", "other_mid", "sections"}
  BY DEF IsParser, IsDescription, Storable
<1>2. CASE line.key = "m"
  <2>1. ReadLine(p, line) = ReadMedia(p, line)
    BY <1>2 DEF ReadLine, SessionKey, SessionAttr
  <2> QED
    BY <1>2, <2>1, ReadMediaWrites
<1>3. CASE line.key \notin {"m", "o"} /\ p.kind = "other"
  <2>1. ReadLine(p, line) = ReadVerbatim(p, line)
    BY <1>3 DEF ReadLine
  <2> QED
    BY <1>3, <2>1, ReadVerbatimWrites
<1>4. CASE line.key = "c" /\ p.kind # "other"
  <2>1. ReadLine(p, line) = p
    BY <1>4 DEF ReadLine, SessionKey, SessionAttr
  <2> QED
    BY <2>1
<1>5. CASE line.key \in SessionKey /\ p.kind # "other"
  <2>1. line.key \notin {"m", "o", "c"}
    BY <1>5 DEF SessionKey, SessionAttr
  <2>2. ReadLine(p, line) = ReadSession(p, line)
    BY <1>5, <2>1 DEF ReadLine
  <2> QED
    BY <1>5, <2>2, ReadSessionWrites
<1>6. CASE line.key \notin SessionKey \cup {"m", "o", "c"} /\ p.kind = "application"
  <2>1. ReadLine(p, line) = ReadApplication(p, line)
    BY <1>6 DEF ReadLine
  <2> QED
    BY <1>6, <2>1, ReadApplicationWrites
<1>7. CASE line.key = "o"
  <2> DEFINE v == line.value
             d == [p.d EXCEPT !["origin"] = v]
  <2>1. ReadLine(p, line) = [p EXCEPT !.d = d]
    BY <1>1, <1>7 DEF ReadLine, SessionKey, SessionAttr
  <2> HIDE DEF v
  <2>2. Writes(d)
    BY <1>1, FieldWrites
  <2> HIDE DEF d
  <2> QED
    BY <2>1, <2>2, InPlaceWrites
<1>8. CASE line.key \notin SessionKey \cup {"m", "o", "c"} /\ p.kind = "none"
  <2> DEFINE v == Append(p.d.extra_attrs, line)
             d == [p.d EXCEPT !["extra_attrs"] = v]
  <2>1. ReadLine(p, line) = [p EXCEPT !.d = d]
    BY <1>1, <1>8 DEF ReadLine, Field
  <2>2. v \in Seq(Plain)
    <3>1. line \in Plain /\ p.d.extra_attrs \in Seq(Plain)
      BY <1>1, <1>8 DEF Plain, Writes
    <3> QED
      BY <3>1
  <2> HIDE DEF v
  <2>3. /\ d.extmap_allow_mixed = p.d.extmap_allow_mixed /\ d.attr = p.d.attr
        /\ d.bundle_mids = p.d.bundle_mids /\ d.extra_attrs = v
        /\ d.application = p.d.application /\ d.other_sections = p.d.other_sections
    BY <1>1 DEF Field
  <2> HIDE DEF d
  <2>4. Writes(d)
    BY <1>1, <2>2, <2>3 DEF Writes
  <2> QED
    BY <2>1, <2>4, InPlaceWrites
<1> QED
  BY <1>1, <1>2, <1>3, <1>4, <1>5, <1>6, <1>7, <1>8

-----------------------------------------------------------------------------
(* ... in every state                                                      *)

\* An edit of a description that stays one.
LEMMA EditWrites ==
  ASSUME IInv, Storable(parser), NEW d, Edit(d), Writes(d)
  PROVE  Storable(parser)'
<1>1. IsParser(parser) /\ parser' = [parser EXCEPT !.d = d]
  BY DEF IInv, Edit
<1> DEFINE q == [parser EXCEPT !.d = d]
<1>2. Storable(q)
  BY <1>1, InPlaceWrites
<1> HIDE DEF q
<1>3. Storable(parser')
  BY <1>1, <1>2 DEF q
<1> QED
  BY <1>3 DEF Storable, Writes

LEMMA GroupWrites ==
  ASSUME NEW d, DOMAIN d = Field, Writes(d), NEW app \in AppSet, app.mid \in Mids
  PROVE  Writes(with_application(d, app))
<1> DEFINE old == d.application.mid
           kept == Without(d.bundle_mids, old)
           I == {i \in DOMAIN d.bundle_mids : d.bundle_mids[i] # old}
           mids == IF Contains(kept, app.mid) THEN kept ELSE <<app.mid>> \o kept
           e == [d EXCEPT !.application = app, !.bundle_mids = mids]
<1>1. with_application(d, app) = e
  BY DEF with_application
<1>2. kept \in Seq(Mids)
  <2>1. d.bundle_mids \in Seq(Mids) /\ I \in SUBSET (DOMAIN d.bundle_mids)
    BY DEF Writes
  <2>2. kept = Kept(d.bundle_mids, I)
    BY DEF Without
  <2> HIDE DEF I
  <2> QED
    BY <2>1, <2>2, KeptIs
<1> HIDE DEF kept
<1>3. mids \in Seq(Mids)
  BY <1>2
<1> HIDE DEF mids
<1>4. /\ e.extmap_allow_mixed = d.extmap_allow_mixed /\ e.attr = d.attr
      /\ e.bundle_mids = mids /\ e.extra_attrs = d.extra_attrs
      /\ e.application = app /\ e.other_sections = d.other_sections
  BY DEF Field
<1> HIDE DEF e
<1>5. Writes(e)
  BY <1>3, <1>4 DEF Writes
<1> QED
  BY <1>1, <1>5

LEMMA ApplicationWrites ==
  ASSUME NEW d, DOMAIN d = Field, Writes(d), NEW app \in AppSet
  PROVE  Writes([d EXCEPT !.application = app])
<1> DEFINE e == [d EXCEPT !.application = app]
<1>1. /\ e.extmap_allow_mixed = d.extmap_allow_mixed /\ e.attr = d.attr
      /\ e.bundle_mids = d.bundle_mids /\ e.extra_attrs = d.extra_attrs
      /\ e.application = app /\ e.other_sections = d.other_sections
  BY DEF Field
<1> HIDE DEF e
<1> QED
  BY <1>1 DEF Writes, e

LEMMA AttrWrites ==
  ASSUME NEW d, DOMAIN d = Field, Writes(d), NEW attr, attr = [key \in SessionAttr |-> attr[key]]
  PROVE  Writes([d EXCEPT !.attr = attr])
<1> DEFINE e == [d EXCEPT !.attr = attr]
<1>1. /\ e.extmap_allow_mixed = d.extmap_allow_mixed /\ e.attr = attr
      /\ e.bundle_mids = d.bundle_mids /\ e.extra_attrs = d.extra_attrs
      /\ e.application = d.application /\ e.other_sections = d.other_sections
  BY DEF Field
<1> HIDE DEF e
<1> QED
  BY <1>1 DEF Writes, e

LEMMA MixedWrites ==
  ASSUME NEW d, DOMAIN d = Field, Writes(d), NEW on \in BOOLEAN
  PROVE  Writes([d EXCEPT !.extmap_allow_mixed = on])
<1> DEFINE e == [d EXCEPT !.extmap_allow_mixed = on]
<1>1. /\ e.extmap_allow_mixed = on /\ e.attr = d.attr
      /\ e.bundle_mids = d.bundle_mids /\ e.extra_attrs = d.extra_attrs
      /\ e.application = d.application /\ e.other_sections = d.other_sections
  BY DEF Field
<1> HIDE DEF e
<1> QED
  BY <1>1 DEF Writes, e

\* The edits of the application, whose other fields stay.
LEMMA ApplicationEditWrites ==
  ASSUME IInv, Storable(parser), NEW f \in AppField, NEW v,
         Edit([parser.d EXCEPT !.application = [parser.d.application EXCEPT ![f] = v]]),
         f = "mid" => v \in Mids, f = "number" => v \in [NumberAttr -> Printed \cup {Unset}],
         f = "direction" => v \in DirectionAttr \cup {"unknown"},
         f = "extra_attrs" => v \in Seq(PlainInApp)
  PROVE  Storable(parser)'
<1> DEFINE old == parser.d.application
           app == [old EXCEPT ![f] = v]
           d == [parser.d EXCEPT !.application = app]
<1>1. /\ Writes(parser.d) /\ DOMAIN parser.d = Field /\ old \in AppSet
  BY DEF IInv, IsParser, IsDescription, Storable, Writes
<1> HIDE DEF old
<1>2. app \in AppSet
  BY <1>1, FieldOfApplication
<1>3. Edit(d)
  BY DEF old
<1> HIDE DEF app
<1>4. Writes(d)
  BY <1>1, <1>2, ApplicationWrites
<1> HIDE DEF d
<1> QED
  BY <1>3, <1>4, EditWrites

\* What every edit does to it.
LEMMA EditsOfApplicationWrite ==
  ASSUME IInv, Storable(parser)
  PROVE  /\ \A mid \in Mid : set_application(mid) \/ application_or_create(mid) \/ set_mid(mid)
                               => Storable(parser)'
         /\ \A key \in NumberAttr : \A n \in Port :
              set_number(key, Decimal[n]) => Storable(parser)'
         /\ \A direction \in Direction : set_direction(direction) => Storable(parser)'
<1>1. /\ Writes(parser.d) /\ DOMAIN parser.d = Field /\ parser.d.application \in AppSet
      /\ DOMAIN parser.d.application = AppField
  BY DEF IInv, IsParser, IsDescription, IsApplication, Storable, Writes
<1>2. ASSUME NEW mid \in Mid, set_application(mid)
      PROVE  Storable(parser)'
  <2> DEFINE app == Application(mid)
             d == with_application(parser.d, app)
  <2>1. mid \in Mids
    BY DescriptionAssumption, MidsAreMids
  <2>2. app \in AppSet /\ app.mid \in Mids
    BY <2>1, AnApplicationWrites, AnApplication
  <2>3. Edit(d)
    BY <1>2 DEF set_application
  <2> HIDE DEF app
  <2>4. Writes(d)
    BY <1>1, <2>2, GroupWrites
  <2> HIDE DEF d
  <2> QED
    BY <2>3, <2>4, EditWrites
<1>3. ASSUME NEW mid \in Mid, set_mid(mid)
      PROVE  Storable(parser)'
  <2>1. mid \in Mids /\ "mid" \in AppField
    BY DescriptionAssumption, MidsAreMids DEF AppField
  <2>2. Edit([parser.d EXCEPT !.application = [parser.d.application EXCEPT !["mid"] = mid]])
    BY <1>1, <1>3 DEF set_mid, Field, AppField
  <2> QED
    BY <2>1, <2>2, ApplicationEditWrites
<1>4. ASSUME NEW key \in NumberAttr, NEW n \in Port, set_number(key, Decimal[n])
      PROVE  Storable(parser)'
  <2> DEFINE x == Decimal[n]
             v == [parser.d.application.number EXCEPT ![key] = x]
  <2>1. Edit([parser.d EXCEPT !.application = [parser.d.application EXCEPT !["number"] = v]])
    BY <1>1, <1>4 DEF set_number, Field, AppField
  <2>2. x \in Printed
    BY CandidateAssumption DEF Printed
  <2>3. parser.d.application.number \in [NumberAttr -> Printed \cup {Unset}]
    BY <1>1 DEF AppSet
  <2> HIDE DEF x
  <2>4. v \in [NumberAttr -> Printed \cup {Unset}] /\ "number" \in AppField
    BY <2>2, <2>3 DEF AppField
  <2> HIDE DEF v
  <2> QED
    BY <2>1, <2>4, ApplicationEditWrites
<1>5. ASSUME NEW direction \in Direction, set_direction(direction)
      PROVE  Storable(parser)'
  <2>1. direction \in DirectionAttr \cup {"unknown"} /\ "direction" \in AppField
    BY DescriptionAssumption DEF AppField
  <2>2. Edit([parser.d EXCEPT !.application
                = [parser.d.application EXCEPT !["direction"] = direction]])
    BY <1>1, <1>5 DEF set_direction, Field, AppField
  <2> QED
    BY <2>1, <2>2, ApplicationEditWrites
<1> QED
  BY <1>2, <1>3, <1>4, <1>5 DEF application_or_create

LEMMA add_candidateWrites ==
  ASSUME IInv, Storable(parser), NEW line, NEW mid, add_candidate(line, mid)
  PROVE  Storable(parser)'
<1> DEFINE v == push_candidate(parser.d.candidates,
                               hint_mid(parse_candidate(line, mid), bundle_mid(parser.d)))
           d == [parser.d EXCEPT !["candidates"] = v]
<1>1. Writes(parser.d) /\ DOMAIN parser.d = Field
  BY DEF IInv, IsParser, IsDescription, Storable
<1>2. Edit(d)
  BY <1>1 DEF add_candidate, Field
<1> HIDE DEF v
<1>3. Writes(d)
  BY <1>1, FieldWrites
<1> HIDE DEF d
<1> QED
  BY <1>2, <1>3, EditWrites

LEMMA SetSessionWrites ==
  ASSUME IInv, Storable(parser), SetSession
  PROVE  Storable(parser)'
<1> DEFINE d == parser.d
<1>1. Writes(d) /\ DOMAIN d = Field
  BY DEF IInv, IsParser, IsDescription, Storable
<1>2. ASSUME NEW f \in {"type", "role", "ice_options", "ended"}, NEW v, Edit([d EXCEPT ![f] = v])
      PROVE  Storable(parser)'
  <2> DEFINE e == [d EXCEPT ![f] = v]
  <2>1. Writes(e)
    BY <1>1, FieldWrites
  <2>2. Edit(e)
    BY <1>2
  <2> HIDE DEF e
  <2> QED
    BY <2>1, <2>2, EditWrites
<1>3. ASSUME NEW t \in Type, Edit([d EXCEPT !.type = IF @ = "Unspec" THEN t ELSE @])
      PROVE  Storable(parser)'
  <2> DEFINE v == IF d.type = "Unspec" THEN t ELSE d.type
  <2>1. Edit([d EXCEPT !["type"] = v])
    BY <1>1, <1>3 DEF Field
  <2> HIDE DEF v
  <2> QED
    BY <1>2, <2>1
<1>4. ASSUME NEW r \in Role, Edit([d EXCEPT !.role = r])
      PROVE  Storable(parser)'
  BY <1>2, <1>4
<1>5. ASSUME NEW key \in SessionAttr, Edit([d EXCEPT !.attr[key] = "edited"])
      PROVE  Storable(parser)'
  <2> DEFINE old == d.attr
             v == [old EXCEPT ![key] = "edited"]
             e == [d EXCEPT !.attr = v]
  <2>1. Edit(e)
    BY <1>1, <1>5 DEF Field
  <2>2. old = [k \in SessionAttr |-> old[k]]
    BY <1>1 DEF Writes
  <2> HIDE DEF old
  <2>3. v = [k \in SessionAttr |-> v[k]]
    BY <2>2
  <2> HIDE DEF v
  <2>4. Writes(e)
    BY <1>1, <2>3, AttrWrites
  <2> HIDE DEF e
  <2> QED
    BY <2>1, <2>4, EditWrites
<1>6. ASSUME Edit([d EXCEPT !.ice_options = AppendNew(@, "trickle")])
      PROVE  Storable(parser)'
  <2> DEFINE v == AppendNew(d.ice_options, "trickle")
  <2>1. Edit([d EXCEPT !["ice_options"] = v])
    BY <1>1, <1>6 DEF Field
  <2> HIDE DEF v
  <2> QED
    BY <1>2, <2>1
<1>7. ASSUME NEW on \in BOOLEAN, Edit([d EXCEPT !.extmap_allow_mixed = on])
      PROVE  Storable(parser)'
  <2> DEFINE e == [d EXCEPT !.extmap_allow_mixed = on]
  <2>1. Writes(e)
    BY <1>1, MixedWrites
  <2>2. Edit(e)
    BY <1>7
  <2> HIDE DEF e
  <2> QED
    BY <2>1, <2>2, EditWrites
<1>8. ASSUME Edit([d EXCEPT !.ended = TRUE])
      PROVE  Storable(parser)'
  BY <1>2, <1>8
<1> QED
  BY <1>3, <1>4, <1>5, <1>6, <1>7, <1>8 DEF SetSession

LEMMA ReadWrites ==
  ASSUME IInv, Storable(parser), NEW line \in Input, Read(line)
  PROVE  Storable(parser)'
<1>1. phase = "parsing" /\ lines < MaxLines /\ IsParser(parser)
  BY DEF Read, IInv
<1>2. parser.sections < MaxLines
  <2>1. lines \in Nat /\ parser.sections \in Nat /\ parser.sections <= lines
    BY <1>1 DEF IInv, IsParser
  <2> QED
    BY <1>1, <2>1, DescriptionAssumption
<1>3. CASE Malformed(parser, line)
  <2>1. parser' = parser
    BY <1>3 DEF Read
  <2> QED
    BY <2>1 DEF Storable, Writes
<1>4. CASE ~Malformed(parser, line)
  <2> DEFINE q == ReadLine(parser, line)
  <2>1. Storable(q)
    BY <1>1, <1>2, <1>4, ReadLineWrites
  <2>2. parser' = q
    BY <1>4 DEF Read
  <2> HIDE DEF q
  <2> QED
    BY <2>1, <2>2 DEF Storable, Writes
<1> QED
  BY <1>3, <1>4

LEMMA NextWrites ==
  ASSUME IInv, Storable(parser), [Next]_vars
  PROVE  Storable(parser)'
<1>1. ASSUME NEW line \in Input, Read(line) PROVE Storable(parser)'
  BY <1>1, ReadWrites
<1>2. CASE EndOfInput
  <2> DEFINE q == flush_section(parser)
  <2>1. IsParser(parser) /\ parser' = q
    BY <1>2 DEF EndOfInput, IInv
  <2>2. Storable(q)
    BY <2>1, FlushWrites
  <2> HIDE DEF q
  <2> QED
    BY <2>1, <2>2 DEF Storable, Writes
<1>3. ASSUME NEW mid \in Mid, \/ set_application(mid) \/ application_or_create(mid)
                              \/ set_mid(mid)
      PROVE  Storable(parser)'
  BY <1>3, EditsOfApplicationWrite
<1>4. ASSUME NEW key \in NumberAttr, NEW n \in Port, set_number(key, Decimal[n])
      PROVE  Storable(parser)'
  BY <1>4, EditsOfApplicationWrite
<1>5. ASSUME NEW direction \in Direction, set_direction(direction) PROVE Storable(parser)'
  BY <1>5, EditsOfApplicationWrite
<1>6. ASSUME NEW line \in CandidateLine, NEW mid \in Mid \cup {""}, add_candidate(line, mid)
      PROVE  Storable(parser)'
  BY <1>6, add_candidateWrites
<1>7. CASE SetSession
  BY <1>7, SetSessionWrites
<1>8. CASE UNCHANGED vars
  BY <1>8 DEF vars, Storable, Writes
<1> QED
  BY <1>1, <1>2, <1>3, <1>4, <1>5, <1>6, <1>7, <1>8 DEF Next

\* Descriptions to begin with.
LEMMA NewWrites ==
  ASSUME NEW type, NEW role
  PROVE  LET d == new(type, role) IN Writes(d) /\ DOMAIN d = Field
<1> DEFINE d == new(type, role)
           no == FALSE
           attr == [key \in SessionAttr |-> Unset]
<1>1. /\ d.extmap_allow_mixed = no /\ d.attr = attr /\ d.bundle_mids = <<>>
      /\ d.extra_attrs = <<>> /\ d.application = NoApplication /\ d.other_sections = <<>>
      /\ DOMAIN d = Field
  BY DEF new, Field
<1>2. no \in BOOLEAN
  OBVIOUS
<1>3. attr = [key \in SessionAttr |-> attr[key]]
  OBVIOUS
<1> HIDE DEF d, no, attr
<1>4. Writes(d)
  BY <1>1, <1>2, <1>3, NoApplicationWrites DEF Writes
<1> QED
  BY <1>1, <1>4 DEF d

LEMMA FreshWrites ==
  ASSUME NEW d, Writes(d)
  PROVE  Storable(Parser(d))
<1>1. Parser(d).d = d /\ Parser(d).app = NoApplication /\ Parser(d).kind = "none"
  BY DEF Parser
<1> QED
  BY <1>1, NoApplicationWrites DEF Storable

LEMMA InitWrites ==
  ASSUME Init
  PROVE  Storable(parser)
<1>1. ASSUME NEW t, NEW r, parser = Parser(new(t, r))
      PROVE  Storable(parser)
  BY <1>1, NewWrites, FreshWrites
<1>2. ASSUME NEW t \in Type, NEW r \in Role, NEW fragment \in Fragment, NEW mid \in Mid \cup {"0"},
             parser = Parser(get_local_description(t, r, fragment, mid))
      PROVE  Storable(parser)
  <2> DEFINE role == IF t = "Offer" THEN "ActPass" ELSE r
             d == new(t, role)
             found == extract_ice_creds(fragment)
             creds == [key \in SessionAttr |-> IF key \in DOMAIN found THEN found[key]
                                                ELSE d.attr[key]]
             options == AppendNew(d.ice_options, "trickle")
             e == [d EXCEPT !.attr = creds]
             f == [e EXCEPT !["ice_options"] = options]
             app == Application(mid)
             g == with_application(f, app)
  <2>1. get_local_description(t, r, fragment, mid) = g
    BY DEF get_local_description, new
  <2>2. creds = [key \in SessionAttr |-> creds[key]]
    OBVIOUS
  <2>3. Writes(d) /\ DOMAIN d = Field
    BY NewWrites
  <2> HIDE DEF role, creds, options, d
  <2>4. Writes(e) /\ DOMAIN e = Field
    BY <2>2, <2>3, AttrWrites
  <2> HIDE DEF e
  <2>5. Writes(f) /\ DOMAIN f = Field
    BY <2>4, FieldWrites
  <2> HIDE DEF f
  <2>6. mid \in Mids
    BY DescriptionAssumption, MidsAreMids
  <2>7. app \in AppSet /\ app.mid \in Mids
    BY <2>6, AnApplicationWrites, AnApplication
  <2> HIDE DEF app
  <2>8. Writes(g)
    BY <2>5, <2>7, GroupWrites
  <2>9. parser = Parser(g)
    BY <1>2, <2>1
  <2> HIDE DEF g
  <2> QED
    BY <2>8, <2>9, FreshWrites
<1> QED
  BY <1>1, <1>2 DEF Init

\* In every state, what parse() would return can be written.
LEMMA NowIsWritable ==
  ASSUME IInv, Storable(parser)
  PROVE  IsWritable(Now)
<1>1. IsParser(parser)
  BY DEF IInv
<1> QED
  BY <1>1, FlushWrites DEF Now

-----------------------------------------------------------------------------
(* Theorems                                                                *)

\* In every state that can be reached, all of the above.
THEOREM Invariant == Spec => []IInv
BY InitHolds, NextKeeps, PTL DEF Spec

\* The parser and its description are what they should be: the port of SCTP
\* fits u16.
THEOREM TypeCorrect == Spec => []TypeOK
<1>1. IInv => TypeOK
  <2> SUFFICES ASSUME IInv PROVE TypeOK
    OBVIOUS
  <2>1. IsParser(parser) /\ IsDescription(parser.d)
    BY DEF IInv, IsParser
  <2>2. parser.kind = "application" <=> parser.app # NoApplication
    BY <2>1, HasMid DEF IsParser
  <2>3. /\ parser.d.application.number \in [NumberAttr -> DOMAIN Decimal \cup {Unset}]
        /\ parser.d.application.number["sctp-port"] \in Port \cup {Unset}
    BY <2>1 DEF IsDescription, IsApplication
  <2> QED
    BY <2>1, <2>2, <2>3 DEF IInv, TypeOK, IsParser, IsDescription
<1> QED
  BY <1>1, Invariant, PTL

\* Whatever is read or added, in whatever spelling and with whatever mid, a
\* candidate is kept once.
THEOREM CandidatesAreKeptOnce == Spec => []NoTwins
<1>1. IInv => NoTwins
  BY DEF IInv, IsParser, IsDescription, Distinct, NoTwins
<1> QED
  BY <1>1, Invariant, PTL

\* Whatever the group lines say and wherever they stand, the application is
\* in the BUNDLE group, unless its mid was set behind set_application's back.
THEOREM ApplicationIsBundled == Spec => []BundleHasApplication
<1>1. IInv => BundleHasApplication
  <2> SUFFICES ASSUME IInv, has_application(Now), ~renamed
               PROVE  Contains(Now.bundle_mids, Now.application.mid)
    BY DEF BundleHasApplication
  <2>1. CASE phase = "parsed"
    <3>1. /\ parser.kind = "none" /\ Grouped(parser.d) /\ parser.other_mid = Unset
          /\ DOMAIN parser.d = Field
      BY <2>1 DEF IInv, IsParser, IsDescription
    <3>2. Now.application = parser.d.application /\ Now.bundle_mids = parser.d.bundle_mids
      BY <3>1 DEF Now, flush_section, Parser, Field
    <3>3. Grouped(Now)
      BY <3>1, <3>2 DEF Grouped, has_application
    <3> QED
      BY <3>3 DEF Grouped
  <2>2. CASE phase # "parsed"
    <3>1. IsParser(parser) /\ Reading(parser)
      BY <2>2 DEF IInv
    <3>2. Grouped(Now)
      BY <3>1, Flush DEF Now
    <3> QED
      BY <3>2 DEF Grouped
  <2> QED
    BY <2>1, <2>2
<1> QED
  BY <1>1, Invariant, PTL

\* Whatever is read and however it is edited, all that the description and
\* the parser hold can be written: of what the parser puts into extra_attrs
\* and other_sections no line would be taken for another, and every number is
\* as it is printed.
THEOREM WhatIsKeptCanBeWritten == Spec => [](IInv /\ Storable(parser))
<1>1. Init => IInv /\ Storable(parser)
  BY InitHolds, InitWrites
<1>2. IInv /\ Storable(parser) /\ [Next]_vars => IInv' /\ Storable(parser)'
  BY NextKeeps, NextWrites
<1> QED
  BY <1>1, <1>2, PTL DEF Spec

\* What to_sdp() writes, parse() accepts, and with an application it gives
\* back every attribute, number, line and section as it was, the group with
\* at most more mids at its end if each of them is one word, and every
\* candidate of the application with its foundation and its endpoint.
THEOREM NothingIsLost == Spec => []NothingLost
<1>1. IInv /\ Storable(parser) => NothingLost
  BY NowIsWritable, NothingIsLostOf
<1> QED
  BY <1>1, WhatIsKeptCanBeWritten, PTL

\* What was written and read back once is from then on written and read back
\* as it is, if every mid of its group is one word.
THEOREM SettlesAtOnce == Spec => []SettlesOnce
<1>1. IInv /\ Storable(parser) => SettlesOnce
  BY NowIsWritable, SettlesIfWritable
<1> QED
  BY <1>1, WhatIsKeptCanBeWritten, PTL
===============================================================================
