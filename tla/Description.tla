----------------------------- MODULE Description -----------------------------
(***************************************************************************)
(* src/description.rs: a session description, the parser that builds one   *)
(* line by line, the serializer, and the operations that edit one.  A line *)
(* of SDP is [key, value] with the value already split into its tokens; m=,  *)
(* o= and a connection line are the keys m, o and c, the rest are a= lines. *)
(*                                                                         *)
(* A behaviour feeds lines to the parser, in any order, ends the input and *)
(* edits the result; or it starts editing a new description, or the one    *)
(* IceTransport::get_local_description() makes of what its agent says.     *)
(* What to_sdp() writes of it is then parsed again by the properties.      *)
(***************************************************************************)
EXTENDS Candidate, SequencesExt, TLC

CONSTANTS Input,      \* the lines the parser may be given
          Fragment,   \* what the agent may say of itself, as lines
          Mid,        \* the mids of new applications
          Numeral,    \* Numeral[n]: how the index of a section is printed
          Words,      \* Words[text]: the words of a text that is not just one
          Trimmed,    \* Trimmed[text]: the text without blanks around it, where it has any
          Direction,  \* the directions an application may be set to
          MaxLines,   \* bound on the lines of an input
          MaxEdits    \* bound on the edits

Type == {"Unspec", "Offer", "Answer", "Pranswer", "Rollback"}
Role == {"ActPass", "Passive", "Active"}

\* Attributes of the session that section 0 may override, and numbers of the
\* application with the texts their type takes.
SessionAttr == {"fingerprint", "ice-ufrag", "ice-pwd"}
NumberAttr == {"sctp-port", "max-message-size"}
Accepted(key) == IF key = "sctp-port" THEN Port ELSE DOMAIN Decimal
DirectionAttr == {"sendonly", "recvonly", "sendrecv", "inactive"}

\* A mid may be any text, with blanks in it or none at all.
MidText == Text \ {Unset}

ASSUME DescriptionAssumption ==
  /\ Mid \subseteq MidText /\ Numeral \in [0..MaxLines -> MidText]
  /\ \A line \in Input :
       /\ line.key = "mid" => line.value \in MidText
       /\ line.key = "group" => line.value \in Seq(MidText)
       /\ line.key = "candidate" => line.value \in Seq(Text)
  /\ Direction \subseteq DirectionAttr \cup {"unknown"}
  /\ MaxLines \in Nat /\ MaxEdits \in Nat

ASSUME WordsAssumption ==
  /\ "" \in DOMAIN Words
  /\ \A text \in DOMAIN Words : Words[text] \in Seq(MidText \ DOMAIN Words)
  /\ \A text \in DOMAIN Trimmed : Trimmed[text] \in MidText

VARIABLES parser,   \* the description d, and the section being read
          phase,    \* "parsing", "parsed" or "error"
          lines,    \* how many lines were read
          edits,    \* how often the description was edited
          renamed   \* history: was a mid set behind set_application's back?

vars == <<parser, phase, lines, edits, renamed>>

Line(key, value) == [key |-> key, value |-> value]

Application(mid) ==
  [mid |-> mid, number |-> [key \in NumberAttr |-> Unset], direction |-> "sendrecv",
   extra_attrs |-> <<>>]

NoApplication == Application(Unset)

new(type, role) ==
  [type |-> type, role |-> role, origin |-> "rtc", bundle_mids |-> <<>>,
   attr |-> [key \in SessionAttr |-> Unset], ice_options |-> <<>>,
   extmap_allow_mixed |-> FALSE, extra_attrs |-> <<>>, application |-> NoApplication,
   other_sections |-> <<>>, candidates |-> <<>>, ended |-> FALSE]

words(text) == IF text \in DOMAIN Words THEN Words[text] ELSE <<text>>

trim(text) == IF text \in DOMAIN Trimmed THEN Trimmed[text] ELSE text

\* section_index counts from 0 in the code: sections is one more.
Parser(description) ==
  [d |-> description, kind |-> "none", app |-> NoApplication, other |-> <<>>,
   other_mid |-> Unset, sections |-> 0]

(* Operators named X_Slip are not used by any action: each is X after a    *)
(* plausible mistake, kept beside X to show which property notices it.     *)

\* The elements of s at the places I, in their order.
Kept(s, I) ==
  [k \in 1..Cardinality(I) |-> s[CHOOSE i \in I : Cardinality({j \in I : j <= i}) = k]]

AppendNew(s, e) == IF Contains(s, e) THEN s ELSE Append(s, e)

\* compared as a whole, its mid included
push_candidate_Slip(s, c) == AppendNew(s, c)

push_candidate(s, c) ==
  IF \E i \in DOMAIN s : Same(s[i], c) THEN s ELSE Append(s, c)

has_application(d) == d.application # NoApplication

\* The mid that candidates without one are given.
bundle_mid(d) ==
  CASE has_application(d) -> d.application.mid
    [] ~has_application(d) /\ d.bundle_mids # <<>> -> Head(d.bundle_mids)
    [] OTHER -> "0"

-----------------------------------------------------------------------------
(* parse_into()                                                            *)

\* The section that ends becomes part of the description; of two
\* applications the last one stays.
flush_section(p) ==
  LET mid == IF p.kind = "application" THEN p.app.mid ELSE p.other_mid
  IN  [Parser([p.d EXCEPT
                 !.application = IF p.kind = "application" THEN p.app ELSE @,
                 !.other_sections = IF p.kind = "other" THEN Append(@, p.other) ELSE @,
                 !.bundle_mids = IF mid = Unset THEN @ ELSE AppendNew(@, mid)])
       EXCEPT !.sections = p.sections]

ReadMedia(p, line) ==
  LET q == [flush_section(p) EXCEPT !.sections = @ + 1]
  IN  IF line.value = "application"
        THEN [q EXCEPT !.kind = "application", !.app = Application(Numeral[p.sections])]
        ELSE [q EXCEPT !.kind = "other", !.other = <<line>>]

\* Another section is kept as it is; its mid is trimmed, an application's is not.
ReadVerbatim(p, line) ==
  [p EXCEPT !.other = Append(@, line),
            !.other_mid = IF line.key = "mid" THEN trim(line.value) ELSE @]

\* The first one stays, but section 0 overrides it.
ReadSessionAttr(p, line) ==
  IF p.d.attr[line.key] = Unset \/ p.sections = 1
    THEN [p EXCEPT !.d.attr[line.key] = line.value] ELSE p

ReadSetup(p, line) ==
  [p EXCEPT !.d.role = CASE line.value = "active" -> "Active"
                         [] line.value = "passive" -> "Passive"
                         [] OTHER -> "ActPass"]

ReadCandidate(p, line) ==
  LET default_mid == CASE p.kind = "application" -> p.app.mid
                       [] p.kind # "application" /\ p.d.bundle_mids # <<>> -> Head(p.d.bundle_mids)
                       [] OTHER -> "0"
  IN  [p EXCEPT !.d.candidates = push_candidate(@, parse_candidate(line.value, default_mid))]

\* kept like any other attribute
ReadSession_Slip(p, line) ==
  CASE line.key = "group" -> [p EXCEPT !.d.bundle_mids = line.value]
    [] line.key = "extmap-allow-mixed" -> [p EXCEPT !.d.extmap_allow_mixed = TRUE]
    [] line.key = "ice-options" ->
         [p EXCEPT !.d.ice_options = IF @ = <<>> THEN line.value ELSE @]
    [] line.key \in SessionAttr -> ReadSessionAttr(p, line)
    [] line.key = "setup" -> ReadSetup(p, line)
    [] line.key = "candidate" -> ReadCandidate(p, line)
    [] line.key = "end-of-candidates" -> [p EXCEPT !.d.ended = TRUE]
    [] line.key = "msid-semantic" -> [p EXCEPT !.d.extra_attrs = Append(@, line)]

\* Attributes of the session, wherever they stand outside another section.
ReadSession(p, line) ==
  CASE line.key = "group" -> [p EXCEPT !.d.bundle_mids = line.value]
    [] line.key = "extmap-allow-mixed" -> [p EXCEPT !.d.extmap_allow_mixed = TRUE]
    [] line.key = "ice-options" ->
         [p EXCEPT !.d.ice_options = IF @ = <<>> THEN line.value ELSE @]
    [] line.key \in SessionAttr -> ReadSessionAttr(p, line)
    [] line.key = "setup" -> ReadSetup(p, line)
    [] line.key = "candidate" -> ReadCandidate(p, line)
    [] line.key = "end-of-candidates" -> [p EXCEPT !.d.ended = TRUE]
    [] line.key = "msid-semantic" -> p

SessionKey == SessionAttr \cup {"group", "extmap-allow-mixed", "ice-options", "setup",
                                "candidate", "end-of-candidates", "msid-semantic"}

ReadApplication(p, line) ==
  CASE line.key = "mid" -> [p EXCEPT !.app.mid = line.value]
    [] line.key \in NumberAttr -> [p EXCEPT !.app.number[line.key] = Decimal[line.value]]
    [] line.key \in DirectionAttr -> [p EXCEPT !.app.direction = line.key]
    [] OTHER -> [p EXCEPT !.app.extra_attrs = Append(@, line)]

\* What the parser gives up on.
Malformed_Slip(p, line) ==
  \/ p.kind # "other" /\ line.key = "candidate" /\ ~Parses(line.value)
  \/ p.kind = "application" /\ line.key \in NumberAttr /\ line.value \notin DOMAIN Decimal

Malformed(p, line) ==
  \/ p.kind # "other" /\ line.key = "candidate" /\ ~Parses(line.value)
  \/ p.kind = "application" /\ line.key \in NumberAttr /\ line.value \notin Accepted(line.key)

ReadLine(p, line) ==
  CASE line.key = "m" -> ReadMedia(p, line)
    [] line.key = "o" -> [p EXCEPT !.d.origin = line.value]
    [] line.key \notin {"m", "o"} /\ p.kind = "other" -> ReadVerbatim(p, line)
    [] line.key = "c" /\ p.kind # "other" -> p
    [] line.key \in SessionKey /\ p.kind # "other" -> ReadSession(p, line)
    [] line.key \notin SessionKey \cup {"m", "o", "c"} /\ p.kind = "application" ->
         ReadApplication(p, line)
    [] line.key \notin SessionKey \cup {"m", "o", "c"} /\ p.kind = "none" ->
         [p EXCEPT !.d.extra_attrs = Append(@, line)]

\* No more is read once the parser has given up.
Feed(p, line) ==
  IF p.kind = "error" \/ Malformed(p, line) THEN [p EXCEPT !.kind = "error"] ELSE ReadLine(p, line)

Failed == new("error", "ActPass")

\* A whole input.
parse(input) ==
  LET p == FoldLeft(Feed, Parser(new("Unspec", "ActPass")), input)
  IN  IF p.kind = "error" THEN Failed ELSE flush_section(p).d

-----------------------------------------------------------------------------
(* to_sdp()                                                                *)

If(condition, line) == IF condition THEN <<line>> ELSE <<>>
WriteAttr(d, key) == If(d.attr[key] # Unset, Line(key, d.attr[key]))
WriteNumber(app, key) == If(app.number[key] # Unset, Line(key, app.number[key]))

CandidatesOf(d, mid) ==
  Kept(d.candidates, {i \in DOMAIN d.candidates : mid_of(d.candidates[i]) = mid})

\* the attributes the parser kept forgotten
write_application_Slip(d) ==
  LET app == d.application
      mine == CandidatesOf(d, app.mid)
  IN  <<Line("m", "application"), Line("mid", app.mid)>>
        \o If(app.direction # "unknown", Line(app.direction, ""))
        \o <<Line("setup", CASE d.role = "Active" -> "active" [] d.role = "Passive" -> "passive"
                             [] OTHER -> "actpass")>>
        \o WriteAttr(d, "ice-ufrag") \o WriteAttr(d, "ice-pwd") \o WriteAttr(d, "fingerprint")
        \o WriteNumber(app, "sctp-port") \o WriteNumber(app, "max-message-size")
        \o [i \in DOMAIN mine |-> Line("candidate", to_sdp(mine[i]))]
        \o If(d.ended, Line("end-of-candidates", ""))

\* Only the candidates of this section are written.
write_application(d) ==
  LET app == d.application
      mine == CandidatesOf(d, app.mid)
  IN  <<Line("m", "application"), Line("mid", app.mid)>>
        \o If(app.direction # "unknown", Line(app.direction, ""))
        \o <<Line("setup", CASE d.role = "Active" -> "active" [] d.role = "Passive" -> "passive"
                             [] OTHER -> "actpass")>>
        \o WriteAttr(d, "ice-ufrag") \o WriteAttr(d, "ice-pwd") \o WriteAttr(d, "fingerprint")
        \o WriteNumber(app, "sctp-port") \o WriteNumber(app, "max-message-size")
        \o app.extra_attrs
        \o [i \in DOMAIN mine |-> Line("candidate", to_sdp(mine[i]))]
        \o If(d.ended, Line("end-of-candidates", ""))

\* The group is written as one text, and that is read as the words it has.
Spread(mids) == FlattenSeq([i \in DOMAIN mids |-> words(mids[i])])

generate_sdp(d) ==
  <<Line("o", d.origin)>>
    \o If(d.bundle_mids # <<>>, Line("group", Spread(d.bundle_mids)))
    \o <<Line("msid-semantic", "")>>
    \o If(d.ice_options # <<>>, Line("ice-options", d.ice_options))
    \o If(d.extmap_allow_mixed, Line("extmap-allow-mixed", ""))
    \o WriteAttr(d, "fingerprint")
    \o d.extra_attrs
    \o (IF has_application(d) THEN write_application(d) ELSE <<>>)
    \o FlattenSeq(d.other_sections)

-----------------------------------------------------------------------------
(* The application, and the description a transport gives of itself.       *)

\* What retain() leaves of s: all but e.
Without(s, e) == Kept(s, {i \in DOMAIN s : s[i] # e})

\* the old mid dropped after the new one was looked for
with_application_Slip(d, app) ==
  LET kept == IF Contains(d.bundle_mids, app.mid) THEN d.bundle_mids
                ELSE <<app.mid>> \o d.bundle_mids
  IN  [d EXCEPT !.application = app,
                !.bundle_mids = Without(kept, d.application.mid)]

\* The old mid is dropped, the new one goes to the front unless it is there.
with_application(d, app) ==
  LET kept == Without(d.bundle_mids, d.application.mid)
  IN  [d EXCEPT !.application = app,
                !.bundle_mids = IF Contains(kept, app.mid) THEN kept ELSE <<app.mid>> \o kept]

\* The last line of each kind counts.
extract_ice_creds(fragment) ==
  [key \in {"ice-ufrag", "ice-pwd"} |->
     LET i == SelectLastInSeq(fragment, LAMBDA line : line.key = key)
     IN  IF i = 0 THEN Unset ELSE fragment[i].value]

\* The agent's candidates are left to the caller.
get_local_description(type, role, fragment, mid) ==
  LET d == new(type, IF type = "Offer" THEN "ActPass" ELSE role)
      creds == extract_ice_creds(fragment)
  IN  with_application([d EXCEPT !.attr = [key \in SessionAttr |->
                                             IF key \in DOMAIN creds THEN creds[key] ELSE @[key]],
                                 !.ice_options = AppendNew(@, "trickle")],
                       Application(mid))

-----------------------------------------------------------------------------
\* Until a remote description has given it one, the transport's mid is 0.
Init ==
  /\ lines = 0 /\ edits = 0 /\ renamed = FALSE
  /\ \/ phase = "parsing" /\ parser = Parser(new("Unspec", "ActPass"))
     \/ phase = "parsed" /\ \E r \in Role : parser = Parser(new("Offer", r))
     \/ /\ phase = "parsed"
        /\ \E t \in Type, r \in Role, fragment \in Fragment, mid \in Mid \cup {"0"} :
             parser = Parser(get_local_description(t, r, fragment, mid))

Read(line) ==
  /\ phase = "parsing" /\ lines < MaxLines
  /\ lines' = lines + 1
  /\ IF Malformed(parser, line)
       THEN phase' = "error" /\ UNCHANGED parser
       ELSE parser' = ReadLine(parser, line) /\ UNCHANGED phase
  /\ UNCHANGED <<edits, renamed>>

EndOfInput ==
  /\ phase = "parsing"
  /\ phase' = "parsed"
  /\ parser' = flush_section(parser)
  /\ UNCHANGED <<lines, edits, renamed>>

Edit(d) ==
  /\ phase = "parsed" /\ edits < MaxEdits
  /\ edits' = edits + 1
  /\ parser' = [parser EXCEPT !.d = d]
  /\ UNCHANGED <<phase, lines>>

set_application(mid) ==
  Edit(with_application(parser.d, Application(mid))) /\ UNCHANGED renamed

application_or_create(mid) ==
  /\ ~has_application(parser.d)
  /\ set_application(mid)

\* Through application_mut(), which leaves bundle_mids alone.
set_mid(mid) ==
  /\ has_application(parser.d)
  /\ Edit([parser.d EXCEPT !.application.mid = mid])
  /\ renamed' = TRUE

set_number(key, n) ==
  /\ has_application(parser.d)
  /\ Edit([parser.d EXCEPT !.application.number[key] = n]) /\ UNCHANGED renamed

set_direction(direction) ==
  /\ has_application(parser.d)
  /\ Edit([parser.d EXCEPT !.application.direction = direction]) /\ UNCHANGED renamed

add_candidate(line, mid) ==
  /\ LET c == hint_mid(parse_candidate(line, mid), bundle_mid(parser.d))
     IN  Edit([parser.d EXCEPT !.candidates = push_candidate(@, c)])
  /\ UNCHANGED renamed

\* hint_type, set_role, set_ice_ufrag, set_ice_pwd, set_fingerprint,
\* add_ice_option, set_extmap_allow_mixed, end_candidates.
SetSession ==
  /\ \/ \E t \in Type : Edit([parser.d EXCEPT !.type = IF @ = "Unspec" THEN t ELSE @])
     \/ \E r \in Role : Edit([parser.d EXCEPT !.role = r])
     \/ \E key \in SessionAttr : Edit([parser.d EXCEPT !.attr[key] = "edited"])
     \/ Edit([parser.d EXCEPT !.ice_options = AppendNew(@, "trickle")])
     \/ \E on \in BOOLEAN : Edit([parser.d EXCEPT !.extmap_allow_mixed = on])
     \/ Edit([parser.d EXCEPT !.ended = TRUE])
  /\ UNCHANGED renamed

CandidateLine == {line.value : line \in {l \in Input : l.key = "candidate" /\ Parses(l.value)}}

Next ==
  \/ \E line \in Input : Read(line)
  \/ EndOfInput
  \/ \E mid \in Mid : set_application(mid) \/ application_or_create(mid) \/ set_mid(mid)
  \/ \E key \in NumberAttr : \E n \in Port : set_number(key, Decimal[n])
  \/ \E direction \in Direction : set_direction(direction)
  \/ \E line \in CandidateLine, mid \in Mid \cup {""} : add_candidate(line, mid)
  \/ SetSession

Spec == Init /\ [][Next]_vars

-----------------------------------------------------------------------------
(* Properties.                                                             *)

\* The description, as parse() would return it if the input ended here, and
\* what becomes of it when it is written and read once, and once more.
Now == flush_section(parser).d
Again(d) == parse(generate_sdp(d))

TypeOK ==
  /\ phase \in {"parsing", "parsed", "error"} /\ renamed \in BOOLEAN
  /\ lines \in 0..MaxLines /\ edits \in 0..MaxEdits
  /\ parser.kind \in {"none", "application", "other"}
  /\ parser.kind = "application" <=> parser.app # NoApplication
  /\ LET d == parser.d
     IN  /\ d.type \in Type /\ d.role \in Role /\ d.ended \in BOOLEAN
         /\ d.application.number \in [NumberAttr -> DOMAIN Decimal \cup {Unset}]
         /\ d.application.number["sctp-port"] \in Port \cup {Unset}

(* A candidate is kept once, whether it was parsed at the session, in an   *)
(* application or added later, and whatever mid it came with.              *)
NoTwins ==
  LET cs == parser.d.candidates
  IN  \A i, j \in DOMAIN cs : i # j => ~Same(cs[i], cs[j])

(* The application is in the BUNDLE group, whatever the group line said    *)
(* and however often the application was replaced, unless its mid was set  *)
(* through application_mut().                                              *)
BundleHasApplication ==
  has_application(Now) /\ ~renamed => Contains(Now.bundle_mids, Now.application.mid)

\* Every mid of the group is one word.
OneWord(d) == \A i \in DOMAIN d.bundle_mids : words(d.bundle_mids[i]) = <<d.bundle_mids[i]>>

(* "Other media sections are accepted and preserved verbatim so SDPs       *)
(* round-trip without loss": what is written is accepted, and with an      *)
(* application its fields, the other sections and the attributes are read  *)
(* back, every candidate of its section keeps its endpoint, and the group  *)
(* keeps its mids when each is one word.  Candidates of any other mid are  *)
(* not written.                                                            *)
NothingLost ==
  LET x == Now  y == Again(x)
  IN  /\ y # Failed
      /\ has_application(x) =>
           /\ y.application = [x.application EXCEPT
                                 !.direction = IF @ = "unknown" THEN "sendrecv" ELSE @]
           /\ \A field \in {"role", "origin", "attr", "ice_options", "extmap_allow_mixed",
                            "extra_attrs", "other_sections", "ended"} : y[field] = x[field]
           /\ OneWord(x) => IsPrefix(x.bundle_mids, y.bundle_mids)
           /\ \A i \in DOMAIN x.candidates :
                mid_of(x.candidates[i]) = x.application.mid =>
                  \E j \in DOMAIN y.candidates :
                     /\ y.candidates[j].foundation = x.candidates[i].foundation
                     /\ Endpoint(y.candidates[j]) = Endpoint(x.candidates[i])

(* A "parse -> emit -> parse -> emit cycle" settles: what was read back    *)
(* once is read back as it is from then on, mid-less candidates, other     *)
(* spellings and group lines in the wrong place included.  It takes mids   *)
(* of one word: the group grows by the words of any other each time, and  *)
(* the candidates of an empty mid are gone the second time.                *)
SettlesOnce == OneWord(Again(Now)) => Again(Again(Now)) = Again(Now)
=============================================================================
