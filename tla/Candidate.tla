------------------------------ MODULE Candidate ------------------------------
(***************************************************************************)
(* src/candidate.rs: an ICE candidate line as a value.  A line is the      *)
(* sequence of its tokens after "candidate:"; parsing to a number or to an *)
(* address and printing it again is given by two constants, since a text   *)
(* need not be the one that is printed ("09", "FE80::1").                  *)
(***************************************************************************)
EXTENDS Naturals, Sequences, FiniteSetsExt

CONSTANTS Decimal,    \* Decimal[text]: how the number a text parses to is printed
          Port,       \* the texts that fit u16
          IpLiteral,  \* IpLiteral[text]: how the address a text parses to is printed
          Lower       \* Lower[text]: the text in lower case, where it is another

Text == STRING
Unset == "none"       \* no mid

ASSUME CandidateAssumption ==
  /\ DOMAIN Decimal \cup DOMAIN IpLiteral \subseteq Text
  /\ Port \subseteq DOMAIN Decimal
  /\ \A text \in DOMAIN Decimal : /\ Decimal[text] \in DOMAIN Decimal
                                  /\ Decimal[Decimal[text]] = Decimal[text]
                                  /\ text \in Port <=> Decimal[text] \in Port
  /\ \A text \in DOMAIN IpLiteral : /\ IpLiteral[text] \in DOMAIN IpLiteral
                                    /\ IpLiteral[IpLiteral[text]] = IpLiteral[text]

low(text) == IF text \in DOMAIN Lower THEN Lower[text] ELSE text

\* The value after a key, the tail being keys and values in turn.
find_kv(tail, key) ==
  LET keys == {i \in DOMAIN tail : i % 2 = 1 /\ i < Len(tail) /\ low(tail[i]) = key}
  IN  IF keys = {} THEN Unset ELSE tail[Min(keys) + 1]

classify_transport(transport, tail) ==
  LET tcptype == find_kv(tail, "tcptype")
  IN  CASE low(transport) = "udp" -> "Udp"
        [] low(transport) \notin {"udp", "tcp"} -> "Unknown"
        [] low(transport) = "tcp" ->
             CASE tcptype = "active" -> "TcpActive" [] tcptype = "passive" -> "TcpPassive"
               [] tcptype = "so" -> "TcpSo" [] OTHER -> "TcpUnknown"

\* The eight tokens parse() insists on; a port need not be a number.
Parses(line) ==
  /\ Len(line) >= 8
  /\ {line[2], line[4]} \subseteq DOMAIN Decimal
  /\ line[7] = "typ"

\* An empty mid is no mid.
parse_candidate(line, mid) ==
  LET tail == SubSeq(line, 9, Len(line))
  IN  [foundation |-> line[1], component |-> Decimal[line[2]],
       transport |-> line[3], transport_type |-> classify_transport(line[3], tail),
       priority |-> Decimal[line[4]], node |-> line[5], service |-> line[6],
       type |-> line[8], tail |-> tail,
       mid |-> IF mid = "" THEN Unset ELSE mid]

\* Only literals are ever resolved, by try_resolve_numeric().
is_resolved(c) == c.node \in DOMAIN IpLiteral /\ c.service \in Port

\* Address and port as they are printed.
Endpoint(c) ==
  IF is_resolved(c) THEN <<IpLiteral[c.node], Decimal[c.service]>> ELSE <<c.node, c.service>>

to_sdp(c) ==
  <<c.foundation, c.component, c.transport, c.priority>> \o Endpoint(c)
     \o <<"typ", c.type>> \o c.tail

mid_of(c) == IF c.mid = Unset THEN "0" ELSE c.mid

hint_mid(c, mid) == IF c.mid = Unset THEN [c EXCEPT !.mid = mid] ELSE c

\* PartialEq: the texts of the line, not the address they stand for.
Same(c, e) ==
  c.foundation = e.foundation /\ c.node = e.node /\ c.service = e.service
=============================================================================
