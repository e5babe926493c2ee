---------------------------- MODULE MCDescription ----------------------------
(* Every input of a few lines: both kinds of section, the attributes with  *)
(* a rule of their own, one address in two spellings, a hostname, a        *)
(* candidate cut short, mids with a blank and without a text, and numbers  *)
(* that fit u16, usize and neither.                                        *)
EXTENDS Description

MCDecimal == ("1" :> "1") @@ ("9" :> "9") @@ ("09" :> "9") @@ ("70000" :> "70000")
MCPort == {"1", "9", "09"}
MCIpLiteral == ("fe80::1" :> "fe80::1") @@ ("FE80::1" :> "fe80::1")
MCLower == ("UDP" :> "udp") @@ ("TCP" :> "tcp")

Host(node, port) == <<"f", "1", "UDP", "1", node, port, "typ", "host">>
MCCandidate ==
  {Host("fe80::1", "9"), Host("FE80::1", "09"),
   <<"f", "1", "TCP", "1", "peer.local", "9", "typ", "host", "tcptype", "so">>}

MCMid == {"a ", "v"}
MCWords == ("" :> <<>>) @@ ("a " :> <<"a">>)
MCTrimmed == "a " :> "a"
MCNumeral == [n \in 0..MaxLines |-> ToString(n)]

\* Without() is a filter.
ASSUME \A n \in 0..4 : \A s \in [1..n -> {"a", "v", "0"}] :
         Without(s, "a") = SelectSeq(s, LAMBDA m : m # "a")

MCInput ==
  {Line("m", "application"), Line("m", "audio"), Line("o", "me"), Line("c", "IN"),
   Line("group", <<"v">>), Line("ice-ufrag", "u1"), Line("ice-ufrag", "u2"),
   Line("fingerprint", "f"), Line("ice-options", <<"ice2">>), Line("setup", "active"),
   Line("end-of-candidates", ""), Line("msid-semantic", ""),
   Line("mid", "a "), Line("mid", ""), Line("mid", "v"), Line("sendonly", ""), Line("x", ""),
   Line("sctp-port", "9"), Line("sctp-port", "70000"), Line("max-message-size", "70000"),
   Line("max-message-size", "many"), Line("candidate", <<"f", "1">>)}
    \cup {Line("candidate", c) : c \in MCCandidate}

MCFragment ==
  {<<>>, <<Line("ice-ufrag", "u1"), Line("ice-pwd", "p"), Line("candidate", Host("fe80::1", "9")),
           Line("end-of-candidates", ""), Line("ice-options", <<"ice2">>)>>}
=============================================================================
