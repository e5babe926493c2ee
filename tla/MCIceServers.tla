---------------------------- MODULE MCIceServers ----------------------------
(* IceServers over URLs written by the documented grammar, the escapes and *)
(* the optional parts varied, and over URLs that are not of the grammar.   *)
EXTENDS IceServers

MCHex == <<>> @@ [c \in {"0", "1", "2", "3", "4", "5", "6", "8"} |->
            CASE c = "0" -> 0 [] c = "1" -> 1 [] c = "2" -> 2 [] c = "3" -> 3
              [] c = "4" -> 4 [] c = "5" -> 5 [] c = "6" -> 6 [] OTHER -> 8]
           @@ ("A" :> 10 @@ "F" :> 15)
MCAscii == (35 :> "#") @@ (37 :> "%") @@ (47 :> "/") @@ (58 :> ":") @@ (63 :> "?") @@ (64 :> "@")
MCLower == "TURN" :> "turn" @@ "STUN" :> "stun"

\* The grammar, read from left to right.
Spelled(c) ==
  LET b == CHOOSE b \in DOMAIN MCAscii : MCAscii[b] = c
      digit(n) == CHOOSE h \in DOMAIN MCHex : MCHex[h] = n
  IN  <<"%", digit(b \div 16), digit(b % 16)>>

Encode(text, unsafe) ==
  FlattenSeq([i \in DOMAIN text |-> IF text[i] \in unsafe THEN Spelled(text[i]) ELSE <<text[i]>>])

Delimiter == {"#", "%", "/", ":", "?", "@"}
When(condition, text) == IF condition THEN text ELSE <<>>

Digits == (0 :> <<"0">>) @@ (80 :> <<"8", "0">>) @@ (3128 :> <<"3", "1", "2", "8">>)
            @@ (65535 :> <<"6", "5", "5", "3", "5">>)

\* "?" and "#" may not stand anywhere in the authority, "@" may in a password.
UserInfoOf(user, password) ==
  When(user # None \/ password # None,
       Encode(OrDefault(user), Delimiter)
         \o When(password # None, <<":">> \o Encode(OrDefault(password), Delimiter \ {"@", ":"}))
         \o <<"@">>)

HostOf(host) == IF Contains(host, ":") THEN <<"[">> \o host \o <<"]">> ELSE Encode(host, Delimiter)

Written(scheme, slashes, user, password, host, port, tail) ==
  scheme \o <<":">> \o SubSeq(<<"/", "/">>, 1, slashes) \o UserInfoOf(user, password)
    \o HostOf(host) \o When(port # None, <<":">> \o Digits[OrDefault(port)]) \o tail

Users == {None, Some(<<"user">>), Some(<<":", "x", "@">>)}
Passwords == {None, Some(<<>>), Some(<<"pw", "@", "%">>), Some(<<":">>)}
Hosts == {<<"host">>, <<"y", "%", "/", "z">>, <<"fe80", ":", ":", "1">>}
Tails == {<<>>, <<"#", "?", "transport=tcp", "@">>}
Query == "TurnUdp" :> <<"?", "transport=udp">> @@ "TurnTcp" :> <<"?", "x", "transport=tcp">>
           @@ "TurnTls" :> <<"?", "transport=tls">>

\* "3478 for STUN and TURN/UDP/TCP, 5349 for TURN/TLS"
DefaultPort(relay_type) == IF relay_type = "TurnTls" THEN 5349 ELSE 3478

StunUrls ==
  {<<<<"server", Written(scheme, n, None, None, h, p, t)>>,
     stun(h, IF p = None THEN 3478 ELSE p[1])>> :
   scheme \in {<<"stun">>, <<"STUN">>}, n \in {0, 2}, h \in Hosts, p \in {None, <<80>>}, t \in Tails}

TurnUrls ==
  {<<<<"server", Written(<<"turn">>, 0, u, w, h, p, Query[relay])>>,
     turn(h, IF p = None THEN DefaultPort(relay) ELSE p[1], OrDefault(u), OrDefault(w), relay)>> :
   u \in Users \ {None}, w \in Passwords, h \in {<<"host">>}, p \in {None, <<80>>}, relay \in DOMAIN Query}

TurnsUrls ==
  {<<<<"server", Written(<<"turns">>, 1, u, Some(<<":">>), h, None, q)>>,
     turn(h, DefaultPort("TurnTls"), OrDefault(u), <<":">>, "TurnTls")>> :
   u \in Users, h \in Hosts, q \in {<<>>, Query["TurnUdp"]}}

\* The documentation names the scheme, the code refuses it on purpose.
StunsUrls == {Written(<<"stuns">>, 0, None, None, h, None, <<>>) : h \in Hosts}

ProxyUrls ==
  {<<<<"proxy", Written(<<"socks5">>, 2, u, w, <<"host">>, p, t)>>,
     [typ |-> "Socks5", hostname |-> <<"host">>, port |-> IF p = None THEN 1080 ELSE p[1],
      username |-> u, password |-> w]>> :
   u \in Users, w \in Passwords, p \in {None, <<65535>>}, t \in Tails}

Grammar == StunUrls \cup TurnUrls \cup TurnsUrls \cup ProxyUrls
Meant == <<>> @@ [w \in {g[1] : g \in Grammar} |-> (CHOOSE g \in Grammar : g[1] = w)[2]]

\* Not of the grammar, or of it with a meaning nobody intended.
Odd ==
  {<<>>, <<" ">>, <<" ", "stun", ":", "host", " ">>, <<"host">>, <<":", "host">>, <<"/", ":">>,
   <<"http", ":", "host">>, <<"stun", ":">>, <<"stun", ":", "@", "host">>,
   <<"stun", ":", "user", "@", "host">>, <<"turn", ":", "host">>, <<"turn", ":", "@", "host">>,
   <<"turn", ":", ":", "@", "host">>, <<"turn", ":", "user", ":", "@">>,
   <<"turn", ":", "user", "%", "4", "@", "host">>, <<"turn", ":", "user", ":", "%", "F", "F", "@", "host">>,
   <<"turn", ":", "user", "@", "host", ":", "0">>, <<"stun", ":", "host", "%">>,
   <<"stun", ":", "host", ":", "+", "8", "0">>, <<"stun", ":", "host", ":", "+">>,
   <<"stun", ":", "host", ":">>, <<"stun", ":", "host", ":", "http">>,
   <<"stun", ":", "host", ":", "6", "5", "5", "3", "6">>, <<"stun", ":", "fe80", ":", ":", "1">>,
   <<"stun", ":", "[", "fe80">>, <<"stun", ":", "[", "fe80", "]", "8">>, <<"stun", ":", "[", "]">>,
   <<"stun", ":", "[", "fe80", "]", ":">>, <<"stun", ":", "/", "/", "/", "host">>,
   <<"socks5", ":", "host", ":", "6", "5", "5", "3", "6">>}

MCUrl == {w[2] : w \in DOMAIN Meant} \cup StunsUrls \cup Odd

MCServer == {stun(<<>>, 80), stun(<<"host">>, 0), turn(<<>>, 80, <<"user">>, <<"pw">>, "TurnUdp")}
MCPortRange == {<<1024, 65535>>, <<1024, 80>>, <<2000, 65535>>, <<1024, 60000>>, <<80, 65535>>,
                <<2000, 3000>>, <<1024, 0>>, <<2000, 0>>}

\* What a URL of the grammar makes, by the code: a "turn:" that asks for TLS
\* by its query alone gets the port of TURN/UDP, against the documentation.
Made(written) ==
  IF written[2][1] = "turn" /\ Meant[written].port = 5349
    THEN [Meant[written] EXCEPT !.port = 3478] ELSE Meant[written]

\* A URL written by the documented grammar is read as the server or proxy it
\* was written for: wherever user, password and host carry delimiters that
\* are escaped, or that the grammar lets stand, the cuts are made elsewhere.
\* The code departs from the documentation twice: the port that Made gives
\* "turn:...?transport=tls", and "stuns:", which is an error.
ParsesBack ==
  last.url # None =>
    LET written == <<last.as, last.url[1]>>
    IN  /\ written \in DOMAIN Meant => last.result = [error |-> "none", value |-> Made(written)]
        /\ last.url[1] \in StunsUrls => last.result = [error |-> "UnknownScheme"]

\* Servers of the lists that grow to their full length; one of any other
\* kind ends its list.
Plain ==
  {s \in {Made(g[1]) : g \in StunUrls \cup TurnUrls \cup TurnsUrls} :
     /\ s.hostname = <<"host">> /\ s.port \in {3478, 5349}
     /\ s.username \in {<<>>, <<"user">>} /\ s.password \in {<<>>, <<":">>}} \cup MCServer

Small ==
  /\ \A i \in DOMAIN ice_servers : ice_servers[i] \notin Plain => Len(ice_servers) = 1
  /\ proxy_server # None \/ last.as = "proxy" => ice_servers = <<>>
=============================================================================
