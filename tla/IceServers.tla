------------------------------ MODULE IceServers ------------------------------
(***************************************************************************)
(* The ICE servers of src/configuration.rs and what IceTransport::new()    *)
(* makes of them: servers are added by URL or as values, and the agent     *)
(* gets those it can use.                                                  *)
(***************************************************************************)
EXTENDS Url, TLC

CONSTANTS Lower,        \* lower case of each word of a scheme that has capitals
          Url,          \* URLs the application may hand in
          Server,       \* servers it may add as values
          PortRange,    \* port ranges <<begin, end>> it may configure
          BindAddress,  \* subset of {"none", "an address", "no address"}
          MaxServers    \* bound on the configured servers

IceServer(hostname, port, typ, username, password, relay_type) ==
  [hostname |-> hostname, port |-> port, typ |-> typ, username |-> username,
   password |-> password, relay_type |-> relay_type]

stun(hostname, port) == IceServer(hostname, port, "Stun", <<>>, <<>>, "TurnUdp")
turn(hostname, port, username, password, relay_type) ==
  IceServer(hostname, port, "Turn", username, password, relay_type)

MAX_TURN_SERVERS_COUNT == 2
MaxPort == 65535

Token == STRING

ASSUME IceServersAssumption ==
  /\ MaxServers \in Nat /\ Url \subseteq Seq(Token)
  /\ \A r \in PortRange : r \in (0..MaxPort) \X (0..MaxPort)
  /\ \A s \in Server : s.port \in 0..MaxPort

VARIABLES ice_servers,   \* Configuration::ice_servers
          proxy_server,  \* Configuration::proxy_server
          port_range,    \* Configuration::port_range_begin and port_range_end
          bind_address,  \* Configuration::bind_address
          last,          \* the last URL handed in, and what came of it
          agent          \* the agent new() built, if it did

vars == <<ice_servers, proxy_server, port_range, bind_address, last, agent>>

(* Operators named X_Slip are not used by any action: each is X after a    *)
(* plausible mistake, kept beside X to show which property notices it.     *)

-----------------------------------------------------------------------------
(* IceServer::parse() and ProxyServer::parse()                             *)

\* What a scheme stands for, by its tokens; "stuns" is refused like any other.
IceScheme ==
  [scheme \in {<<"stun">>, <<"turn">>, <<"turns">>} |->
     CASE scheme = <<"stun">> -> [typ |-> "Stun", relay_type |-> "TurnUdp", port |-> 3478]
       [] scheme = <<"turn">> -> [typ |-> "Turn", relay_type |-> "TurnUdp", port |-> 3478]
       [] scheme = <<"turns">> -> [typ |-> "Turn", relay_type |-> "TurnTls", port |-> 5349]]

ProxyScheme ==
  (<<"http">> :> [typ |-> "Http", port |-> 3128])
    @@ (<<"https">> :> [typ |-> "Http", port |-> 3128])
    @@ (<<"socks5">> :> [typ |-> "Socks5", port |-> 1080])

SchemeOf(parsed) ==
  [i \in DOMAIN parsed.scheme |->
     IF parsed.scheme[i] \in DOMAIN Lower THEN Lower[parsed.scheme[i]] ELSE parsed.scheme[i]]

\* str::parse::<u16> of a text that is not empty; it takes a plus sign.
Unsigned(text) == IF Head(text) = "+" THEN Tail(text) ELSE text
Shifted(n, digit) == 10 * n + Hex[digit]
Number(text) == FoldLeft(Shifted, 0, Unsigned(text))
IsNumber(text) ==
  LET digits == Unsigned(text)
  IN  digits # <<>> /\ \A i \in DOMAIN digits : digits[i] \in DOMAIN Hex /\ Hex[digits[i]] < 10

IsPort(text) == IsNumber(text) /\ Number(text) <= MaxPort
PortError(parsed) == parsed.port # None /\ ~IsPort(parsed.port[1])
PortOr(parsed, default) == IF parsed.port = None THEN default ELSE Number(parsed.port[1])

\* The query may ask for a transport unless the scheme has settled on TLS.
Relay(parsed, default) ==
  LET asks(transport) == parsed.query # None /\ Contains(parsed.query[1], transport)
  IN  IF default = "TurnTls" THEN "TurnTls"
      ELSE CASE asks("transport=udp") -> "TurnUdp"
             [] ~asks("transport=udp") /\ asks("transport=tcp") -> "TurnTcp"
             [] ~asks("transport=udp") /\ ~asks("transport=tcp") /\ asks("transport=tls") -> "TurnTls"
             [] OTHER -> default

HasUserInfo(parsed) == parsed.user # None \/ parsed.password # None

ServerError(parsed) ==
  LET typ == IceScheme[SchemeOf(parsed)].typ
      known == SchemeOf(parsed) \in DOMAIN IceScheme
  IN  FirstError(
        << <<~known, "UnknownScheme">>,
           <<known /\ typ = "Stun" /\ HasUserInfo(parsed), "StunWithCredentials">>,
           <<known /\ typ = "Turn" /\ ~HasUserInfo(parsed), "TurnMissingCredentials">>,
           <<PortError(parsed), "InvalidPort">> >>)

IceServer_parse(url) ==
  LET parsed == ParsedUrl(url)
      scheme == IceScheme[SchemeOf(parsed)]
      error == IF UrlError(url) # "none" THEN UrlError(url) ELSE ServerError(parsed)
  IN  IF error # "none" THEN [error |-> error]
      ELSE [error |-> "none",
            value |-> IceServer(parsed.host, PortOr(parsed, scheme.port), scheme.typ,
                                OrDefault(parsed.user), OrDefault(parsed.password),
                                IF scheme.typ = "Turn" THEN Relay(parsed, scheme.relay_type)
                                ELSE scheme.relay_type)]

ProxyServer_parse(url) ==
  LET parsed == ParsedUrl(url)
      scheme == ProxyScheme[SchemeOf(parsed)]
      error == IF UrlError(url) # "none" THEN UrlError(url)
               ELSE FirstError(<< <<SchemeOf(parsed) \notin DOMAIN ProxyScheme, "UnknownScheme">>,
                                  <<PortError(parsed), "InvalidPort">> >>)
  IN  IF error # "none" THEN [error |-> error]
      ELSE [error |-> "none",
            value |-> [typ |-> scheme.typ, hostname |-> parsed.host,
                       port |-> PortOr(parsed, scheme.port), username |-> parsed.user,
                       password |-> parsed.password]]

-----------------------------------------------------------------------------
(* The configuration                                                       *)

Init ==
  /\ ice_servers = <<>> /\ proxy_server = None
  /\ port_range = <<1024, MaxPort>> /\ bind_address = "none"
  /\ last = [as |-> "server", url |-> None, result |-> [error |-> "none"]]
  /\ agent = None

\* What becomes of each URL: functions, which TLC works out once.
ServerFrom == [url \in Url |-> IceServer_parse(url)]
ProxyFrom == [url \in Url |-> ProxyServer_parse(url)]

\* The application puts its configuration together before it uses it.
Configuring == agent = None /\ UNCHANGED <<port_range, bind_address, agent>>

add_ice_server(url) ==
  LET result == ServerFrom[url]
  IN  /\ Configuring /\ Len(ice_servers) < MaxServers
      /\ last' = [as |-> "server", url |-> Some(url), result |-> result]
      /\ ice_servers' = IF result.error = "none" THEN Append(ice_servers, result.value)
                        ELSE ice_servers
      /\ UNCHANGED proxy_server

add_ice_server_parsed(server) ==
  /\ Configuring /\ Len(ice_servers) < MaxServers
  /\ ice_servers' = Append(ice_servers, server)
  /\ UNCHANGED <<proxy_server, last>>

SetProxy(url) ==
  LET result == ProxyFrom[url]
  IN  /\ Configuring
      /\ last' = [as |-> "proxy", url |-> Some(url), result |-> result]
      /\ proxy_server' = IF result.error = "none" THEN Some(result.value) ELSE proxy_server
      /\ UNCHANGED ice_servers

-----------------------------------------------------------------------------
(* IceTransport::new().  The agent's builder may refuse a TURN server, or  *)
(* to build; nothing is left of a transport that could not be built.       *)

PortOf(server) == IF server.port = 0 THEN 3478 ELSE server.port

IsStun(server) == server.typ = "Stun" /\ server.hostname # <<>>
IsTurn(server) == server.typ = "Turn" /\ server.hostname # <<>>

\* The first STUN server; the others are dropped.
with_stun(servers) ==
  LET i == SelectInSeq(servers, IsStun)
  IN  IF i = 0 THEN None
      ELSE Some([hostname |-> servers[i].hostname, port |-> PortOf(servers[i])])

TurnEntry(server) ==
  [hostname |-> server.hostname, port |-> PortOf(server), username |-> server.username,
   password |-> server.password]

\* The servers the agent cannot reach take a place too.
add_turn_servers_Slip(servers) ==
  LET turns == SelectSeq(servers, IsTurn)
      kept == SubSeq(turns, 1, Min({Len(turns), MAX_TURN_SERVERS_COUNT}))
      udp == SelectSeq(kept, LAMBDA server : server.relay_type = "TurnUdp")
  IN  [i \in DOMAIN udp |-> TurnEntry(udp[i])]

\* One turn of the loop: libjuice does TURN over UDP only.
add_turn_server(added, server) ==
  IF /\ IsTurn(server)
     /\ Len(added) < MAX_TURN_SERVERS_COUNT
     /\ server.relay_type = "TurnUdp"
    THEN Append(added, TurnEntry(server)) ELSE added

add_turn_servers(servers) == FoldLeft(add_turn_server, <<>>, servers)

with_port_range(range) ==
  IF range[1] > 1024 \/ range[2] \notin {0, MaxPort} THEN Some(range) ELSE None

\* The range and the address are public fields, set before the call.
New(range, address) ==
  /\ agent = None /\ address # "no address"
  /\ port_range' = range /\ bind_address' = address
  /\ agent' = Some([stun |-> with_stun(ice_servers), turn |-> add_turn_servers(ice_servers),
                    range |-> with_port_range(range), bind |-> address])
  /\ UNCHANGED <<ice_servers, proxy_server, last>>

\* A bad address is noticed before anything is built; the builder may refuse
\* a server, or to build.
NewFails(address) ==
  /\ agent = None
  /\ last' = [as |-> "new", url |-> None,
              result |-> [error |-> IF address = "no address" THEN "BadBindAddress" ELSE "Juice"]]
  /\ UNCHANGED <<ice_servers, proxy_server, port_range, bind_address, agent>>

Next ==
  \/ \E url \in Url : add_ice_server(url) \/ SetProxy(url)
  \/ \E server \in Server : add_ice_server_parsed(server)
  \/ \E address \in BindAddress : (\E range \in PortRange : New(range, address)) \/ NewFails(address)

Spec == Init /\ [][Next]_vars

-----------------------------------------------------------------------------
(* Properties                                                              *)

\* Whatever way the servers, the range and the address came into the
\* configuration, the agent works with all of it that it can use: the first
\* STUN server, every TURN server over UDP in the configured order as long as
\* there is room, each at a port that can be sent to; and a range inside the
\* default one, if it is not the default one.
AgentGetsTheUsable ==
  agent # None =>
    LET usable == {i \in DOMAIN ice_servers :
                     IsTurn(ice_servers[i]) /\ ice_servers[i].relay_type = "TurnUdp"}
        place(i) == Cardinality({j \in usable : j <= i})
        stunned == {i \in DOMAIN ice_servers : IsStun(ice_servers[i])}
        range == agent[1].range
    IN  /\ agent[1].stun = None <=> stunned = {}
        /\ \A i \in stunned : (\A j \in stunned : i <= j) =>
             /\ agent[1].stun[1].hostname = ice_servers[i].hostname
             /\ agent[1].stun[1].port \in 1..MaxPort
        /\ Len(agent[1].turn) = Min({Cardinality(usable), MAX_TURN_SERVERS_COUNT})
        /\ \A i \in usable : place(i) <= MAX_TURN_SERVERS_COUNT =>
             LET given == agent[1].turn[place(i)]
             IN  /\ given.hostname = ice_servers[i].hostname /\ given.port \in 1..MaxPort
                 /\ given.username = ice_servers[i].username
                 /\ given.password = ice_servers[i].password
        /\ 1024 <= port_range[1] /\ port_range[1] <= port_range[2]
             => (range = IF port_range = <<1024, MaxPort>> THEN None ELSE Some(port_range))
=============================================================================
