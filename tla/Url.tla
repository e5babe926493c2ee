--------------------------------- MODULE Url ---------------------------------
(***************************************************************************)
(* ParsedUrl of src/configuration.rs: how the URL of an ICE or proxy       *)
(* server is taken apart,                                                  *)
(*                                                                         *)
(*   <scheme>:[//][<user>[:<password>]@]<host>[:<port>][?<query>][#...]    *)
(*                                                                         *)
(* A URL is a sequence of tokens: a delimiter, a hexadecimal digit, a      *)
(* blank, or a word without any of them.  Only the cuts and the escapes    *)
(* matter, so a word stays one token.                                      *)
(***************************************************************************)
EXTENDS Integers, SequencesExt

CONSTANTS Hex,    \* value of each token that is a hexadecimal digit
          Ascii   \* token of each byte an escape may stand for

ASSUME UrlAssumption ==
  /\ \A c \in DOMAIN Hex : Hex[c] \in 0..15
  /\ "%" \notin DOMAIN Hex
  /\ DOMAIN Ascii \subseteq 0..127

\* Option<String>
None == <<>>
Some(text) == <<text>>
OrDefault(option) == IF option = None THEN <<>> ELSE option[1]

First(s, c) == SelectInSeq(s, LAMBDA d : d = c)
Final(s, c) == SelectLastInSeq(s, LAMBDA d : d = c)
Before(s, i) == SubSeq(s, 1, i - 1)
After(s, i) == SubSeq(s, i + 1, Len(s))

\* What stands before the first c, and after it.
UpTo(s, c) == IF First(s, c) = 0 THEN s ELSE Before(s, First(s, c))
Beyond(s, c) == IF First(s, c) = 0 THEN None ELSE Some(After(s, First(s, c)))

\* The checks of a function in the order it makes them: the first that
\* fails is the error it returns.
FirstError(checks) ==
  LET i == SelectInSeq(checks, LAMBDA check : check[1])
  IN  IF i = 0 THEN "none" ELSE checks[i][2]

-----------------------------------------------------------------------------
(* percent_decode(): an escape needs two hexadecimal digits, so no escape  *)
(* stands inside another.  A byte beyond ASCII is taken for invalid UTF-8: *)
(* no input spells a longer character.                                     *)

Escape(s) == {i \in DOMAIN s : s[i] = "%"}
Byte(s, i) == 16 * Hex[s[i + 1]] + Hex[s[i + 2]]

WellEncoded(s) ==
  \A i \in Escape(s) :
     /\ i + 2 <= Len(s)
     /\ {s[i + 1], s[i + 2]} \subseteq DOMAIN Hex
     /\ Byte(s, i) \in DOMAIN Ascii

\* Defined when s is well encoded.
percent_decode(s) ==
  FlattenSeq([i \in DOMAIN s |->
                CASE i \in Escape(s) -> <<Ascii[Byte(s, i)]>>
                  [] i - 1 \in Escape(s) \/ i - 2 \in Escape(s) -> <<>>
                  [] OTHER -> <<s[i]>>])

-----------------------------------------------------------------------------
(* split_host_port(): a bracketed host keeps its colons and its escapes;   *)
(* any other is cut at its last colon.  A port that is empty is no port.   *)

Bracketed(s) == s # <<>> /\ Head(s) = "["
HostEnd(s) == IF Bracketed(s) THEN First(s, "]") + 1 ELSE Final(s, ":")

HostText(s) ==
  IF Bracketed(s) THEN Tail(UpTo(s, "]"))
  ELSE IF HostEnd(s) = 0 THEN s ELSE Before(s, HostEnd(s))

HostError(s) ==
  LET after == After(s, First(s, "]"))
  IN  FirstError(
        << <<Bracketed(s) /\ First(s, "]") = 0, "UnterminatedIpv6">>,
           <<Bracketed(s) /\ after # <<>> /\ Head(after) # ":", "InvalidPort">>,
           <<~Bracketed(s) /\ ~WellEncoded(HostText(s)), "BadPercentEncoding">> >>)

\* Defined when there is no error.
split_host_port(s) ==
  LET port == After(s, HostEnd(s))
  IN  [host |-> IF Bracketed(s) THEN HostText(s) ELSE percent_decode(HostText(s)),
       port |-> IF HostEnd(s) = 0 \/ port = <<>> THEN None ELSE Some(port)]

-----------------------------------------------------------------------------
(* ParsedUrl::parse()                                                      *)

Trim(s) ==
  LET Ink == {i \in DOMAIN s : s[i] # " "}
  IN  IF Ink = {} THEN <<>> ELSE SubSeq(s, Min(Ink), Max(Ink))

Colon(url) == SelectInSeq(url, LAMBDA c : c \in {":", "/", "?", "#", "@"})
Slash(s) == s # <<>> /\ Head(s) = "/"
SkipSlash(s) == IF Slash(s) THEN Tail(s) ELSE s

\* Everything behind the scheme but the fragment.
Rest(url) == UpTo(SkipSlash(SkipSlash(After(url, Colon(url)))), "#")

\* Escapes are resolved first, and what they stood for is taken for delimiters.
Authority_Slip(url) ==
  LET authority == UpTo(Rest(url), "?")
  IN  IF WellEncoded(authority) THEN percent_decode(authority) ELSE authority

Authority(url) == UpTo(Rest(url), "?")

\* The last @ ends the user information, whose first colon ends the user.
UserInfo(authority) ==
  IF Final(authority, "@") = 0 THEN None ELSE Some(Before(authority, Final(authority, "@")))
HostPort(authority) == After(authority, Final(authority, "@"))

User(authority) ==
  LET user == UpTo(OrDefault(UserInfo(authority)), ":")
  IN  IF user = <<>> THEN None ELSE Some(user)
Password(authority) == Beyond(OrDefault(UserInfo(authority)), ":")

UrlError(text) ==
  LET url == Trim(text)
      at == Authority(url)
  IN  FirstError(
        << <<url = <<>>, "Empty">>,
           <<Colon(url) \in {0, 1} \/ url[Colon(url)] # ":", "UnknownScheme">>,
           <<~WellEncoded(OrDefault(User(at))), "BadPercentEncoding">>,
           <<~WellEncoded(OrDefault(Password(at))), "BadPercentEncoding">>,
           <<HostError(HostPort(at)) # "none", HostError(HostPort(at))>>,
           <<HostError(HostPort(at)) = "none" /\ split_host_port(HostPort(at)).host = <<>>,
             "MissingHost">> >>)

Decoded(option) == IF option = None THEN None ELSE Some(percent_decode(option[1]))

\* Defined when there is no error.
ParsedUrl(text) ==
  LET url == Trim(text)
      at == Authority(url)
      end == split_host_port(HostPort(at))
  IN  [scheme |-> Before(url, Colon(url)), user |-> Decoded(User(at)),
       password |-> Decoded(Password(at)), host |-> end.host, port |-> end.port,
       query |-> Beyond(Rest(url), "?")]
=============================================================================
