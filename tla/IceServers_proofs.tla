--------------------------- MODULE IceServers_proofs ---------------------------
(***************************************************************************)
(* Proofs about the ICE servers (IceServers): whatever is configured, the  *)
(* agent works with all of it that it can use.  The texts of a URL stay    *)
(* sequences however it is cut, its port is a number, and the loop over    *)
(* the servers gives each usable one its place: an induction over them.    *)
(***************************************************************************)
EXTENDS IceServers, FiniteSetTheorems, SequenceTheorems, TLAPS

Digits == INSTANCE FoldLaws WITH Op <- Shifted
Turns == INSTANCE FoldLaws WITH Op <- add_turn_server

-----------------------------------------------------------------------------
(* The pieces of a URL                                                     *)

LEMMA FirstIn ==
  ASSUME NEW X, NEW s \in Seq(X), NEW c
  PROVE  First(s, c) \in 0..Len(s)
<1> DEFINE I == {i \in 1..Len(s) : s[i] = c}
<1>1. First(s, c) = IF I # {} THEN Min(I) ELSE 0
  BY DEF First, SelectInSeq
<1>2. I \in SUBSET Nat /\ I \in SUBSET (1..Len(s)) /\ Len(s) \in Nat
  OBVIOUS
<1> HIDE DEF I
<1>3. I # {} => Min(I) \in I
  BY <1>2, Turns!MinIn DEF Turns!Min, Min
<1>4. I # {} => I \subseteq 1..Len(s)
  BY <1>2
<1>5. 1..Len(s) \subseteq 0..Len(s) /\ 0 \in 0..Len(s)
  BY <1>2
<1> QED
  BY <1>1, <1>3, <1>4, <1>5

LEMMA FinalIn ==
  ASSUME NEW X, NEW s \in Seq(X), NEW c
  PROVE  Final(s, c) \in 0..Len(s)
<1> DEFINE I == {i \in 1..Len(s) : s[i] = c}
<1>1. Final(s, c) = IF I # {} THEN Max(I) ELSE 0
  BY DEF Final, SelectLastInSeq
<1>2. I \in SUBSET (1..Len(s)) /\ Len(s) \in Nat
  OBVIOUS
<1> HIDE DEF I
<1>3. I # {} => Max(I) \in I
  BY <1>2, Turns!MaxIn DEF Turns!Max, Max
<1>4. I # {} => I \subseteq 1..Len(s)
  BY <1>2
<1>5. 1..Len(s) \subseteq 0..Len(s) /\ 0 \in 0..Len(s)
  BY <1>2
<1> QED
  BY <1>1, <1>3, <1>4, <1>5

LEMMA ColonIn ==
  ASSUME NEW X, NEW s \in Seq(X)
  PROVE  Colon(s) \in 0..Len(s)
<1> DEFINE I == {i \in 1..Len(s) : s[i] \in {":", "/", "?", "#", "@"}}
<1>1. Colon(s) = IF I # {} THEN Min(I) ELSE 0
  BY DEF Colon, SelectInSeq
<1>2. I \in SUBSET Nat /\ I \in SUBSET (1..Len(s)) /\ Len(s) \in Nat
  OBVIOUS
<1> HIDE DEF I
<1>3. I # {} => Min(I) \in I
  BY <1>2, Turns!MinIn DEF Turns!Min, Min
<1>4. I # {} => I \subseteq 1..Len(s)
  BY <1>2
<1>5. 1..Len(s) \subseteq 0..Len(s) /\ 0 \in 0..Len(s)
  BY <1>2
<1> QED
  BY <1>1, <1>3, <1>4, <1>5

LEMMA Cuts ==
  ASSUME NEW X, NEW s \in Seq(X)
  PROVE  /\ \A i \in Nat : After(s, i) \in Seq(X)
         /\ \A i \in 1..Len(s) : Before(s, i) \in Seq(X)
<1>1. ASSUME NEW i \in Nat PROVE After(s, i) \in Seq(X)
  <2>1. i + 1 \in Int /\ Len(s) \in Int /\ \A k \in i + 1..Len(s) : s[k] \in X
    OBVIOUS
  <2> QED
    BY ONLY <2>1, SubSeqProperties DEF After
<1>2. ASSUME NEW i \in 1..Len(s) PROVE Before(s, i) \in Seq(X)
  <2>1. 1 \in Int /\ i - 1 \in Int /\ \A k \in 1..i - 1 : s[k] \in X
    OBVIOUS
  <2> QED
    BY ONLY <2>1, SubSeqProperties DEF Before
<1> QED
  BY <1>1, <1>2

LEMMA UpToIsSeq ==
  ASSUME NEW X, NEW s \in Seq(X), NEW c
  PROVE  UpTo(s, c) \in Seq(X)
<1>1. First(s, c) \in 0..Len(s)
  BY FirstIn
<1> QED
  BY <1>1, Cuts DEF UpTo

LEMMA TrimIsSeq ==
  ASSUME NEW X, NEW s \in Seq(X)
  PROVE  Trim(s) \in Seq(X)
<1> DEFINE Ink == {i \in DOMAIN s : s[i] # " "}
<1>1. Ink \in SUBSET (1..Len(s)) /\ Ink \in SUBSET Nat /\ Len(s) \in Nat
  <2>1. DOMAIN s = 1..Len(s) /\ Len(s) \in Nat /\ 1..Len(s) \subseteq Nat
    OBVIOUS
  <2> QED
    BY <2>1
<1>2. Trim(s) = IF Ink = {} THEN <<>> ELSE SubSeq(s, Min(Ink), Max(Ink))
  BY DEF Trim
<1> HIDE DEF Ink
<1>3. CASE Ink # {}
  <2>1. Min(Ink) \in Ink
    BY <1>1, <1>3, Turns!MinIn DEF Turns!Min, Min
  <2>2. Max(Ink) \in Ink
    BY <1>1, <1>3, Turns!MaxIn DEF Turns!Max, Max
  <2>3. Min(Ink) \in 1..Len(s) /\ Max(Ink) \in 1..Len(s)
    BY <1>1, <2>1, <2>2
  <2> DEFINE m == Min(Ink)
             n == Max(Ink)
  <2> HIDE DEF m, n
  <2>4. m \in Int /\ n \in Int /\ \A k \in m..n : s[k] \in X
    BY <2>3 DEF m, n
  <2>5. SubSeq(s, m, n) \in Seq(X)
    BY ONLY <2>4, SubSeqProperties
  <2> QED
    BY <1>2, <1>3, <2>5 DEF m, n
<1> QED
  BY <1>2, <1>3

LEMMA HostPortIsSeq ==
  ASSUME NEW X, NEW text \in Seq(X)
  PROVE  HostPort(Authority(Trim(text))) \in Seq(X)
<1> DEFINE url == Trim(text)
           behind == After(url, Colon(url))
<1>1. url \in Seq(X)
  BY TrimIsSeq
<1> HIDE DEF url
<1>2. behind \in Seq(X)
  BY <1>1, ColonIn, Cuts
<1> HIDE DEF behind
<1>3. ASSUME NEW s \in Seq(X) PROVE SkipSlash(s) \in Seq(X)
  BY DEF SkipSlash, Slash
<1>4. UpTo(UpTo(SkipSlash(SkipSlash(behind)), "#"), "?") \in Seq(X)
  BY <1>2, <1>3, UpToIsSeq
<1>5. Authority(url) \in Seq(X)
  BY <1>4 DEF Authority, Rest, behind
<1> DEFINE at == Authority(url)
<1> HIDE DEF at
<1>6. at \in Seq(X)
  BY <1>5 DEF at
<1>7. Final(at, "@") \in Nat
  BY <1>6, FinalIn
<1> QED
  BY <1>6, <1>7, Cuts DEF HostPort, at, url

\* A port that is there is a text that is not empty.
LEMMA PortIsText ==
  ASSUME NEW X, NEW text \in Seq(X)
  PROVE  LET port == ParsedUrl(text).port
         IN  port # None => port[1] \in Seq(X) /\ port[1] # <<>>
<1> DEFINE s == HostPort(Authority(Trim(text)))
<1>1. s \in Seq(X)
  BY HostPortIsSeq
<1>2. ParsedUrl(text).port = split_host_port(s).port
  BY DEF ParsedUrl
<1> HIDE DEF s
<1>3. First(s, "]") \in 0..Len(s) /\ Final(s, ":") \in 0..Len(s)
  BY <1>1, FirstIn, FinalIn
<1>4. HostEnd(s) \in Nat
  BY <1>1, <1>3 DEF HostEnd
<1>5. After(s, HostEnd(s)) \in Seq(X)
  BY <1>1, <1>4, Cuts
<1> QED
  BY <1>2, <1>5 DEF split_host_port, None, Some

-----------------------------------------------------------------------------
(* Ports                                                                   *)

LEMMA NumberByDigits ==
  ASSUME NEW b, NEW s
  PROVE  Digits!Fold(b, s) = FoldLeft(Shifted, b, s)
  BY DEF Digits!Fold, Digits!FoldLeft, Digits!MapThenFoldSet, Digits!Max, FoldLeft,
     MapThenFoldSet, Max

LEMMA NumberIsNat ==
  ASSUME NEW X, NEW text \in Seq(X), text # <<>>, IsNumber(text)
  PROVE  Number(text) \in Nat
<1> DEFINE D == DOMAIN Hex
           G == {u \in Seq(D) : FoldLeft(Shifted, 0, u) \in Nat}
<1>1. <<>> \in G
  <2>1. <<>> \in Seq(D)
    OBVIOUS
  <2>2. FoldLeft(Shifted, 0, <<>>) = 0
    BY Digits!FoldEmpty, NumberByDigits
  <2> QED
    BY <2>1, <2>2
<1>2. ASSUME NEW u \in Seq(D), NEW e \in D, u \in G PROVE Append(u, e) \in G
  <2> DEFINE n == FoldLeft(Shifted, 0, u)
             m == FoldLeft(Shifted, 0, Append(u, e))
  <2>1. Append(u, e) \in Seq(D) /\ n \in Nat
    BY <1>2
  <2>2. Digits!Fold(0, Append(u, e)) = Shifted(Digits!Fold(0, u), e)
    BY Digits!FoldAppend
  <2>3. m = Shifted(n, e)
    BY <2>2, NumberByDigits
  <2>4. Hex[e] \in Nat
    <3>1. e \in DOMAIN Hex /\ Hex[e] \in 0..15
      BY UrlAssumption
    <3>2. 0..15 \subseteq Nat
      OBVIOUS
    <3> QED
      BY <3>1, <3>2
  <2> HIDE DEF n, m
  <2>5. m \in Nat
    BY <2>1, <2>3, <2>4 DEF Shifted
  <2> QED
    BY <2>1, <2>5 DEF m
<1>3. Unsigned(text) \in Seq(X)
  BY DEF Unsigned
<1>4. Unsigned(text) \in Seq(D)
  BY <1>3 DEF IsNumber
<1> HIDE DEF G
<1>5. Unsigned(text) \in G
  BY <1>1, <1>2, <1>4, Digits!SeqInduction DEF Digits!Grows
<1> QED
  BY <1>5 DEF G, Number

\* A check that fails shows: none of four has, if no error comes of them.
LEMMA NoneFails ==
  ASSUME NEW c1, NEW c2, NEW c3, NEW c4,
         NEW e1, NEW e2, NEW e3, NEW e4,
         "none" \notin {e1, e2, e3, e4},
         FirstError(<< <<c1, e1>>, <<c2, e2>>, <<c3, e3>>, <<c4, e4>> >>) = "none"
  PROVE  ~c1 /\ ~c2 /\ ~c3 /\ ~c4
<1> DEFINE checks == << <<c1, e1>>, <<c2, e2>>, <<c3, e3>>, <<c4, e4>> >>
           I == {i \in 1..Len(checks) : checks[i][1]}
           k == IF I # {} THEN Min(I) ELSE 0
<1>1. FirstError(checks) = IF k = 0 THEN "none" ELSE checks[k][2]
  BY DEF FirstError, SelectInSeq
<1>2. Len(checks) = 4
  OBVIOUS
<1>3. checks[1] = <<c1, e1>> /\ checks[2] = <<c2, e2>> /\ checks[3] = <<c3, e3>> /\ checks[4] = <<c4, e4>>
  OBVIOUS
<1> HIDE DEF checks
<1>4. /\ checks[1][1] = c1 /\ checks[2][1] = c2 /\ checks[3][1] = c3 /\ checks[4][1] = c4
      /\ checks[1][2] = e1 /\ checks[2][2] = e2 /\ checks[3][2] = e3 /\ checks[4][2] = e4
  BY <1>3
<1>5. I \in SUBSET Nat /\ I = {i \in 1..4 : checks[i][1]}
  BY <1>2
<1> HIDE DEF I
<1>6. ASSUME I # {} PROVE FALSE
  <2>1. Min(I) \in I
    BY <1>5, <1>6, Turns!MinIn DEF Turns!Min, Min
  <2>2. k \in 1..4
    BY <1>5, <1>6, <2>1
  <2>3. checks[k][2] \in {e1, e2, e3, e4}
    BY <1>4, <2>2
  <2> HIDE DEF k
  <2> QED
    BY <1>1, <2>2, <2>3 DEF checks
<1>7. \A i \in 1..4 : ~checks[i][1]
  BY <1>5, <1>6
<1> QED
  BY <1>4, <1>7

LEMMA PortBound == MaxPort \in Nat /\ 5349 < MaxPort /\ 0 # MaxPort
  BY DEF MaxPort

LEMMA SchemePort ==
  ASSUME NEW s \in DOMAIN IceScheme
  PROVE  IceScheme[s].port \in 0..MaxPort
<1>1. 3478 \in 0..MaxPort /\ 5349 \in 0..MaxPort
  BY PortBound
<1> QED
  BY <1>1 DEF IceScheme

LEMMA ServerPort ==
  ASSUME NEW url \in Url, IceServer_parse(url).error = "none"
  PROVE  IceServer_parse(url).value.port \in 0..MaxPort
<1> DEFINE parsed == ParsedUrl(url)
           s == SchemeOf(parsed)
           typ == IceScheme[s].typ
           known == s \in DOMAIN IceScheme
<1>1. UrlError(url) = "none" /\ ServerError(parsed) = "none"
  BY DEF IceServer_parse
<1>2. IceServer_parse(url).value.port = PortOr(parsed, IceScheme[s].port)
  BY <1>1 DEF IceServer_parse, IceServer
<1>3. known /\ ~PortError(parsed)
  <2> DEFINE c1 == ~known
             c2 == known /\ typ = "Stun" /\ HasUserInfo(parsed)
             c3 == known /\ typ = "Turn" /\ ~HasUserInfo(parsed)
             c4 == PortError(parsed)
  <2>1. FirstError(<< <<c1, "UnknownScheme">>, <<c2, "StunWithCredentials">>,
                      <<c3, "TurnMissingCredentials">>, <<c4, "InvalidPort">> >>) = "none"
    BY <1>1 DEF ServerError
  <2>2. "none" \notin {"UnknownScheme", "StunWithCredentials", "TurnMissingCredentials",
                       "InvalidPort"}
    OBVIOUS
  <2> HIDE DEF c1, c2, c3, c4
  <2>3. ~c1 /\ ~c2 /\ ~c3 /\ ~c4
    BY ONLY <2>1, <2>2, NoneFails
  <2> QED
    BY <2>3 DEF c1, c4
<1>4. IceScheme[s].port \in 0..MaxPort
  BY <1>3, SchemePort
<1>5. parsed.port # None => parsed.port[1] \in Seq(Token) /\ parsed.port[1] # <<>>
  <2>1. url \in Seq(Token)
    BY IceServersAssumption
  <2> QED
    BY <2>1, PortIsText
<1> HIDE DEF parsed, s
<1>6. ASSUME parsed.port # None PROVE Number(parsed.port[1]) \in 0..MaxPort
  <2> DEFINE n == Number(parsed.port[1])
  <2>1. IsNumber(parsed.port[1]) /\ n <= MaxPort
    BY <1>3, <1>6 DEF PortError, IsPort
  <2>2. n \in Nat
    BY <1>5, <1>6, <2>1, NumberIsNat
  <2> HIDE DEF n
  <2>3. n \in 0..MaxPort
    BY <2>1, <2>2, PortBound
  <2> QED
    BY <2>3 DEF n
<1> QED
  BY <1>2, <1>4, <1>6 DEF PortOr

-----------------------------------------------------------------------------
(* The first STUN server                                                   *)

Stunned(s) == {i \in DOMAIN s : IsStun(s[i])}

LEMMA FirstStun ==
  ASSUME NEW X, NEW s \in Seq(X)
  PROVE  /\ with_stun(s) = None <=> Stunned(s) = {}
         /\ \A i \in Stunned(s) : (\A j \in Stunned(s) : i <= j) =>
              with_stun(s)[1] = [hostname |-> s[i].hostname, port |-> PortOf(s[i])]
<1> DEFINE I == {i \in 1..Len(s) : IsStun(s[i])}
           k == IF I # {} THEN Min(I) ELSE 0
<1>1. /\ with_stun(s) = IF k = 0 THEN None
                         ELSE Some([hostname |-> s[k].hostname, port |-> PortOf(s[k])])
      /\ Stunned(s) = I
  <2>1. DOMAIN s = 1..Len(s)
    OBVIOUS
  <2> QED
    BY <2>1 DEF with_stun, SelectInSeq, Stunned
<1>2. I \in SUBSET Nat /\ 0 \notin I
  OBVIOUS
<1> HIDE DEF I
<1>3. I # {} => Min(I) \in I /\ \A i \in I : Min(I) <= i
  BY <1>2, Turns!MinIn DEF Turns!Min, Min
<1>4. ASSUME NEW i \in I, \A j \in I : i <= j PROVE k = i
  <2>1. k \in I /\ k <= i /\ i <= k
    BY <1>3, <1>4
  <2> HIDE DEF k
  <2>2. k \in Nat /\ i \in Nat
    BY <1>2, <2>1
  <2> QED
    BY <2>1, <2>2
<1>5. k = 0 <=> I = {}
  BY <1>2, <1>3
<1> DEFINE entry(i) == [hostname |-> s[i].hostname, port |-> PortOf(s[i])]
<1>6. with_stun(s) = IF k = 0 THEN <<>> ELSE <<entry(k)>>
  BY <1>1 DEF None, Some
<1> HIDE DEF k, entry
<1>7. with_stun(s) = <<>> <=> k = 0
  BY <1>6
<1>8. ASSUME NEW i \in I, \A j \in I : i <= j PROVE with_stun(s)[1] = entry(i)
  <2>1. k = i /\ k # 0
    BY <1>4, <1>5, <1>8
  <2> QED
    BY <1>6, <2>1
<1> QED
  BY <1>1, <1>5, <1>7, <1>8 DEF None, entry

-----------------------------------------------------------------------------
(* The loop over the TURN servers                                          *)

Usable(s) == {i \in DOMAIN s : IsTurn(s[i]) /\ s[i].relay_type = "TurnUdp"}
Place(s, i) == Cardinality({j \in Usable(s) : j <= i})

\* Every usable server has its place, as long as there is room.
EachInItsPlace(s) ==
  \A i \in Usable(s) : Place(s, i) <= 2 => add_turn_servers(s)[Place(s, i)] = TurnEntry(s[i])

Entries(X) == {TurnEntry(x) : x \in X}

AreAdded(s, X) ==
  /\ add_turn_servers(s) \in Seq(Entries(X))
  /\ Len(add_turn_servers(s)) = IF Cardinality(Usable(s)) <= 2 THEN Cardinality(Usable(s)) ELSE 2
  /\ EachInItsPlace(s)

LEMMA TurnsOneByOne ==
  ASSUME NEW X, NEW s \in Seq(X), NEW e \in X
  PROVE  /\ add_turn_servers(<<>>) = <<>>
         /\ add_turn_servers(Append(s, e)) = add_turn_server(add_turn_servers(s), e)
<1>1. ASSUME NEW u PROVE Turns!Fold(<<>>, u) = add_turn_servers(u)
  BY DEF Turns!Fold, Turns!FoldLeft, Turns!MapThenFoldSet, Turns!Max, FoldLeft,
     MapThenFoldSet, Max, add_turn_servers
<1>2. Turns!Fold(<<>>, <<>>) = <<>>
  BY Turns!FoldEmpty
<1>3. Turns!Fold(<<>>, Append(s, e)) = add_turn_server(Turns!Fold(<<>>, s), e)
  BY Turns!FoldAppend
<1> QED
  BY <1>1, <1>2, <1>3

\* Places are counted from 1, and never past the usable servers.
LEMMA Places ==
  ASSUME NEW X, NEW s \in Seq(X)
  PROVE  /\ IsFiniteSet(Usable(s)) /\ Cardinality(Usable(s)) \in Nat
         /\ \A i \in Usable(s) : Place(s, i) \in 1..Cardinality(Usable(s))
<1>1. Usable(s) \subseteq 1..Len(s) /\ Len(s) \in Int
  BY DEF Usable
<1>2. IsFiniteSet(Usable(s))
  <2>1. IsFiniteSet(1..Len(s))
    BY <1>1, FS_Interval
  <2> QED
    BY <1>1, <2>1, FS_Subset
<1>3. Cardinality(Usable(s)) \in Nat
  BY <1>2, FS_CardinalityType
<1>4. ASSUME NEW i \in Usable(s) PROVE Place(s, i) \in 1..Cardinality(Usable(s))
  <2> DEFINE T == {j \in Usable(s) : j <= i}
  <2>1. T \in SUBSET Usable(s) /\ i \in T
    BY <1>1
  <2> HIDE DEF T
  <2>2. IsFiniteSet(T) /\ Cardinality(T) <= Cardinality(Usable(s))
    BY <1>2, <2>1, FS_Subset
  <2>3. Cardinality(T) \in Nat /\ Cardinality(T) # 0
    BY <2>1, <2>2, FS_CardinalityType, FS_EmptySet
  <2>4. Cardinality(T) \in 1..Cardinality(Usable(s))
    BY <1>3, <2>2, <2>3
  <2> QED
    BY <2>4 DEF Place, T
<1> QED
  BY <1>2, <1>3, <1>4

LEMMA AddsNext ==
  ASSUME NEW X, NEW s \in Seq(X), NEW e \in X, AreAdded(s, X)
  PROVE  AreAdded(Append(s, e), X)
<1> DEFINE r == Append(s, e)
           n == Len(s)
           old == add_turn_servers(s)
           now == add_turn_servers(r)
           c == Cardinality(Usable(s))
           fits == IsTurn(e) /\ e.relay_type = "TurnUdp"
<1>1. /\ n \in Nat /\ r \in Seq(X) /\ DOMAIN r = 1..n + 1 /\ DOMAIN s = 1..n /\ r[n + 1] = e
      /\ \A i \in 1..n : r[i] = s[i]
  OBVIOUS
<1>2. /\ IsFiniteSet(Usable(s)) /\ c \in Nat
      /\ \A i \in Usable(s) : Place(s, i) \in 1..c
  BY Places
<1>3. now = add_turn_server(old, e)
  BY TurnsOneByOne
<1>4. /\ old \in Seq(Entries(X)) /\ Len(old) = (IF c <= 2 THEN c ELSE 2)
      /\ \A i \in Usable(s) : Place(s, i) <= 2 => old[Place(s, i)] = TurnEntry(s[i])
  BY DEF AreAdded, EachInItsPlace
<1>5. TurnEntry(e) \in Entries(X)
  BY DEF Entries
<1> HIDE DEF r, n, old, now, c
<1>6. Usable(s) \subseteq 1..n
  BY <1>1 DEF Usable
<1>7. ASSUME NEW i \in Usable(s), Usable(r) \in {Usable(s), Usable(s) \cup {n + 1}}
      PROVE  Place(r, i) = Place(s, i) /\ r[i] = s[i]
  <2>1. {j \in Usable(r) : j <= i} = {j \in Usable(s) : j <= i}
    BY <1>1, <1>6, <1>7
  <2> QED
    BY <1>1, <1>6, <2>1 DEF Place
<1>8. CASE ~fits
  <2>1. Usable(r) = Usable(s)
    BY <1>1, <1>8 DEF Usable
  <2>2. now = old
    BY <1>3, <1>8 DEF add_turn_server
  <2> QED
    BY <1>4, <1>7, <2>1, <2>2 DEF AreAdded, EachInItsPlace, r, c, old, now
<1>9. CASE fits
  <2>1. Usable(r) = Usable(s) \cup {n + 1}
    BY <1>1, <1>9 DEF Usable
  <2>2. n + 1 \notin Usable(s)
    BY <1>1, <1>6
  <2>3. Cardinality(Usable(r)) = c + 1
    BY <1>2, <2>1, <2>2, FS_AddElement DEF c
  <2>4. Place(r, n + 1) = c + 1
    <3>1. {j \in Usable(r) : j <= n + 1} = Usable(r)
      BY <1>1, <1>6, <2>1
    <3> QED
      BY <2>3, <3>1 DEF Place
  <2>5. now = IF c < 2 THEN Append(old, TurnEntry(e)) ELSE old
    BY <1>2, <1>3, <1>4, <1>9 DEF add_turn_server, MAX_TURN_SERVERS_COUNT
  <2>6. now \in Seq(Entries(X)) /\ Len(now) = IF c + 1 <= 2 THEN c + 1 ELSE 2
    <3> DEFINE E == Entries(X)
               entry == TurnEntry(e)
    <3>1. old \in Seq(E) /\ entry \in E /\ Len(old) = (IF c <= 2 THEN c ELSE 2) /\ c \in Nat
      BY <1>2, <1>4, <1>5
    <3>2. now = IF c < 2 THEN Append(old, entry) ELSE old
      BY <2>5
    <3> HIDE DEF E, entry
    <3>3. now \in Seq(E)
      BY <3>1, <3>2
    <3>4. Len(now) = IF c < 2 THEN Len(old) + 1 ELSE Len(old)
      <4>1. Len(Append(old, entry)) = Len(old) + 1
        BY <3>1, Turns!Appended
      <4> QED
        BY <3>2, <4>1
    <3>5. Len(now) = IF c + 1 <= 2 THEN c + 1 ELSE 2
      BY ONLY <3>1, <3>4
    <3> QED
      BY <3>3, <3>5 DEF E
  <2>7. ASSUME NEW i \in Usable(s), Place(s, i) <= 2 PROVE now[Place(s, i)] = TurnEntry(s[i])
    <3>1. Place(s, i) \in 1..Len(old)
      BY <1>2, <1>4, <2>7
    <3>2. now[Place(s, i)] = old[Place(s, i)]
      BY <1>4, <1>5, <2>5, <3>1
    <3> QED
      BY <1>4, <2>7, <3>2
  <2>8. ASSUME c + 1 <= 2 PROVE now[c + 1] = TurnEntry(e)
    BY <1>2, <1>4, <1>5, <2>5, <2>8
  <2>9. ASSUME NEW i \in Usable(r), Place(r, i) <= 2 PROVE now[Place(r, i)] = TurnEntry(r[i])
    <3>1. CASE i \in Usable(s)
      BY <1>7, <2>1, <2>7, <2>9, <3>1
    <3>2. CASE i = n + 1
      BY <1>1, <2>4, <2>8, <2>9, <3>2
    <3> QED
      BY <2>1, <3>1, <3>2
  <2> QED
    BY <2>3, <2>6, <2>9 DEF AreAdded, EachInItsPlace, r, now
<1> QED
  BY <1>8, <1>9

LEMMA TurnsAreAdded ==
  ASSUME NEW X, NEW s \in Seq(X)
  PROVE  AreAdded(s, X)
<1> DEFINE G == {u \in Seq(X) : AreAdded(u, X)}
<1>1. <<>> \in G
  <2>1. <<>> \in Seq(X) /\ Usable(<<>>) = {}
    BY DEF Usable
  <2>2. Cardinality({}) = 0
    BY FS_EmptySet
  <2>3. add_turn_servers(<<>>) = <<>>
    <3>1. <<>> \in Seq({0}) /\ 0 \in {0}
      OBVIOUS
    <3> QED
      BY <3>1, TurnsOneByOne
  <2>4. \A Y : <<>> \in Seq(Y) /\ Len(<<>>) = 0
    OBVIOUS
  <2>5. add_turn_servers(<<>>) \in Seq(Entries(X)) /\ Len(add_turn_servers(<<>>)) = 0
    BY <2>3, <2>4
  <2>6. Cardinality(Usable(<<>>)) = 0
    BY <2>1, <2>2
  <2>7. AreAdded(<<>>, X)
    <3>1. EachInItsPlace(<<>>)
      BY <2>1 DEF EachInItsPlace
    <3> QED
      BY <2>5, <2>6, <3>1 DEF AreAdded
  <2> QED
    BY <2>1, <2>7
<1>2. ASSUME NEW u \in Seq(X), NEW e \in X, u \in G PROVE Append(u, e) \in G
  <2>1. Append(u, e) \in Seq(X)
    OBVIOUS
  <2> QED
    BY <1>2, <2>1, AddsNext
<1> HIDE DEF G
<1>3. s \in G
  BY <1>1, <1>2, Turns!SeqInduction DEF Turns!Grows
<1> QED
  BY <1>3 DEF G

-----------------------------------------------------------------------------
(* The invariant                                                           *)

\* Where a configured server can come from.
Configured ==
  Server \cup {IceServer_parse(url).value : url \in {u \in Url : IceServer_parse(u).error = "none"}}

\* What new() makes of the configuration.
Built ==
  [stun |-> with_stun(ice_servers), turn |-> add_turn_servers(ice_servers),
   range |-> with_port_range(port_range), bind |-> bind_address]

IInv ==
  /\ ice_servers \in Seq(Configured)
  /\ port_range \in (0..MaxPort) \X (0..MaxPort)
  /\ agent # None => agent = Some(Built)

LEMMA ConfiguredPort ==
  ASSUME NEW s \in Configured
  PROVE  PortOf(s) \in 1..MaxPort
<1>1. s.port \in 0..MaxPort
  BY IceServersAssumption, ServerPort DEF Configured
<1>2. 3478 \in 1..MaxPort /\ \A n \in 0..MaxPort : n # 0 => n \in 1..MaxPort
  BY PortBound
<1> QED
  BY <1>1, <1>2 DEF PortOf

LEMMA InitHolds == Init => IInv
<1> SUFFICES ASSUME Init PROVE IInv
  OBVIOUS
<1>1. 1024 \in 0..MaxPort /\ MaxPort \in 0..MaxPort
  BY PortBound
<1> QED
  BY <1>1 DEF Init, IInv

LEMMA NextKeeps == IInv /\ [Next]_vars => IInv'
<1> SUFFICES ASSUME IInv, [Next]_vars PROVE IInv'
  OBVIOUS
<1> USE DEF IInv
<1>1. ASSUME NEW url \in Url, add_ice_server(url) PROVE IInv'
  <2>1. ServerFrom[url] = IceServer_parse(url)
    BY DEF ServerFrom
  <2>2. ServerFrom[url].error = "none" => ServerFrom[url].value \in Configured
    BY <2>1 DEF Configured
  <2>3. ice_servers' \in Seq(Configured)
    BY <1>1, <2>2 DEF add_ice_server
  <2> QED
    BY <1>1, <2>3 DEF add_ice_server, Configuring
<1>2. ASSUME NEW url \in Url, SetProxy(url) PROVE IInv'
  BY <1>2 DEF SetProxy, Configuring
<1>3. ASSUME NEW server \in Server, add_ice_server_parsed(server) PROVE IInv'
  <2>1. ice_servers' \in Seq(Configured)
    BY <1>3 DEF add_ice_server_parsed, Configured
  <2> QED
    BY <1>3, <2>1 DEF add_ice_server_parsed, Configuring
<1>4. ASSUME NEW address \in BindAddress, NEW range \in PortRange, New(range, address) PROVE IInv'
  <2>1. port_range' \in (0..MaxPort) \X (0..MaxPort)
    BY <1>4, IceServersAssumption DEF New
  <2>2. agent' = Some(Built')
    BY <1>4 DEF New, Built
  <2> QED
    BY <1>4, <2>1, <2>2 DEF New
<1>5. ASSUME NEW address \in BindAddress, NewFails(address) PROVE IInv'
  BY <1>5 DEF NewFails, Built
<1>6. CASE UNCHANGED vars
  BY <1>6 DEF vars, Built
<1> QED
  BY <1>1, <1>2, <1>3, <1>4, <1>5, <1>6 DEF Next

-----------------------------------------------------------------------------
(* What the agent gets                                                     *)

\* A range inside the default one is handed on, unless it is the default one.
LEMMA Ranges ==
  ASSUME NEW a \in 0..MaxPort, NEW b \in 0..MaxPort, NEW range, range = <<a, b>>,
         1024 <= a, a <= b
  PROVE  with_port_range(range) = IF range = <<1024, MaxPort>> THEN None ELSE Some(range)
<1>1. range[1] = a /\ range[2] = b
  OBVIOUS
<1>2. a \in Nat /\ b \in Nat /\ b # 0
  BY PortBound
<1>3. a > 1024 \/ b \notin {0, MaxPort} <=> ~(a = 1024 /\ b = MaxPort)
  BY <1>2
<1>4. range = <<1024, MaxPort>> <=> a = 1024 /\ b = MaxPort
  OBVIOUS
<1> QED
  BY <1>1, <1>3, <1>4 DEF with_port_range

LEMMA InvariantSuffices == IInv => AgentGetsTheUsable
<1> SUFFICES ASSUME IInv, agent # None PROVE AgentGetsTheUsable
  BY DEF AgentGetsTheUsable
<1> DEFINE s == ice_servers
           got == agent[1]
<1>1. /\ s \in Seq(Configured) /\ port_range \in (0..MaxPort) \X (0..MaxPort)
      /\ got.stun = with_stun(s) /\ got.turn = add_turn_servers(s)
      /\ got.range = with_port_range(port_range)
  BY DEF IInv, Built, Some
<1>2. \A i \in DOMAIN s : s[i] \in Configured
  BY <1>1
<1>3. \A i \in DOMAIN s : PortOf(s[i]) \in 1..MaxPort
  BY <1>2, ConfiguredPort
<1> HIDE DEF s, got
<1>4. got.stun = None <=> Stunned(s) = {}
  BY <1>1, FirstStun
<1>5. ASSUME NEW i \in Stunned(s), \A j \in Stunned(s) : i <= j
      PROVE  got.stun[1].hostname = s[i].hostname /\ got.stun[1].port \in 1..MaxPort
  <2>1. got.stun[1] = [hostname |-> s[i].hostname, port |-> PortOf(s[i])]
    BY <1>1, <1>5, FirstStun
  <2> QED
    BY <1>3, <2>1 DEF Stunned
<1>6. AreAdded(s, Configured)
  BY <1>1, TurnsAreAdded
<1>7. Len(got.turn) = Min({Cardinality(Usable(s)), MAX_TURN_SERVERS_COUNT})
  <2> DEFINE c == Cardinality(Usable(s))
  <2>1. c \in Nat
    BY <1>1, Places
  <2>2. Len(got.turn) = IF c <= 2 THEN c ELSE 2
    BY <1>1, <1>6 DEF AreAdded
  <2> HIDE DEF c
  <2>3. {c, 2} \in SUBSET Nat /\ {c, 2} # {}
    BY <2>1
  <2>4. Min({c, 2}) \in {c, 2} /\ \A i \in {c, 2} : Min({c, 2}) <= i
    BY <2>3, Turns!MinIn DEF Turns!Min, Min
  <2> QED
    BY <2>1, <2>2, <2>4 DEF MAX_TURN_SERVERS_COUNT, c
<1>8. ASSUME NEW i \in Usable(s), Place(s, i) <= MAX_TURN_SERVERS_COUNT
      PROVE  LET given == got.turn[Place(s, i)]
             IN  /\ given.hostname = s[i].hostname /\ given.port \in 1..MaxPort
                 /\ given.username = s[i].username /\ given.password = s[i].password
  <2>1. got.turn[Place(s, i)] = TurnEntry(s[i])
    BY <1>1, <1>6, <1>8 DEF AreAdded, EachInItsPlace, MAX_TURN_SERVERS_COUNT
  <2>2. PortOf(s[i]) \in 1..MaxPort
    BY <1>3 DEF Usable
  <2> QED
    BY <2>1, <2>2 DEF TurnEntry
<1>9. 1024 <= port_range[1] /\ port_range[1] <= port_range[2]
        => got.range = IF port_range = <<1024, MaxPort>> THEN None ELSE Some(port_range)
  <2>1. /\ port_range = <<port_range[1], port_range[2]>>
        /\ port_range[1] \in 0..MaxPort /\ port_range[2] \in 0..MaxPort
    BY <1>1
  <2> QED
    BY <1>1, <2>1, Ranges
<1> QED
  BY <1>4, <1>5, <1>7, <1>8, <1>9 DEF AgentGetsTheUsable, Stunned, Usable, Place, s, got

\* The invariant holds in every state.
THEOREM Invariant == Spec => []IInv
  BY InitHolds, NextKeeps, PTL DEF Spec

\* Whatever URLs and servers were configured, in whatever order, the agent of
\* IceTransport::new() works with all of them that it can use.
THEOREM UsableServersAreUsed == Spec => []AgentGetsTheUsable
  BY Invariant, InvariantSuffices, PTL
=============================================================================
