------------------------- MODULE TransportStack_proofs -------------------------
(***************************************************************************)
(* Proofs about the three transports and the hooks between them            *)
(* (TransportStack).                                                       *)
(*                                                                         *)
(* Almost everything rests on four ideas: a thing to do is on the list of  *)
(* one thread at most (Once), a hook is not in any chain before it has     *)
(* been installed (Hooks), a change is entered once, a failure of DTLS     *)
(* twice where it was revived (Times), and whatever may fail DTLS is the   *)
(* driver's, one thing at a time (Dooms).                                  *)
(***************************************************************************)
EXTENDS TransportStack, TLAPS

Status == {"Connecting", "Connected", "Failed"}
Event == ({"ice"} \X {"Connected", "Failed"}) \cup ({"dtls"} \X Status)
Installed == {"auto", "fail", "connect"}

-----------------------------------------------------------------------------
(* What threads have to do                                                 *)

Job ==
  ({"snapshot"} \X Layer) \cup ({"install"} \X Installed)
    \cup {<<"announce", e[1], e[2]>> : e \in Event}
    \cup {<<"call", c[1], c[2][1], c[2][2]>> : c \in (App \cup Hook) \X Event}
    \cup {<<"start">>, <<"drive">>, <<"pump">>, <<"fail">>}

\* What is left of t's list under what it is doing; and a list that grew
\* by more, in its place.
Rest(t) == IF todo[t] = <<>> THEN <<>> ELSE Tail(todo[t])
Pushes(t, more) == todo' = [todo EXCEPT ![t] = more \o Rest(t)]

\* Where the jobs of r come from, and where those of more and s are.
Spliced(s, more, r) ==
  /\ \A i \in DOMAIN more : i \in DOMAIN r /\ r[i] = more[i]
  /\ \A i \in DOMAIN r :
       i \notin DOMAIN more =>
         /\ i - Len(more) + 1 \in DOMAIN s /\ i - Len(more) + 1 # 1
         /\ r[i] = s[i - Len(more) + 1]
  /\ \A i \in DOMAIN s :
       i # 1 => i + Len(more) - 1 \in DOMAIN r /\ r[i + Len(more) - 1] = s[i]

\* t is doing one of K.
Does(t, K) == todo[t] # <<>> /\ Head(todo[t]) \in K

\* A member of K is on somebody's list; on one list, in one place.
Pending(K) == \E t \in Thread : \E i \in DOMAIN todo[t] : todo[t][i] \in K
Once(K) ==
  \A t, u \in Thread : \A i \in DOMAIN todo[t], j \in DOMAIN todo[u] :
    todo[t][i] \in K /\ todo[u][j] \in K => t = u /\ i = j

Among(K, s) == \E i \in DOMAIN s : s[i] \in K

\* What leads to a's being told that l is now s.
News(a, l, s) == {<<"announce", l, s>>, <<"call", a, l, s>>}

\* What leads to the start of DTLS and of SCTP.
Wake == [l \in Layer |->
  IF l = "ice" THEN {<<"announce", "ice", "Connected">>, <<"call", "auto", "ice", "Connected">>,
                     <<"start">>}
  ELSE {<<"announce", "dtls", "Connected">>, <<"call", "connect", "dtls", "Connected">>}]

CallsOf(h) == {<<"call", h, e[1], e[2]>> : e \in Event}

\* A callback set is taken right before it is put back.
Pairs ==
  \A t \in Thread : \A i \in DOMAIN todo[t] :
    /\ todo[t][i][1] = "snapshot" =>
         /\ i + 1 \in DOMAIN todo[t] /\ todo[t][i + 1][1] = "install"
         /\ Target(todo[t][i + 1][2]) = todo[t][i][2]
    /\ todo[t][i][1] = "install" /\ i # 1 => todo[t][i - 1][1] = "snapshot"

-----------------------------------------------------------------------------
(* The invariant                                                           *)

\* The constructor, or start(), that installs the hook has been called.
Begun(h) ==
  CASE h = "auto" -> dtls # "none"
    [] h = "fail" -> dtls \notin {"none", "New"}
    [] h = "connect" -> sctp # "none"

\* The hook is in a callback set.
Wraps(s, h) == Contains(s.state, h) \/ (h = "connect" /\ Contains(s.data, "feed"))
Wrapping(h) == (\E l \in Layer : Wraps(slot[l], h)) \/ (\E t \in Thread : Wraps(snapshot[t], h))

\* A hook is installed once, and is nowhere before.
Hooks ==
  \A h \in Installed :
    /\ Once({<<"install", h>>})
    /\ Pending({<<"install", h>>}) => Begun(h) /\ ~Wrapping(h)
    /\ Wrapping(h) \/ Pending(CallsOf(h)) => Begun(h)

\* start() is called on a transport, and moves it, before anything drives
\* the handshake or fails it.
Starts ==
  /\ started => dtls \notin {"none", "New"}
  /\ Pending({<<"start">>}) => dtls # "none"
  /\ Pending({<<"drive">>, <<"fail">>}) => dtls \notin {"none", "New"}

\* The end of the handshake is noticed once, by whoever enters Connected.
Drove ==
  /\ dtls = "Connected" => handshake = "noticed"
  /\ handshake = "noticed" => dtls \in {"Connected", "Failed"}
  /\ revived => handshake = "noticed"

\* The layer has entered s; how many times.
Past(l, s) ==
  CASE l = "ice" -> ice = s \/ ice = "Failed"
    [] l = "dtls" -> \/ s = "Connecting" /\ dtls \notin {"none", "New"}
                     \/ s = "Connected" /\ handshake = "noticed"
                     \/ s = "Failed" /\ (dtls = "Failed" \/ revived)
Times(l, s) ==
  IF ~Past(l, s) THEN 0
  ELSE IF <<l, s>> = <<"dtls", "Failed">> /\ dtls = "Failed" /\ revived THEN 2
  ELSE 1

\* Nobody is told, or about to be told, more often than that.
Counted(a, e) ==
  LET K == News(a, e[1], e[2])
      n == told[<<a, e[1], e[2]>>]
      x == Times(e[1], e[2])
  IN  Once(K) /\ n <= x /\ (Pending(K) => n < x)
Tells == \A a \in App, e \in Event : Counted(a, e)

\* What leads to a's being told that DTLS failed: the driver has one such
\* thing to do at a time, and no other thread has any.
Doom(a) ==
  {<<"pump">>, <<"fail">>, <<"announce", "ice", "Failed">>, <<"call", "fail", "ice", "Failed">>}
    \cup News(a, "dtls", "Failed")
Dooms ==
  \A a \in App :
    /\ Once(Doom(a))
    /\ \A u \in Thread \ {driver} : \A i \in DOMAIN todo[u] : todo[u][i] \notin Doom(a)

\* What a thread is about to put back has the application's callbacks.
Taken ==
  \A t \in Thread :
    Doing(t, "install") =>
      LET l == Target(Arg(t, 2)) IN Contains(snapshot[t].state, latest[l]) \/ lost[l]

\* A layer that is connected starts the one above, unless the hook was not there.
Wakes ==
  /\ ice = "Connected" /\ dtls \in {"none", "New"} => "ice" \in missed \/ Pending(Wake["ice"])
  /\ dtls = "Connected" /\ sctp \in {"none", "New"} => "dtls" \in missed \/ Pending(Wake["dtls"])

CallbackSet == [state : Seq(App \cup Hook), data : Seq(App \cup Hook)]

Typed ==
  /\ todo \in [Thread -> Seq(Job)]
  /\ told \in [App \X Layer \X Status -> Nat]
  /\ slot \in [Layer -> CallbackSet]
  /\ snapshot \in [Thread -> CallbackSet]

IInv ==
  /\ TypeOK /\ Typed /\ Pairs
  /\ Hooks /\ Starts /\ Drove /\ Tells /\ Dooms /\ ToldOnce
  /\ KeepsTheApplication /\ Taken /\ Wakes

-----------------------------------------------------------------------------
(* Lists of jobs                                                           *)

\* A list that lost its head and got others in its place.
LEMMA Splice ==
  ASSUME NEW s \in Seq(Job), NEW more \in Seq(Job),
         NEW r, r = more \o (IF s = <<>> THEN <<>> ELSE Tail(s))
  PROVE  Spliced(s, more, r)
<1> DEFINE rest == IF s = <<>> THEN <<>> ELSE Tail(s)
           m == Len(more)
<1>1. rest \in Seq(Job) /\ Len(rest) \in Nat
  OBVIOUS
<1>2. /\ Len(s) \in Nat /\ DOMAIN s = 1 .. Len(s) /\ m \in Nat /\ DOMAIN more = 1 .. m
      /\ \A i \in 1 .. Len(s) : i # 1 => i - 1 \in 1 .. Len(rest) /\ rest[i - 1] = s[i]
      /\ \A i \in 1 .. Len(rest) : i + 1 \in 1 .. Len(s) /\ rest[i] = s[i + 1]
  <2>1. CASE s = <<>>
    BY <2>1
  <2>2. CASE s # <<>>
    <3>1. rest = Tail(s) /\ Len(rest) = Len(s) - 1 /\ Len(s) \in Nat \ {0}
      BY <2>2
    <3>2. \A i \in 1 .. Len(rest) : rest[i] = s[i + 1]
      BY <2>2, <3>1
    <3> HIDE DEF rest
    <3>3. \A i \in 1 .. Len(s) : i # 1 => i - 1 \in 1 .. Len(rest) /\ (i - 1) + 1 = i
      BY <3>1
    <3>4. \A i \in 1 .. Len(s) : i # 1 => rest[i - 1] = s[i]
      BY <3>2, <3>3
    <3>5. \A i \in 1 .. Len(rest) : i + 1 \in 1 .. Len(s)
      BY <3>1
    <3> QED
      BY <3>2, <3>3, <3>4, <3>5
  <2> QED
    BY <2>1, <2>2
<1>7. r = more \o rest
  OBVIOUS
<1> HIDE DEF rest
<1>3. /\ r \in Seq(Job) /\ DOMAIN r = 1 .. m + Len(rest)
      /\ \A i \in 1 .. m : r[i] = more[i]
      /\ \A i \in 1 .. Len(rest) : r[m + i] = rest[i]
  BY <1>1, <1>7
<1> HIDE DEF m
<1>4. \A i \in DOMAIN more : i \in DOMAIN r /\ r[i] = more[i]
  BY <1>1, <1>2, <1>3
<1>5. ASSUME NEW i \in DOMAIN r, i \notin DOMAIN more
      PROVE  i - m + 1 \in DOMAIN s /\ i - m + 1 # 1 /\ r[i] = s[i - m + 1]
  <2>1. i - m \in 1 .. Len(rest) /\ m + (i - m) = i
    BY <1>1, <1>2, <1>3, <1>5
  <2>2. r[i] = rest[i - m]
    BY <1>3, <2>1
  <2> QED
    BY <1>2, <2>1, <2>2
<1>6. ASSUME NEW i \in DOMAIN s, i # 1
      PROVE  i + m - 1 \in DOMAIN r /\ r[i + m - 1] = s[i]
  <2>1. i - 1 \in 1 .. Len(rest) /\ rest[i - 1] = s[i] /\ m + (i - 1) = i + m - 1
    BY <1>2, <1>6
  <2>2. i + m - 1 \in 1 .. m + Len(rest)
    BY <1>1, <1>2, <2>1
  <2>3. r[m + (i - 1)] = rest[i - 1]
    BY <1>3, <2>1
  <2> QED
    BY <1>3, <2>1, <2>2, <2>3
<1> QED
  BY <1>4, <1>5, <1>6 DEF m, Spliced

\* What a step that pushes does to the lists.
LEMMA Pushed ==
  ASSUME Typed, NEW t \in Thread, NEW more \in Seq(Job), Pushes(t, more)
  PROVE  /\ todo' \in [Thread -> Seq(Job)]
         /\ \A u \in Thread \ {t} : todo'[u] = todo[u]
         /\ \A i \in DOMAIN more : i \in DOMAIN todo'[t] /\ todo'[t][i] = more[i]
         /\ \A i \in DOMAIN todo'[t] :
              i \notin DOMAIN more =>
                /\ i - Len(more) + 1 \in DOMAIN todo[t] /\ i - Len(more) + 1 # 1
                /\ todo'[t][i] = todo[t][i - Len(more) + 1]
         /\ \A i \in DOMAIN todo[t] :
              i # 1 => /\ i + Len(more) - 1 \in DOMAIN todo'[t]
                       /\ todo'[t][i + Len(more) - 1] = todo[t][i]
<1>1. todo \in [Thread -> Seq(Job)] /\ todo[t] \in Seq(Job)
  BY DEF Typed
<1>2. todo' = [todo EXCEPT ![t] = more \o Rest(t)]
  BY DEF Pushes
<1>3. more \o Rest(t) \in Seq(Job)
  BY <1>1 DEF Rest
<1>4. todo' \in [Thread -> Seq(Job)] /\ todo'[t] = more \o Rest(t)
      /\ \A u \in Thread \ {t} : todo'[u] = todo[u]
  BY <1>1, <1>2, <1>3
<1>5. todo'[t] = more \o (IF todo[t] = <<>> THEN <<>> ELSE Tail(todo[t]))
  BY <1>4 DEF Rest
<1>6. Spliced(todo[t], more, todo'[t])
  BY <1>1, <1>5, Splice
<1> QED
  BY <1>4, <1>6 DEF Spliced

\* What a step does first.
LEMMA Tops ==
  ASSUME Typed, NEW t \in Thread, todo[t] # <<>>
  PROVE  1 \in DOMAIN todo[t] /\ todo[t][1] = Head(todo[t]) /\ Head(todo[t]) \in Job
<1>1. todo[t] \in Seq(Job)
  BY DEF Typed
<1> QED
  BY <1>1

\* What is on a list after a step was on it before, or has been pushed.
LEMMA PendingBefore ==
  ASSUME Typed, NEW t \in Thread, NEW more \in Seq(Job), Pushes(t, more), NEW K, Pending(K)'
  PROVE  Pending(K) \/ Among(K, more)
<1>1. PICK u \in Thread : \E i \in DOMAIN todo'[u] : todo'[u][i] \in K
  BY DEF Pending
<1>2. PICK i \in DOMAIN todo'[u] : todo'[u][i] \in K
  BY <1>1
<1>3. CASE u # t
  BY <1>2, <1>3, Pushed DEF Pending
<1>4. CASE u = t /\ i \in DOMAIN more
  BY <1>2, <1>4, Pushed DEF Among
<1>5. CASE u = t /\ i \notin DOMAIN more
  <2>1. i - Len(more) + 1 \in DOMAIN todo[t] /\ todo'[t][i] = todo[t][i - Len(more) + 1]
    BY <1>2, <1>5, Pushed
  <2> QED
    BY <1>2, <1>5, <2>1 DEF Pending
<1> QED
  BY <1>3, <1>4, <1>5

\* What is on a list, and not being done, stays; what is pushed is there.
LEMMA PendingAfter ==
  ASSUME Typed, NEW t \in Thread, NEW more \in Seq(Job), Pushes(t, more), NEW K,
         Among(K, more) \/ (Pending(K) /\ ~Does(t, K))
  PROVE  Pending(K)'
<1>1. CASE Among(K, more)
  BY <1>1, Pushed DEF Pending, Among
<1>2. CASE Pending(K) /\ ~Does(t, K)
  <2>1. PICK u \in Thread : \E i \in DOMAIN todo[u] : todo[u][i] \in K
    BY <1>2 DEF Pending
  <2>2. PICK i \in DOMAIN todo[u] : todo[u][i] \in K
    BY <2>1
  <2>3. u # t \/ i # 1
    <3>1. todo[u] \in Seq(Job) /\ todo[u] # <<>>
      BY <2>2 DEF Typed
    <3> QED
      BY <1>2, <2>2, <3>1, Tops DEF Does
  <2> QED
    BY <2>2, <2>3, Pushed DEF Pending
<1> QED
  BY <1>1, <1>2

\* A thing to do is still on one list only.
LEMMA OnceAfter ==
  ASSUME Typed, NEW t \in Thread, NEW more \in Seq(Job), Pushes(t, more), NEW K, Once(K),
         \A i, j \in DOMAIN more : more[i] \in K /\ more[j] \in K => i = j,
         Among(K, more) => ~Pending(K) \/ Does(t, K)
  PROVE  Once(K)'
<1> SUFFICES ASSUME NEW u \in Thread, NEW v \in Thread,
                    NEW i \in DOMAIN todo'[u], NEW j \in DOMAIN todo'[v],
                    todo'[u][i] \in K, todo'[v][j] \in K
             PROVE  u = v /\ i = j
  BY DEF Once
<1> DEFINE Fresh(w, k) == w = t /\ k \in DOMAIN more
<1>1. ASSUME NEW w \in Thread, NEW k \in DOMAIN todo'[w], ~Fresh(w, k)
      PROVE  LET o == IF w = t THEN k - Len(more) + 1 ELSE k
             IN  /\ o \in DOMAIN todo[w] /\ todo'[w][k] = todo[w][o]
                 /\ w # t \/ o # 1
  BY <1>1, Pushed
<1>2. ASSUME NEW w \in Thread, NEW k \in DOMAIN todo'[w], ~Fresh(w, k), todo'[w][k] \in K,
             Among(K, more)
      PROVE  FALSE
  <2> DEFINE o == IF w = t THEN k - Len(more) + 1 ELSE k
  <2>1. o \in DOMAIN todo[w] /\ todo[w][o] \in K /\ (w # t \/ o # 1)
    BY <1>1, <1>2
  <2>2. Pending(K) /\ Does(t, K)
    BY <1>2, <2>1 DEF Pending
  <2>3. 1 \in DOMAIN todo[t] /\ todo[t][1] \in K
    BY <2>2, Tops DEF Does
  <2> HIDE DEF o
  <2> QED
    BY <2>1, <2>3 DEF Once
<1>3. CASE Fresh(u, i) /\ Fresh(v, j)
  BY <1>3, Pushed
<1>4. CASE Fresh(u, i) /\ ~Fresh(v, j)
  BY <1>2, <1>4, Pushed DEF Among
<1>5. CASE ~Fresh(u, i) /\ Fresh(v, j)
  BY <1>2, <1>5, Pushed DEF Among
<1>6. CASE ~Fresh(u, i) /\ ~Fresh(v, j)
  <2> DEFINE o == IF u = t THEN i - Len(more) + 1 ELSE i
             p == IF v = t THEN j - Len(more) + 1 ELSE j
  <2>1. o \in DOMAIN todo[u] /\ todo[u][o] \in K /\ p \in DOMAIN todo[v] /\ todo[v][p] \in K
    BY <1>1, <1>6
  <2>2. u = v /\ o = p
    <3> HIDE DEF o, p
    <3> QED
      BY <2>1 DEF Once
  <2>3. i \in Int /\ j \in Int /\ Len(more) \in Int
    BY Pushed
  <2> QED
    BY <2>2, <2>3
<1> QED
  BY <1>3, <1>4, <1>5, <1>6

\* What is done is on no list any more.
LEMMA DoneAfter ==
  ASSUME Typed, NEW t \in Thread, NEW more \in Seq(Job), Pushes(t, more), NEW K, Once(K),
         Does(t, K), ~Among(K, more)
  PROVE  ~Pending(K)'
<1> SUFFICES ASSUME NEW u \in Thread, NEW i \in DOMAIN todo'[u], todo'[u][i] \in K
             PROVE  FALSE
  BY DEF Pending
<1>1. 1 \in DOMAIN todo[t] /\ todo[t][1] \in K
  BY Tops DEF Does
<1>2. CASE u # t
  <2>1. i \in DOMAIN todo[u] /\ todo[u][i] \in K
    BY <1>2, Pushed
  <2> QED
    BY <1>1, <1>2, <2>1 DEF Once
<1>3. CASE u = t
  <2>1. i \notin DOMAIN more
    BY <1>3, Pushed DEF Among
  <2> QED
    BY <1>1, <1>3, <2>1, Pushed DEF Once
<1> QED
  BY <1>2, <1>3

\* A step that pushes nothing between a taking and its putting back.
LEMMA PairsAfter ==
  ASSUME Typed, Pairs, NEW t \in Thread, NEW more \in Seq(Job), Pushes(t, more),
         \A i \in DOMAIN more :
           /\ more[i][1] = "snapshot" =>
                /\ i + 1 \in DOMAIN more /\ more[i + 1][1] = "install"
                /\ Target(more[i + 1][2]) = more[i][2]
           /\ more[i][1] = "install" => i - 1 \in DOMAIN more /\ more[i - 1][1] = "snapshot",
         more = <<>> \/ ~Doing(t, "snapshot")
  PROVE  Pairs'
<1> SUFFICES ASSUME NEW u \in Thread, NEW i \in DOMAIN todo'[u]
             PROVE  /\ todo'[u][i][1] = "snapshot" =>
                         /\ i + 1 \in DOMAIN todo'[u] /\ todo'[u][i + 1][1] = "install"
                         /\ Target(todo'[u][i + 1][2]) = todo'[u][i][2]
                    /\ todo'[u][i][1] = "install" /\ i # 1 => todo'[u][i - 1][1] = "snapshot"
  BY DEF Pairs
<1>1. CASE u # t
  <2>1. todo'[u] = todo[u]
    BY <1>1, Pushed
  <2> QED
    BY <2>1 DEF Pairs
<1>2. CASE u = t /\ i \in DOMAIN more
  BY <1>2, Pushed
<1>3. CASE u = t /\ i \notin DOMAIN more
  <2> DEFINE m == Len(more)
             o == i - m + 1
  <2>1. /\ o \in DOMAIN todo[t] /\ o # 1 /\ todo'[t][i] = todo[t][o]
        /\ \A k \in DOMAIN todo[t] :
             k # 1 => k + m - 1 \in DOMAIN todo'[t] /\ todo'[t][k + m - 1] = todo[t][k]
    BY <1>3, Pushed
  <2>2. todo'[t] \in Seq(Job) /\ todo[t] \in Seq(Job) /\ m \in Nat
    BY Pushed DEF Typed
  <2>3. i \in Nat \ {0} /\ o \in Nat \ {0, 1}
    <3>1. DOMAIN todo'[t] = 1 .. Len(todo'[t]) /\ Len(todo'[t]) \in Nat
          /\ DOMAIN todo[t] = 1 .. Len(todo[t]) /\ Len(todo[t]) \in Nat
      BY <2>2
    <3> HIDE DEF o
    <3> QED
      BY <1>3, <2>1, <3>1
  <2>4. o + 1 + m - 1 = i + 1 /\ o - 1 + m - 1 = i - 1
    BY <2>2, <2>3
  <2> HIDE DEF m, o
  <2>5. ASSUME todo'[t][i][1] = "snapshot"
        PROVE  /\ i + 1 \in DOMAIN todo'[t] /\ todo'[t][i + 1][1] = "install"
               /\ Target(todo'[t][i + 1][2]) = todo'[t][i][2]
    <3>1. /\ o + 1 \in DOMAIN todo[t] /\ todo[t][o + 1][1] = "install"
          /\ Target(todo[t][o + 1][2]) = todo[t][o][2]
      BY <2>1, <2>5 DEF Pairs
    <3>2. i + 1 \in DOMAIN todo'[t] /\ todo'[t][i + 1] = todo[t][o + 1]
      BY <2>1, <2>3, <2>4, <3>1
    <3> QED
      BY <2>1, <3>1, <3>2
  <2>6. ASSUME todo'[t][i][1] = "install", i # 1
        PROVE  todo'[t][i - 1][1] = "snapshot"
    <3>1. todo[t][o - 1][1] = "snapshot"
      BY <2>1, <2>6 DEF Pairs
    <3>2. o - 1 \in DOMAIN todo[t]
      <4>1. DOMAIN todo[t] = 1 .. Len(todo[t]) /\ Len(todo[t]) \in Nat
        BY <2>2
      <4> QED
        BY <2>1, <2>3, <4>1
    <3>3. CASE o - 1 # 1
      BY <2>1, <2>4, <3>1, <3>2, <3>3
    <3>4. CASE o - 1 = 1
      <4>1. todo[t] # <<>> /\ Doing(t, "snapshot")
        BY <2>2, <3>1, <3>2, <3>4, Tops DEF Doing
      <4>2. m = 0
        BY <4>1 DEF m
      <4> QED
        BY <2>3, <2>6, <3>4, <4>2 DEF o
    <3> QED
      BY <3>3, <3>4
  <2> QED
    BY <1>3, <2>5, <2>6
<1> QED
  BY <1>1, <1>2, <1>3

\* What t may be doing.
LEMMA Heads ==
  ASSUME Typed, NEW t \in Thread
  PROVE  /\ Doing(t, "snapshot") => \E l \in Layer : Head(todo[t]) = <<"snapshot", l>>
         /\ Doing(t, "install") => \E h \in Installed : Head(todo[t]) = <<"install", h>>
         /\ Doing(t, "announce") => \E e \in Event : Head(todo[t]) = <<"announce", e[1], e[2]>>
         /\ Doing(t, "call") => \E x \in App \cup Hook : \E e \in Event :
                                  Head(todo[t]) = <<"call", x, e[1], e[2]>>
         /\ Doing(t, "start") => Head(todo[t]) = <<"start">>
         /\ Doing(t, "drive") => Head(todo[t]) = <<"drive">>
         /\ Doing(t, "pump") => Head(todo[t]) = <<"pump">>
         /\ Doing(t, "fail") => Head(todo[t]) = <<"fail">>
<1>1. ASSUME todo[t] # <<>>
      PROVE  Head(todo[t]) \in Job
  BY <1>1, Tops
<1>2. ASSUME NEW j \in Job
      PROVE  /\ j[1] = "snapshot" => \E l \in Layer : j = <<"snapshot", l>>
             /\ j[1] = "install" => \E h \in Installed : j = <<"install", h>>
             /\ j[1] = "announce" => \E e \in Event : j = <<"announce", e[1], e[2]>>
             /\ j[1] = "call" => \E x \in App \cup Hook : \E e \in Event : j = <<"call", x, e[1], e[2]>>
             /\ j[1] = "start" => j = <<"start">>
             /\ j[1] = "drive" => j = <<"drive">>
             /\ j[1] = "pump" => j = <<"pump">>
             /\ j[1] = "fail" => j = <<"fail">>
  <2>1. CASE \E l \in Layer : j = <<"snapshot", l>>
    BY <2>1
  <2>2. CASE \E h \in Installed : j = <<"install", h>>
    BY <2>2
  <2>3. CASE \E e \in Event : j = <<"announce", e[1], e[2]>>
    BY <2>3
  <2>4. CASE \E c \in (App \cup Hook) \X Event : j = <<"call", c[1], c[2][1], c[2][2]>>
    BY <2>4
  <2>5. CASE j \in {<<"start">>, <<"drive">>, <<"pump">>, <<"fail">>}
    BY <2>5
  <2> QED
    BY <2>1, <2>2, <2>3, <2>4, <2>5 DEF Job
<1> QED
  BY <1>1, <1>2 DEF Doing

-----------------------------------------------------------------------------
(* Chains                                                                  *)

\* A hook put before or after a chain that it is not in.
LEMMA ChainGrows ==
  ASSUME NEW c, IsChain(c), NEW h \in Hook, ~Contains(c, h), NEW d, d = <<h>> \o c \/ d = c \o <<h>>
  PROVE  /\ IsChain(d) /\ Contains(d, h) /\ d \in Seq(App \cup Hook)
         /\ \A x : Contains(d, x) <=> x = h \/ Contains(c, x)
<1>1. c \in Seq(App \cup Hook) /\ Len(c) \in Nat /\ DOMAIN c = 1 .. Len(c)
  BY DEF IsChain
<1>2. \A i, j \in 1 .. Len(c) : c[i] = c[j] => i = j
  BY <1>1 DEF IsChain, IsInjective
<1>3. \A i \in 1 .. Len(c) : c[i] # h
  BY DEF Contains
<1>4. CASE d = <<h>> \o c
  <2>1. /\ d \in Seq(App \cup Hook) /\ Len(d) = Len(c) + 1 /\ d[1] = h
        /\ DOMAIN d = 1 .. Len(d)
        /\ \A i \in 1 .. Len(c) : d[i + 1] = c[i]
    BY <1>1, <1>4
  <2>2. \A i \in 1 .. Len(d) : i = 1 \/ (i - 1 \in 1 .. Len(c) /\ d[i] = c[i - 1])
    <3> SUFFICES ASSUME NEW i \in 1 .. Len(d), i # 1
                 PROVE  i - 1 \in 1 .. Len(c) /\ d[i] = c[i - 1]
      OBVIOUS
    <3>1. i - 1 \in 1 .. Len(c) /\ (i - 1) + 1 = i
      BY <1>1, <2>1
    <3> QED
      BY <2>1, <3>1
  <2>3. \A i, j \in 1 .. Len(d) : d[i] = d[j] => i = j
    <3> SUFFICES ASSUME NEW i \in 1 .. Len(d), NEW j \in 1 .. Len(d), d[i] = d[j]
                 PROVE  i = j
      OBVIOUS
    <3>1. i \in Int /\ j \in Int
      OBVIOUS
    <3>2. CASE i # 1 /\ j # 1
      <4>1. i - 1 = j - 1
        BY <1>2, <2>2, <3>2
      <4> QED
        BY <3>1, <4>1
    <3>3. CASE i = 1 \/ j = 1
      BY <1>3, <2>1, <2>2, <3>3
    <3> QED
      BY <3>2, <3>3
  <2>4. \A x : Contains(d, x) <=> x = h \/ Contains(c, x)
    <3> TAKE x
    <3>1. ASSUME NEW i \in 1 .. Len(d), d[i] = x
          PROVE  x = h \/ Contains(c, x)
      BY <2>1, <2>2, <3>1 DEF Contains
    <3>2. ASSUME NEW i \in 1 .. Len(c), c[i] = x
          PROVE  Contains(d, x)
      <4>1. i + 1 \in 1 .. Len(d) /\ d[i + 1] = x
        BY <1>1, <2>1, <3>2
      <4> QED
        BY <4>1 DEF Contains
    <3>3. 1 \in 1 .. Len(d)
      BY <1>1, <2>1
    <3> QED
      BY <2>1, <3>1, <3>2, <3>3 DEF Contains
  <2> QED
    BY <2>1, <2>3, <2>4 DEF IsChain, IsInjective
<1>5. CASE d = c \o <<h>>
  <2>1. /\ d \in Seq(App \cup Hook) /\ Len(d) = Len(c) + 1 /\ d[Len(d)] = h
        /\ DOMAIN d = 1 .. Len(d)
        /\ \A i \in 1 .. Len(c) : d[i] = c[i]
    BY <1>1, <1>5
  <2>2. \A i \in 1 .. Len(d) : i = Len(d) \/ i \in 1 .. Len(c)
    BY <1>1, <2>1
  <2>3. \A i, j \in 1 .. Len(d) : d[i] = d[j] => i = j
    BY <1>2, <1>3, <2>1, <2>2
  <2>4. \A x : Contains(d, x) <=> x = h \/ Contains(c, x)
    <3> TAKE x
    <3>1. Len(d) \in 1 .. Len(d) /\ \A i \in 1 .. Len(c) : i \in 1 .. Len(d)
      BY <1>1, <2>1
    <3> QED
      BY <2>1, <2>2, <3>1 DEF Contains
  <2> QED
    BY <2>1, <2>3, <2>4 DEF IsChain, IsInjective
<1> QED
  BY <1>4, <1>5

\* One of the pump and the feed, alone.
LEMMA ChainOfOne ==
  ASSUME NEW x \in App \cup Hook
  PROVE  /\ IsChain(<<x>>) /\ <<x>> \in Seq(App \cup Hook)
         /\ \A y : Contains(<<x>>, y) <=> y = x
BY DEF IsChain, IsInjective, Contains

\* A wrapped callback set still has whoever was there, and the hook.
LEMMA WrapGrows ==
  ASSUME NEW prev \in CallbackSet, IsCallbacks(prev), NEW h \in Installed, ~Wraps(prev, h)
  PROVE  /\ Wrapped(h, prev) \in CallbackSet /\ IsCallbacks(Wrapped(h, prev))
         /\ \A x : Contains(prev.state, x) => Contains(Wrapped(h, prev).state, x)
         /\ \A g \in Installed : Wraps(Wrapped(h, prev), g) => g = h \/ Wraps(prev, g)
<1> DEFINE w == Wrapped(h, prev)
<1>1. /\ prev.state \in Seq(App \cup Hook) /\ prev.data \in Seq(App \cup Hook)
      /\ IsChain(prev.state) /\ IsChain(prev.data) /\ ~Contains(prev.state, h)
      /\ prev = [state |-> prev.state, data |-> prev.data]
      /\ {"pump", "feed"} \subseteq Hook /\ h \in Hook
  BY DEF CallbackSet, IsCallbacks, Wraps, Installed, Hook
<1>2. CASE h = "auto"
  <2>1. w.state = <<"auto">> \o prev.state /\ w.data = prev.data
        /\ w = [state |-> w.state, data |-> w.data]
    BY <1>1, <1>2 DEF Wrapped
  <2> HIDE DEF w
  <2>2. IsChain(w.state) /\ w.state \in Seq(App \cup Hook)
        /\ \A x : Contains(w.state, x) <=> x = h \/ Contains(prev.state, x)
    BY <1>1, <1>2, <2>1, ChainGrows
  <2>3. w \in CallbackSet /\ IsCallbacks(w)
    BY <1>1, <2>1, <2>2 DEF CallbackSet, IsCallbacks
  <2>4. \A g \in Installed : Wraps(w, g) => g = h \/ Wraps(prev, g)
    BY <2>1, <2>2 DEF Wraps
  <2> QED
    BY <2>2, <2>3, <2>4 DEF w
<1>3. CASE h = "fail"
  <2>1. w.state = prev.state \o <<"fail">> /\ w.data = <<"pump">>
        /\ w = [state |-> w.state, data |-> w.data]
    BY <1>1, <1>3 DEF Wrapped
  <2> HIDE DEF w
  <2>2. IsChain(w.state) /\ w.state \in Seq(App \cup Hook)
        /\ \A x : Contains(w.state, x) <=> x = h \/ Contains(prev.state, x)
    BY <1>1, <1>3, <2>1, ChainGrows
  <2>3. IsChain(w.data) /\ w.data \in Seq(App \cup Hook) /\ ~Contains(w.data, "feed")
    BY <1>1, <2>1, ChainOfOne
  <2>4. w \in CallbackSet /\ IsCallbacks(w)
    BY <2>1, <2>2, <2>3 DEF CallbackSet, IsCallbacks
  <2>5. \A g \in Installed : Wraps(w, g) => g = h \/ Wraps(prev, g)
    BY <2>2, <2>3 DEF Wraps
  <2> QED
    BY <2>2, <2>4, <2>5 DEF w
<1>4. CASE h = "connect"
  <2>1. w.state = <<"connect">> \o prev.state /\ w.data = <<"feed">> \o prev.data
        /\ w = [state |-> w.state, data |-> w.data]
    BY <1>1, <1>4 DEF Wrapped
  <2>2. ~Contains(prev.data, "feed")
    BY <1>4 DEF Wraps
  <2> HIDE DEF w
  <2>3. IsChain(w.state) /\ w.state \in Seq(App \cup Hook)
        /\ \A x : Contains(w.state, x) <=> x = h \/ Contains(prev.state, x)
    BY <1>1, <1>4, <2>1, ChainGrows
  <2>4. IsChain(w.data) /\ w.data \in Seq(App \cup Hook)
    BY <1>1, <2>1, <2>2, ChainGrows
  <2>5. w \in CallbackSet /\ IsCallbacks(w)
    BY <2>1, <2>3, <2>4 DEF CallbackSet, IsCallbacks
  <2>6. \A g \in Installed : Wraps(w, g) => g = h \/ Wraps(prev, g)
    BY <1>4, <2>3 DEF Wraps
  <2> QED
    BY <2>3, <2>5, <2>6 DEF w
<1> QED
  BY <1>2, <1>3, <1>4 DEF Installed

-----------------------------------------------------------------------------
(* What a step that pushes has to see to                                   *)

\* A hook is installed by a step that begins with it, called after it has.
LEMMA HooksAfter ==
  ASSUME Typed, Hooks, NEW t \in Thread, NEW more \in Seq(Job), Pushes(t, more),
         \A h \in Installed :
           /\ Begun(h) => Begun(h)'
           /\ Wrapping(h)' => Wrapping(h)
           /\ Among({<<"install", h>>}, more) => ~Begun(h) /\ Begun(h)'
           /\ Among(CallsOf(h), more) => Begun(h)
           /\ \A i, j \in DOMAIN more :
                more[i] = <<"install", h>> /\ more[j] = <<"install", h>> => i = j
  PROVE  Hooks'
<1> SUFFICES ASSUME NEW h \in Installed
             PROVE  /\ Once({<<"install", h>>})'
                    /\ Pending({<<"install", h>>})' => Begun(h)' /\ ~Wrapping(h)'
                    /\ Wrapping(h)' \/ Pending(CallsOf(h))' => Begun(h)'
  BY DEF Hooks, CallsOf
<1> DEFINE K == {<<"install", h>>}
           C == CallsOf(h)
<1>1. /\ Once(K) /\ (Pending(K) => Begun(h) /\ ~Wrapping(h))
      /\ (Wrapping(h) \/ Pending(C) => Begun(h))
  BY DEF Hooks
<1>2. \A i, j \in DOMAIN more : more[i] \in K /\ more[j] \in K => i = j
  OBVIOUS
<1> HIDE DEF K, C
<1>3. Among(K, more) => ~Pending(K) /\ ~Wrapping(h) /\ Begun(h)'
  BY <1>1 DEF K
<1>4. Once(K)'
  BY <1>1, <1>2, <1>3, OnceAfter
<1>5. Pending(K)' => Begun(h)' /\ ~Wrapping(h)'
  BY <1>1, <1>3, PendingBefore
<1>6. Wrapping(h)' \/ Pending(C)' => Begun(h)'
  BY <1>1, PendingBefore DEF C
<1> QED
  BY <1>4, <1>5, <1>6 DEF K, C

\* How often a layer may have entered a state.
LEMMA TimesIsCount ==
  ASSUME NEW e \in Event
  PROVE  /\ Times(e[1], e[2]) \in {0, 1, 2}
         /\ Times(e[1], e[2]) = 0 <=> ~Past(e[1], e[2])
         /\ Times(e[1], e[2]) = 2 => e[1] = "dtls" /\ e[2] = "Failed" /\ revived
<1>1. e[1] = "dtls" /\ e[2] = "Failed" <=> <<e[1], e[2]>> = <<"dtls", "Failed">>
  OBVIOUS
<1> QED
  BY <1>1 DEF Times

\* It enters no state less often than before.
Counting ==
  \A e \in Event : /\ Times(e[1], e[2]) \in {0, 1, 2} /\ Times(e[1], e[2])' \in {0, 1, 2}
                   /\ Times(e[1], e[2]) <= Times(e[1], e[2])'

\* A change is announced by the step that makes it, or is on its way to a.
LEMMA TellsAfter ==
  ASSUME Typed, Tells, NEW t \in Thread, NEW more \in Seq(Job), Pushes(t, more), UNCHANGED told,
         Counting,
         \A a \in App, e \in Event :
           /\ \A i, j \in DOMAIN more :
                more[i] \in News(a, e[1], e[2]) /\ more[j] \in News(a, e[1], e[2]) => i = j
           /\ Among(News(a, e[1], e[2]), more) =>
                \/ Does(t, News(a, e[1], e[2]))
                \/ ~Pending(News(a, e[1], e[2])) /\ Times(e[1], e[2]) < Times(e[1], e[2])'
  PROVE  Tells'
<1> SUFFICES ASSUME NEW a \in App, NEW e \in Event
             PROVE  Counted(a, e)'
  BY DEF Tells
<1> DEFINE K == News(a, e[1], e[2])
           n == told[<<a, e[1], e[2]>>]
           x == Times(e[1], e[2])
           y == Times(e[1], e[2])'
<1>1. Once(K) /\ n <= x /\ (Pending(K) => n < x)
  BY DEF Tells, Counted
<1>2. Does(t, K) => Pending(K)
  BY Tops DEF Does, Pending
<1>3. \A i, j \in DOMAIN more : more[i] \in K /\ more[j] \in K => i = j
  OBVIOUS
<1>4. Among(K, more) => Does(t, K) \/ (~Pending(K) /\ x < y)
  OBVIOUS
<1>5. x \in {0, 1, 2} /\ y \in {0, 1, 2} /\ x <= y
  BY DEF Counting
<1>6. n \in Nat
  <2>1. <<a, e[1], e[2]>> \in App \X Layer \X Status
    BY DEF Event, Layer, Status
  <2> QED
    BY <2>1 DEF Typed
<1>7. told'[<<a, e[1], e[2]>>] = n
  OBVIOUS
<1> HIDE DEF K, n, x, y
<1>8. Once(K)'
  BY <1>1, <1>3, <1>4, OnceAfter
<1>9. Pending(K)' => (Pending(K) \/ Among(K, more))
  BY PendingBefore
<1>10. Pending(K)' => n < x \/ (n <= x /\ x < y)
  BY <1>1, <1>2, <1>4, <1>9
<1>11. n <= y /\ (Pending(K)' => n < y)
  BY <1>1, <1>5, <1>6, <1>10
<1> QED
  BY <1>7, <1>8, <1>11 DEF Counted, K, n, x, y, News

\* Who has not been told of anything has nothing on its way to it.
LEMMA Unborn ==
  ASSUME Typed, Tells, NEW a \in App, NEW e \in Event, ~Past(e[1], e[2])
  PROVE  ~Pending(News(a, e[1], e[2]))
<1>1. <<a, e[1], e[2]>> \in App \X Layer \X Status
  BY DEF Event, Layer, Status
<1>2. told[<<a, e[1], e[2]>>] \in Nat /\ Times(e[1], e[2]) = 0
  BY <1>1, TimesIsCount DEF Typed
<1> QED
  BY <1>2 DEF Tells, Counted

\* What may fail DTLS leads to one such thing, or comes to an idle driver.
LEMMA DoomsAfter ==
  ASSUME Typed, Dooms, NEW t \in Thread, NEW more \in Seq(Job), Pushes(t, more),
         \A a \in App :
           /\ \A i, j \in DOMAIN more : more[i] \in Doom(a) /\ more[j] \in Doom(a) => i = j
           /\ Among(Doom(a), more) => Does(t, Doom(a)) \/ (t = driver /\ todo[t] = <<>>)
  PROVE  Dooms'
<1> SUFFICES ASSUME NEW a \in App
             PROVE  /\ Once(Doom(a))'
                    /\ \A u \in Thread \ {driver} : \A i \in DOMAIN todo'[u] :
                         todo'[u][i] \notin Doom(a)
  BY DEF Dooms, Doom, News
<1> DEFINE K == Doom(a)
<1>1. /\ Once(K)
      /\ \A u \in Thread \ {driver} : \A i \in DOMAIN todo[u] : todo[u][i] \notin K
  BY DEF Dooms
<1>2. /\ \A i, j \in DOMAIN more : more[i] \in K /\ more[j] \in K => i = j
      /\ Among(K, more) => Does(t, K) \/ (t = driver /\ todo[t] = <<>>)
  OBVIOUS
<1> HIDE DEF K
<1>3. Does(t, K) => t = driver
  BY <1>1, Tops DEF Does
<1>4. todo[driver] = <<>> => ~Pending(K)
  BY <1>1 DEF Pending
<1>5. Once(K)'
  BY <1>1, <1>2, <1>4, OnceAfter
<1>6. ASSUME NEW u \in Thread \ {driver}, NEW i \in DOMAIN todo'[u], todo'[u][i] \in K
      PROVE  FALSE
  <2>1. CASE u # t
    BY <1>1, <1>6, <2>1, Pushed
  <2>2. CASE u = t /\ i \in DOMAIN more
    BY <1>2, <1>3, <1>6, <2>2, Pushed DEF Among
  <2>3. CASE u = t /\ i \notin DOMAIN more
    BY <1>1, <1>6, <2>3, Pushed
  <2> QED
    BY <2>1, <2>2, <2>3
<1> QED
  BY <1>5, <1>6 DEF K

\* Jobs that have nothing to do with a failure.
LEMMA NoDoom ==
  ASSUME NEW more \in Seq(Job),
         \A i \in DOMAIN more :
           /\ more[i][1] \notin {"pump", "fail"}
           /\ more[i][1] = "announce" => more[i][3] # "Failed"
           /\ more[i][1] = "call" => more[i][4] # "Failed"
  PROVE  \A a \in App : ~Among(Doom(a), more)
BY DEF Among, Doom, News

LEMMA DoomsStay ==
  ASSUME Typed, Dooms, NEW t \in Thread, NEW more \in Seq(Job), Pushes(t, more),
         \A i \in DOMAIN more :
           /\ more[i][1] \notin {"pump", "fail"}
           /\ more[i][1] = "announce" => more[i][3] # "Failed"
           /\ more[i][1] = "call" => more[i][4] # "Failed"
  PROVE  Dooms'
BY NoDoom, DoomsAfter DEF Among

\* While the driver is about to fail DTLS, nobody is about to be told of an
\* earlier failure.
LEMMA DoomAlone ==
  ASSUME Typed, Dooms, NEW t \in Thread, NEW a \in App, todo[t] # <<>>,
         Head(todo[t]) \in Doom(a) \ News(a, "dtls", "Failed")
  PROVE  ~Pending(News(a, "dtls", "Failed"))
<1> DEFINE K == News(a, "dtls", "Failed")
<1>1. 1 \in DOMAIN todo[t] /\ todo[t][1] \in Doom(a) /\ todo[t][1] \notin K
  BY Tops
<1>2. K \subseteq Doom(a) /\ Once(Doom(a))
  BY DEF Doom, Dooms
<1> HIDE DEF K
<1> QED
  BY <1>1, <1>2 DEF Pending, Once, K

\* Both kinds of step push.
LEMMA CallPushes ==
  ASSUME Typed, NEW t \in Thread, NEW more \in Seq(Job), Call(t, more)
  PROVE  Pushes(t, more)
<1>1. more \o <<>> = more
  OBVIOUS
<1> QED
  BY <1>1 DEF Call, Pushes, Rest

LEMMA ThenPushes ==
  ASSUME NEW t \in Thread, NEW more, todo[t] # <<>>, Then(t, more)
  PROVE  Pushes(t, more)
BY DEF Then, Pushes, Rest

\* Jobs of another kind.
LEMMA Kinds ==
  ASSUME NEW more \in Seq(Job)
  PROVE  /\ (\A i \in DOMAIN more : more[i][1] \notin {"announce", "call"}) =>
              \A a, l, s : \A i \in DOMAIN more : more[i] \notin News(a, l, s)
         /\ (\A i \in DOMAIN more : more[i][1] # "install") =>
              \A h : \A i \in DOMAIN more : more[i] # <<"install", h>>
         /\ (\A i \in DOMAIN more : more[i][1] # "call") =>
              \A h : \A i \in DOMAIN more : more[i] \notin CallsOf(h)
BY DEF News, CallsOf

\* A thread that has taken no callback set puts none back.
LEMMA TakenAfter ==
  ASSUME Typed, Pairs, Taken, NEW t \in Thread, NEW more \in Seq(Job), Pushes(t, more),
         more = <<>> \/ more[1][1] # "install", ~Doing(t, "snapshot"),
         \A u \in Thread \ {t} : snapshot'[u] = snapshot[u], UNCHANGED <<latest, lost>>
  PROVE  Taken'
<1>1. todo'[t] \in Seq(Job) /\ todo[t] \in Seq(Job)
  BY Pushed DEF Typed
<1>2. ~Doing(t, "install")'
  <2> SUFFICES ASSUME todo'[t] # <<>>, todo'[t][1][1] = "install" PROVE FALSE
    BY <1>1 DEF Doing
  <2>1. 1 \in DOMAIN todo'[t]
    BY <1>1
  <2>2. CASE more # <<>>
    <3>1. 1 \in DOMAIN more
      BY <2>2
    <3> QED
      BY <2>2, <3>1, Pushed
  <2>3. CASE more = <<>>
    <3>1. Len(more) = 0 /\ 1 \notin DOMAIN more
      BY <2>3
    <3>2. 2 \in DOMAIN todo[t] /\ todo'[t][1] = todo[t][2]
      <4>1. /\ 1 - Len(more) + 1 \in DOMAIN todo[t]
            /\ todo'[t][1] = todo[t][1 - Len(more) + 1]
        <5>1. \A i \in DOMAIN todo'[t] :
                i \notin DOMAIN more =>
                  /\ i - Len(more) + 1 \in DOMAIN todo[t]
                  /\ todo'[t][i] = todo[t][i - Len(more) + 1]
          BY Pushed
        <5> QED
          BY <2>1, <3>1, <5>1
      <4>2. 1 - Len(more) + 1 = 2
        BY <3>1
      <4> QED
        BY <4>1, <4>2
    <3>3. todo[t][2][1] = "install" /\ 2 # 1 /\ 2 - 1 = 1
      BY <3>2
    <3>4. todo[t][1][1] = "snapshot"
      BY <3>2, <3>3 DEF Pairs
    <3>5. todo[t] # <<>>
      BY <1>1, <3>2
    <3> QED
      BY <3>4, <3>5, Tops DEF Doing
  <2> QED
    BY <2>2, <2>3
<1>3. ASSUME NEW u \in Thread \ {t}
      PROVE  todo'[u] = todo[u] /\ snapshot'[u] = snapshot[u]
  BY Pushed
<1> QED
  BY <1>2, <1>3 DEF Taken, Doing, Arg

\* What has been entered stays so while DTLS does no more than start or fail.
LEMMA PastStays ==
  ASSUME UNCHANGED <<ice, handshake, revived>>,
         dtls' \in {dtls, "Connecting", "Failed"},
         dtls \notin {"none", "New"} => dtls' \notin {"none", "New"},
         dtls = "Failed" => dtls' = "Failed"
  PROVE  \A f \in Event : Past(f[1], f[2]) => Past(f[1], f[2])'
<1> SUFFICES ASSUME NEW f \in Event, Past(f[1], f[2])
             PROVE  Past(f[1], f[2])'
  OBVIOUS
<1>1. f[1] \in {"ice", "dtls"}
  BY DEF Event
<1>2. CASE f[1] = "ice"
  BY <1>2 DEF Past
<1>3. CASE f[1] = "dtls"
  <2>1. \/ f[2] = "Connecting" /\ dtls \notin {"none", "New"}
        \/ f[2] = "Connected" /\ handshake = "noticed"
        \/ f[2] = "Failed" /\ (dtls = "Failed" \/ revived)
    BY <1>3 DEF Past
  <2> QED
    BY <1>3, <2>1 DEF Past
<1> QED
  BY <1>1, <1>2, <1>3

\* What has been entered has been; DTLS that failed again stays failed.
LEMMA CountingGrows ==
  ASSUME \A e \in Event : Past(e[1], e[2]) => Past(e[1], e[2])',
         dtls = "Failed" /\ revived => dtls' = "Failed" /\ revived'
  PROVE  Counting
<1> SUFFICES ASSUME NEW e \in Event
             PROVE  /\ Times(e[1], e[2]) \in {0, 1, 2} /\ Times(e[1], e[2])' \in {0, 1, 2}
                    /\ Times(e[1], e[2]) <= Times(e[1], e[2])'
  BY DEF Counting
<1> DEFINE l == e[1]
           s == e[2]
<1>1. Past(l, s) => Past(l, s)'
  OBVIOUS
<1> HIDE DEF l, s
<1>2. Times(l, s) \in {0, 1, 2} /\ Times(l, s)' \in {0, 1, 2} /\ Times(l, s) <= Times(l, s)'
  BY <1>1 DEF Times
<1> QED
  BY <1>2 DEF l, s

\* A step of somebody else enters nothing.
LEMMA CountingStays ==
  ASSUME UNCHANGED <<ice, dtls, revived>>, handshake' = "noticed" <=> handshake = "noticed"
  PROVE  Counting
<1> SUFFICES ASSUME NEW e \in Event
             PROVE  /\ Times(e[1], e[2]) \in {0, 1, 2} /\ Times(e[1], e[2])' \in {0, 1, 2}
                    /\ Times(e[1], e[2]) <= Times(e[1], e[2])'
  BY DEF Counting
<1>1. Past(e[1], e[2])' <=> Past(e[1], e[2])
  BY DEF Past
<1>2. Times(e[1], e[2])' = Times(e[1], e[2])
  BY <1>1 DEF Times
<1>3. Times(e[1], e[2]) \in {0, 1, 2}
  BY TimesIsCount
<1> QED
  BY <1>2, <1>3

\* What two steps have in common: nobody's callbacks change.
LEMMA KeepsAfter ==
  ASSUME KeepsTheApplication, UNCHANGED <<slot, latest, lost>>
  PROVE  KeepsTheApplication'
BY DEF KeepsTheApplication

\* A step that pushes no more than a start or a pump, and installs nothing.
LEMMA Quiet ==
  ASSUME IInv, NEW t \in Thread, NEW more \in Seq(Job), Pushes(t, more),
         \A i \in DOMAIN more : more[i][1] \in {"start", "pump", "fail"},
         ~Doing(t, "snapshot"), UNCHANGED <<ice, dtls, revived, slot, snapshot, latest, lost>>,
         handshake' = "noticed" <=> handshake = "noticed",
         sctp' = sctp \/ (sctp # "none" /\ sctp' = "Connecting")
  PROVE  /\ todo' \in [Thread -> Seq(Job)]
         /\ Pairs' /\ Hooks' /\ KeepsTheApplication' /\ Taken' /\ Drove'
         /\ UNCHANGED told => Tells'
<1>1. todo' \in [Thread -> Seq(Job)]
  BY Pushed DEF IInv
<1>2. /\ \A a, l, s : \A i \in DOMAIN more : more[i] \notin News(a, l, s)
      /\ \A h : \A i \in DOMAIN more : more[i] # <<"install", h>>
      /\ \A h : \A i \in DOMAIN more : more[i] \notin CallsOf(h)
  BY Kinds
<1>3. Pairs'
  BY PairsAfter DEF IInv
<1>4. Hooks'
  <2>1. \A h \in Installed : (Begun(h) => Begun(h)') /\ (Wrapping(h)' => Wrapping(h))
    BY DEF Begun, Wrapping, Installed
  <2> QED
    BY <1>2, <2>1, HooksAfter DEF IInv, Among
<1>5. ASSUME UNCHANGED told
      PROVE  Tells'
  BY <1>2, <1>5, CountingStays, TellsAfter DEF IInv, Among
<1>6. Taken'
  <2>1. more = <<>> \/ more[1][1] # "install"
    OBVIOUS
  <2> QED
    BY <2>1, TakenAfter DEF IInv
<1>7. Drove'
  BY DEF IInv, Drove
<1> QED
  BY <1>1, <1>3, <1>4, <1>5, <1>6, <1>7, KeepsAfter DEF IInv

-----------------------------------------------------------------------------
(* The steps                                                               *)

\* A layer that has a thread on its way to wake the one above still has it.
LEMMA WakesAfter ==
  ASSUME Typed, Wakes, NEW t \in Thread, NEW more \in Seq(Job), Pushes(t, more),
         Does(t, Wake["ice"]) =>
           Among(Wake["ice"], more) \/ "ice" \in missed' \/ dtls' \notin {"none", "New"},
         Does(t, Wake["dtls"]) =>
           Among(Wake["dtls"], more) \/ "dtls" \in missed' \/ sctp' \notin {"none", "New"},
         missed \subseteq missed',
         ice' = "Connected" => ice = "Connected" \/ Among(Wake["ice"], more),
         dtls' \in {"none", "New"} => dtls \in {"none", "New"},
         dtls' = "Connected" => dtls = "Connected" \/ Among(Wake["dtls"], more),
         sctp' \in {"none", "New"} => sctp \in {"none", "New"}
  PROVE  Wakes'
<1>1. \A l \in Layer : Wake'[l] = Wake[l]
  BY DEF Wake
<1>2. ASSUME ice' = "Connected", dtls' \in {"none", "New"}
      PROVE  "ice" \in missed' \/ Pending(Wake["ice"])'
  <2> DEFINE K == Wake["ice"]
  <2>1. CASE Among(K, more)
    BY <2>1, PendingAfter
  <2>2. CASE ice = "Connected"
    <3>1. "ice" \in missed \/ Pending(K)
      BY <1>2, <2>2 DEF Wakes
    <3>2. CASE Does(t, K)
      BY <1>2, <3>2, PendingAfter
    <3> QED
      BY <3>1, <3>2, PendingAfter
  <2> QED
    BY <1>2, <2>1, <2>2
<1>3. ASSUME dtls' = "Connected", sctp' \in {"none", "New"}
      PROVE  "dtls" \in missed' \/ Pending(Wake["dtls"])'
  <2> DEFINE K == Wake["dtls"]
  <2>1. CASE Among(K, more)
    BY <2>1, PendingAfter
  <2>2. CASE dtls = "Connected"
    <3>1. "dtls" \in missed \/ Pending(K)
      BY <1>3, <2>2 DEF Wakes
    <3>2. CASE Does(t, K)
      BY <1>3, <3>2, PendingAfter
    <3> QED
      BY <3>1, <3>2, PendingAfter
  <2> QED
    BY <1>3, <2>1, <2>2
<1> QED
  BY <1>2, <1>3 DEF Wakes

\* start() is pushed when there is a transport, the rest when it has moved.
LEMMA StartsAfter ==
  ASSUME Typed, Starts, NEW t \in Thread, NEW more \in Seq(Job), Pushes(t, more),
         started' => dtls' \notin {"none", "New"},
         dtls # "none" => dtls' # "none",
         dtls \notin {"none", "New"} => dtls' \notin {"none", "New"},
         Among({<<"start">>}, more) => dtls # "none",
         Among({<<"drive">>, <<"fail">>}, more) => dtls' \notin {"none", "New"}
  PROVE  Starts'
<1> DEFINE K == {<<"start">>}
           L == {<<"drive">>, <<"fail">>}
<1>1. /\ Pending(K) => dtls # "none"
      /\ Pending(L) => dtls \notin {"none", "New"}
  BY DEF Starts
<1> HIDE DEF K, L
<1>2. /\ Pending(K)' => Pending(K) \/ Among(K, more)
      /\ Pending(L)' => Pending(L) \/ Among(L, more)
  BY PendingBefore
<1>3. /\ Pending(K)' => dtls' # "none"
      /\ Pending(L)' => dtls' \notin {"none", "New"}
  BY <1>1, <1>2 DEF K, L
<1> QED
  BY <1>3 DEF Starts, K, L

\* Nothing is on no list.
LEMMA NoJobs ==
  /\ <<>> \in Seq(Job) /\ DOMAIN <<>> = {}
  /\ \A K : ~Among(K, <<>>)
BY DEF Among

LEMMA SnapshotKeeps ==
  ASSUME IInv, NEW t \in Thread, Snapshot(t)
  PROVE  IInv'
<1>1. PICK l \in Layer : Head(todo[t]) = <<"snapshot", l>> /\ todo[t] # <<>>
  BY Heads DEF Snapshot, Doing, IInv
<1>2. Pushes(t, <<>>)
  BY <1>1, ThenPushes DEF Snapshot
<1>3. /\ snapshot' = [snapshot EXCEPT ![t] = slot[l]]
      /\ UNCHANGED <<ice, dtls, sctp, started, handshake, slot, told, latest, lost, missed, revived>>
  <2>1. Arg(t, 2) = l
    BY <1>1 DEF Arg
  <2> QED
    BY <2>1 DEF Snapshot, status, history
<1>4. snapshot'[t] = slot[l] /\ snapshot' \in [Thread -> CallbackSet]
      /\ \A u \in Thread \ {t} : snapshot'[u] = snapshot[u]
  BY <1>3 DEF IInv, Typed
<1>5. TypeOK'
  <2>1. \A u \in Thread : IsCallbacks(snapshot'[u])
    BY <1>4 DEF IInv, TypeOK
  <2> QED
    BY <1>3, <2>1 DEF IInv, TypeOK
<1>6. Typed'
  BY <1>2, <1>3, <1>4, NoJobs, Pushed DEF IInv, Typed
<1>7. Pairs'
  BY <1>2, NoJobs, PairsAfter DEF IInv
<1>8. Hooks'
  <2>1. \A h \in Installed : (Begun(h) => Begun(h)') /\ (Wrapping(h)' => Wrapping(h))
    BY <1>3, <1>4 DEF Begun, Wrapping, Installed
  <2> QED
    BY <1>2, <2>1, NoJobs, HooksAfter DEF IInv
<1>9. Starts'
  BY <1>2, <1>3, NoJobs, StartsAfter DEF IInv, Starts
<1>10. Tells' /\ ToldOnce'
  <2>1. Tells'
    BY <1>2, <1>3, CountingStays, NoJobs, TellsAfter DEF IInv
  <2> QED
    BY <1>3, <2>1 DEF IInv, ToldOnce
<1>11. KeepsTheApplication'
  BY <1>3, KeepsAfter DEF IInv
<1>12. Taken'
  <2>1. ASSUME NEW u \in Thread \ {t}
        PROVE  todo'[u] = todo[u] /\ snapshot'[u] = snapshot[u]
    BY <1>2, <1>4, NoJobs, Pushed DEF IInv
  <2>2. ASSUME Doing(t, "install")'
        PROVE  Target(Head(todo'[t])[2]) = l
    <3>1. todo[t] \in Seq(Job) /\ todo'[t] = Tail(todo[t]) /\ todo'[t] \in Seq(Job)
      BY <1>1, <1>2, <1>6 DEF IInv, Typed, Pushes, Rest
    <3>2. 1 \in DOMAIN todo[t] /\ todo[t][1] = <<"snapshot", l>>
      BY <1>1, Tops DEF IInv
    <3>3. 2 \in DOMAIN todo[t] /\ Target(todo[t][2][2]) = l
      <4>1. todo[t][1][1] = "snapshot" /\ todo[t][1][2] = l /\ 1 + 1 = 2
        BY <3>2
      <4> QED
        BY <3>2, <4>1 DEF IInv, Pairs
    <3>4. Head(todo'[t]) = todo[t][2]
      BY <3>1, <3>3
    <3> QED
      BY <3>3, <3>4
  <2>3. Contains(slot[l].state, latest[l]) \/ lost[l]
    BY DEF IInv, KeepsTheApplication
  <2> QED
    BY <1>3, <1>4, <2>1, <2>2, <2>3 DEF IInv, Taken, Doing, Arg
<1>13. Wakes'
  <2>1. ~Does(t, Wake["ice"]) /\ ~Does(t, Wake["dtls"])
    BY <1>1 DEF Does, Wake, Layer
  <2> QED
    BY <1>2, <1>3, <2>1, NoJobs, WakesAfter DEF IInv
<1>14. Drove' /\ Dooms'
  BY <1>2, <1>3, NoJobs, DoomsStay DEF IInv, Drove
<1> QED
  BY <1>5, <1>6, <1>7, <1>8, <1>9, <1>10, <1>11, <1>12, <1>13, <1>14 DEF IInv

LEMMA InstallKeeps ==
  ASSUME IInv, NEW t \in Thread, Install(t)
  PROVE  IInv'
<1>1. PICK h \in Installed : Head(todo[t]) = <<"install", h>> /\ todo[t] # <<>>
  BY Heads DEF Install, Doing, IInv
<1> DEFINE prev == snapshot[t]
           w == Wrapped(h, prev)
           K == {<<"install", h>>}
           at == Target(h)
<1>2. Pushes(t, <<>>)
  BY <1>1, ThenPushes DEF Install
<1>3. /\ slot' = [slot EXCEPT ![at] = w] /\ snapshot' = [snapshot EXCEPT ![t] = NoCallbacks]
      /\ UNCHANGED <<ice, dtls, sctp, started, handshake, told, latest, lost, missed, revived>>
  <2>1. Arg(t, 2) = h
    BY <1>1 DEF Arg
  <2> QED
    BY <2>1 DEF Install, status, history
<1>4. Does(t, K) /\ Pending(K) /\ Once(K) /\ Begun(h) /\ ~Wrapping(h)
  BY <1>1, Tops DEF IInv, Does, Pending, Hooks
<1>5. prev \in CallbackSet /\ IsCallbacks(prev) /\ ~Wraps(prev, h)
  BY <1>4 DEF IInv, Typed, TypeOK, Wrapping
<1> HIDE DEF prev
<1>6. /\ w \in CallbackSet /\ IsCallbacks(w)
      /\ \A x : Contains(prev.state, x) => Contains(w.state, x)
      /\ \A g \in Installed : Wraps(w, g) => g = h \/ Wraps(prev, g)
  BY <1>5, WrapGrows
<1>7. NoCallbacks \in CallbackSet /\ IsCallbacks(NoCallbacks)
      /\ \A g : ~Wraps(NoCallbacks, g)
  BY DEF NoCallbacks, CallbackSet, IsCallbacks, IsChain, IsInjective, Wraps, Contains
<1>8. at \in Layer
  BY DEF Target, Layer
<1> HIDE DEF w, at
<1>9. /\ slot' \in [Layer -> CallbackSet] /\ slot'[at] = w
      /\ \A l \in Layer \ {at} : slot'[l] = slot[l]
      /\ snapshot' \in [Thread -> CallbackSet] /\ snapshot'[t] = NoCallbacks
      /\ \A u \in Thread \ {t} : snapshot'[u] = snapshot[u]
  BY <1>3, <1>6, <1>7, <1>8 DEF IInv, Typed
<1>10. TypeOK'
  <2>1. (\A l \in Layer : IsCallbacks(slot'[l])) /\ (\A u \in Thread : IsCallbacks(snapshot'[u]))
    BY <1>6, <1>7, <1>9 DEF IInv, TypeOK
  <2> QED
    BY <1>3, <2>1 DEF IInv, TypeOK
<1>11. Typed'
  BY <1>2, <1>3, <1>9, NoJobs, Pushed DEF IInv, Typed
<1>12. Pairs'
  BY <1>2, NoJobs, PairsAfter DEF IInv
<1>13. \A g \in Installed : Wrapping(g)' => g = h \/ Wrapping(g)
  BY <1>6, <1>7, <1>8, <1>9 DEF Wrapping, prev
<1>14. Hooks'
  <2> SUFFICES ASSUME NEW g \in Installed
               PROVE  /\ Once({<<"install", g>>})'
                      /\ Pending({<<"install", g>>})' => Begun(g)' /\ ~Wrapping(g)'
                      /\ Wrapping(g)' \/ Pending(CallsOf(g))' => Begun(g)'
    BY DEF Hooks, CallsOf
  <2> DEFINE G == {<<"install", g>>}
             C == CallsOf(g)
  <2>1. /\ Once(G) /\ (Pending(G) => Begun(g) /\ ~Wrapping(g))
        /\ (Wrapping(g) \/ Pending(C) => Begun(g)) /\ (Begun(g) => Begun(g)')
    BY <1>3 DEF IInv, Hooks, Begun, Installed
  <2> HIDE DEF G, C
  <2>2. Once(G)'
    BY <1>2, <2>1, NoJobs, OnceAfter DEF IInv
  <2>3. (Pending(G)' => Pending(G)) /\ (Pending(C)' => Pending(C))
    BY <1>2, NoJobs, PendingBefore DEF IInv, C
  <2>4. g = h => ~Pending(G)'
    BY <1>2, <1>4, NoJobs, DoneAfter DEF IInv, G
  <2>5. Wrapping(g)' => g = h \/ Wrapping(g)
    BY <1>13
  <2>6. Pending(G)' => Begun(g)' /\ ~Wrapping(g)'
    BY <2>1, <2>3, <2>4, <2>5
  <2>7. Wrapping(g)' \/ Pending(C)' => Begun(g)'
    BY <1>4, <2>1, <2>3, <2>5
  <2> QED
    BY <2>2, <2>6, <2>7 DEF G, C
<1>15. Starts'
  BY <1>2, <1>3, NoJobs, StartsAfter DEF IInv, Starts
<1>16. Tells' /\ ToldOnce'
  <2>1. Tells'
    BY <1>2, <1>3, CountingStays, NoJobs, TellsAfter DEF IInv
  <2> QED
    BY <1>3, <2>1 DEF IInv, ToldOnce
<1>17. KeepsTheApplication'
  <2>1. Contains(prev.state, latest[at]) \/ lost[at]
    BY <1>1 DEF IInv, Taken, Doing, Arg, prev, at
  <2> QED
    BY <1>3, <1>6, <1>9, <2>1 DEF IInv, KeepsTheApplication
<1>18. Taken'
  <2>1. ~Doing(t, "snapshot")
    BY <1>1 DEF Doing
  <2> QED
    BY <1>2, <1>3, <1>9, <2>1, NoJobs, TakenAfter DEF IInv
<1>19. Wakes'
  <2>1. ~Does(t, Wake["ice"]) /\ ~Does(t, Wake["dtls"])
    BY <1>1 DEF Does, Wake, Layer
  <2> QED
    BY <1>2, <1>3, <2>1, NoJobs, WakesAfter DEF IInv
<1>20. Drove' /\ Dooms'
  BY <1>2, <1>3, NoJobs, DoomsStay DEF IInv, Drove
<1> QED
  BY <1>10, <1>11, <1>12, <1>14, <1>15, <1>16, <1>17, <1>18, <1>19, <1>20 DEF IInv

LEMMA AnnounceKeeps ==
  ASSUME IInv, NEW t \in Thread, Announce(t)
  PROVE  IInv'
<1>1. PICK e \in Event : Head(todo[t]) = <<"announce", e[1], e[2]>> /\ todo[t] # <<>>
  BY Heads DEF Announce, Doing, IInv
<1> DEFINE l == e[1]
           s == e[2]
           chain == slot[l].state
           more == [i \in DOMAIN chain |-> <<"call", chain[i], l, s>>]
<1>2. l \in Layer /\ s \in Status /\ e = <<l, s>>
  BY DEF Event, Layer, Status
<1>3. chain \in Seq(App \cup Hook) /\ IsChain(chain)
  BY <1>2 DEF IInv, Typed, TypeOK, IsCallbacks, CallbackSet
<1>4. /\ Then(t, more)
      /\ missed' = IF s = "Connected" /\ ~Contains(chain, IF l = "ice" THEN "auto" ELSE "connect")
                     THEN missed \cup {l} ELSE missed
      /\ UNCHANGED <<ice, dtls, sctp, started, handshake, slot, snapshot, told, latest, lost, revived>>
  <2>1. Arg(t, 2) = l /\ Arg(t, 3) = s
    BY <1>1 DEF Arg
  <2> QED
    BY <2>1 DEF Announce, status
<1> HIDE DEF chain
<1>5. more \in Seq(Job) /\ DOMAIN more = DOMAIN chain
      /\ \A i \in DOMAIN more : more[i] = <<"call", chain[i], l, s>>
  <2>1. \A i \in DOMAIN chain : chain[i] \in App \cup Hook
    BY <1>3
  <2>2. \A x \in App \cup Hook : <<"call", x, l, s>> \in Job
    <3> TAKE x \in App \cup Hook
    <3>1. <<x, e>> \in (App \cup Hook) \X Event
      OBVIOUS
    <3>2. <<"call", <<x, e>>[1], <<x, e>>[2][1], <<x, e>>[2][2]>> \in Job
      BY <3>1 DEF Job
    <3> QED
      BY <3>2
  <2>3. DOMAIN chain = 1 .. Len(chain) /\ Len(chain) \in Nat
    BY <1>3
  <2> QED
    BY <2>1, <2>2, <2>3
<1>6. Pushes(t, more)
  BY <1>1, <1>4, ThenPushes
<1> HIDE DEF more
<1>7. TypeOK'
  BY <1>2, <1>4 DEF IInv, TypeOK
<1>8. Typed'
  BY <1>4, <1>5, <1>6, Pushed DEF IInv, Typed
<1>9. ~Doing(t, "snapshot") /\ \A i \in DOMAIN more : more[i][1] = "call"
  BY <1>1, <1>5 DEF Doing
<1>10. Pairs'
  BY <1>5, <1>6, <1>9, PairsAfter DEF IInv
<1>11. Hooks'
  <2>1. \A h \in Installed : (Begun(h) => Begun(h)') /\ (Wrapping(h)' => Wrapping(h))
    BY <1>4 DEF Begun, Wrapping, Installed
  <2>2. ASSUME NEW h \in Installed, Among(CallsOf(h), more)
        PROVE  Begun(h)
    <3>1. PICK i \in DOMAIN more : more[i] \in CallsOf(h)
      BY <2>2 DEF Among
    <3>2. chain[i] = h /\ i \in DOMAIN chain
      BY <1>5, <3>1 DEF CallsOf
    <3>3. Contains(slot[l].state, h)
      BY <1>3, <3>2 DEF Contains, chain
    <3> QED
      BY <1>2, <3>3 DEF IInv, Hooks, Wrapping, Wraps
  <2>3. \A h : \A i \in DOMAIN more : more[i] # <<"install", h>>
    BY <1>5, <1>9, Kinds
  <2> QED
    BY <1>5, <1>6, <2>1, <2>2, <2>3, HooksAfter DEF IInv, Among
<1>12. Starts'
  <2>1. ~Among({<<"start">>}, more) /\ ~Among({<<"drive">>, <<"fail">>}, more)
    BY <1>9 DEF Among
  <2> QED
    BY <1>4, <1>5, <1>6, <2>1, StartsAfter DEF IInv, Starts
<1>13. Tells' /\ ToldOnce'
  <2>1. Counting
    BY <1>4, CountingStays
  <2>2. ASSUME NEW a \in App, NEW f \in Event, NEW i \in DOMAIN more,
               more[i] \in News(a, f[1], f[2])
        PROVE  chain[i] = a /\ f[1] = l /\ f[2] = s
    BY <1>5, <2>2 DEF News
  <2>3. \A i, j \in DOMAIN more : chain[i] = chain[j] => i = j
    BY <1>3, <1>5 DEF IsChain, IsInjective
  <2>4. \A a \in App : Does(t, News(a, l, s))
    BY <1>1 DEF Does, News
  <2>5. ASSUME NEW a \in App, NEW f \in Event
        PROVE  /\ \A i, j \in DOMAIN more :
                    more[i] \in News(a, f[1], f[2]) /\ more[j] \in News(a, f[1], f[2]) => i = j
               /\ Among(News(a, f[1], f[2]), more) => Does(t, News(a, f[1], f[2]))
    <3>1. ASSUME NEW i \in DOMAIN more, NEW j \in DOMAIN more,
                 more[i] \in News(a, f[1], f[2]), more[j] \in News(a, f[1], f[2])
          PROVE  i = j
      BY <2>2, <2>3, <3>1
    <3>2. ASSUME Among(News(a, f[1], f[2]), more)
          PROVE  Does(t, News(a, f[1], f[2]))
      <4>1. f[1] = l /\ f[2] = s
        BY <2>2, <3>2 DEF Among
      <4> QED
        BY <2>4, <4>1
    <3> QED
      BY <3>1, <3>2
  <2>6. Tells'
    BY <1>4, <1>5, <1>6, <2>1, <2>5, TellsAfter DEF IInv
  <2> QED
    BY <1>4, <2>6 DEF IInv, ToldOnce
<1>14. KeepsTheApplication'
  BY <1>4, KeepsAfter DEF IInv
<1>15. Taken'
  <2>1. more = <<>> \/ more[1][1] # "install"
    BY <1>5, <1>9
  <2> QED
    BY <1>4, <1>5, <1>6, <1>9, <2>1, TakenAfter DEF IInv
<1>16. Wakes'
  <2>1. ASSUME NEW m \in Layer, Does(t, Wake[m])
        PROVE  Among(Wake[m], more) \/ m \in missed'
    <3> DEFINE h == IF l = "ice" THEN "auto" ELSE "connect"
    <3>1. m = l /\ s = "Connected"
      BY <1>1, <1>2, <2>1 DEF Does, Wake, Layer
    <3>2. CASE ~Contains(chain, h)
      BY <1>4, <3>1, <3>2
    <3>3. CASE Contains(chain, h)
      <4>1. PICK i \in DOMAIN chain : chain[i] = h
        BY <1>3, <3>3 DEF Contains
      <4>2. more[i] = <<"call", h, l, "Connected">> /\ i \in DOMAIN more
        BY <1>5, <3>1, <4>1
      <4>3. <<"call", h, l, "Connected">> \in Wake[l]
        BY <1>2 DEF Wake, Layer
      <4> QED
        BY <3>1, <4>2, <4>3 DEF Among
    <3> QED
      BY <3>2, <3>3
  <2>2. missed \subseteq missed'
    BY <1>4
  <2> QED
    BY <1>4, <1>5, <1>6, <2>1, <2>2, WakesAfter DEF IInv, Layer
<1>17. Drove'
  BY <1>4 DEF IInv, Drove
<1>18. Dooms'
  <2>1. ASSUME NEW a \in App, NEW i \in DOMAIN more, more[i] \in Doom(a)
        PROVE  \/ chain[i] = "fail" /\ e = <<"ice", "Failed">>
               \/ chain[i] = a /\ e = <<"dtls", "Failed">>
    <3>1. more[i] = <<"call", chain[i], l, s>>
      BY <1>5
    <3> QED
      BY <1>2, <2>1, <3>1 DEF Doom, News
  <2>2. \A i, j \in DOMAIN more : chain[i] = chain[j] => i = j
    BY <1>3, <1>5 DEF IsChain, IsInjective
  <2>3. ASSUME NEW a \in App
        PROVE  /\ \A i, j \in DOMAIN more : more[i] \in Doom(a) /\ more[j] \in Doom(a) => i = j
               /\ Among(Doom(a), more) => Does(t, Doom(a))
    <3>1. ASSUME Among(Doom(a), more)
          PROVE  Does(t, Doom(a))
      <4>1. e \in {<<"ice", "Failed">>, <<"dtls", "Failed">>}
        BY <2>1, <3>1 DEF Among
      <4>2. CASE e = <<"ice", "Failed">>
        <5>1. Head(todo[t]) = <<"announce", "ice", "Failed">>
          BY <1>1, <4>2
        <5> QED
          BY <1>1, <5>1 DEF Does, Doom
      <4>3. CASE e = <<"dtls", "Failed">>
        <5>1. Head(todo[t]) = <<"announce", "dtls", "Failed">>
          BY <1>1, <4>3
        <5> QED
          BY <1>1, <5>1 DEF Does, Doom, News
      <4> QED
        BY <4>1, <4>2, <4>3
    <3>2. ASSUME NEW i \in DOMAIN more, NEW j \in DOMAIN more,
                 more[i] \in Doom(a), more[j] \in Doom(a)
          PROVE  i = j
      BY <2>1, <2>2, <3>2
    <3> QED
      BY <3>1, <3>2
  <2> QED
    BY <1>5, <1>6, <2>3, DoomsAfter DEF IInv
<1> QED
  BY <1>7, <1>8, <1>10, <1>11, <1>12, <1>13, <1>14, <1>15, <1>16, <1>17, <1>18 DEF IInv

LEMMA CallAppKeeps ==
  ASSUME IInv, NEW t \in Thread, CallApp(t)
  PROVE  IInv'
<1>1. PICK a \in App : \E e \in Event : Head(todo[t]) = <<"call", a, e[1], e[2]>> /\ todo[t] # <<>>
  <2>1. PICK x \in App \cup Hook : \E e \in Event : Head(todo[t]) = <<"call", x, e[1], e[2]>>
                                                     /\ todo[t] # <<>>
    BY Heads DEF CallApp, Doing, IInv
  <2>2. x \in App
    BY <2>1 DEF CallApp, Arg
  <2> QED
    BY <2>1, <2>2
<1>2. PICK e \in Event : Head(todo[t]) = <<"call", a, e[1], e[2]>> /\ todo[t] # <<>>
  BY <1>1
<1> DEFINE k == <<a, e[1], e[2]>>
           K == News(a, e[1], e[2])
<1>3. /\ told' = [told EXCEPT ![k] = @ + 1] /\ Then(t, <<>>)
      /\ UNCHANGED <<ice, dtls, sctp, started, handshake, slot, snapshot, latest, lost, missed, revived>>
  <2>1. Arg(t, 2) = a /\ Arg(t, 3) = e[1] /\ Arg(t, 4) = e[2]
    BY <1>2 DEF Arg
  <2> QED
    BY <2>1 DEF CallApp, status
<1>4. Pushes(t, <<>>) /\ ~Doing(t, "snapshot")
  BY <1>2, <1>3, ThenPushes DEF Doing
<1>5. k \in App \X Layer \X Status
  BY DEF Event, Layer, Status
<1>6. /\ told' \in [App \X Layer \X Status -> Nat] /\ told'[k] = told[k] + 1
      /\ \A x \in App \X Layer \X Status : x # k => told'[x] = told[x]
  BY <1>3, <1>5 DEF IInv, Typed
<1>7. todo' \in [Thread -> Seq(Job)] /\ Pairs' /\ Hooks' /\ KeepsTheApplication' /\ Taken' /\ Drove'
  <2> DEFINE more == <<>>
  <2>1. Pushes(t, more) /\ more \in Seq(Job) /\ \A i \in DOMAIN more : more[i][1] \in {"start", "pump"}
    BY <1>4
  <2> HIDE DEF more
  <2> QED
    BY <1>3, <1>4, <2>1, Quiet
<1>8. TypeOK' /\ Typed'
  BY <1>3, <1>6, <1>7 DEF IInv, TypeOK, Typed
<1>9. Starts'
  BY <1>3, <1>4, NoJobs, StartsAfter DEF IInv, Starts
<1>10. Does(t, K) /\ Pending(K)
  BY <1>2, Tops DEF IInv, Does, Pending, News
<1>11. Once(K) /\ told[k] < Times(e[1], e[2])
  BY <1>10 DEF IInv, Tells, Counted
<1>12. ~Pending(K)'
  BY <1>4, <1>10, <1>11, NoJobs, DoneAfter DEF IInv
<1>13. Tells'
  <2> SUFFICES ASSUME NEW b \in App, NEW f \in Event
               PROVE  Counted(b, f)'
    BY DEF Tells
  <2> DEFINE M == News(b, f[1], f[2])
             n == <<b, f[1], f[2]>>
             x == Times(f[1], f[2])
             y == Times(f[1], f[2])'
  <2>1. Once(M) /\ told[n] <= x /\ (Pending(M) => told[n] < x)
    BY DEF IInv, Tells, Counted
  <2>2. x \in {0, 1, 2} /\ y \in {0, 1, 2} /\ x <= y
    BY <1>3, CountingStays DEF Counting
  <2>3. n \in App \X Layer \X Status
    BY DEF Event, Layer, Status
  <2>4. n = k => M = K /\ told[k] < x
    BY <1>11
  <2> HIDE DEF M, K, n, k, x, y
  <2>5. Once(M)' /\ (Pending(M)' => Pending(M))
    BY <1>4, <2>1, NoJobs, OnceAfter, PendingBefore DEF IInv
  <2>6. told[n] \in Nat
    BY <2>3 DEF IInv, Typed
  <2>7. ASSUME n = k
        PROVE  ~Pending(M)' /\ told'[n] <= y
    <3>1. told'[n] = told[n] + 1 /\ told[n] < x
      BY <1>6, <2>4, <2>7
    <3> QED
      BY <1>12, <2>2, <2>4, <2>6, <2>7, <3>1
  <2>8. ASSUME n # k
        PROVE  told'[n] <= y /\ (Pending(M)' => told'[n] < y)
    <3>1. told'[n] = told[n]
      BY <1>6, <2>3, <2>8
    <3> QED
      BY <2>1, <2>2, <2>5, <2>6, <3>1
  <2> QED
    BY <2>5, <2>7, <2>8 DEF Counted, M, n, y, News
<1>14. ToldOnce'
  <2> DEFINE most(x) == IF x[2] = "dtls" /\ x[3] = "Failed" /\ revived THEN 2 ELSE 1
  <2>1. DOMAIN told = App \X Layer \X Status /\ DOMAIN told' = App \X Layer \X Status
    BY <1>6 DEF IInv, Typed
  <2>2. told[k] + 1 <= most(k)
    <3>1. told[k] \in Nat
      BY <1>5 DEF IInv, Typed
    <3>2. Times(e[1], e[2]) \in {0, 1, 2}
          /\ (Times(e[1], e[2]) = 2 => e[1] = "dtls" /\ e[2] = "Failed" /\ revived)
      BY TimesIsCount
    <3>3. k[2] = e[1] /\ k[3] = e[2] /\ told[k] < Times(e[1], e[2])
      BY <1>11
    <3> HIDE DEF k
    <3> QED
      BY <3>1, <3>2, <3>3
  <2>3. ASSUME NEW x \in App \X Layer \X Status
        PROVE  told'[x] <= most(x)
    <3>1. told[x] <= most(x)
      BY <2>1 DEF IInv, ToldOnce
    <3> HIDE DEF k, most
    <3> QED
      BY <1>6, <2>2, <3>1
  <2> QED
    BY <1>3, <2>1, <2>3 DEF ToldOnce
<1>15. Wakes'
  <2>1. ~Does(t, Wake["ice"]) /\ ~Does(t, Wake["dtls"])
    <3>1. a \notin Hook
      BY StackAssumption
    <3> QED
      BY <1>2, <3>1 DEF Does, Wake, Layer, Hook
  <2> QED
    BY <1>3, <1>4, <2>1, NoJobs, WakesAfter DEF IInv
<1>16. Dooms'
  BY <1>4, NoJobs, DoomsStay DEF IInv
<1> QED
  BY <1>7, <1>8, <1>9, <1>13, <1>14, <1>15, <1>16 DEF IInv

\* A hook that is called has been begun.
LEMMA HookCalled ==
  ASSUME IInv, NEW t \in Thread, NEW h \in Installed, Doing(t, "call"), Arg(t, 2) = h
  PROVE  /\ Begun(h) /\ todo[t] # <<>>
         /\ \E e \in Event : Head(todo[t]) = <<"call", h, e[1], e[2]>> /\ Arg(t, 4) = e[2]
<1>1. PICK x \in App \cup Hook : \E e \in Event : Head(todo[t]) = <<"call", x, e[1], e[2]>>
  BY Heads DEF IInv
<1>2. PICK e \in Event : Head(todo[t]) = <<"call", x, e[1], e[2]>>
  BY <1>1
<1>3. x = h /\ Arg(t, 4) = e[2]
  BY <1>2 DEF Arg
<1>4. Pending(CallsOf(h))
  BY <1>2, <1>3, Tops DEF IInv, Doing, Pending, CallsOf
<1> QED
  BY <1>2, <1>3, <1>4 DEF IInv, Hooks, Doing

LEMMA CallAutoKeeps ==
  ASSUME IInv, NEW t \in Thread, CallAuto(t)
  PROVE  IInv'
<1> DEFINE more == IF Arg(t, 4) = "Connected" THEN <<<<"start">>>> ELSE <<>>
<1>1. /\ Then(t, more) /\ Doing(t, "call") /\ Arg(t, 2) = "auto" /\ todo[t] # <<>>
      /\ UNCHANGED <<ice, dtls, sctp, started, handshake, slot, snapshot, told, latest, lost, missed, revived>>
  BY DEF CallAuto, status, history, Doing
<1>2. PICK e \in Event : Head(todo[t]) = <<"call", "auto", e[1], e[2]>> /\ Arg(t, 4) = e[2]
  BY <1>1, HookCalled DEF Installed
<1>3. dtls # "none"
  BY <1>1, HookCalled DEF Installed, Begun
<1>4. more \in Seq(Job) /\ \A i \in DOMAIN more : more[i] = <<"start">>
  <2>1. <<"start">> \in Job
    BY DEF Job
  <2> QED
    BY <2>1
<1>5. Arg(t, 4) = "Connected" => Among(Wake["ice"], more)
  BY DEF Among, Wake, Layer
<1> HIDE DEF more
<1>6. Pushes(t, more) /\ ~Doing(t, "snapshot") /\ \A i \in DOMAIN more : more[i][1] \in {"start", "pump"}
  BY <1>1, <1>4, ThenPushes DEF Doing
<1>7. todo' \in [Thread -> Seq(Job)] /\ Pairs' /\ Hooks' /\ KeepsTheApplication' /\ Taken' /\ Tells'
      /\ Drove'
  BY <1>1, <1>4, <1>6, Quiet
<1>8. TypeOK' /\ Typed' /\ ToldOnce'
  BY <1>1, <1>7 DEF IInv, TypeOK, Typed, ToldOnce
<1>9. Starts'
  <2>1. ~Among({<<"drive">>, <<"fail">>}, more)
    BY <1>4 DEF Among
  <2> QED
    BY <1>1, <1>3, <1>4, <1>6, <2>1, StartsAfter DEF IInv, Starts
<1>10. Wakes'
  <2>1. Does(t, Wake["ice"]) => Arg(t, 4) = "Connected"
    BY <1>2 DEF Does, Wake, Layer
  <2>2. ~Does(t, Wake["dtls"])
    BY <1>2 DEF Does, Wake, Layer
  <2> QED
    BY <1>1, <1>4, <1>5, <1>6, <2>1, <2>2, WakesAfter DEF IInv
<1>11. Dooms'
  BY <1>4, <1>6, DoomsStay DEF IInv
<1> QED
  BY <1>7, <1>8, <1>9, <1>10, <1>11 DEF IInv

LEMMA CallConnectKeeps ==
  ASSUME IInv, NEW t \in Thread, CallConnect(t)
  PROVE  IInv'
<1> DEFINE more == <<>>
<1>1. /\ Then(t, more) /\ Doing(t, "call") /\ Arg(t, 2) = "connect" /\ todo[t] # <<>>
      /\ sctp' = IF Arg(t, 4) = "Connected" /\ sctp = "New" THEN "Connecting" ELSE sctp
      /\ UNCHANGED <<ice, dtls, started, handshake, slot, snapshot, told, latest, lost, missed, revived>>
  BY DEF CallConnect, history, Doing
<1>2. PICK e \in Event : Head(todo[t]) = <<"call", "connect", e[1], e[2]>> /\ Arg(t, 4) = e[2]
  BY <1>1, HookCalled DEF Installed
<1>3. sctp # "none"
  BY <1>1, HookCalled DEF Installed, Begun
<1>4. more \in Seq(Job) /\ \A i \in DOMAIN more : FALSE
  OBVIOUS
<1> HIDE DEF more
<1>5. Pushes(t, more) /\ ~Doing(t, "snapshot") /\ \A i \in DOMAIN more : more[i][1] \in {"start", "pump"}
  BY <1>1, <1>4, ThenPushes DEF Doing
<1>6. sctp' = sctp \/ (sctp # "none" /\ sctp' = "Connecting")
  BY <1>1, <1>3
<1>7. todo' \in [Thread -> Seq(Job)] /\ Pairs' /\ Hooks' /\ KeepsTheApplication' /\ Taken' /\ Tells'
      /\ Drove'
  BY <1>1, <1>4, <1>5, <1>6, Quiet
<1>8. TypeOK' /\ Typed' /\ ToldOnce'
  BY <1>1, <1>6, <1>7 DEF IInv, TypeOK, Typed, ToldOnce
<1>9. Starts'
  BY <1>1, <1>4, <1>5, StartsAfter DEF IInv, Starts, Among
<1>10. Wakes'
  <2>1. Does(t, Wake["dtls"]) => sctp' \notin {"none", "New"}
    BY <1>1, <1>2, <1>3 DEF Does, Wake, Layer
  <2>2. ~Does(t, Wake["ice"])
    BY <1>2 DEF Does, Wake, Layer
  <2>3. sctp' \in {"none", "New"} => sctp \in {"none", "New"}
    BY <1>6
  <2> QED
    BY <1>1, <1>4, <1>5, <2>1, <2>2, <2>3, WakesAfter DEF IInv
<1>11. Dooms'
  BY <1>4, <1>5, DoomsStay DEF IInv
<1> QED
  BY <1>7, <1>8, <1>9, <1>10, <1>11 DEF IInv

\* DTLS fails, at the hands of the driver.
LEMMA FailKeeps ==
  ASSUME IInv, NEW t \in Thread, NEW fails \in BOOLEAN, FailTransport(t, fails), todo[t] # <<>>,
         ~Doing(t, "snapshot"), ~Does(t, Wake["ice"]), ~Does(t, Wake["dtls"]),
         dtls \notin {"none", "New"},
         fails => Head(todo[t]) \in {<<"fail">>, <<"call", "fail", "ice", "Failed">>},
         UNCHANGED <<ice, sctp, started, handshake, slot, snapshot, history>>
  PROVE  IInv'
<1> DEFINE moves == fails /\ dtls # "Failed"
           more == IF moves THEN <<<<"announce", "dtls", "Failed">>>> ELSE <<>>
<1>1. /\ Then(t, more)
      /\ dtls' = IF moves THEN "Failed" ELSE dtls
      /\ UNCHANGED <<ice, sctp, started, handshake, slot, snapshot, told, latest, lost, missed, revived>>
  BY DEF FailTransport, history
<1>2. moves => Head(todo[t]) \in {<<"fail">>, <<"call", "fail", "ice", "Failed">>} /\ dtls # "Failed"
  OBVIOUS
<1>3. dtls \notin {"none", "New"} /\ dtls' \notin {"none", "New"}
  BY <1>1
<1>4. /\ more \in Seq(Job)
      /\ \A i \in DOMAIN more : i = 1 /\ more[i] = <<"announce", "dtls", "Failed">> /\ moves
  <2>1. <<"dtls", "Failed">> \in Event
    BY DEF Event, Status
  <2>2. <<"announce", <<"dtls", "Failed">>[1], <<"dtls", "Failed">>[2]>> \in Job
    BY <2>1 DEF Job
  <2> QED
    BY <2>2
<1> HIDE DEF more, moves
<1>5. Pushes(t, more) /\ ~Doing(t, "snapshot")
  BY <1>1, ThenPushes DEF Doing
<1>6. Pairs'
  BY <1>4, <1>5, PairsAfter DEF IInv
<1>7. Hooks'
  <2>1. \A h \in Installed : (Begun(h) => Begun(h)') /\ (Wrapping(h)' => Wrapping(h))
    BY <1>1, <1>3 DEF Begun, Wrapping, Installed
  <2>2. \A i \in DOMAIN more : more[i][1] = "announce"
    BY <1>4
  <2>3. /\ \A h : \A i \in DOMAIN more : more[i] # <<"install", h>>
        /\ \A h : \A i \in DOMAIN more : more[i] \notin CallsOf(h)
    BY <1>4, <2>2, Kinds
  <2> QED
    BY <1>4, <1>5, <2>1, <2>3, HooksAfter DEF IInv, Among
<1>8. Starts'
  <2>1. ~Among({<<"start">>}, more) /\ ~Among({<<"drive">>, <<"fail">>}, more)
    BY <1>4 DEF Among
  <2> QED
    BY <1>1, <1>3, <1>4, <1>5, <2>1, StartsAfter DEF IInv, Starts
<1>9. Tells' /\ ToldOnce'
  <2>1. Counting
    <3>1. \A f \in Event : Past(f[1], f[2]) => Past(f[1], f[2])'
      BY <1>1, <1>3, PastStays DEF moves
    <3> QED
      BY <1>1, <3>1, CountingGrows
  <2>2. ASSUME NEW a \in App, NEW f \in Event, Among(News(a, f[1], f[2]), more)
        PROVE  ~Pending(News(a, f[1], f[2])) /\ Times(f[1], f[2]) < Times(f[1], f[2])'
    <3>1. f[1] = "dtls" /\ f[2] = "Failed" /\ moves
      BY <1>4, <2>2 DEF Among, News
    <3>2. Head(todo[t]) \in Doom(a) \ News(a, "dtls", "Failed")
      <4>1. Head(todo[t]) \in {<<"fail">>, <<"call", "fail", "ice", "Failed">>}
        BY <1>2, <3>1
      <4> QED
        BY <4>1 DEF Doom, News
    <3>3. ~Pending(News(a, "dtls", "Failed"))
      BY <3>2, DoomAlone DEF IInv
    <3>4. Times(f[1], f[2]) < Times(f[1], f[2])'
      BY <1>1, <1>2, <3>1 DEF Times, Past, moves
    <3> QED
      BY <3>1, <3>3, <3>4
  <2>3. Tells'
    BY <1>1, <1>4, <1>5, <2>1, <2>2, TellsAfter DEF IInv
  <2> QED
    BY <1>1, <2>3 DEF IInv, ToldOnce
<1>13. Drove'
  BY <1>1 DEF IInv, Drove
<1>14. Dooms'
  <2>1. ASSUME NEW a \in App
        PROVE  /\ \A i, j \in DOMAIN more : more[i] \in Doom(a) /\ more[j] \in Doom(a) => i = j
               /\ Among(Doom(a), more) => Does(t, Doom(a))
    <3>1. Among(Doom(a), more) => moves
      BY <1>4 DEF Among
    <3>2. moves => Does(t, Doom(a))
      BY <1>2 DEF Does, Doom
    <3> QED
      BY <1>4, <3>1, <3>2
  <2> QED
    BY <1>4, <1>5, <2>1, DoomsAfter DEF IInv
<1>10. TypeOK' /\ Typed'
  <2>1. todo' \in [Thread -> Seq(Job)]
    BY <1>4, <1>5, Pushed DEF IInv
  <2> QED
    BY <1>1, <2>1 DEF IInv, TypeOK, Typed
<1>11. KeepsTheApplication' /\ Taken'
  <2>1. more = <<>> \/ more[1][1] # "install"
    BY <1>4
  <2> QED
    BY <1>1, <1>4, <1>5, <2>1, TakenAfter, KeepsAfter DEF IInv
<1>12. Wakes'
  BY <1>1, <1>3, <1>4, <1>5, WakesAfter DEF IInv
<1> QED
  BY <1>6, <1>7, <1>8, <1>9, <1>10, <1>11, <1>12, <1>13, <1>14 DEF IInv

LEMMA CallFailKeeps ==
  ASSUME IInv, NEW t \in Thread, CallFail(t)
  PROVE  IInv'
<1> DEFINE fails == <<Arg(t, 3), Arg(t, 4)>> = <<"ice", "Failed">>
<1>1. Doing(t, "call") /\ Arg(t, 2) = "fail" /\ FailTransport(t, fails) /\ fails \in BOOLEAN
      /\ UNCHANGED <<ice, sctp, started, handshake, slot, snapshot, history>>
  BY DEF CallFail
<1>2. PICK x \in App \cup Hook : \E e \in Event : Head(todo[t]) = <<"call", x, e[1], e[2]>>
  BY <1>1, Heads DEF IInv
<1>3. PICK e \in Event : Head(todo[t]) = <<"call", "fail", e[1], e[2]>>
  BY <1>1, <1>2 DEF Arg
<1>4. fails => Head(todo[t]) = <<"call", "fail", "ice", "Failed">>
  BY <1>3 DEF Arg
<1>5. dtls \notin {"none", "New"} /\ todo[t] # <<>>
  BY <1>1, HookCalled DEF Installed, Begun
<1>6. ~Does(t, Wake["ice"]) /\ ~Does(t, Wake["dtls"]) /\ ~Doing(t, "snapshot")
  BY <1>3 DEF Does, Doing, Wake, Layer
<1> HIDE DEF fails
<1> QED
  BY <1>1, <1>4, <1>5, <1>6, FailKeeps

LEMMA PumpFailsKeeps ==
  ASSUME IInv, PumpFails
  PROVE  IInv'
<1>1. /\ todo[driver] # <<>> /\ driver \in Thread /\ FailTransport(driver, TRUE)
      /\ UNCHANGED <<ice, sctp, started, handshake, slot, snapshot, history>>
  BY DEF PumpFails, Doing, Thread
<1>2. Head(todo[driver]) = <<"fail">>
  BY <1>1, Heads DEF IInv, PumpFails
<1>3. ~Does(driver, Wake["ice"]) /\ ~Does(driver, Wake["dtls"]) /\ ~Doing(driver, "snapshot")
  BY <1>2 DEF Does, Doing, Wake, Layer
<1>4. dtls \notin {"none", "New"}
  <2>1. Pending({<<"drive">>, <<"fail">>})
    BY <1>1, <1>2, Tops DEF IInv, Pending
  <2> QED
    BY <2>1 DEF IInv, Starts
<1> QED
  BY <1>1, <1>2, <1>3, <1>4, FailKeeps

LEMMA DtlsStartKeeps ==
  ASSUME IInv, NEW t \in Thread, DtlsStart(t)
  PROVE  IInv'
<1> DEFINE moves == ~started /\ dtls = "New"
           more == IF moves THEN <<<<"announce", "dtls", "Connecting">>,
                                   <<"snapshot", "ice">>, <<"install", "fail">>,
                                   <<"drive">>>> ELSE <<>>
<1>1. /\ Then(t, more) /\ Doing(t, "start") /\ todo[t] # <<>> /\ started'
      /\ dtls' = IF moves THEN "Connecting" ELSE dtls
      /\ UNCHANGED <<ice, sctp, handshake, slot, snapshot, told, latest, lost, missed, revived>>
  BY DEF DtlsStart, history, Doing
<1>2. Head(todo[t]) = <<"start">>
  BY <1>1, Heads DEF IInv
<1>3. dtls # "none"
  <2>1. Pending({<<"start">>})
    BY <1>1, <1>2, Tops DEF IInv, Pending
  <2> QED
    BY <2>1 DEF IInv, Starts
<1>4. dtls' \notin {"none", "New"}
  BY <1>1, <1>3 DEF IInv, Starts, TypeOK
<1>5. /\ more \in Seq(Job)
      /\ \A i \in DOMAIN more :
           /\ moves /\ i \in {1, 2, 3, 4} /\ DOMAIN more = {1, 2, 3, 4}
           /\ i = 1 => more[i] = <<"announce", "dtls", "Connecting">>
           /\ i = 2 => more[i] = <<"snapshot", "ice">>
           /\ i = 3 => more[i] = <<"install", "fail">>
           /\ i = 4 => more[i] = <<"drive">>
  <2>1. <<"dtls", "Connecting">> \in Event
    BY DEF Event, Status
  <2>2. <<"announce", <<"dtls", "Connecting">>[1], <<"dtls", "Connecting">>[2]>> \in Job
    BY <2>1 DEF Job
  <2>3. <<"snapshot", "ice">> \in Job /\ <<"install", "fail">> \in Job /\ <<"drive">> \in Job
    BY DEF Job, Layer, Installed
  <2> QED
    BY <2>2, <2>3
<1> HIDE DEF more, moves
<1>6. Pushes(t, more) /\ ~Doing(t, "snapshot")
  BY <1>1, ThenPushes DEF Doing
<1>7. Pairs'
  <2>1. ASSUME NEW i \in DOMAIN more
        PROVE  /\ more[i][1] = "snapshot" =>
                    /\ i + 1 \in DOMAIN more /\ more[i + 1][1] = "install"
                    /\ Target(more[i + 1][2]) = more[i][2]
               /\ more[i][1] = "install" => i - 1 \in DOMAIN more /\ more[i - 1][1] = "snapshot"
    <3>1. /\ 1 \in DOMAIN more /\ 2 \in DOMAIN more /\ 3 \in DOMAIN more
          /\ more[1] = <<"announce", "dtls", "Connecting">> /\ more[2] = <<"snapshot", "ice">>
          /\ more[3] = <<"install", "fail">>
      BY <1>5
    <3>2. CASE i = 1
      BY <3>1, <3>2
    <3>3. CASE i = 2
      <4>1. i + 1 = 3
        BY <3>3
      <4> QED
        BY <3>1, <3>3, <4>1 DEF Target
    <3>4. CASE i = 3
      <4>1. i - 1 = 2
        BY <3>4
      <4> QED
        BY <3>1, <3>4, <4>1
    <3>5. CASE i = 4
      BY <1>5, <3>5
    <3> QED
      BY <1>5, <3>2, <3>3, <3>4, <3>5
  <2> QED
    BY <1>5, <1>6, <2>1, PairsAfter DEF IInv
<1>8. Hooks'
  <2>1. \A h \in Installed : (Begun(h) => Begun(h)') /\ (Wrapping(h)' => Wrapping(h))
    BY <1>1, <1>4 DEF Begun, Wrapping, Installed
  <2>2. \A i \in DOMAIN more : more[i][1] # "call"
    BY <1>5
  <2>3. \A h : \A i \in DOMAIN more : more[i] \notin CallsOf(h)
    BY <1>5, <2>2, Kinds
  <2>4. ASSUME NEW h \in Installed, NEW i \in DOMAIN more, more[i] = <<"install", h>>
        PROVE  i = 3 /\ h = "fail" /\ moves
    BY <1>5, <2>4
  <2>5. moves => ~Begun("fail") /\ Begun("fail")'
    BY <1>4 DEF Begun, moves
  <2> QED
    BY <1>5, <1>6, <2>1, <2>3, <2>4, <2>5, HooksAfter DEF IInv, Among
<1>9. Starts'
  <2>1. ~Among({<<"start">>}, more)
    BY <1>5 DEF Among
  <2> QED
    BY <1>1, <1>4, <1>5, <1>6, <2>1, StartsAfter DEF IInv, Starts
<1>10. Tells' /\ ToldOnce'
  <2>1. Counting
    <3>1. \A f \in Event : Past(f[1], f[2]) => Past(f[1], f[2])'
      BY <1>1, <1>4, PastStays DEF moves
    <3> QED
      BY <1>1, <3>1, CountingGrows DEF moves
  <2>2. ASSUME NEW a \in App, NEW f \in Event, NEW i \in DOMAIN more,
               more[i] \in News(a, f[1], f[2])
        PROVE  i = 1 /\ f[1] = "dtls" /\ f[2] = "Connecting" /\ moves
    BY <1>5, <2>2 DEF News
  <2>3. moves => /\ ~Past("dtls", "Connecting")
                 /\ Times("dtls", "Connecting") < Times("dtls", "Connecting")'
    BY <1>4 DEF Times, Past, moves
  <2>4. ASSUME NEW a \in App, NEW f \in Event
        PROVE  /\ \A i, j \in DOMAIN more :
                    more[i] \in News(a, f[1], f[2]) /\ more[j] \in News(a, f[1], f[2]) => i = j
               /\ Among(News(a, f[1], f[2]), more) =>
                    ~Pending(News(a, f[1], f[2])) /\ Times(f[1], f[2]) < Times(f[1], f[2])'
    <3>1. ASSUME Among(News(a, f[1], f[2]), more)
          PROVE  ~Pending(News(a, f[1], f[2])) /\ Times(f[1], f[2]) < Times(f[1], f[2])'
      <4>1. f[1] = "dtls" /\ f[2] = "Connecting" /\ moves
        BY <2>2, <3>1 DEF Among
      <4>2. ~Pending(News(a, f[1], f[2]))
        BY <2>3, <4>1, Unborn DEF IInv
      <4> QED
        BY <2>3, <4>1, <4>2
    <3> QED
      BY <2>2, <3>1
  <2>5. Tells'
    BY <1>1, <1>5, <1>6, <2>1, <2>4, TellsAfter DEF IInv
  <2> QED
    BY <1>1, <2>5 DEF IInv, ToldOnce
<1>11. TypeOK' /\ Typed'
  <2>1. todo' \in [Thread -> Seq(Job)]
    BY <1>5, <1>6, Pushed DEF IInv
  <2> QED
    BY <1>1, <2>1 DEF IInv, TypeOK, Typed
<1>12. KeepsTheApplication' /\ Taken'
  <2>1. more = <<>> \/ more[1][1] # "install"
    BY <1>5
  <2> QED
    BY <1>1, <1>5, <1>6, <2>1, TakenAfter, KeepsAfter DEF IInv
<1>13. Wakes'
  <2>1. ~Does(t, Wake["dtls"])
    BY <1>2 DEF Does, Wake, Layer
  <2> QED
    BY <1>1, <1>4, <1>5, <1>6, <2>1, WakesAfter DEF IInv
<1>14. Drove'
  BY <1>1 DEF IInv, Drove, moves
<1>15. Dooms'
  <2>1. ASSUME NEW i \in DOMAIN more
        PROVE  /\ more[i][1] \notin {"pump", "fail"}
               /\ more[i][1] = "announce" => more[i][3] # "Failed"
               /\ more[i][1] = "call" => more[i][4] # "Failed"
    BY <1>5
  <2> QED
    BY <1>5, <1>6, <2>1, DoomsStay DEF IInv
<1> QED
  BY <1>7, <1>8, <1>9, <1>10, <1>11, <1>12, <1>13, <1>14, <1>15 DEF IInv

\* The two things a layer does to put h in l.
TakesAndPuts(more, l, h) ==
  /\ more \in Seq(Job) /\ DOMAIN more = {1, 2}
  /\ more[1] = <<"snapshot", l>> /\ more[2] = <<"install", h>>
  /\ \A i \in DOMAIN more :
       /\ more[i][1] = "snapshot" =>
            /\ i + 1 \in DOMAIN more /\ more[i + 1][1] = "install"
            /\ Target(more[i + 1][2]) = more[i][2]
       /\ more[i][1] = "install" => i - 1 \in DOMAIN more /\ more[i - 1][1] = "snapshot"

LEMMA OnePair ==
  ASSUME NEW l \in Layer, NEW h \in Installed, Target(h) = l,
         NEW more, more = <<<<"snapshot", l>>, <<"install", h>>>>
  PROVE  TakesAndPuts(more, l, h)
<1>1. <<"snapshot", l>> \in Job /\ <<"install", h>> \in Job
  BY DEF Job
<1>2. more \in Seq(Job) /\ DOMAIN more = {1, 2}
      /\ more[1] = <<"snapshot", l>> /\ more[2] = <<"install", h>>
  BY <1>1
<1>3. ASSUME NEW i \in DOMAIN more
      PROVE  /\ more[i][1] = "snapshot" =>
                  /\ i + 1 \in DOMAIN more /\ more[i + 1][1] = "install"
                  /\ Target(more[i + 1][2]) = more[i][2]
             /\ more[i][1] = "install" => i - 1 \in DOMAIN more /\ more[i - 1][1] = "snapshot"
  <2>1. CASE i = 1
    <3>1. i + 1 = 2
      BY <2>1
    <3> QED
      BY <1>2, <2>1, <3>1
  <2>2. CASE i = 2
    <3>1. i - 1 = 1
      BY <2>2
    <3> QED
      BY <1>2, <2>2, <3>1
  <2> QED
    BY <1>2, <2>1, <2>2
<1> QED
  BY <1>2, <1>3 DEF TakesAndPuts

\* A thread that calls is doing nothing yet.
LEMMA Fresh ==
  ASSUME Typed, NEW t \in Thread, NEW more \in Seq(Job), Call(t, more)
  PROVE  /\ Pushes(t, more) /\ ~Doing(t, "snapshot")
         /\ \A K : ~Does(t, K)
BY CallPushes DEF Call, Doing, Does

\* A constructor: it begins the hook it installs.
LEMMA ConstructorKeeps ==
  ASSUME IInv, NEW t \in Thread, NEW l \in Layer, NEW h \in {"auto", "connect"}, Target(h) = l,
         Call(t, <<<<"snapshot", l>>, <<"install", h>>>>),
         UNCHANGED <<ice, started, handshake, slot, snapshot, history>>,
         \/ h = "auto" /\ dtls = "none" /\ dtls' = "New" /\ sctp' = sctp
         \/ h = "connect" /\ sctp = "none" /\ sctp' = "New" /\ dtls' = dtls
  PROVE  IInv'
<1> DEFINE more == <<<<"snapshot", l>>, <<"install", h>>>>
<1>0. more = <<<<"snapshot", l>>, <<"install", h>>>>
  OBVIOUS
<1>2. Call(t, more)
  OBVIOUS
<1> HIDE DEF more
<1>1. /\ more \in Seq(Job) /\ DOMAIN more = {1, 2}
      /\ more[1] = <<"snapshot", l>> /\ more[2] = <<"install", h>>
      /\ \A i \in DOMAIN more :
           /\ more[i][1] = "snapshot" =>
                /\ i + 1 \in DOMAIN more /\ more[i + 1][1] = "install"
                /\ Target(more[i + 1][2]) = more[i][2]
           /\ more[i][1] = "install" => i - 1 \in DOMAIN more /\ more[i - 1][1] = "snapshot"
  <2>1. h \in Installed
    BY DEF Installed
  <2>2. TakesAndPuts(more, l, h)
    BY <1>0, <2>1, OnePair
  <2> QED
    BY <2>2 DEF TakesAndPuts
<1>3. Pushes(t, more) /\ ~Doing(t, "snapshot") /\ \A K : ~Does(t, K)
  BY <1>1, <1>2, Fresh DEF IInv
<1>4. UNCHANGED <<ice, started, handshake, slot, snapshot, told, latest, lost, missed, revived>>
  BY DEF history
<1>5. Pairs'
  BY <1>1, <1>3, PairsAfter DEF IInv
<1>6. Hooks'
  <2>1. \A g \in Installed : (Begun(g) => Begun(g)') /\ (Wrapping(g)' => Wrapping(g))
    BY <1>4 DEF Begun, Wrapping, Installed
  <2>2. \A g : \A i \in DOMAIN more : more[i] \notin CallsOf(g)
    <3>1. \A i \in DOMAIN more : more[i][1] # "call"
      BY <1>1
    <3> QED
      BY <1>1, <3>1, Kinds
  <2>3. ASSUME NEW g \in Installed, NEW i \in DOMAIN more, more[i] = <<"install", g>>
        PROVE  i = 2 /\ g = h
    BY <1>1, <2>3
  <2>4. ~Begun(h) /\ Begun(h)'
    BY DEF Begun
  <2>5. ASSUME NEW g \in Installed
        PROVE  /\ Begun(g) => Begun(g)'
               /\ Wrapping(g)' => Wrapping(g)
               /\ Among({<<"install", g>>}, more) => ~Begun(g) /\ Begun(g)'
               /\ Among(CallsOf(g), more) => Begun(g)
               /\ \A i, j \in DOMAIN more :
                    more[i] = <<"install", g>> /\ more[j] = <<"install", g>> => i = j
    <3>1. ASSUME Among({<<"install", g>>}, more)
          PROVE  ~Begun(g) /\ Begun(g)'
      <4>1. g = h
        BY <2>3, <3>1 DEF Among
      <4> QED
        BY <2>4, <4>1
    <3>2. ~Among(CallsOf(g), more)
      BY <2>2 DEF Among
    <3>3. \A i, j \in DOMAIN more :
             more[i] = <<"install", g>> /\ more[j] = <<"install", g>> => i = j
      BY <2>3
    <3> QED
      BY <2>1, <3>1, <3>2, <3>3
  <2> QED
    BY <1>1, <1>3, <2>5, HooksAfter DEF IInv
<1>7. Starts'
  <2>1. ~Among({<<"start">>}, more) /\ ~Among({<<"drive">>, <<"fail">>}, more)
    BY <1>1 DEF Among
  <2> QED
    BY <1>1, <1>3, <1>4, <2>1, StartsAfter DEF IInv, Starts
<1>8. Tells' /\ ToldOnce'
  <2>1. Counting
    <3>1. \A e \in Event : Past(e[1], e[2]) => Past(e[1], e[2])'
      BY <1>4 DEF Past
    <3> QED
      BY <1>4, <3>1, CountingGrows
  <2>2. \A a, k, s : \A i \in DOMAIN more : more[i] \notin News(a, k, s)
    <3>1. \A i \in DOMAIN more : more[i][1] \notin {"announce", "call"}
      BY <1>1
    <3> QED
      BY <1>1, <3>1, Kinds
  <2>3. Tells'
    BY <1>1, <1>3, <1>4, <2>1, <2>2, TellsAfter DEF IInv, Among
  <2> QED
    BY <1>4, <2>3 DEF IInv, ToldOnce
<1>9. TypeOK' /\ Typed'
  <2>1. todo' \in [Thread -> Seq(Job)]
    BY <1>1, <1>3, Pushed DEF IInv
  <2> QED
    BY <1>4, <2>1 DEF IInv, TypeOK, Typed
<1>10. KeepsTheApplication' /\ Taken'
  BY <1>1, <1>3, <1>4, TakenAfter, KeepsAfter DEF IInv
<1>11. Wakes'
  BY <1>1, <1>3, <1>4, WakesAfter DEF IInv
<1>12. Drove' /\ Dooms'
  <2>1. ASSUME NEW i \in DOMAIN more
        PROVE  more[i][1] \notin {"pump", "fail", "announce", "call"}
    BY <1>1
  <2> QED
    BY <1>1, <1>3, <1>4, <2>1, DoomsStay DEF IInv, Drove
<1> QED
  BY <1>5, <1>6, <1>7, <1>8, <1>9, <1>10, <1>11, <1>12 DEF IInv

\* A call that begins with a start or a pump.
LEMMA QuietCallKeeps ==
  ASSUME IInv, NEW t \in Thread, NEW j \in {<<"start">>, <<"pump">>}, Call(t, <<j>>),
         j = <<"start">> => dtls # "none", j = <<"pump">> => t = driver, UNCHANGED <<status, slot, snapshot, history>>
  PROVE  IInv'
<1> DEFINE more == <<j>>
<1>1. more \in Seq(Job) /\ DOMAIN more = {1} /\ more[1] = j
  BY DEF Job
<1>2. Call(t, more)
  OBVIOUS
<1> HIDE DEF more
<1>3. Pushes(t, more) /\ ~Doing(t, "snapshot") /\ \A K : ~Does(t, K)
  BY <1>1, <1>2, Fresh DEF IInv
<1>4. UNCHANGED <<ice, dtls, sctp, started, handshake, slot, snapshot, told, latest, lost, missed, revived>>
  BY DEF history, status
<1>5. \A i \in DOMAIN more : more[i][1] \in {"start", "pump"}
  BY <1>1
<1>6. todo' \in [Thread -> Seq(Job)] /\ Pairs' /\ Hooks' /\ KeepsTheApplication' /\ Taken' /\ Tells'
      /\ Drove'
  BY <1>1, <1>3, <1>4, <1>5, Quiet
<1>7. TypeOK' /\ Typed' /\ ToldOnce'
  BY <1>4, <1>6 DEF IInv, TypeOK, Typed, ToldOnce
<1>8. Starts'
  <2>1. Among({<<"start">>}, more) => dtls # "none"
    BY <1>1 DEF Among
  <2>2. ~Among({<<"drive">>, <<"fail">>}, more)
    BY <1>1 DEF Among
  <2> QED
    BY <1>1, <1>3, <1>4, <2>1, <2>2, StartsAfter DEF IInv, Starts
<1>9. Wakes'
  BY <1>1, <1>3, <1>4, WakesAfter DEF IInv
<1>10. Dooms'
  <2>1. \A a \in App : Among(Doom(a), more) => j = <<"pump">>
    BY <1>1 DEF Among, Doom, News
  <2>2. todo[t] = <<>> /\ \A i, k \in DOMAIN more : i = k
    BY <1>1, <1>2 DEF Call
  <2> QED
    BY <1>1, <1>3, <2>1, <2>2, DoomsAfter DEF IInv
<1> QED
  BY <1>6, <1>7, <1>8, <1>9, <1>10 DEF IInv

\* A change of ICE, or the end of the handshake, is announced by who made it.
LEMMA MoveKeeps ==
  ASSUME IInv, NEW t \in Thread, NEW e \in Event,
         Pushes(t, <<<<"announce", e[1], e[2]>>>>), ~Doing(t, "snapshot"),
         ~Does(t, Wake["ice"]), ~Does(t, Wake["dtls"]),
         UNCHANGED <<sctp, started, slot, snapshot, told, latest, lost, missed>>,
         \/ /\ <<ice, e[2]>> \in {<<"New", "Connected">>, <<"New", "Failed">>,
                                  <<"Connected", "Failed">>}
            /\ e[1] = "ice" /\ ice' = e[2] /\ UNCHANGED <<dtls, handshake, revived>>
            /\ t = driver /\ todo[t] = <<>>
         \/ /\ e = <<"dtls", "Connected">> /\ handshake # "noticed" /\ ice' = ice
            /\ dtls' = "Connected" /\ handshake' = "noticed"
            /\ revived' = (revived \/ dtls = "Failed")
  PROVE  IInv'
<1> DEFINE j == <<"announce", e[1], e[2]>>
           more == <<j>>
<1>1. more \in Seq(Job) /\ DOMAIN more = {1} /\ more[1] = j
  <2>1. j \in Job
    BY DEF Job
  <2> HIDE DEF j
  <2> QED
    BY <2>1
<1>2. Pushes(t, more)
  OBVIOUS
<1>3. j[1] = "announce" /\ \A a : j \in News(a, e[1], e[2])
  BY DEF News
<1>4. \A a, f : j \in News(a, f[1], f[2]) => f[1] = e[1] /\ f[2] = e[2]
  BY DEF News
<1>5. e[2] = "Connected" => j \in Wake[e[1]]
  BY DEF Wake, Layer, Event
<1> HIDE DEF more, j
<1>6. \A i \in DOMAIN more : more[i] = j /\ i = 1
  BY <1>1
<1>7. Pairs'
  BY <1>1, <1>2, <1>3, <1>6, PairsAfter DEF IInv
<1>8. Hooks'
  <2>1. \A h \in Installed : (Begun(h) => Begun(h)') /\ (Wrapping(h)' => Wrapping(h))
    BY DEF Begun, Wrapping, Installed
  <2>2. /\ \A h : \A i \in DOMAIN more : more[i] # <<"install", h>>
        /\ \A h : \A i \in DOMAIN more : more[i] \notin CallsOf(h)
    BY <1>1, <1>3, Kinds
  <2> QED
    BY <1>1, <1>2, <2>1, <2>2, HooksAfter DEF IInv, Among
<1>9. Starts'
  <2>1. ~Among({<<"start">>}, more) /\ ~Among({<<"drive">>, <<"fail">>}, more)
    <3>1. j # <<"start">> /\ j # <<"drive">> /\ j # <<"fail">>
      BY <1>3
    <3> QED
      BY <1>6, <3>1 DEF Among
  <2> QED
    BY <1>1, <1>2, <2>1, StartsAfter DEF IInv, Starts
<1>14. handshake # "noticed" => dtls # "Connected" /\ ~revived
  BY DEF IInv, Drove
<1>17. \/ UNCHANGED <<dtls, handshake, revived>>
       \/ /\ dtls' = "Connected" /\ handshake' = "noticed"
          /\ revived' <=> (revived \/ dtls = "Failed")
  OBVIOUS
<1>10. Tells' /\ ToldOnce'
  <2>1. ASSUME NEW f \in Event, Past(f[1], f[2])
        PROVE  Past(f[1], f[2])'
    <3>1. \/ f[1] = "ice" /\ f[2] \in {"Connected", "Failed"}
          \/ f[1] = "dtls" /\ f[2] \in Status
      BY DEF Event
    <3>2. CASE f[1] = "ice" /\ f[2] \in {"Connected", "Failed"}
      BY <2>1, <3>2 DEF Past
    <3>3. CASE f[1] = "dtls" /\ f[2] \in Status
      <4>1. CASE f[2] = "Connecting"
        BY ONLY <1>17, <2>1, <3>3, <4>1 DEF Past
      <4>2. CASE f[2] = "Connected"
        BY ONLY <1>17, <2>1, <3>3, <4>2 DEF Past
      <4>3. CASE f[2] = "Failed"
        BY ONLY <1>17, <2>1, <3>3, <4>3 DEF Past
      <4> QED
        BY <3>3, <4>1, <4>2, <4>3 DEF Status
    <3> QED
      BY <3>1, <3>2, <3>3
  <2>2. Counting
    BY <1>14, <2>1, CountingGrows
  <2>3. ~Past(e[1], e[2]) /\ Times(e[1], e[2]) < Times(e[1], e[2])'
    <3>1. CASE e[1] = "ice" /\ ice' = e[2]
      <4>1. ice # e[2] /\ ice # "Failed"
        BY <3>1
      <4> QED
        BY <3>1, <4>1 DEF Times, Past
    <3>2. CASE e = <<"dtls", "Connected">> /\ handshake # "noticed" /\ handshake' = "noticed"
      <4>1. e[1] = "dtls" /\ e[2] = "Connected"
        BY <3>2
      <4> QED
        BY <3>2, <4>1 DEF Times, Past
    <3> QED
      BY <3>1, <3>2
  <2>4. ASSUME NEW a \in App, NEW f \in Event, Among(News(a, f[1], f[2]), more)
        PROVE  ~Pending(News(a, f[1], f[2])) /\ Times(f[1], f[2]) < Times(f[1], f[2])'
    <3>1. f[1] = e[1] /\ f[2] = e[2]
      BY <1>4, <1>6, <2>4 DEF Among
    <3>2. ~Pending(News(a, f[1], f[2]))
      BY <2>3, <3>1, Unborn DEF IInv
    <3> QED
      BY <2>3, <3>1, <3>2
  <2>5. Tells'
    BY <1>1, <1>2, <1>6, <2>2, <2>4, TellsAfter DEF IInv
  <2>6. ToldOnce'
    <3>1. revived => revived'
      OBVIOUS
    <3> DEFINE most(x) == IF x[2] = "dtls" /\ x[3] = "Failed" /\ revived THEN 2 ELSE 1
    <3>2. ASSUME NEW x \in DOMAIN told
          PROVE  told'[x] <= IF x[2] = "dtls" /\ x[3] = "Failed" /\ revived' THEN 2 ELSE 1
      <4>1. told[x] \in Nat /\ told[x] <= most(x)
        BY DEF IInv, ToldOnce, Typed
      <4> QED
        BY <3>1, <4>1
    <3> QED
      BY <3>2 DEF ToldOnce
  <2> QED
    BY <2>5, <2>6
<1>15. Drove' /\ revived' \in BOOLEAN
  <2>1. revived' \in BOOLEAN
    <3>1. revived \in BOOLEAN
      BY DEF IInv, TypeOK
    <3>2. CASE revived' = revived
      BY ONLY <3>1, <3>2
    <3>3. CASE revived' = (revived \/ dtls = "Failed")
      BY ONLY <3>3
    <3> QED
      BY <3>2, <3>3
  <2>2. Drove'
    BY <1>17 DEF IInv, Drove
  <2> QED
    BY <2>1, <2>2
<1>16. Dooms'
  <2>1. ASSUME NEW a \in App, Among(Doom(a), more)
        PROVE  t = driver /\ todo[t] = <<>>
    <3>1. j \in Doom(a)
      BY <1>6, <2>1 DEF Among
    <3>2. e[2] = "Failed"
      BY <3>1 DEF Doom, News, j
    <3> QED
      BY <3>2
  <2> QED
    BY <1>1, <1>2, <1>6, <2>1, DoomsAfter DEF IInv
<1>11. TypeOK' /\ Typed'
  <2>1. todo' \in [Thread -> Seq(Job)]
    BY <1>1, <1>2, Pushed DEF IInv
  <2> QED
    BY <1>15, <2>1 DEF IInv, TypeOK, Typed
<1>12. KeepsTheApplication' /\ Taken'
  <2>1. more[1][1] # "install"
    BY <1>1, <1>3
  <2> QED
    BY <1>1, <1>2, <2>1, TakenAfter, KeepsAfter DEF IInv
<1>13. Wakes'
  <2>1. ice' = "Connected" => ice = "Connected" \/ Among(Wake["ice"], more)
    BY <1>1, <1>5 DEF Among
  <2>2. dtls' = "Connected" => dtls = "Connected" \/ Among(Wake["dtls"], more)
    BY <1>1, <1>5 DEF Among
  <2> QED
    BY <1>1, <1>2, <2>1, <2>2, WakesAfter DEF IInv
<1> QED
  BY <1>7, <1>8, <1>9, <1>10, <1>11, <1>12, <1>13, <1>15, <1>16 DEF IInv

LEMMA DtlsNewKeeps ==
  ASSUME IInv, NEW u \in User, DtlsNew(u)
  PROVE  IInv'
<1>1. u \in Thread /\ "ice" \in Layer /\ Target("auto") = "ice"
  BY DEF Thread, Layer, Target
<1> QED
  BY <1>1, ConstructorKeeps DEF DtlsNew

LEMMA SctpNewKeeps ==
  ASSUME IInv, NEW u \in User, SctpNew(u)
  PROVE  IInv'
<1>1. u \in Thread /\ "dtls" \in Layer /\ Target("connect") = "dtls"
  BY DEF Thread, Layer, Target
<1> QED
  BY <1>1, ConstructorKeeps DEF SctpNew

LEMMA StartKeeps ==
  ASSUME IInv, NEW u \in User, Start(u)
  PROVE  IInv'
<1>1. u \in Thread /\ dtls # "none"
  BY DEF Thread, Start, Built
<1> QED
  BY <1>1, QuietCallKeeps DEF Start

\* A step that leaves the lists alone, and the statuses.
LEMMA NothingDone ==
  ASSUME IInv, UNCHANGED <<ice, dtls, sctp, started, handshake, todo, told, missed, revived>>
  PROVE  /\ Pairs' /\ Starts' /\ Drove' /\ Tells' /\ Dooms' /\ ToldOnce' /\ Wakes'
         /\ (\A h \in Installed : Wrapping(h)' => Wrapping(h)) => Hooks'
<1>1. \A K : (Pending(K)' <=> Pending(K)) /\ (Once(K)' <=> Once(K))
  BY DEF Pending, Once
<1>2. Pairs' /\ ToldOnce' /\ Drove'
  BY DEF IInv, Pairs, ToldOnce, Drove
<1>3. Starts'
  BY <1>1 DEF IInv, Starts
<1>4. Tells'
  <2> SUFFICES ASSUME NEW a \in App, NEW e \in Event
               PROVE  Counted(a, e)'
    BY DEF Tells
  <2> DEFINE K == News(a, e[1], e[2])
             x == Times(e[1], e[2])
  <2>1. Times(e[1], e[2])' = x
    BY DEF Times, Past
  <2>2. Once(K) /\ told[<<a, e[1], e[2]>>] <= x /\ (Pending(K) => told[<<a, e[1], e[2]>>] < x)
    BY DEF IInv, Tells, Counted
  <2> HIDE DEF K, x
  <2>3. Once(K)' /\ (Pending(K)' => Pending(K))
    BY <1>1, <2>2
  <2> QED
    BY <2>1, <2>2, <2>3 DEF Counted, K, News
<1>7. Dooms'
  <2> SUFFICES ASSUME NEW a \in App
               PROVE  /\ Once(Doom(a))'
                      /\ \A u \in Thread \ {driver} : \A i \in DOMAIN todo[u] : todo[u][i] \notin Doom(a)
    BY DEF Dooms, Doom, News
  <2> QED
    BY <1>1 DEF IInv, Dooms
<1>5. Wakes'
  <2>1. \A l \in Layer : Wake'[l] = Wake[l]
    BY DEF Wake
  <2> QED
    BY <1>1, <2>1 DEF IInv, Wakes, Layer
<1>6. ASSUME \A h \in Installed : Wrapping(h)' => Wrapping(h)
      PROVE  Hooks'
  <2> SUFFICES ASSUME NEW h \in Installed
               PROVE  /\ Once({<<"install", h>>})'
                      /\ Pending({<<"install", h>>})' => Begun(h)' /\ ~Wrapping(h)'
                      /\ Wrapping(h)' \/ Pending(CallsOf(h))' => Begun(h)'
    BY DEF Hooks, CallsOf
  <2>1. Begun(h)' <=> Begun(h)
    BY DEF Begun
  <2> QED
    BY <1>1, <1>6, <2>1 DEF IInv, Hooks
<1> QED
  BY <1>2, <1>3, <1>4, <1>5, <1>6, <1>7

LEMMA SetCallbacksKeeps ==
  ASSUME IInv, NEW u \in User, NEW l \in Layer, NEW a \in App, SetCallbacks(u, l, a)
  PROVE  IInv'
<1>1. /\ slot' = [slot EXCEPT ![l] = Only(a)] /\ latest' = [latest EXCEPT ![l] = a]
      /\ lost' = [lost EXCEPT ![l] = Installing(l)]
      /\ UNCHANGED <<ice, dtls, sctp, started, handshake, snapshot, todo, told, missed, revived>>
  BY DEF SetCallbacks, status
<1>2. /\ slot \in [Layer -> CallbackSet] /\ latest \in [Layer -> App]
      /\ lost \in [Layer -> BOOLEAN]
  BY DEF IInv, Typed, TypeOK
<1>3. Only(a) \in CallbackSet /\ IsCallbacks(Only(a))
  BY ChainOfOne DEF Only, CallbackSet, IsCallbacks
<1>4. /\ slot' \in [Layer -> CallbackSet] /\ slot'[l] = Only(a) /\ latest'[l] = a
      /\ lost'[l] = Installing(l)
      /\ \A m \in Layer \ {l} : slot'[m] = slot[m] /\ latest'[m] = latest[m] /\ lost'[m] = lost[m]
      /\ latest' \in [Layer -> App] /\ lost' \in [Layer -> BOOLEAN]
  BY <1>1, <1>2, <1>3 DEF Installing
<1>5. TypeOK' /\ Typed'
  BY <1>1, <1>3, <1>4 DEF IInv, TypeOK, Typed
<1>6. Hooks'
  <2>1. \A h \in Installed : ~Wraps(Only(a), h)
    <3>1. a \notin Hook
      BY StackAssumption
    <3> QED
      BY <3>1 DEF Wraps, Only, Contains, Installed, Hook
  <2>2. \A h \in Installed : Wrapping(h)' => Wrapping(h)
    BY <1>1, <1>4, <2>1 DEF Wrapping, Wraps
  <2> QED
    BY <1>1, <2>2, NothingDone
<1>7. Pairs' /\ Starts' /\ Drove' /\ Tells' /\ Dooms' /\ ToldOnce' /\ Wakes'
  BY <1>1, NothingDone
<1>8. KeepsTheApplication'
  <2>1. Contains(Only(a).state, a)
    BY DEF Contains, Only
  <2> QED
    BY <1>4, <2>1 DEF IInv, KeepsTheApplication
<1>9. Taken'
  <2> SUFFICES ASSUME NEW t \in Thread, Doing(t, "install")'
               PROVE  \/ Contains(snapshot'[t].state, latest'[Target(Arg(t, 2))])
                      \/ lost'[Target(Arg(t, 2))]
    BY <1>1 DEF Taken, Arg
  <2>1. Doing(t, "install") /\ snapshot'[t] = snapshot[t] /\ Target(Arg(t, 2)) \in Layer
    BY <1>1 DEF Doing, Target, Layer
  <2>2. CASE Target(Arg(t, 2)) = l
    BY <1>4, <2>1, <2>2 DEF Installing
  <2>3. CASE Target(Arg(t, 2)) # l
    BY <1>4, <2>1, <2>3 DEF IInv, Taken
  <2> QED
    BY <2>2, <2>3
<1> QED
  BY <1>5, <1>6, <1>7, <1>8, <1>9 DEF IInv

LEMMA IceMovesKeeps ==
  ASSUME IInv, NEW s \in {"Connected", "Failed"}, IceMoves(s)
  PROVE  IInv'
<1> DEFINE e == <<"ice", s>>
           more == <<<<"announce", e[1], e[2]>>>>
<1>1. e \in Event /\ e[1] = "ice" /\ e[2] = s /\ driver \in Thread
  BY DEF Event, Thread
<1>2. more \in Seq(Job)
  <2>1. <<"announce", e[1], e[2]>> \in Job
    BY <1>1 DEF Job
  <2> QED
    BY <2>1
<1>3. Call(driver, more)
  BY DEF IceMoves
<1>4. Pushes(driver, more) /\ ~Doing(driver, "snapshot") /\ (\A K : ~Does(driver, K))
      /\ todo[driver] = <<>>
  BY <1>1, <1>2, <1>3, Fresh DEF IInv, Call
<1>5. UNCHANGED <<sctp, dtls, started, handshake, slot, snapshot, told, latest, lost, missed, revived>>
  BY DEF IceMoves, history
<1>6. /\ <<ice, s>> \in {<<"New", "Connected">>, <<"New", "Failed">>, <<"Connected", "Failed">>}
      /\ ice' = s
  BY DEF IceMoves
<1> QED
  BY <1>1, <1>4, <1>5, <1>6, MoveKeeps

LEMMA DatagramKeeps ==
  ASSUME IInv, Datagram
  PROVE  IInv'
BY QuietCallKeeps DEF Datagram, Thread

\* A drive says done exactly when it notices the end.
LEMMA DriveOutcomes ==
  ASSUME NEW h, NEW outcome \in Drives(h), h \in {"going", "fed", "dead", "over", "noticed"}
  PROVE  /\ outcome[1] \in {"going", "fed", "dead", "over", "noticed"}
         /\ outcome[2] = "done" => outcome[1] = "noticed" /\ h # "noticed"
         /\ outcome[2] # "done" => (outcome[1] = "noticed" <=> h = "noticed")
BY DEF Drives

\* The handshake goes on without an end; an error of the pump is on its list.
LEMMA DriveOnKeeps ==
  ASSUME IInv, NEW t \in Thread, NEW more, Then(t, more), todo[t] # <<>>, ~Doing(t, "snapshot"),
         ~Does(t, Wake["ice"]), ~Does(t, Wake["dtls"]),
         \/ more = <<>>
         \/ more = <<<<"fail">>>> /\ Head(todo[t]) = <<"pump">> /\ dtls \notin {"none", "New"},
         handshake' \in {"going", "fed", "dead", "over", "noticed"},
         handshake' = "noticed" <=> handshake = "noticed",
         UNCHANGED <<ice, dtls, sctp, started, slot, snapshot, told, latest, lost, missed, revived>>
  PROVE  IInv'
<1>1. /\ more \in Seq(Job)
      /\ \A i \in DOMAIN more : /\ i = 1 /\ more[i] = <<"fail">> /\ Head(todo[t]) = <<"pump">>
                                /\ dtls \notin {"none", "New"}
  <2>1. CASE more = <<>>
    BY <2>1
  <2>2. CASE more = <<<<"fail">>>> /\ Head(todo[t]) = <<"pump">> /\ dtls \notin {"none", "New"}
    <3> DEFINE j == <<"fail">>
    <3>1. j \in Job
      BY DEF Job
    <3>2. more = <<j>> /\ Head(todo[t]) = <<"pump">> /\ dtls \notin {"none", "New"}
      BY <2>2
    <3>3. j = <<"fail">>
      OBVIOUS
    <3> HIDE DEF j
    <3>4. more \in Seq(Job) /\ \A i \in DOMAIN more : i = 1 /\ more[i] = j
      BY <3>1, <3>2
    <3> QED
      BY <3>2, <3>3, <3>4
  <2> QED
    BY <2>1, <2>2
<1>2. Pushes(t, more)
  BY ThenPushes
<1>3. \A i \in DOMAIN more : more[i][1] = "fail"
  BY <1>1
<1>4. todo' \in [Thread -> Seq(Job)] /\ Pairs' /\ Hooks' /\ KeepsTheApplication' /\ Taken'
      /\ Drove' /\ Tells'
  BY <1>1, <1>2, <1>3, Quiet
<1>5. TypeOK' /\ Typed' /\ ToldOnce'
  BY <1>4 DEF IInv, TypeOK, Typed, ToldOnce
<1>6. Starts'
  <2>1. ~Among({<<"start">>}, more)
    BY <1>1 DEF Among
  <2>2. Among({<<"drive">>, <<"fail">>}, more) => dtls' \notin {"none", "New"}
    BY <1>1 DEF Among
  <2> QED
    BY <1>1, <1>2, <2>1, <2>2, StartsAfter DEF IInv, Starts
<1>7. Wakes'
  BY <1>1, <1>2, WakesAfter DEF IInv
<1>8. Dooms'
  <2>1. \A a \in App : Among(Doom(a), more) => Does(t, Doom(a))
    BY <1>1 DEF Among, Does, Doom
  <2> QED
    BY <1>1, <1>2, <2>1, DoomsAfter DEF IInv
<1> QED
  BY <1>4, <1>5, <1>6, <1>7, <1>8 DEF IInv

\* A thread drives the handshake, and puts no more than fail on its list.
LEMMA DriveKeeps ==
  ASSUME IInv, NEW t \in Thread, todo[t] # <<>>, ~Doing(t, "snapshot"),
         ~Does(t, Wake["ice"]), ~Does(t, Wake["dtls"]),
         NEW onError, onError = <<>> \/ (onError = <<<<"fail">>>> /\ Head(todo[t]) = <<"pump">>),
         dtls \notin {"none", "New"},
         NEW h \in {"going", "fed", "dead", "over", "noticed"},
         h = "noticed" <=> handshake = "noticed", DriveHandshake(t, h, onError),
         UNCHANGED <<ice, sctp, started, slot, snapshot, told, latest, lost, missed>>
  PROVE  IInv'
<1>1. PICK outcome \in Drives(h) :
        /\ handshake' = outcome[1]
        /\ IF outcome[2] = "done"
             THEN /\ dtls' = "Connected"
                  /\ revived' = (revived \/ dtls = "Failed")
                  /\ Then(t, <<<<"announce", "dtls", "Connected">>>>)
             ELSE /\ UNCHANGED <<dtls, revived>>
                  /\ Then(t, IF outcome[2] = "error" THEN onError ELSE <<>>)
  BY DEF DriveHandshake
<1>2. CASE outcome[2] = "done"
  <2> DEFINE e == <<"dtls", "Connected">>
  <2>1. e \in Event /\ e[1] = "dtls" /\ e[2] = "Connected"
    BY DEF Event, Status
  <2>2. outcome[1] = "noticed" /\ h # "noticed"
    BY <1>1, <1>2, DriveOutcomes
  <2>3. Pushes(t, <<<<"announce", e[1], e[2]>>>>)
    BY <1>1, <1>2, ThenPushes
  <2>4. /\ handshake # "noticed" /\ dtls' = "Connected" /\ handshake' = "noticed"
        /\ revived' = (revived \/ dtls = "Failed")
    BY <1>1, <1>2, <2>2
  <2> QED
    BY <2>1, <2>3, <2>4, MoveKeeps
<1>3. CASE outcome[2] # "done"
  <2> DEFINE more == IF outcome[2] = "error" THEN onError ELSE <<>>
  <2>1. /\ Then(t, more) /\ UNCHANGED <<dtls, revived>>
        /\ handshake' = "noticed" <=> handshake = "noticed"
        /\ handshake' \in {"going", "fed", "dead", "over", "noticed"}
    BY <1>1, <1>3, DriveOutcomes
  <2>2. \/ more = <<>>
        \/ more = <<<<"fail">>>> /\ Head(todo[t]) = <<"pump">>
    OBVIOUS
  <2> HIDE DEF more
  <2> QED
    BY <2>1, <2>2, DriveOnKeeps
<1> QED
  BY <1>2, <1>3

LEMMA PumpKeeps ==
  ASSUME IInv, Pump
  PROVE  IInv'
<1> DEFINE h == IF handshake = "going" THEN "fed" ELSE handshake
<1>1. /\ todo[driver] # <<>> /\ driver \in Thread
      /\ IF dtls = "Connecting"
           THEN DriveHandshake(driver, h, <<<<"fail">>>>)
           ELSE handshake' = h /\ UNCHANGED <<dtls, revived>> /\ Then(driver, <<>>)
      /\ UNCHANGED <<ice, sctp, started, slot, snapshot, told, latest, lost, missed>>
  BY DEF Pump, Doing, Thread
<1>2. Head(todo[driver]) = <<"pump">>
  BY <1>1, Heads DEF IInv, Pump
<1>3. ~Does(driver, Wake["ice"]) /\ ~Does(driver, Wake["dtls"]) /\ ~Doing(driver, "snapshot")
  BY <1>2 DEF Does, Doing, Wake, Layer
<1>4. h = "noticed" <=> handshake = "noticed"
  OBVIOUS
<1>5. h \in {"going", "fed", "dead", "over", "noticed"}
  BY DEF IInv, TypeOK
<1> HIDE DEF h
<1>6. CASE dtls = "Connecting"
  <2> DEFINE onError == <<<<"fail">>>>
  <2>1. DriveHandshake(driver, h, onError) /\ onError = <<<<"fail">>>>
    BY <1>1, <1>6
  <2> HIDE DEF onError
  <2> QED
    BY <1>1, <1>2, <1>3, <1>4, <1>5, <1>6, <2>1, DriveKeeps
<1>7. CASE dtls # "Connecting"
  <2> DEFINE more == <<>>
  <2>1. Then(driver, more) /\ more = <<>>
    BY <1>1, <1>7
  <2> HIDE DEF more
  <2> QED
    BY <1>1, <1>3, <1>4, <1>5, <1>7, <2>1, DriveOnKeeps
<1> QED
  BY <1>6, <1>7

LEMMA StartDrivesKeeps ==
  ASSUME IInv, NEW t \in Thread, Drive(t)
  PROVE  IInv'
<1>1. /\ todo[t] # <<>>
      /\ \/ DriveHandshake(t, handshake, <<>>)
         \/ UNCHANGED <<dtls, handshake, revived>> /\ Then(t, <<>>)
      /\ UNCHANGED <<ice, sctp, started, slot, snapshot, told, latest, lost, missed>>
  BY DEF Drive, Doing
<1>2. Head(todo[t]) = <<"drive">>
  BY Heads DEF IInv, Drive
<1>3. ~Does(t, Wake["ice"]) /\ ~Does(t, Wake["dtls"]) /\ ~Doing(t, "snapshot")
  BY <1>2 DEF Does, Doing, Wake, Layer
<1>4. dtls \notin {"none", "New"}
  <2>1. Pending({<<"drive">>, <<"fail">>})
    BY <1>1, <1>2, Tops DEF IInv, Pending
  <2> QED
    BY <2>1 DEF IInv, Starts
<1>5. CASE DriveHandshake(t, handshake, <<>>)
  <2> DEFINE onError == <<>>
             h == handshake
  <2>1. /\ DriveHandshake(t, h, onError) /\ onError = <<>> /\ (h = "noticed" <=> handshake = "noticed")
        /\ h \in {"going", "fed", "dead", "over", "noticed"}
    BY <1>5 DEF IInv, TypeOK
  <2> HIDE DEF onError, h
  <2> QED
    BY <1>1, <1>3, <1>4, <2>1, DriveKeeps
<1>6. CASE UNCHANGED <<dtls, handshake, revived>> /\ Then(t, <<>>)
  <2> DEFINE more == <<>>
  <2>1. Then(t, more) /\ more = <<>> /\ UNCHANGED <<dtls, handshake, revived>>
    BY <1>6
  <2>2. handshake \in {"going", "fed", "dead", "over", "noticed"}
    BY DEF IInv, TypeOK
  <2> HIDE DEF more
  <2> QED
    BY <1>1, <1>3, <2>1, <2>2, DriveOnKeeps
<1> QED
  BY <1>1, <1>5, <1>6

LEMMA StutterKeeps ==
  ASSUME IInv, UNCHANGED vars
  PROVE  IInv'
<1>1. UNCHANGED <<ice, dtls, sctp, started, handshake, slot, snapshot, todo, told, latest, lost,
                  missed, revived>>
  BY DEF vars, status, history
<1>2. TypeOK' /\ Typed'
  BY <1>1 DEF IInv, TypeOK, Typed
<1>3. KeepsTheApplication' /\ Taken'
  BY <1>1 DEF IInv, KeepsTheApplication, Taken, Doing, Arg
<1>4. \A h \in Installed : Wrapping(h)' => Wrapping(h)
  BY <1>1 DEF Wrapping
<1> QED
  BY <1>1, <1>2, <1>3, <1>4, NothingDone DEF IInv

LEMMA StepHolds ==
  ASSUME IInv, [Next]_vars
  PROVE  IInv'
<1>1. ASSUME NEW t \in Thread, Step(t) PROVE IInv'
  BY <1>1, SnapshotKeeps, InstallKeeps, AnnounceKeeps, CallAppKeeps, CallAutoKeeps, CallFailKeeps,
     CallConnectKeeps, DtlsStartKeeps, StartDrivesKeeps DEF Step
<1>2. ASSUME NEW u \in User, Operation(u) PROVE IInv'
  BY <1>2, DtlsNewKeeps, SctpNewKeeps, StartKeeps, SetCallbacksKeeps DEF Operation
<1>3. ASSUME NEW s \in {"Connected", "Failed"}, IceMoves(s) PROVE IInv'
  BY <1>3, IceMovesKeeps
<1>4. CASE Datagram \/ Pump \/ PumpFails
  BY <1>4, DatagramKeeps, PumpKeeps, PumpFailsKeeps
<1>5. CASE UNCHANGED vars
  BY <1>5, StutterKeeps
<1> QED
  BY <1>1, <1>2, <1>3, <1>4, <1>5 DEF Next

LEMMA InitHolds ==
  ASSUME Init
  PROVE  IInv
<1>1. /\ ice = "New" /\ dtls = "none" /\ sctp = "none" /\ started = FALSE /\ missed = {}
      /\ handshake = "going" /\ revived = FALSE
      /\ latest \in [Layer -> App] /\ lost \in [Layer -> BOOLEAN]
      /\ \A l \in Layer : slot[l] = Only(latest[l])
      /\ \A t \in Thread : snapshot[t] = NoCallbacks /\ todo[t] = <<>>
      /\ told \in [App \X Layer \X Status -> Nat]
      /\ \A k \in App \X Layer \X Status : told[k] = 0
  BY DEF Init, Status
<1>2. \A a \in App : /\ Only(a) \in CallbackSet /\ IsCallbacks(Only(a))
                     /\ Contains(Only(a).state, a)
                     /\ \A h \in Installed : ~Wraps(Only(a), h)
  <2> SUFFICES ASSUME NEW a \in App
               PROVE  /\ Only(a) \in CallbackSet /\ IsCallbacks(Only(a))
                      /\ Contains(Only(a).state, a)
                      /\ \A h \in Installed : ~Wraps(Only(a), h)
    OBVIOUS
  <2>1. a \notin Hook
    BY StackAssumption
  <2>2. Only(a) \in CallbackSet /\ IsCallbacks(Only(a))
    BY ChainOfOne DEF Only, CallbackSet, IsCallbacks
  <2>3. Contains(Only(a).state, a)
    BY DEF Contains, Only
  <2>4. \A h \in Installed : ~Wraps(Only(a), h)
    BY <2>1 DEF Wraps, Only, Contains, Installed, Hook
  <2> QED
    BY <2>2, <2>3, <2>4
<1>3. /\ NoCallbacks \in CallbackSet /\ IsCallbacks(NoCallbacks)
      /\ \A h \in Installed : ~Wraps(NoCallbacks, h)
  BY DEF NoCallbacks, CallbackSet, IsCallbacks, IsChain, IsInjective, Wraps, Contains
<1>4. TypeOK
  BY <1>1, <1>2, <1>3 DEF TypeOK
<1>5. Typed
  BY <1>1, <1>2, <1>3 DEF Typed, Init
<1>6. \A K : ~Pending(K) /\ Once(K)
  BY <1>1 DEF Pending, Once
<1>7. \A h \in Installed : ~Wrapping(h)
  BY <1>1, <1>2, <1>3 DEF Wrapping
<1>8. Pairs /\ Hooks /\ Starts /\ Taken /\ Wakes /\ Drove /\ Dooms
  BY <1>1, <1>6, <1>7 DEF Pairs, Hooks, Starts, Taken, Wakes, Doing, Drove, Dooms
<1>9. Tells /\ ToldOnce
  <2>1. DOMAIN told = App \X Layer \X Status
    BY <1>1
  <2>2. ToldOnce
    BY <1>1, <2>1 DEF ToldOnce
  <2>3. \A a \in App, e \in Event : told[<<a, e[1], e[2]>>] = 0
    <3>1. \A a \in App, e \in Event : <<a, e[1], e[2]>> \in App \X Layer \X Status
      BY DEF Event, Layer, Status
    <3> QED
      BY <1>1, <3>1
  <2>4. Tells
    <3>1. \A e \in Event : Times(e[1], e[2]) \in {0, 1, 2}
      BY TimesIsCount
    <3>2. ASSUME NEW a \in App, NEW e \in Event
          PROVE  Counted(a, e)
      <4>1. /\ ~Pending(News(a, e[1], e[2])) /\ Once(News(a, e[1], e[2]))
            /\ told[<<a, e[1], e[2]>>] = 0
        BY <1>6, <2>3
      <4>2. Times(e[1], e[2]) \in {0, 1, 2}
        BY <3>1
      <4> QED
        BY ONLY <4>1, <4>2 DEF Counted
    <3> QED
      BY <3>2 DEF Tells
  <2> QED
    BY <2>2, <2>4
<1>10. KeepsTheApplication
  BY <1>1, <1>2 DEF KeepsTheApplication
<1> QED
  BY <1>4, <1>5, <1>8, <1>9, <1>10 DEF IInv

-----------------------------------------------------------------------------
(* The order of the layers                                                 *)

\* SCTP's hook is in the chain of DTLS only: it is not there yet when SCTP
\* takes the callbacks of DTLS, and nobody else takes those.
InPlace ==
  ~Wraps(slot["ice"], "connect") /\ \A t \in Thread : ~Wraps(snapshot[t], "connect")
Connects(e) == {<<"call", "connect", e[1], e[2]>>}

\* What is announced, or about to be told to a hook, has happened; and SCTP
\* was connected by nothing but DTLS's being connected.
Herald(l, s) == {<<"announce", l, s>>} \cup {<<"call", x, l, s>> : x \in App \cup Hook}
Heralded == \A e \in Event : Pending(Herald(e[1], e[2])) => Past(e[1], e[2])
Ordered ==
  /\ InPlace /\ \A e \in Event : Pending(Connects(e)) => e[1] = "dtls"
  /\ Heralded
  /\ sctp = "Connecting" => Past("dtls", "Connected")

\* What has happened stays so.
Lasting == \A e \in Event : Past(e[1], e[2]) => Past(e[1], e[2])'

\* A step that pushes no news but of what has happened.
LEMMA OrderAfter ==
  ASSUME IInv, Ordered, NEW t \in Thread, NEW more \in Seq(Job), Pushes(t, more), Lasting,
         \A e \in Event : Among(Herald(e[1], e[2]), more) => Past(e[1], e[2])',
         \A e \in Event : Among(Connects(e), more) => e[1] = "dtls",
         InPlace', sctp' = "Connecting" => sctp = "Connecting" \/ Past("dtls", "Connected")
  PROVE  Ordered'
<1>1. ASSUME NEW e \in Event, Pending(Herald(e[1], e[2]))'
      PROVE  Past(e[1], e[2])'
  <2> DEFINE K == Herald(e[1], e[2])
  <2>1. Pending(K)'
    BY <1>1 DEF Herald
  <2> HIDE DEF K
  <2>2. Pending(K) \/ Among(K, more)
    BY <2>1, PendingBefore DEF IInv
  <2> QED
    BY <2>2 DEF Ordered, Heralded, Lasting, K
<1>2. Past("dtls", "Connected") => Past("dtls", "Connected")'
  <2>1. <<"dtls", "Connected">> \in Event
    BY DEF Event, Status
  <2>2. Past(<<"dtls", "Connected">>[1], <<"dtls", "Connected">>[2])
          => Past(<<"dtls", "Connected">>[1], <<"dtls", "Connected">>[2])'
    BY <2>1 DEF Lasting
  <2> QED
    BY <2>2
<1>3. Heralded'
  BY <1>1 DEF Heralded, Herald
<1>4. ASSUME NEW e \in Event, Pending(Connects(e))'
      PROVE  e[1] = "dtls"
  <2> DEFINE K == Connects(e)
  <2>1. Pending(K)'
    BY <1>4 DEF Connects
  <2> HIDE DEF K
  <2>2. Pending(K) \/ Among(K, more)
    BY <2>1, PendingBefore DEF IInv
  <2> QED
    BY <2>2 DEF Ordered, K
<1> QED
  BY <1>2, <1>3, <1>4 DEF Ordered, Connects

LEMMA StillInPlace ==
  ASSUME Ordered, UNCHANGED <<slot, snapshot>>
  PROVE  InPlace'
BY DEF Ordered, InPlace

\* Jobs that are no news.
LEMMA NoNews ==
  ASSUME NEW more, \A i \in DOMAIN more : more[i][1] \notin {"announce", "call"}
  PROVE  \A e \in Event : ~Among(Herald(e[1], e[2]), more) /\ ~Among(Connects(e), more)
BY DEF Among, Herald, Connects

\* A status moves along its edges, Connected over Failed among them.
LEMMA Lasts ==
  ASSUME \/ ice' = ice
         \/ <<ice, ice'>> \in {<<"New", "Connected">>, <<"New", "Failed">>, <<"Connected", "Failed">>},
         dtls \notin {"none", "New"} => dtls' \notin {"none", "New"},
         handshake = "noticed" => handshake' = "noticed",
         dtls = "Failed" \/ revived => dtls' = "Failed" \/ revived'
  PROVE  Lasting
<1> SUFFICES ASSUME NEW e \in Event, Past(e[1], e[2])
             PROVE  Past(e[1], e[2])'
  BY DEF Lasting
<1>1. \/ e[1] = "ice" /\ e[2] \in {"Connected", "Failed"}
      \/ e[1] = "dtls" /\ e[2] \in Status
  BY DEF Event
<1>2. CASE e[1] = "ice" /\ e[2] \in {"Connected", "Failed"}
  <2>1. CASE ice' = ice
    BY <1>2, <2>1 DEF Past
  <2>2. CASE ice' = "Failed"
    BY <1>2, <2>2 DEF Past
  <2>3. CASE ice = "New"
    BY <1>2, <2>3 DEF Past
  <2> QED
    BY <2>1, <2>2, <2>3
<1>3. CASE e[1] = "dtls" /\ e[2] = "Connecting"
  BY <1>3 DEF Past
<1>4. CASE e[1] = "dtls" /\ e[2] = "Connected"
  BY <1>4 DEF Past
<1>5. CASE e[1] = "dtls" /\ e[2] = "Failed"
  BY <1>5 DEF Past
<1> QED
  BY <1>1, <1>2, <1>3, <1>4, <1>5 DEF Status

\* Every step but that of an announcement that pushes none.
LEMMA QuietOrder ==
  ASSUME IInv, Ordered, NEW t \in Thread, NEW more \in Seq(Job), Pushes(t, more),
         \A i \in DOMAIN more : more[i][1] \notin {"announce", "call"}, InPlace',
         UNCHANGED <<ice, dtls, sctp>> \/ (UNCHANGED <<ice, dtls>> /\ sctp' # "Connecting")
           \/ (dtls = "none" /\ UNCHANGED <<ice, sctp>>),
         handshake = "noticed" => handshake' = "noticed", revived => revived'
  PROVE  Ordered'
<1>1. Lasting
  BY Lasts
<1> QED
  BY <1>1, NoNews, OrderAfter

\* A thread that announces a change has made it.
LEMMA MoveOrder ==
  ASSUME IInv, Ordered, NEW t \in Thread, NEW more \in Seq(Job), Pushes(t, more), Lasting,
         NEW f \in Event, Past(f[1], f[2])', UNCHANGED <<sctp, slot, snapshot>>,
         \A i \in DOMAIN more : more[i][1] \in {"announce", "call"} =>
                                 more[i] = <<"announce", f[1], f[2]>>
  PROVE  Ordered'
<1>1. ASSUME NEW e \in Event, Among(Herald(e[1], e[2]), more)
      PROVE  Past(e[1], e[2])'
  <2>1. PICK i \in DOMAIN more : more[i] \in Herald(e[1], e[2])
    BY <1>1 DEF Among
  <2>2. more[i] = <<"announce", f[1], f[2]>>
    BY <2>1 DEF Herald
  <2>3. e[1] = f[1] /\ e[2] = f[2]
    BY <2>1, <2>2 DEF Herald
  <2> QED
    BY <2>3
<1>2. \A e \in Event : ~Among(Connects(e), more)
  BY DEF Among, Connects
<1> QED
  BY <1>1, <1>2, StillInPlace, OrderAfter

LEMMA AnnounceOrder ==
  ASSUME IInv, Ordered, NEW t \in Thread, Announce(t)
  PROVE  Ordered'
<1>1. PICK f \in Event : Head(todo[t]) = <<"announce", f[1], f[2]>> /\ todo[t] # <<>>
  BY Heads DEF Announce, Doing, IInv
<1> DEFINE chain == slot[f[1]].state
           more == [i \in DOMAIN chain |-> <<"call", chain[i], f[1], f[2]>>]
<1>2. Then(t, more) /\ UNCHANGED <<handshake, revived, ice, dtls, sctp, slot, snapshot>>
  <2>1. Arg(t, 2) = f[1] /\ Arg(t, 3) = f[2]
    BY <1>1 DEF Arg
  <2> QED
    BY <2>1 DEF Announce, status, history
<1>3. chain \in Seq(App \cup Hook) /\ (f[1] = "ice" => \A i \in DOMAIN chain : chain[i] # "connect")
  <2>1. f[1] \in Layer
    BY DEF Event, Layer
  <2>2. chain \in Seq(App \cup Hook)
    BY <2>1 DEF IInv, Typed, CallbackSet
  <2> QED
    BY <2>2 DEF Ordered, InPlace, Wraps, Contains
<1> HIDE DEF chain
<1>4. \A x \in App \cup Hook : <<"call", x, f[1], f[2]>> \in Job
  <2> TAKE x \in App \cup Hook
  <2>1. <<x, f>> \in (App \cup Hook) \X Event
    OBVIOUS
  <2>2. <<"call", <<x, f>>[1], <<x, f>>[2][1], <<x, f>>[2][2]>> \in Job
    BY <2>1 DEF Job
  <2> QED
    BY <2>2
<1>5. more \in Seq(Job) /\ DOMAIN more = DOMAIN chain
      /\ \A i \in DOMAIN more : more[i] = <<"call", chain[i], f[1], f[2]>>
  <2>1. \A i \in DOMAIN chain : chain[i] \in App \cup Hook
    BY <1>3
  <2>2. DOMAIN chain = 1 .. Len(chain) /\ Len(chain) \in Nat
    BY <1>3
  <2> QED
    BY <1>4, <2>1, <2>2
<1>6. Pushes(t, more)
  BY <1>1, <1>2, ThenPushes
<1> HIDE DEF more
<1>7. Past(f[1], f[2])
  <2>1. Pending(Herald(f[1], f[2]))
    BY <1>1, Tops DEF IInv, Pending, Herald
  <2> QED
    BY <2>1 DEF Ordered, Heralded
<1>8. Lasting
  BY <1>2, Lasts
<1>9. ASSUME NEW e \in Event, Among(Herald(e[1], e[2]), more)
      PROVE  Past(e[1], e[2])'
  <2>1. PICK i \in DOMAIN more : more[i] \in Herald(e[1], e[2])
    BY <1>9 DEF Among
  <2>2. e[1] = f[1] /\ e[2] = f[2]
    BY <1>5, <2>1 DEF Herald
  <2> QED
    BY <1>7, <1>8, <2>2 DEF Lasting
<1>10. ASSUME NEW e \in Event, Among(Connects(e), more)
       PROVE  e[1] = "dtls"
  <2>1. PICK i \in DOMAIN more : more[i] \in Connects(e)
    BY <1>10 DEF Among
  <2>2. e[1] = f[1] /\ chain[i] = "connect" /\ i \in DOMAIN chain
    BY <1>5, <2>1 DEF Connects
  <2>3. e[1] \in {"ice", "dtls"}
    BY DEF Event
  <2> QED
    BY <1>3, <2>2, <2>3
<1> QED
  BY <1>2, <1>5, <1>6, <1>8, <1>9, <1>10, StillInPlace, OrderAfter

LEMMA CallAutoOrder ==
  ASSUME IInv, Ordered, NEW t \in Thread, CallAuto(t)
  PROVE  Ordered'
<1> DEFINE more == IF Arg(t, 4) = "Connected" THEN <<<<"start">>>> ELSE <<>>
<1>1. Then(t, more) /\ todo[t] # <<>> /\ UNCHANGED <<handshake, revived, ice, dtls, sctp, slot, snapshot>>
  BY DEF CallAuto, Doing, status, history
<1>2. more \in Seq(Job) /\ \A i \in DOMAIN more : more[i] = <<"start">>
  <2>1. <<"start">> \in Job
    BY DEF Job
  <2> QED
    BY <2>1
<1> HIDE DEF more
<1> QED
  BY <1>1, <1>2, ThenPushes, StillInPlace, QuietOrder

\* The hook is told of Connected only by DTLS: nothing of ICE calls it.
LEMMA CallConnectOrder ==
  ASSUME IInv, Ordered, NEW t \in Thread, CallConnect(t)
  PROVE  Ordered'
<1>1. /\ Then(t, <<>>) /\ todo[t] # <<>> /\ UNCHANGED <<handshake, revived, ice, dtls, slot, snapshot>>
      /\ sctp' = IF Arg(t, 4) = "Connected" /\ sctp = "New" THEN "Connecting" ELSE sctp
  BY DEF CallConnect, Doing, history
<1>2. PICK e \in Event : Head(todo[t]) = <<"call", "connect", e[1], e[2]>> /\ Arg(t, 4) = e[2]
  BY HookCalled DEF Installed, CallConnect
<1>3. Pending(Herald(e[1], e[2]))
  BY <1>1, <1>2, Tops DEF IInv, Pending, Herald, Hook
<1>4. Past(e[1], e[2]) /\ e[1] = "dtls"
  <2>1. Pending(Connects(e))
    BY <1>1, <1>2, Tops DEF IInv, Pending, Connects
  <2> QED
    BY <1>3, <2>1 DEF Ordered, Heralded
<1>5. sctp' = "Connecting" => sctp = "Connecting" \/ Past("dtls", "Connected")
  BY <1>1, <1>2, <1>4
<1>6. Lasting
  BY <1>1, Lasts
<1> QED
  BY <1>1, <1>5, <1>6, ThenPushes, NoJobs, StillInPlace, OrderAfter

\* What drives the handshake, or fails it, comes after start().
LEMMA AfterStart ==
  ASSUME IInv, NEW t \in Thread, Doing(t, "drive") \/ Doing(t, "fail")
  PROVE  dtls \notin {"none", "New"}
<1>1. Head(todo[t]) \in {<<"drive">>, <<"fail">>} /\ todo[t] # <<>>
  BY Heads DEF IInv, Doing
<1>2. Pending({<<"drive">>, <<"fail">>})
  BY <1>1, Tops DEF IInv, Pending
<1> QED
  BY <1>2 DEF IInv, Starts

LEMMA FailOrder ==
  ASSUME IInv, Ordered, NEW t \in Thread, NEW fails \in BOOLEAN, FailTransport(t, fails),
         todo[t] # <<>>, dtls \notin {"none", "New"},
         UNCHANGED <<ice, sctp, handshake, slot, snapshot, revived>>
  PROVE  Ordered'
<1> DEFINE f == <<"dtls", "Failed">>
           more == <<<<"announce", f[1], f[2]>>>>
<1>1. f \in Event
  BY DEF Event, Status
<1>2. more \in Seq(Job) /\ \A i \in DOMAIN more : more[i] = <<"announce", f[1], f[2]>>
  <2>1. <<"announce", f[1], f[2]>> \in Job
    BY <1>1 DEF Job
  <2> QED
    BY <2>1
<1>3. CASE dtls' = "Failed" /\ Then(t, more)
  <2>1. Lasting
    BY <1>3, Lasts
  <2>2. Past(f[1], f[2])'
    BY <1>3 DEF Past
  <2> HIDE DEF more, f
  <2> QED
    BY <1>1, <1>2, <1>3, <2>1, <2>2, ThenPushes, MoveOrder
<1>4. CASE UNCHANGED dtls /\ Then(t, <<>>)
  BY <1>4, ThenPushes, NoJobs, StillInPlace, QuietOrder
<1> QED
  BY <1>3, <1>4 DEF FailTransport

LEMMA CallFailOrder ==
  ASSUME IInv, Ordered, NEW t \in Thread, CallFail(t)
  PROVE  Ordered'
<1> DEFINE fails == <<Arg(t, 3), Arg(t, 4)>> = <<"ice", "Failed">>
<1>1. /\ FailTransport(t, fails) /\ todo[t] # <<>> /\ fails \in BOOLEAN
      /\ UNCHANGED <<ice, sctp, handshake, slot, snapshot, revived>>
  BY DEF CallFail, Doing, history
<1>2. dtls \notin {"none", "New"}
  BY HookCalled DEF Installed, Begun, CallFail
<1> HIDE DEF fails
<1> QED
  BY <1>1, <1>2, FailOrder

LEMMA PumpFailsOrder ==
  ASSUME IInv, Ordered, PumpFails
  PROVE  Ordered'
<1>1. /\ FailTransport(driver, TRUE) /\ todo[driver] # <<>> /\ driver \in Thread
      /\ UNCHANGED <<ice, sctp, handshake, slot, snapshot, revived>>
  BY DEF PumpFails, Doing, history, Thread
<1>2. dtls \notin {"none", "New"}
  BY <1>1, AfterStart DEF PumpFails
<1> QED
  BY <1>1, <1>2, FailOrder

LEMMA DtlsStartOrder ==
  ASSUME IInv, Ordered, NEW t \in Thread, DtlsStart(t)
  PROVE  Ordered'
<1> DEFINE moves == ~started /\ dtls = "New"
           f == <<"dtls", "Connecting">>
           more == IF moves THEN <<<<"announce", f[1], f[2]>>,
                                   <<"snapshot", "ice">>, <<"install", "fail">>,
                                   <<"drive">>>> ELSE <<>>
<1>1. /\ Then(t, more) /\ todo[t] # <<>> /\ UNCHANGED <<handshake, revived, ice, sctp, slot, snapshot>>
      /\ dtls' = IF moves THEN "Connecting" ELSE dtls
  BY DEF DtlsStart, Doing, history
<1>2. f \in Event
  BY DEF Event, Status
<1>3. /\ more \in Seq(Job)
      /\ \A i \in DOMAIN more : \/ more[i] = <<"announce", f[1], f[2]>>
                                \/ more[i][1] \notin {"announce", "call"}
  <2>1. <<"announce", f[1], f[2]>> \in Job
    BY <1>2 DEF Job
  <2>2. <<"snapshot", "ice">> \in Job /\ <<"install", "fail">> \in Job /\ <<"drive">> \in Job
    BY DEF Job, Layer, Installed
  <2> QED
    BY <2>1, <2>2
<1>4. Lasting
  BY <1>1, Lasts
<1>5. CASE moves
  <2>1. Past(f[1], f[2])'
    BY <1>1, <1>5 DEF Past
  <2> HIDE DEF moves, more, f
  <2> QED
    BY <1>1, <1>2, <1>3, <1>4, <2>1, ThenPushes, MoveOrder
<1>6. CASE ~moves
  <2>1. more = <<>> /\ UNCHANGED dtls
    BY <1>1, <1>6
  <2> HIDE DEF moves, more, f
  <2> QED
    BY <1>1, <1>3, <2>1, ThenPushes, NoJobs, StillInPlace, QuietOrder
<1> QED
  BY <1>5, <1>6

\* The callbacks of DTLS are taken by SCTP alone, once.
LEMMA SnapshotOrder ==
  ASSUME IInv, Ordered, NEW t \in Thread, Snapshot(t)
  PROVE  Ordered'
<1>1. /\ Then(t, <<>>) /\ todo[t] # <<>> /\ UNCHANGED <<handshake, revived, ice, dtls, sctp, slot>>
      /\ snapshot' = [snapshot EXCEPT ![t] = slot[Arg(t, 2)]]
  BY DEF Snapshot, Doing, status, history
<1>2. PICK l \in Layer : Head(todo[t]) = <<"snapshot", l>>
  BY Heads DEF Snapshot, IInv
<1>3. ASSUME l = "dtls"
      PROVE  ~Wraps(slot[l], "connect")
  <2>1. 1 \in DOMAIN todo[t] /\ todo[t][1] = <<"snapshot", l>> /\ todo[t] \in Seq(Job)
    BY <1>1, <1>2, Tops DEF IInv, Typed
  <2>2. 2 \in DOMAIN todo[t] /\ todo[t][2][1] = "install" /\ Target(todo[t][2][2]) = l
    <3>1. todo[t][1][1] = "snapshot" =>
            /\ 1 + 1 \in DOMAIN todo[t] /\ todo[t][1 + 1][1] = "install"
            /\ Target(todo[t][1 + 1][2]) = todo[t][1][2]
      BY <2>1 DEF IInv, Pairs
    <3> QED
      BY <2>1, <3>1
  <2>3. todo[t][2] \in Job
    BY <2>1, <2>2
  <2>4. PICK h \in Installed : todo[t][2] = <<"install", h>>
    BY <2>2, <2>3 DEF Job
  <2>5. h = "connect"
    BY <1>3, <2>2, <2>4 DEF Target
  <2>6. Pending({<<"install", h>>})
    BY <2>2, <2>4 DEF Pending
  <2> QED
    BY <2>5, <2>6 DEF IInv, Hooks, Wrapping
<1>4. ~Wraps(slot[l], "connect")
  BY <1>3 DEF Ordered, InPlace, Layer
<1>5. InPlace'
  <2>1. Arg(t, 2) = l
    BY <1>2 DEF Arg
  <2>2. \A u \in Thread : snapshot'[u] = IF u = t THEN slot[l] ELSE snapshot[u]
    BY <1>1, <2>1 DEF IInv, Typed
  <2> QED
    BY <1>1, <1>4, <2>2 DEF Ordered, InPlace, Wraps
<1> QED
  BY <1>1, <1>5, ThenPushes, NoJobs, QuietOrder

\* What a thread puts back has SCTP's hook only if it is SCTP that puts it.
LEMMA InstallOrder ==
  ASSUME IInv, Ordered, NEW t \in Thread, Install(t)
  PROVE  Ordered'
<1>1. PICK h \in Installed : Head(todo[t]) = <<"install", h>>
  BY Heads DEF Install, IInv
<1> DEFINE w == Wrapped(h, snapshot[t])
<1>2. /\ Then(t, <<>>) /\ todo[t] # <<>> /\ UNCHANGED <<handshake, revived, ice, dtls, sctp>>
      /\ slot' = [slot EXCEPT ![Target(h)] = w]
      /\ snapshot' = [snapshot EXCEPT ![t] = NoCallbacks]
  <2>1. Arg(t, 2) = h
    BY <1>1 DEF Arg
  <2> QED
    BY <2>1 DEF Install, Doing, status, history
<1>3. ~Wraps(snapshot[t], h)
  <2>1. Pending({<<"install", h>>})
    BY <1>1, <1>2, Tops DEF IInv, Pending
  <2> QED
    BY <2>1 DEF IInv, Hooks, Wrapping
<1>4. Wraps(w, "connect") => h = "connect"
  <2>1. \A g \in Installed : Wraps(w, g) => g = h \/ Wraps(snapshot[t], g)
    BY <1>3, WrapGrows DEF IInv, Typed, TypeOK
  <2> QED
    BY <2>1 DEF Installed, Ordered, InPlace
<1> HIDE DEF w
<1>5. slot'["ice"] = IF h = "connect" THEN slot["ice"] ELSE w
  BY <1>2 DEF IInv, Typed, Target, Layer
<1>6. ~Wraps(NoCallbacks, "connect")
  BY DEF Wraps, NoCallbacks, Contains
<1>7. InPlace'
  <2>1. \A u \in Thread : snapshot'[u] = IF u = t THEN NoCallbacks ELSE snapshot[u]
    BY <1>2 DEF IInv, Typed
  <2>2. ~Wraps(slot'["ice"], "connect")
    BY <1>4, <1>5 DEF Ordered, InPlace
  <2> QED
    BY <1>6, <2>1, <2>2 DEF Ordered, InPlace, Wraps
<1> QED
  BY <1>2, <1>7, ThenPushes, NoJobs, QuietOrder

LEMMA CallAppOrder ==
  ASSUME IInv, Ordered, NEW t \in Thread, CallApp(t)
  PROVE  Ordered'
<1>1. Then(t, <<>>) /\ todo[t] # <<>> /\ UNCHANGED <<handshake, revived, ice, dtls, sctp, slot, snapshot>>
  BY DEF CallApp, Doing, status, history
<1> QED
  BY <1>1, ThenPushes, NoJobs, StillInPlace, QuietOrder

\* A call of the application or of the driver that announces nothing.
LEMMA CallOrder ==
  ASSUME IInv, Ordered, NEW t \in Thread, NEW more \in Seq(Job), Call(t, more),
         \A i \in DOMAIN more : more[i][1] \notin {"announce", "call"}, UNCHANGED <<slot, snapshot>>,
         UNCHANGED <<ice, dtls, sctp>> \/ (UNCHANGED <<ice, dtls>> /\ sctp' # "Connecting")
           \/ (dtls = "none" /\ UNCHANGED <<ice, sctp>>),
         UNCHANGED <<handshake, revived>>
  PROVE  Ordered'
BY CallPushes, StillInPlace, QuietOrder DEF IInv

LEMMA OperationOrder ==
  ASSUME IInv, Ordered, NEW u \in User, Operation(u)
  PROVE  Ordered'
<1>1. u \in Thread
  BY DEF Thread
<1>2. ASSUME NEW l \in Layer, NEW h \in Installed
      PROVE  /\ <<<<"snapshot", l>>, <<"install", h>>>> \in Seq(Job)
             /\ \A i \in DOMAIN <<<<"snapshot", l>>, <<"install", h>>>> :
                  <<<<"snapshot", l>>, <<"install", h>>>>[i][1] \notin {"announce", "call"}
  <2>1. <<"snapshot", l>> \in Job /\ <<"install", h>> \in Job
    BY DEF Job
  <2> QED
    BY <2>1
<1>3. CASE DtlsNew(u)
  <2> DEFINE more == <<<<"snapshot", "ice">>, <<"install", "auto">>>>
  <2>1. more \in Seq(Job) /\ \A i \in DOMAIN more : more[i][1] \notin {"announce", "call"}
    BY <1>2 DEF Layer, Installed
  <2>2. Call(u, more) /\ dtls = "none" /\ UNCHANGED <<handshake, revived, ice, sctp, slot, snapshot>>
    BY <1>3 DEF DtlsNew, history
  <2> HIDE DEF more
  <2> QED
    BY <1>1, <2>1, <2>2, CallOrder
<1>4. CASE SctpNew(u)
  <2> DEFINE more == <<<<"snapshot", "dtls">>, <<"install", "connect">>>>
  <2>1. more \in Seq(Job) /\ \A i \in DOMAIN more : more[i][1] \notin {"announce", "call"}
    BY <1>2 DEF Layer, Installed
  <2>2. Call(u, more) /\ sctp' # "Connecting" /\ UNCHANGED <<handshake, revived, ice, dtls, slot, snapshot>>
    BY <1>4 DEF SctpNew, history
  <2> HIDE DEF more
  <2> QED
    BY <1>1, <2>1, <2>2, CallOrder
<1>5. CASE Start(u)
  <2> DEFINE more == <<<<"start">>>>
  <2>1. more \in Seq(Job) /\ \A i \in DOMAIN more : more[i][1] \notin {"announce", "call"}
    <3>1. <<"start">> \in Job
      BY DEF Job
    <3> QED
      BY <3>1
  <2>2. Call(u, more) /\ UNCHANGED <<handshake, revived, ice, dtls, sctp, slot, snapshot>>
    BY <1>5 DEF Start, status, history
  <2> HIDE DEF more
  <2> QED
    BY <1>1, <2>1, <2>2, CallOrder
<1>6. ASSUME NEW l \in Layer, NEW a \in App, SetCallbacks(u, l, a)
      PROVE  Ordered'
  <2>1. slot' = [slot EXCEPT ![l] = Only(a)] /\ UNCHANGED <<handshake, revived, ice, dtls, sctp, snapshot, todo>>
    BY <1>6 DEF SetCallbacks, status, history
  <2>2. ~Wraps(Only(a), "connect")
    BY StackAssumption DEF Wraps, Only, Contains, Hook
  <2>3. slot'["ice"] = IF l = "ice" THEN Only(a) ELSE slot["ice"]
    BY <2>1 DEF IInv, Typed, Layer
  <2>4. InPlace'
    BY <2>1, <2>2, <2>3 DEF Ordered, InPlace, Wraps
  <2>5. \A K : Pending(K)' <=> Pending(K)
    BY <2>1 DEF Pending
  <2>6. \A e \in Event : Past(e[1], e[2]) <=> Past(e[1], e[2])'
    BY <2>1 DEF Past
  <2>7. Heralded' /\ \A e \in Event : Pending(Connects(e))' => e[1] = "dtls"
    BY <2>5, <2>6 DEF Ordered, Heralded, Herald, Connects
  <2> QED
    BY <2>1, <2>4, <2>7 DEF Ordered, Past, Connects
<1> QED
  BY <1>3, <1>4, <1>5, <1>6 DEF Operation

LEMMA IceMovesOrder ==
  ASSUME IInv, Ordered, NEW s \in {"Connected", "Failed"}, IceMoves(s)
  PROVE  Ordered'
<1> DEFINE f == <<"ice", s>>
           more == <<<<"announce", f[1], f[2]>>>>
<1>1. f \in Event /\ driver \in Thread
  BY DEF Event, Thread
<1>2. more \in Seq(Job) /\ \A i \in DOMAIN more : more[i] = <<"announce", f[1], f[2]>>
  <2>1. <<"announce", f[1], f[2]>> \in Job
    BY <1>1 DEF Job
  <2> QED
    BY <2>1
<1>3. Call(driver, more) /\ UNCHANGED <<handshake, revived, dtls, sctp, slot, snapshot>>
  BY DEF IceMoves, history
<1>4. /\ <<ice, s>> \in {<<"New", "Connected">>, <<"New", "Failed">>, <<"Connected", "Failed">>}
      /\ ice' = s
  BY DEF IceMoves, history
<1>5. Lasting /\ Past(f[1], f[2])'
  <2>1. Lasting
    BY <1>3, <1>4, Lasts
  <2> QED
    BY <1>4, <2>1 DEF Past
<1> HIDE DEF more, f
<1>6. Pushes(driver, more)
  BY <1>1, <1>2, <1>3, CallPushes DEF IInv
<1> QED
  BY <1>1, <1>2, <1>3, <1>5, <1>6, MoveOrder

LEMMA DatagramOrder ==
  ASSUME IInv, Ordered, Datagram
  PROVE  Ordered'
<1> DEFINE more == <<<<"pump">>>>
<1>1. more \in Seq(Job) /\ \A i \in DOMAIN more : more[i][1] \notin {"announce", "call"}
  <2>1. <<"pump">> \in Job
    BY DEF Job
  <2> QED
    BY <2>1
<1>2. Call(driver, more) /\ driver \in Thread /\ UNCHANGED <<handshake, revived, ice, dtls, sctp, slot, snapshot>>
  BY DEF Datagram, status, history, Thread
<1> HIDE DEF more
<1> QED
  BY <1>1, <1>2, CallOrder

\* The handshake is driven: its end is announced, nothing else is.
LEMMA DriveOrder ==
  ASSUME IInv, Ordered, NEW t \in Thread, todo[t] # <<>>, NEW onError \in {<<>>, <<<<"fail">>>>},
         NEW h \in {"going", "fed", "dead", "over", "noticed"}, handshake = "noticed" => h = "noticed",
         DriveHandshake(t, h, onError), UNCHANGED <<ice, sctp, slot, snapshot>>,
         dtls \notin {"none", "New"}
  PROVE  Ordered'
<1>1. PICK outcome \in Drives(h) :
        /\ handshake' = outcome[1]
        /\ IF outcome[2] = "done"
             THEN /\ dtls' = "Connected"
                  /\ revived' = (revived \/ dtls = "Failed")
                  /\ Then(t, <<<<"announce", "dtls", "Connected">>>>)
             ELSE /\ UNCHANGED <<dtls, revived>>
                  /\ Then(t, IF outcome[2] = "error" THEN onError ELSE <<>>)
  BY DEF DriveHandshake
<1>2. /\ outcome[2] = "done" => outcome[1] = "noticed" /\ h # "noticed"
      /\ outcome[2] # "done" => (outcome[1] = "noticed" <=> h = "noticed")
  BY DriveOutcomes
<1>3. CASE outcome[2] = "done"
  <2> DEFINE f == <<"dtls", "Connected">>
             more == <<<<"announce", f[1], f[2]>>>>
  <2>1. f \in Event
    BY DEF Event, Status
  <2>2. more \in Seq(Job) /\ \A i \in DOMAIN more : more[i] = <<"announce", f[1], f[2]>>
    <3>1. <<"announce", f[1], f[2]>> \in Job
      BY <2>1 DEF Job
    <3> QED
      BY <3>1
  <2>3. handshake' = "noticed" /\ Then(t, more) /\ dtls' = "Connected"
    BY <1>1, <1>2, <1>3
  <2>4. dtls = "Failed" \/ revived => revived'
    BY <1>1, <1>3
  <2>5. Lasting
    BY <2>3, <2>4, Lasts
  <2>6. Past(f[1], f[2])'
    BY <2>3 DEF Past
  <2> HIDE DEF more, f
  <2> QED
    BY <2>1, <2>2, <2>3, <2>5, <2>6, ThenPushes, MoveOrder
<1>4. CASE outcome[2] # "done"
  <2> DEFINE more == IF outcome[2] = "error" THEN onError ELSE <<>>
  <2>1. more \in Seq(Job) /\ \A i \in DOMAIN more : more[i] = <<"fail">>
    <3>1. <<"fail">> \in Job
      BY DEF Job
    <3>2. more = <<>> \/ more = <<<<"fail">>>>
      OBVIOUS
    <3> DEFINE j == <<"fail">>
    <3>3. j \in Job /\ (more = <<>> \/ more = <<j>>)
      BY <3>1, <3>2
    <3>4. j = <<"fail">>
      OBVIOUS
    <3> HIDE DEF more, j
    <3>5. CASE more = <<>>
      BY <3>5
    <3>6. CASE more = <<j>>
      BY <3>3, <3>4, <3>6
    <3> QED
      BY <3>3, <3>5, <3>6
  <2>2. UNCHANGED <<dtls, revived>> /\ Then(t, more)
    BY <1>1, <1>4
  <2>3. handshake = "noticed" => handshake' = "noticed"
    BY <1>1, <1>2, <1>4
  <2> HIDE DEF more
  <2> QED
    BY <2>1, <2>2, <2>3, ThenPushes, StillInPlace, QuietOrder
<1> QED
  BY <1>3, <1>4

LEMMA StartDrivesOrder ==
  ASSUME IInv, Ordered, NEW t \in Thread, Drive(t)
  PROVE  Ordered'
<1>1. todo[t] # <<>> /\ UNCHANGED <<ice, sctp, slot, snapshot>>
  BY DEF Drive, Doing
<1>2. dtls \notin {"none", "New"}
  BY AfterStart DEF Drive
<1>3. handshake \in {"going", "fed", "dead", "over", "noticed"}
  BY DEF IInv, TypeOK
<1>4. CASE DriveHandshake(t, handshake, <<>>)
  BY <1>1, <1>2, <1>3, <1>4, DriveOrder
<1>5. CASE UNCHANGED <<dtls, handshake, revived>> /\ Then(t, <<>>)
  BY <1>1, <1>5, ThenPushes, NoJobs, StillInPlace, QuietOrder
<1> QED
  BY <1>4, <1>5 DEF Drive

LEMMA PumpOrder ==
  ASSUME IInv, Ordered, Pump
  PROVE  Ordered'
<1> DEFINE h == IF handshake = "going" THEN "fed" ELSE handshake
<1>1. todo[driver] # <<>> /\ driver \in Thread /\ UNCHANGED <<ice, sctp, slot, snapshot>>
  BY DEF Pump, Doing, Thread
<1>2. h \in {"going", "fed", "dead", "over", "noticed"} /\ (handshake = "noticed" <=> h = "noticed")
  BY DEF IInv, TypeOK
<1>3. \/ dtls = "Connecting" /\ DriveHandshake(driver, h, <<<<"fail">>>>)
      \/ handshake' = h /\ UNCHANGED <<dtls, revived>> /\ Then(driver, <<>>)
  BY DEF Pump
<1> HIDE DEF h
<1>4. CASE dtls = "Connecting" /\ DriveHandshake(driver, h, <<<<"fail">>>>)
  BY <1>1, <1>2, <1>4, DriveOrder
<1>5. CASE handshake' = h /\ UNCHANGED <<dtls, revived>> /\ Then(driver, <<>>)
  BY <1>1, <1>2, <1>5, ThenPushes, NoJobs, StillInPlace, QuietOrder
<1> QED
  BY <1>3, <1>4, <1>5

LEMMA NextOrder ==
  ASSUME IInv, Ordered, [Next]_vars
  PROVE  Ordered'
<1>1. ASSUME NEW t \in Thread, Step(t) PROVE Ordered'
  BY <1>1, SnapshotOrder, InstallOrder, AnnounceOrder, CallAppOrder, CallAutoOrder, CallFailOrder,
     CallConnectOrder, DtlsStartOrder, StartDrivesOrder DEF Step
<1>2. CASE Datagram \/ Pump \/ PumpFails
  BY <1>2, DatagramOrder, PumpOrder, PumpFailsOrder
<1>3. CASE UNCHANGED vars
  BY <1>3 DEF vars, status, history, Ordered, InPlace, Heralded, Pending, Past, Wraps
<1> QED
  BY <1>1, <1>2, <1>3, OperationOrder, IceMovesOrder DEF Next

LEMMA InitOrder ==
  ASSUME Init
  PROVE  Ordered
<1>1. /\ sctp = "none" /\ latest \in [Layer -> App]
      /\ \A l \in Layer : slot[l] = Only(latest[l])
      /\ \A t \in Thread : snapshot[t] = NoCallbacks /\ todo[t] = <<>>
  BY DEF Init
<1>2. \A K : ~Pending(K)
  BY <1>1 DEF Pending
<1>3. ~Wraps(NoCallbacks, "connect")
  BY DEF Wraps, NoCallbacks, Contains
<1>4. latest["ice"] \notin Hook /\ slot["ice"] = Only(latest["ice"])
  BY <1>1, StackAssumption DEF Layer
<1>5. ~Wraps(slot["ice"], "connect")
  BY <1>4 DEF Wraps, Only, Contains, Hook
<1> QED
  BY <1>1, <1>2, <1>3, <1>5 DEF Ordered, InPlace, Heralded

-----------------------------------------------------------------------------
(* Theorems                                                                *)

\* In every state that can be reached, all of the above.
THEOREM Invariant == Spec => []IInv
BY InitHolds, StepHolds, PTL DEF Spec

\* The statuses are statuses, and no callback is in a chain twice: the
\* hooks are installed once each, and the application's set replaces the
\* chain it is put in the place of.
THEOREM TypeCorrect == Spec => []TypeOK
BY Invariant, PTL DEF IInv

\* Whoever calls start() and whenever the hooks are installed, nobody is
\* told of one change twice, but of a second failure where Connected was put
\* over the first.
THEOREM NobodyIsToldTwice == Spec => []ToldOnce
BY Invariant, PTL DEF IInv

\* The application's latest callback set is in the chain, or was installed
\* between a layer's callbacks() and its set_callbacks().
THEOREM ApplicationIsKept == Spec => []KeepsTheApplication
BY Invariant, PTL DEF IInv

\* No hook hears of what has not happened, and SCTP's hears of DTLS only.
THEOREM HooksHearTheTruth == Spec => []Ordered
<1>1. IInv /\ Ordered /\ [Next]_vars => Ordered'
  BY NextOrder
<1> QED
  BY <1>1, InitOrder, Invariant, PTL DEF Spec

\* When all is quiet, a connected layer has started the one above, unless
\* the hook was not there when the change was announced; and on whatever
\* thread it runs, the hook does not connect SCTP before DTLS is connected.
THEOREM LayerAboveIsStarted == Spec => []StartsTheLayerAbove
<1>1. ASSUME IInv, Ordered
      PROVE  StartsTheLayerAbove
  <2>1. ASSUME Idle
        PROVE  /\ ice = "Connected" /\ dtls = "New" => "ice" \in missed
               /\ dtls = "Connected" /\ sctp = "New" => "dtls" \in missed
    <3>1. \A K : ~Pending(K)
      BY <2>1 DEF Idle, Pending
    <3> QED
      BY <1>1, <3>1 DEF IInv, Wakes
  <2>2. sctp = "Connecting" => dtls \in {"Connected", "Failed"}
    BY <1>1 DEF Ordered, Past, IInv, Drove
  <2> QED
    BY <2>1, <2>2 DEF StartsTheLayerAbove
<1> QED
  BY <1>1, Invariant, HooksHearTheTruth, PTL

\* The moves that the modules of the transports allow, with a construction
\* before them.
DtlsMove == {<<"none", "New">>, <<"New", "Connecting">>, <<"Connecting", "Connected">>,
             <<"Connecting", "Failed">>, <<"Connected", "Failed">>, <<"Failed", "Connected">>}
SctpMove == {<<"none", "New">>, <<"New", "Connecting">>}
Moves == /\ dtls' # dtls => <<dtls, dtls'>> \in DtlsMove
         /\ sctp' # sctp => <<sctp, sctp'>> \in SctpMove

\* Reduced to their statuses the transports go no way that they do not go in
\* their own modules: the failure hook, which does not ask whether DTLS was
\* started, is not called before it was.
THEOREM TransportsMoveAlongTheirEdges == Spec => [][Moves]_vars
<1>1. ASSUME IInv, [Next]_vars
      PROVE  [Moves]_vars
  <2>1. ASSUME NEW t \in Thread, CallFail(t)
        PROVE  Moves
    <3>1. dtls \in {"Connecting", "Connected", "Failed"}
      BY <1>1, <2>1, HookCalled DEF Installed, Begun, CallFail, IInv, TypeOK
    <3>2. (dtls' = dtls \/ (dtls' = "Failed" /\ dtls # "Failed")) /\ sctp' = sctp
      BY <2>1 DEF CallFail, FailTransport
    <3> QED
      BY <3>1, <3>2 DEF Moves, DtlsMove
  <2>2. ASSUME NEW t \in Thread, Step(t), ~CallFail(t), ~Drive(t)
        PROVE  Moves
    <3>1. \/ dtls' = dtls \/ (dtls = "New" /\ dtls' = "Connecting")
      BY <2>2 DEF Step, Snapshot, Install, Announce, CallApp, CallAuto, CallConnect, DtlsStart, status
    <3>2. \/ sctp' = sctp \/ (sctp = "New" /\ sctp' = "Connecting")
      BY <2>2 DEF Step, Snapshot, Install, Announce, CallApp, CallAuto, CallConnect, DtlsStart, status
    <3> QED
      BY <3>1, <3>2 DEF Moves, DtlsMove, SctpMove
  <2>3. ASSUME NEW u \in User, Operation(u)
        PROVE  Moves
    BY <2>3 DEF Operation, DtlsNew, SctpNew, Start, SetCallbacks, status, Moves, DtlsMove, SctpMove
  <2>4. ASSUME NEW s \in {"Connected", "Failed"}, IceMoves(s)
        PROVE  Moves
    BY <2>4 DEF IceMoves, Moves
  <2>5. CASE Datagram
    BY <2>5 DEF Datagram, status, Moves
  <2>6. ASSUME NEW t \in Thread, NEW h, NEW onError, DriveHandshake(t, h, onError),
               h = "noticed" <=> handshake = "noticed", sctp' = sctp,
               h \in {"going", "fed", "dead", "over", "noticed"}, dtls \notin {"none", "New"}
        PROVE  Moves
    <3>1. \/ dtls' = dtls
          \/ dtls' = "Connected" /\ handshake # "noticed"
      BY <2>6, DriveOutcomes DEF DriveHandshake
    <3>2. handshake # "noticed" => dtls \in {"Connecting", "Failed"}
      BY <1>1, <2>6 DEF IInv, Drove, TypeOK
    <3> QED
      BY <2>6, <3>1, <3>2 DEF Moves, DtlsMove
  <2>7. ASSUME NEW t \in Thread, Drive(t)
        PROVE  Moves
    <3>1. dtls \notin {"none", "New"} /\ sctp' = sctp
      BY <1>1, <2>7, AfterStart DEF Drive
    <3>2. handshake \in {"going", "fed", "dead", "over", "noticed"}
      BY <1>1 DEF IInv, TypeOK
    <3>3. CASE DriveHandshake(t, handshake, <<>>)
      BY <2>6, <3>1, <3>2, <3>3
    <3>4. CASE dtls' = dtls
      BY <3>1, <3>4 DEF Moves
    <3> QED
      BY <2>7, <3>3, <3>4 DEF Drive
  <2>8. CASE Pump
    <3> DEFINE h == IF handshake = "going" THEN "fed" ELSE handshake
    <3>1. \/ dtls = "Connecting" /\ DriveHandshake(driver, h, <<<<"fail">>>>)
          \/ dtls' = dtls
      BY <2>8 DEF Pump
    <3>2. /\ h \in {"going", "fed", "dead", "over", "noticed"} /\ (handshake = "noticed" <=> h = "noticed")
          /\ sctp' = sctp /\ driver \in Thread
      BY <1>1, <2>8 DEF IInv, TypeOK, Pump, Thread
    <3> HIDE DEF h
    <3>3. CASE dtls = "Connecting" /\ DriveHandshake(driver, h, <<<<"fail">>>>)
      BY <2>6, <3>2, <3>3
    <3>4. CASE dtls' = dtls
      BY <3>2, <3>4 DEF Moves
    <3> QED
      BY <3>1, <3>3, <3>4
  <2>9. CASE PumpFails
    <3>1. dtls \notin {"none", "New"} /\ dtls \in {"none", "New", "Connecting", "Connected", "Failed"}
      BY <1>1, <2>9, AfterStart DEF PumpFails, Thread, IInv, TypeOK
    <3>2. (dtls' = dtls \/ (dtls' = "Failed" /\ dtls # "Failed")) /\ sctp' = sctp
      BY <2>9 DEF PumpFails, FailTransport
    <3> QED
      BY <3>1, <3>2 DEF Moves, DtlsMove
  <2> QED
    BY <1>1, <2>1, <2>2, <2>3, <2>4, <2>5, <2>7, <2>8, <2>9 DEF Next
<1> QED
  BY <1>1, Invariant, PTL DEF Spec
=============================================================================
