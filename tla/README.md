# libdatachannel-rs: models, checks and proofs

TLA+ specifications of the Rust port of libdatachannel (`src/src/*.rs`), the TLC
configurations that check them and TLAPS proofs about them. Everything is written
from the code at this commit; line numbers below refer to it.

## 1. The system

libdatachannel-rs is the transport half of a WebRTC data channel: three layers, each
an `Arc` handle that application threads call into and that calls the application
back, plus passive value types.

| component | source | state it keeps | operations |
|---|---|---|---|
| ICE transport | `ice_transport.rs` | `Bridge { state, gathering_state, mid, callbacks }` each behind its own mutex, `closed: AtomicBool`; `role` behind a mutex; the libjuice agent (external) | `new`, `gather`, `set_remote_description`, `add_remote_candidate`, `set_remote_end_of_candidates`, `send`, `restart_ice`, `close`, `set_callbacks`; from the driver task `on_juice_state`, `on_juice_candidate`, `on_juice_gathering_done`, `on_juice_recv` |
| DTLS transport | `dtls_transport.rs` | `Inner { ssl, in_bio, out_bio, handshake_done }` behind one non-reentrant mutex, `state` and `callbacks` behind others, `closed`, `started`, `is_client`, the pinned fingerprint | `new` (chains itself into ICE's `on_state_change`), `start`, `send`, `close`, `set_callbacks`, `set_remote_fingerprint`; from ICE callbacks `pump_inbound`, `fail_transport`, the auto-start hook |
| SCTP transport | `sctp_transport.rs` | atomics `closed`, `started`, `state`; `Inner { associated }`, `callbacks` behind mutexes | `new` (chains itself into DTLS's callbacks), `connect`, `close`, `send`, `feed_inbound`, `set_callbacks`; the usrsctp socket is not there yet |
| Session description | `description.rs` | `Description`: type, role, session attributes, media sections, candidates | `parse`, `to_sdp`, accessors, `add_candidate`, `set_application` |
| Candidate | `candidate.rs` | one parsed ICE candidate | `parse`, `to_sdp`, `resolve`, equality |
| Configuration | `configuration.rs` | ICE servers, proxy, bind address, port range, policies | `IceServer::parse`, `ProxyServer::parse`, `add_ice_server`, `add_ice_server_parsed`; read by `IceTransport::new` |
| Certificate | `certificate.rs` | key and self-signed X.509 from OpenSSL | generation, fingerprint |
| Reliability, Error, crate root | `reliability.rs`, `error.rs`, `lib.rs` | plain data, no-op `preload`/`cleanup` | |

How they interact. ICE owns the libjuice agent, whose driver task delivers the agent's
events one at a time. `DtlsTransport::new` wraps ICE's `on_state_change` so that ICE
reaching Connected or Completed calls `start()`; `start()` wraps it again so that Failed
or Closed calls `fail_transport`, and replaces `on_data` by `pump_inbound`.
`SctpTransport::new` wraps DTLS's `on_state_change` so that Connected calls `connect()`,
and DTLS's `on_data` by `feed_inbound`. Downwards DTLS calls `ice.send`. A single thread
may therefore be inside all three layers at once: the driver task inside ICE's callback,
inside DTLS's `start`, inside SCTP's `connect`.

What is hard. (a) No operation is atomic: every one checks `closed`, later takes the
state mutex, later clones the callback, later calls it, with nothing held in between.
(b) Callbacks run with no lock held in ICE and SCTP, but with `Inner` held in DTLS for
Connected and for application data. (c) The layers are glued by edge-triggered hooks
installed with a read-modify-write of the callback set that is not atomic. (d) A record
read out of the outbound BIO is gone if `ice.send` refuses it, and nothing in the crate
drives OpenSSL's retransmission timer. (e) `close` of one layer does not close another.

What each part must get right.

- ICE, DTLS, SCTP: each change of the state is announced once and by the thread that made
  it; Closed is announced although several threads close; calls return; nothing is
  announced out of its order (InProgress before candidates, Connected before data).
- ICE: the DTLS role is resolved once, and before any check can succeed.
- DTLS: no Connected without the pinned fingerprint; the mutex is never taken twice;
  a handshake given up is reported; a record queued by OpenSSL is handed to ICE.
- Hook chain: the application's callbacks survive every layer above, and the layer above
  is started.
- Two peers: connected means that both have verified the other; what the network does to
  flights fails nobody; peers that have started come together if nothing is lost.
- Configuration: a URL means what it was written for, whatever is escaped in it, and the
  agent gets all of the configuration it can use.
- Description and Candidate: nothing is lost or doubled by parsing and writing.

## 2. Modules

| module | models | kind |
|---|---|---|
| `Lifecycle` | the promise shared by the three state machines | abstract specification |
| `SctpTransport`, `SctpTransport_proofs` | `sctp_transport.rs` | state machine, proofs |
| `IceTransport`, `IceTransport_proofs` | `ice_transport.rs` | state machine, proofs |
| `DtlsTransport`, `DtlsTransport_proofs` | `dtls_transport.rs` | state machine, proofs |
| `TransportStack`, `TransportStack_proofs` | the hooks between the three | composition, proofs |
| `DtlsPair`, `DtlsPair_proofs` | two peers and the network between them | composition, fault model, proofs |
| `Candidate`, `Description`, `Description_proofs` | `candidate.rs`, `description.rs`, `IceTransport::get_local_description` | operators; parser and editor; proofs |
| `Url` | the URL parser of `configuration.rs` | operators |
| `IceServers`, `IceServers_proofs` | server and proxy values, `Configuration`, and what `IceTransport::new` hands to the agent | state machine over `Url`, proofs |
| `FoldLaws` | what `FoldLeft` and `FlattenSeq` compute, for any operation | lemmas for the two above |
| `MC*` | constants for TLC | |

Conventions. `pc[t]` is what thread `t` does next and `"idle"` outside a call. One action
is one access to shared state: an atomic load, swap or compare-and-swap, or one critical
section of a mutex that calls nothing else. A callback is two actions, the clone of the
`Arc` under the callbacks mutex and the call with the mutex released. `owes` is the
state a thread has set and not announced, `told`, `heard` and the like are history
variables that no guard reads.
In `DtlsPair` and the passive types, where interleavings inside a call are not the question,
one action is one call or one callback from its first line to its last. An operator `X_Slip`
(and in `SctpTransport` `X_<Mistake>`) is no part of any specification: it is `X` after a
plausible mistake (a dropped guard, a store for a compare-and-swap, a missing unlock),
written beside `X` to record that a property notices it.

**Lifecycle.** A status moves along the edges of a graph; the actor that moves it owes an
announcement and makes it before it moves the status again. Announcements of two actors
may overtake each other: that is what code that announces after unlocking can promise.
`Covered` is what an application gets out of it: the status it is in has been
announced, or somebody is about to. It is proved of each transport under its mapping.

**SctpTransport.** `connect` is the closed check, the swap on `started`, the
compare-and-swap New to Connecting, `associated = true`, the clone and the call; `close`
the swap on `closed`, the swap on the state, clone, call, `associated = false`; `send` the
two checks that decide its error. The hook that connects automatically is one more caller.

**IceTransport.** Each operation is the closed check followed by its critical sections in
order (`set_remote_description`: role, mid, agent). The driver task is a thread that
takes one agent event at a time. The agent is external: it is a record of what it was
commanded (`got`), its own state moving along the constant `AgentEdge`, and whether it has
finished gathering or died; a second `gather` command is ignored, as the comment at
`ice_transport.rs:416` says. `arg` carries the argument or local of the call.

**DtlsTransport.** `inner` is the holder of the one mutex over OpenSSL and its BIOs, and
`Acquire` the four places that take it. `start` runs by hand or inside the ICE hook
(`ctx`), the handshake is driven from `start` and from the pump; `drive` and `drain` are
shared by all of them and `AfterDrain`, `AfterDrive`, `AfterError` and `AfterStart` say
where they return to. `ssl` is how far the handshake is (idle, start, verified, done, dead); an
`SSL_do_handshake` fed a record may advance or complete, and any may queue a record or fail, the
client's first one in `start` included, where nothing has come yet: a nondeterministic
choice. ICE is reduced to down, up, failed or closed and to what its `send` answers
(`IceTransport!SendOutcome` says when). Connected is announced, and data delivered, with
`inner` held; the other states with it free.

**TransportStack.** A callback set is a pair of chains (`on_state_change`, `on_data`)
whose members are the application's set and the hooks wrapped round it. `new` and `start` take the
chain and put it back in two steps. `todo[t]` is the call stack of a thread, innermost
first: announcing a change runs the chain it finds, on that thread, through all layers.
The transports themselves are reduced to a status here, and DTLS's handshake to how far it
is: `Drives` says what a drive may come to, for `start`, which drives a client once and tells
its caller (`Drive`), and for the pump (`Pump`), whose error path releases `inner` and then calls
`fail_transport` (`PumpFails`). `start` may drive in between, complete the handshake that an ICE error
had held up, and put Connected over Failed; the history variable `revived` records it. SCTP's
`connect` is called by its hook only; an application that calls it as well is in `SctpTransport`.

**DtlsPair.** Each peer is a record: its DTLS state and role, what is pinned, its ICE
(down, up, failed), OpenSSL's progress, its outbound BIO, and a history. The answerer's ICE
starts with any role, the offerer's with actpass, and `set_remote_description` resolves them
as the code does; `New` copies the role of that moment. `pump_inbound` is the whole handler:
drive, drain, fail or read. OpenSSL is external: the handshake is the four flights
ClientHello, ServerHello with the certificate, the client's Finished with its certificate and
the server's Finished; a flight is one datagram, flights out of turn are ignored,
application data that comes early is kept, and a repeated Finished is answered once the
server is connected. The network is a set of datagrams, of which `Deliver` takes any,
`Lose` drops one and `Repeat` delivers one and keeps it. There is no timer, because nothing in the crate
calls `DTLSv1_handle_timeout`. OpenSSL fails here over a certificate only; that it may
fail of itself is in `DtlsTransport`.

**Url, IceServers.** A URL is a sequence of tokens: delimiters, hexadecimal digits, blanks,
and words that hold none of these. `ParsedUrl` makes the cuts in the order of the code,
`UrlError` lists its error returns in their order; both are defined for any token sequence.
`IceServers` collects servers by URL or by value and then builds the agent's configuration
from them (`New`), or fails to (`NewFails`: a bad address, a refusal by the builder).
`MCIceServers` writes URLs by the documented grammar together with what each means by the
documentation (`Meant`, default ports included), and adds URLs outside the grammar for the error
paths. `Made` is `Meant` with the one port the code gives otherwise; `StunsUrls` are written by
the documented grammar and refused by the code.

**Candidate, Description.** An SDP line is a key and a value already split into tokens, a
candidate a sequence of tokens. What the text of a number or an address parses to and how
that is printed are the constants `Decimal`, `Port` and `IpLiteral`, because the printed
text need not be the one read (`09`, `FE80::1`); `Numeral` is how a section index is printed.
`Words` and `Trimmed` are what a text comes to that is not one word (`a ` with a blank, the empty
one): the mid of an application is kept as it is read and that of any other section trimmed, and the
group is written joined by blanks and read as the words of that (`Spread`). `ReadLine` is the body of the loop of
`parse_into`, `Feed` that body with its error returns, `parse` the fold of `Feed` (`Failed` is its
`Err`), `generate_sdp` the lines written. The behaviour reads
lines in any order (`Read`, with the error paths), ends the input and edits the result, or
edits a new description, or the one `get_local_description` makes of the agent's
fragment, the transport's role and its mid; `Again(d)` parses what `generate_sdp` writes of it.

## 3. What is checked

| run | module | distinct states | shows |
|---|---|---|---|
| `sctp_safety` | `MCSctpTransport` | 80 thousand | three threads, two callback sets: announced once, Closed is final, close is announced, implements `Lifecycle` with its fairness |
| `ice_safety` | `MCIceTransport` | 3.4 million | two threads calling everything, one round of checks: Closed at most once, InProgress first, role first and once |
| `ice_liveness` | `MCIceTransport` | 62 thousand | two threads that gather, restart and close: calls return, Closed is announced, both state machines implement `Lifecycle` |
| `dtls_safety` | `MCDtlsTransport` | 5.1 million | a thread that starts and closes both layers, one that sends, closes and pins, BIOs of two records, `ice.send` failing at will: the seven invariants |
| `dtls_liveness` | `MCDtlsTransport` | 110 thousand | starting and closing: calls return, Closed is announced, implements `Lifecycle` |
| `stack` | `MCTransportStack` | 750 thousand | one thread constructs the layers, one swaps callback sets and starts DTLS, drives fail or are held up: nobody is told twice (of Failed once more after a Connected put over it), the application's set survives, the layer above is started, and the hook connects SCTP not before DTLS is connected |
| `dtls_pair` | `DtlsPair` | 112 thousand | any roles and fingerprints, two datagrams lost and two repeated, ICE failing, either end closing: no Connected without mutual trust, no failure without a cause; undisturbed peers connect and data arrives |
| `description` | `MCDescription` | 1.8 million | every input of up to four of 26 lines, mids with a blank and without a text among them, or a description of the transport's own, and one edit: no candidate twice, the application in its group, what is written is accepted and read back, a second round changes nothing where mids are one word |
| `ice_servers` | `MCIceServers` | 1.0 million | 160 URLs of the grammar and thirty outside it, up to three servers, eight port ranges: each URL means what it was written for but for two deviations, the agent gets all it can use |

Three runs find what a comment or doc of the code promises and the code does not keep; each is a
finding with its line and quotation in `PROJECT.json`:

- `ice_pinned` (`ClosedIsPinned`): "our state mutex is pinned at Closed" does not hold; an
  agent event, or `restart_ice`, that passed its closed check before `close` overwrites Closed.
- `dtls_connected` (`ConnectedCanSend`): the handshake sets Connected over a Closed set
  since its closed check; the application is told Connected last, and `send` answers Closed.
- `dtls_hello` (`HelloSent`): a ClientHello drained before ICE is connected is taken out of
  the BIO, refused and lost; the drain meant to push it finds nothing.

More disagreements are seen in the models and have no run: a `connect` that won its
compare-and-swap writes `associated = true` after a concurrent `close` has cleared it, where
`close` "Gates all mutators thereafter" (`sctp_transport.rs:453`); ICE going down before
`start` has installed its hook is never noticed and DTLS stays Connecting, where Failed is
to mean that "the underlying ICE transport went down" (`dtls_transport.rs:106`); a second `gather` after
`restart_ice` leaves InProgress with nothing to complete it (`ice_transport.rs:97`); a
datagram may be handed to `on_data` after ICE's `close` has returned; and `bundle_mid`
answers the application's mid where its comment says "First non-removed media's mid"
(`description.rs:479`). Further:

- Failed is to mean that "an unrecoverable handshake error fired" (`dtls_transport.rs:105`). A fatal
  error of the drive in `start` is returned to the caller (525) and the state stays Connecting until
  a datagram comes. If ICE refuses a record in the same drive not even the caller learns of it, where
  the comment at 513 says that a handshake error "still surfaces". `DeadMeansFailed` excuses
  both by the history variable `start_died`.
- The pump gives up over a record that ICE refuses, and `start` may complete the handshake before
  `fail_transport` runs or after: Connected is put over Failed, and Failed may be announced a second
  time (`revived`).
- "The driver task delivers callbacks serially" (`ice_transport.rs:16`); `close`, `gather` and
  `restart_ice` announce on the thread that calls them, at the same time.
- "Other media sections are accepted and preserved verbatim so SDPs round-trip without loss"
  (`description.rs:318`). Candidates are kept with any mid and written only under the application's;
  a mid with a blank, which `a=mid:0 ` with a trailing blank makes (908), is joined into the group (604)
  and read as other words (821), so the group grows with every round, where the comment at
  899 is about a "parse → emit → parse → emit cycle" that does not duplicate. An empty mid, which
  `a=mid:` makes, costs its candidates the second time they are written, because `Candidate::parse`
  takes an empty hint for none and answers `"0"`. `NothingLost` and `SettlesOnce` say which mids they are about
  (`OneWord`, the application's own).
- The default port is `5349` "for TURN/TLS" (`configuration.rs:195`); a `turn:` with
  `?transport=tls` gets 3478. `stuns:` is among the URLs to be parsed (187) and refused on purpose
  (205). `ParsesBack` states both.

**Bounds, and why they are enough.** Every race in these state machines is between two
writers of one cell, and needs two application threads against the driver task; SCTP,
where the driver is a caller like any other, gets three threads. A second callback set
matters where a set can be replaced between clone and call (`SctpTransport`) or between
snapshot and install (`TransportStack`); the ICE and DTLS runs use one, as what they check
does not look at which set was called. Two remote descriptions suffice to make two calls disagree on the
role. `BioRecords` = 2 lets a flight of more than one record be split by a refusal; the
liveness and violation runs use 1. `MCAgentEdge` has a second round of checks, consent
loss included; the two shorter graphs keep the runs that are about the callers small.
`MaxLines` = 4 is what it takes for a section, a second section, a group line out of
place and a candidate; `MaxEdits` = 1 after an input of any shape (the edits do not read
each other's results, except `set_application`, which finds an application made by the
input).

`DtlsPair`: two losses and two repetitions let any two of the flights that one
handshake has be hit, in both directions; each peer pins, sends and connects once, since the
code has no second use of any of them. `IceServers`: three servers are one more than the cap on
TURN servers, with STUN, unusable and usable ones in every order; the constraint `Small` lets
only servers that differ in what `new` looks at stand in a list of more than one. The texts
vary in every delimiter the parser cuts at, escaped and not.

**Deadlock** is checked in every run but `description` (lines and edits are used up),
`ice_servers` (the agent is built) and `dtls_pair` (both ends may have closed, or wait for a
flight that was lost).

**Fairness.** A thread inside a call keeps taking steps: weak fairness of each thread's
steps, never of starting a call, and never of the agent; the only assumption about the network
is `DtlsPair`'s, that a datagram it does not lose is delivered. Under DTLS a
thread waiting for `inner` gets it eventually: strong fairness of `Acquire`, which
`parking_lot::Mutex` justifies because it hands a contended lock over fairly at intervals. The calls
into OpenSSL, libjuice and the application's callbacks are assumed to return.

## 4. What is proved

All of these hold for every value of the constants that satisfies the modules' `ASSUME`s.
They are stated for `Safe`, the specification without its fairness (`Spec` is `Safe` and
`Fairness`), or for the `Spec` of a module that has no `Safe`, along the usual argument: `Init => IInv`, `IInv /\ [Next]_vars => IInv'`,
and what is claimed follows from `IInv`.

- `SctpTransport_proofs`: `TypeCorrect`, `AnnouncesOnce`, `QuiescentHeard`,
  `ClosedStays`, `RefinesLifecycle` and `StatusCovered`, for any number of threads. `AnnouncedOnce` is not
  inductive: it says nothing of who is still about to announce. `IInv` adds that one thread
  at most is past the swap of `started` (`SoleConnector`) and one past the swap of `closed`
  (`SoleCloser`), what the flags say about the state (`StateFollowsFlags`), what cannot
  have been announced yet (`NotHeardYet`), and that what has not been announced is owed by a
  thread at a known place (`Accounted`).
- `IceTransport_proofs`: `TypeCorrect`, `ClosedOnce`, `RoleKnownFirst`, `InProgressFirst`,
  `RoleOnce`, `RefinesStateLifecycle`, `RefinesGatheringLifecycle`, and from these
  `StateCovered` and `GatheringCovered`. The invariant is
  `IInv == TypeOK /\ ArgsFit /\ Debts /\ SoleCloser /\ RoleKnown /\ GatherAnnounced`:
  `ArgsFit` (what a thread takes out of `arg` is what it put there), `Debts` (an announcement
  is owed exactly while the thread is on its way to make it), `SoleCloser` (one thread won
  the swap on `closed`, and while it is on its way Closed has not been announced),
  `RoleKnown` (a thread past the role mutex leaves a resolved role behind) and
  `GatherAnnounced` (InProgress was announced, or nothing the agent does about a gather
  command can have begun).
- `DtlsTransport_proofs`: each of the seven invariants of `dtls_safety`,
  `RefinesLifecycle` and `StatusCovered`, for any threads, callback sets, fingerprints and size of the BIOs. The
  invariant is in layers, each of which needs the ones before it. `Debts` and `Mutex` read
  off the program counters who owes an announcement and who holds `inner` (`Locked`, or
  announcing Connected); `NoSelfDeadlock` is the two together. `Contexts` says that only the
  driver pumps, and `NotNew` that nothing past the compare-and-swap sees New. `Pinned` ties
  what a thread is about to do (`drive:set connected`) to how far OpenSSL got, and that to the
  fingerprint. `SoleStarter`, `SoleFinisher` and `SoleCloser` name the thread that won each
  race and say that it has not announced yet; the finisher is alone because `handshake_done`
  is tested and set under `inner`, not because of a swap. `HeardConnected`, `Dead` and
  `Drained` follow what comes of a drive: who announces the end of the handshake, who takes a fatal
  error to `fail_transport` (the pump that meets it, or the next one when `start` met it first), who drains
  the reply.
- `DtlsPair_proofs`: `TrustIsMutual` and `NoFailureWithoutCause`. Every handler is composed
  of operators on one peer's record, and `Effect` is the contract each of them keeps: the
  record stays `Honest`, nothing is taken back (`Grows`), the handshake ends only with the
  other side's Finished, and a failure has a cause. `Vouches` says what a record under way
  proves about its sender, `NetTruthful` that this is so of every datagram, and `Met` is what
  a delivered Finished leaves behind. No property of the network is used but that it invents nothing.
- `TransportStack_proofs`: the four properties of `stack`. A thread's `todo` is a stack of
  jobs, so what has to be shown is that no job is on two of them, or twice on one (`Once`).
  Of an announcement it is a count: how often a state was entered (`Times`), how often that
  was told, and that no more are under way than the difference (`Counted`, `Tells`). Statuses come
  back in one place only, Connected over Failed, and once: the end of the handshake is noticed
  by one drive (`Drove`), and whatever may lead to a failure is on the driver's stack, one at
  a time (`Dooms`). Of a call it holds because a chain holds no callback twice, and of that because a hook is nowhere, neither in
  a slot nor in a snapshot, before it is installed (`Hooks`). `Pairs` keeps a snapshot with the
  install that puts it back, `Taken` says what is in it, and `Wakes` follows a change to the
  start it causes. `HooksHearTheTruth` has the order of the layers: `Ordered` claims that what is
  announced, or about to be told to any hook, has happened, and that SCTP's hook is in the
  chain of DTLS only (`InPlace`), so that nothing of ICE connects SCTP. `TransportsMoveAlongTheirEdges`
  relates the module to the transports' own: reduced to their statuses they go no other way.
- `FoldLaws`: what `FoldLeft` and `FlattenSeq` compute. The library's induction theorems take
  an operator, which none of the provers here can instantiate, so `Induction` and `SeqInduction`
  are stated for a set instead (of numbers, of sequences) and proved from the least number
  outside it. The module has the operation folded as a constant `Op(_, _)`; a module that folds
  takes an `INSTANCE` of it with its own operation (`Lines`, `Digits`, `Turns`).
- `IceServers_proofs`: `UsableServersAreUsed`, that is `AgentGetsTheUsable`, for any URLs, servers
  and ranges and lists of any length. What is configured stays a sequence of well-formed servers
  (`Configured`): the port of a URL is a fold over its digits and is refused above `MaxPort`, whatever
  they are. The agent is then what `New` built (`Built`), and the loop of
  `add_turn_server`, by induction over the servers, gives the k-th usable one the k-th entry
  until the cap is reached (`EachInItsPlace`).
- `Description_proofs`: the five properties of `description`, for any lines, conversions and
  bounds: `TypeCorrect`, `CandidatesAreKeptOnce`, `ApplicationIsBundled`, `NothingIsLost` and
  `SettlesAtOnce`.
  - `BundleHasApplication` does not hold while an application
    section is read: the group is what the input said until `flush_section` puts the
    application back. `Reading` therefore claims it outside such a section only, and that
    before any section there is no application to be in it.
  - The round trip is in two halves. `WhatIsKeptCanBeWritten` is inductive: whatever the parser
    reads and the editor sets (`Storable`, `Writes`), no attribute kept as it was read would be
    taken for one the parser knows, numbers are as they are printed and sections
    begin with their `m=` line. The other half has no state: of a description that can be written
    (`IsWritable`), each line that is written is one the parser takes without an error, and
    `Takes(p, s, q)` (the lines `s` take the parser from `p` to `q`), chained by `Then`, follows
    it through header, application, candidates and sections. The three lists are inductions: candidates are pushed
    one by one unless there is a twin (`PushedFrom`), attributes appended, and each section adds
    its mid to the group (`Joined`). The group itself comes back as the words of its mids
    (`SpreadIs`), which are the mids when each is one word, and a candidate with the mid `Given` says.
  - What comes out is known exactly: `Copy` with an application, `Bare` without. `NothingLost`
    compares `Copy` with the original; `SettlesOnce` is that a copy of a copy is that copy, because
    a candidate that was printed once prints the same again (`SpellingSettles`), no two of
    them are twins, and the mids the sections add are there already. The words of a text being words
    themselves (`WordsAssumption`), what is left to ask is that no mid a section added is
    other than one word: `OneWord` of the copy.

The refinement theorems conclude `S!Safe`, `G!Safe` and `L!Safe`; that the announcements
are made at all is liveness. The theorems of `DtlsPair`, whose `Spec` has fairness, do not
use it.

What the proofs changed in the models. `DtlsEdge` had edges into Failed that no step takes:
the refinement is now stated, and holds, with Failed reached from Connecting and Connected
only. Guards of `CASE`s in six modules overlapped, so that TLA+ left open which branch they
take where the code has an order; they are now disjoint. `Description` compares and prints
mids, and did not say that mids are texts (`DescriptionAssumption` does), nor `Candidate` that
what it converts are (`CandidateAssumption` does). The `parse` of `Description` folded the good branch
alone, as if what is written were always accepted: it now gives up where `parse_into` does, and
`NothingLost` claims that it need not. `retain` and the serializer's choice of candidates are
`Kept`, since the provers know nothing of `SelectSeq`; `MCDescription` compares the two. `IceServers`
adds the TURN servers with a fold, the code's loop, where it had a filter and a prefix.

Only model-checked, and why:

- Everything temporal under fairness: `CallsReturn`, `CloseAnnounced`, `Converges`,
  `DataArrives`, the fairness half of `Lifecycle`.
- `ParsesBack` of `MCIceServers`: it compares `ParsedUrl` with the meaning the MC module gives each URL
  of the grammar, over the URLs that are written there.
- The violation runs, which are counterexamples.

## 5. Not modelled, and why

- Within the transports: the getters, log lines, the agent's selected pair, DTLS key export
  and certificate access. A callback that calls back into its own transport: in ICE and SCTP
  nothing is held then, so it is the interleaving of one more thread; in DTLS, where `inner`
  is held for two of them, it is a deadlock, listed under the hazards.
- In `TransportStack`: `close`, and the mutex `inner`, which keeps `start` from driving while the pump
  announces Connected; nothing that is shown needs it.
- `DtlsTransport` merges the clone of ICE's callbacks with the change of ICE's status that
  announces it, since ICE's own module has that interleaving.
- In `Description`: groups other than BUNDLE (the code drops them), fingerprints it cannot read
  (also dropped), and the wording of the fixed lines. ufrag, password and
  fingerprint share one rule, and so do the two numbers.
- `Certificate` (OpenSSL calls, no state), `Reliability` (read by nothing at this commit),
  `Error`, the crate root.
- `Configuration`: the fields nothing reads at this commit, and characters outside ASCII in an escape (a
  byte beyond 127 is taken for invalid UTF-8).
- In `DtlsPair`: a flight that OpenSSL splits over several datagrams, interleavings inside a
  peer (`DtlsTransport` has them), and a close_notify, which the crate never sends.
- Ownership: ICE's callbacks hold the DTLS bridge, which holds ICE. That this cycle keeps the
  driver alive, where `ice_transport.rs:699` says it "is released on `Drop`", follows from three
  assignments; a model would only repeat them.

## 6. Plan

Done: every module above, and a proof of every safety property the runs check except
`ParsesBack`.

Next, in this order:

1. `Url`: the grammar as an operator of its own instead of a list in `MCIceServers`, so that
   `ParsesBack` can be stated of any host, user and password.
2. `DtlsPair`: that each of its peers is a `DtlsTransport` whose calls are not interrupted.
3. A timer for `DtlsTransport` and `DtlsPair`, when the code gets one.
