# Verification of airplayclib

TLA+ models of airplayclib, a Windows C++ library that receives AirPlay audio:
what is modelled, what TLC checks on small instances, and what TLAPS proves for
all instances. `PROJECT.json` lists the runs, the source lines behind every
definition, the hazards the properties are aimed at, and the findings.

## 1. The system

`Session` (`src/src/session/session.cpp`) owns everything and is what a host
program sees (`src/include/airplayc/airplayc.h`).

| Part | State | Operations | Threads |
|---|---|---|---|
| Session | `running`, `playback_active`, `dacp_remote`, `last_error` | `start`, `stop`, commands, callbacks | host |
| TcpServer | `running_`, listen socket, `client_sockets_`, `client_threads_` | `start`, `stop`, accept loop | one, and one per connection |
| ControlSession | per connection: FairPlay handshake, announced stream, `playback_active_`, volume | `handle(request)` | the connection's |
| RaopAudioDecryptor | keys, stream, ALAC decoder, counters | `reset`, `configure_*`, `handle_packet` | whichever holds `Session::mutex` |
| PCM output | bounded queue, `output_running_` | `enqueue_pcm`, `output_loop` | one |
| UdpProbe | three sockets, `running_` | `start`, `stop`, receive loops | three |
| DacpClient | process-wide cache of addresses | `send_dacp_command` | the host's |
| DnssdAdvertiser | two registrations or a UDP responder | `start`, `stop` | the host's, one worker, Windows' |
| RTSP framing, RTP header, property lists, DMAP, DNS packets | none | pure functions | - |
| FairPlay, AES, ChaCha20-Poly1305, ALAC | none of interest | pure functions | - |

How they meet: a connection's thread parses requests and runs its
ControlSession, whose callbacks take `Session::mutex` and change the one
decryptor and the playback state. The UDP thread takes the same mutex to decrypt
and decode a packet and to put the PCM into the output queue. The output thread
takes only the queue's locks and calls the host's audio callback until the host
accepts the frame. Host threads call `start`, `stop` and the DACP commands.

What is hard: the output thread runs under other locks than everything else and
outlives `stop()`; `stop()` has to end threads that wait for silent peers while
new ones arrive; several senders share one decryptor; a DACP command works for
seconds from a copy of what requests keep overwriting; Windows completes
deregistrations when it likes. There are no tests in the repository beyond a
self-test of the ciphers.

What makes each part correct:

* PCM output: frames reach the host at most once and in order, the newest ones
  survive overflow, the counters add up, hardly anything of the previous session
  is played after a reset, no frame is forgotten, the destructor returns.
* TcpServer: `stop()` returns and leaves nothing behind; it can reach every
  connection.
* Sessions: a set-up leaves nothing of earlier keys in force, what is played comes
  from the sender in force when senders take turns, and the host's playback state
  follows RECORD and TEARDOWN.
* DACP: a command reaches the sender whose token it carries; a stale cache heals.
* Advertiser: one way of advertising at a time, silence after `stop()`, no memory
  released under a callback.
* Session: `start()` leaves nothing behind when a part fails and reports which one
  it was, `stop()` ends every thread before what it uses goes, and both return.
* UdpProbe: no socket lost, no packet for a callback that is gone.
* Framing and control: the same requests for every chunking; what the host is told
  and what GET_PARAMETER answers agree; keys go with the handshake they belong to.
* Audio path: every datagram size is refused or decrypted as a whole, the decoder is
  that of the stream in force, the counters add up.
* Crypto calls: no handle leaks and no half result, whichever provider call fails.
* Readers and writers of formats: what one part writes another reads, nothing is
  read past the end, and every reader ends.

## 2. Plan

In this order:

1. `InOrderAudio` (abstract), `PcmOutput` (implements it), `PcmOutputProofs`
2. `TcpServer`, `TcpServerProofs`
3. `Receiver`, `MCReceiver`, `ReceiverProofs`
4. `DacpClient`, `MCDacpClient`
5. `DnssdAdvertiser`, `DnssdAdvertiserProofs`
6. `CryptoCalls`, and `AudioPath` on top of it, `AudioPathProofs`
7. `FairPlay`, `BinaryPlist`, `DnsPacket`, composed in `Readers`; `ModifiedMd5` beside
   them in `MCFormats`; `PeerInputProofs` for the readers and `DacpClient`
8. `RtspFraming` and `ControlSession`, composed in `Connection`, `MCConnection`,
   `ConnectionProofs`
9. `UdpProbe`, composed with the session's own steps in `SessionLife`,
   `SessionLifeProofs`

What would come next is section 7.

## 3. The modules

### PcmOutput, InOrderAudio

`src/src/audio/raop_audio_decryptor.cpp`. One program counter `ppc` for whichever
thread holds `Session::mutex` (the packet thread in `enqueue_pcm`, or a connection
in `reset` + `configure_crypto`), one for the output thread (`wpc`), and `phase`
for the host. `output_mutex_` and `stats_mutex_` are different locks, so every
critical section is a step: push, count and notify are three. `output_running_` is
read without a lock; the read sees the value before or after the write. Frames
are numbered; samples do not matter. History variables: `produced`,
`lastAccepted`, `resetMark`, `late`, `carried`.

`InOrderAudio` is what the host is promised: each frame at most once, in order,
and at most one frame of the previous session after a reset.

### TcpServer

`src/src/net/tcp_server.cpp` with the loops of `Session::start`, `stop` and
`handle_client` around it. `hpc` is the host inside start or stop (one value per
step of `TcpServer::stop`), `apc` the accept thread, `cpc[c]` the thread of
connection `c`, `peer[c]` its remote end. `client_sockets_` holds handles; a closed
handle may be given to the next connection, as WinSock does. The history variable
`clashed` notes that this happened before the last owner had unregistered it.

### Receiver

`handle_client` and the callbacks of `session.cpp`, `ControlSession::handle`, and
`reset`, `configure_crypto`, `configure_stream`, `handle_packet` of the decryptor.
A handler touches shared state in one callback under `Session::mutex`, so it is
one action. Keys and streams are named by the serial number of the request that
installed them. ChaCha20-Poly1305 accepts packets under its own key only; AES-CBC
accepts anything, so no claim is made about what it lets through. The history
variables `exclusive` and `orderly` say whether senders have so far taken turns and
set up keys before streams; `AudioFromOneSender` and `RecordAnnounced` are claimed
for such senders only. Senders at once can be mixed, one's stream with the other's
keys; `SetupsMatch` says when. `tidy` says that nobody has left a RECORD standing and
no packet has come late, which is what `PlaybackEnds` needs.
Requests that only answer or inform the host (OPTIONS, GET, parameters, PAUSE,
FLUSH, feedback) change none of this state and have no action here. FLUSH reaches
neither the decryptor nor the output queue, although its handler reports "FLUSH
buffer reset": frames decoded before it are still played.

### DacpClient

The part of `handle_client` that notes the remote-control address, the host's
`send_control_command`, and `src/src/net/dacp_client.cpp`. A command is five steps
(copy, cache, discovery, connection, answer) from its own copy of the address;
discovery may also fail for want of a socket, which ends the command at once.
The senders' services are external: they listen on one port, may restart on
another, and accept only their own token. `Headers` says which of the two headers
requests carry.

### DnssdAdvertiser

`src/src/discovery/dnssd_advertiser.cpp`: `apc` is the caller inside `start` or
`stop`, `then` what follows an inner `stop()`, `worker_` the UDP responder's
thread. Each service that Windows accepted is an entry of `registrations`, with
whether Windows still has it (`live`) and with the completion of its withdrawal;
`instance_` are the two pointers, which name entries. The two are kept apart because
`Release` drops the pointer whatever Windows did: a withdrawal that fails or is not
answered in time leaves the service registered. The slot is chosen by the text
"_raop" in the instance name, so a device whose name contains it (`named`) puts both
services into one slot. Windows' callback first writes into the completion and then
sets its event. The responder's `stop()` clears its flag, closes the receiving socket
and invalidates the handle in three steps; the worker tests the handle, selects on it
and reads it again for `recvfrom`, which has no time-out. In between another socket of
the process may be given the handle, and the worker then waits for its datagrams
(`Blocked`). Whether the program runs under Wine is decided anew in each start, which
includes both fixed cases.

### CryptoCalls, AudioPath

`CryptoCalls` is `src/src/crypto/crypto.cpp`: one call at a time, as the sequence of
Windows provider calls it makes (`pc`), each of which may fail; `handles` is what it
has opened, `output` the caller's buffer. AES, the authenticated cipher and the
digests share the actions, the self tests are callers. `AudioPath` follows a datagram
through `parse_header`, the choice of key in `handle_packet`, the payload layouts of
`payload_crypto.cpp`, a call of CryptoCalls and the ALAC decoder, between set-ups of
keys and streams. Whether the host takes audio (`on_audio_`) is decided once; without
a callback a frame is decrypted, counted and not decoded. Sizes are the code's. It is the sequential detail behind one action
of `Receiver`: there the senders interleave, here the bytes and errors are counted.

### FairPlay, BinaryPlist, DnsPacket, Readers, ModifiedMd5

Algorithms on data, each a machine that does one job from its initial state.
`FairPlay` (`fairplay.cpp`, `fairplay_v3.cpp`) has the envelopes with their sizes, and
the key derivation with each byte replaced by the set of input bytes it depends on: a
table look-up keeps the set, a XOR joins two. That is enough to tell a wrong lane,
block or round, and needs no table. `BinaryPlist` (`plist.cpp`)
parses byte sequences with the stack of the recursion as a variable, and writes the
answer to SETUP; sizes wrap at `WordBytes` bytes, which is 8 in the code. `DnsPacket`
has `put_name` and the announcement of the advertiser, its matching of questions, and
the two readers of names, `read_name_at` of the DACP client and the responder's.
`Readers` puts the three side by side; they share nothing. `ModifiedMd5` computes, on
32-bit words held as bytes, the digest of the vectors of `fairplay_self_test`; it is
kept out of `Readers` because it uses bitwise operators.

### RtspFraming, ControlSession, Connection

`RtspFraming` is the buffer of `handle_client` and `try_parse_request`. The bytes of
a request are cells (head, end of head, body). The sender appends requests to
`stream` at any time (`Send`) and recv delivers the cells in any pieces; the history
variable `ends` notes where each request ends. Sizes wrap at `SizeWord`, which stands
for 2^64 and is larger than all that the run sends. What a body leaves in front of the
next head garbles its method, or, if it holds a line break, makes the start line
malformed.
`ControlSession` is `ControlSession::handle` for one connection, one operator per
route, with the announced stream, the fp-setup state, the volume and what the
callbacks were `told`. A request is a record of what the parsers look at. `Connection`
composes them: what is handled is what the framing delivers. `RequestsAssumption`
and `Contents` say what any set of requests has: lengths that are natural numbers, a
volume or none, three times of 64 bits or none.

### UdpProbe, SessionLife

`UdpProbe` is `src/src/rtp/rtp_receiver.cpp`: `upc` and `k` are the position of the
thread inside `start()` or `stop()` and the socket it is at, `thread[s]` the position
of each receive loop. `socket_handle` is a plain variable: a loop reads it in one step
and receives from it in another. `foreign` are other sockets of the process, which may
be given a handle that was just closed; they have no time-out, so a loop that receives
from one waits until a datagram comes or that socket is closed. `SessionLife` composes
it with `Session::start`, `stop` and the destructor (`hpc`), the thread of a connection,
`Session::mutex`, and a thread of the host that sends commands (`cmd`): these set
`last_error` and emit events at any time, also when the receiver is stopped. The
server and the advertiser are up or down here; their own steps are in TcpServer and
DnssdAdvertiser.

## 4. What TLC checks

| Run | Instance | Shows |
|---|---|---|
| pcm | capacity 2, 5 frames, fair | `QueueIsNewestSuffix`, `StatsConserved`, `StaleFramesBounded`; `HeldUntilAccepted` while the stream runs; PcmOutput implements InOrderAudio (`InOrder`); `FramesSettle`: no lost wake-up if the host accepts some time; `DestructorReturns` with a host that refuses for ever |
| pcm_stop | violation, 2 frames | `NoCallbackAfterStop`: the output thread goes on calling the host after `stop()` |
| tcp | 3 connections, 2 handles, fair | `StoppedIsQuiet`; `SweptUnblocks` and `StopReturnsUnlessClashed` with silent peers, unless a handle was reused too early; `StartReturns` unless a peer that no shutdown() reached stays |
| tcp_stophang | violation, 2 connections, 1 handle | `StopReturns`: `stop()` may wait for a silent peer |
| receiver | 2 senders, 4 set-ups | `SetupsMatch`; for senders in turn, `AudioFromOneSender`, `RecordAnnounced`; for senders that end what they start, `PlaybackEnds` |
| dacp_cache | 2 senders, 2 threads, 1 move, 1 fault | `CacheVerified` |
| dacp_retry | 1 sender, 2 threads, 2 moves, 2 faults, fair | `Recovers` |
| dnssd | 2 starts, fair | `OneWay`, `RunsOrSilent`, `CompletionOutlivesCallback`; `Returns` unless the worker is left on another socket |
| audio_path | with and without an audio callback, 6 datagram sizes, 0 or 4 CSRCs, 3 packets between set-ups | `AllOrNothing`: handles, output and self tests when any provider call fails; `WholeFrames`, `DecoderFollowsStream`, `CountersAddUp` |
| formats | envelopes, documents, names and packets of `MCFormats` | `ReadersStayInside` and `WrittenIsRead` for FairPlay envelopes, property lists and DNS packets; `KeyDerived`; `VectorsHold` for the MD5 variant |
| connection | 3 of 23 requests, sent while others are served, 4 handled, every chunking | `ServedInOrder`; `KeysUseHandshake`, `ReportsRight` |
| life | 2 starts, 2 sockets, 2 handles, fair | `NothingOutlivesStop`, `UsedWhileThere`, `AtMostOneStolen`; `FailureReported` and `StoppedIsLastWord` beside the host's own commands; `CallsReturn` if the connection ends and no loop is left on another socket |

Every property of a passing run has a mutant in PROJECT.json: a plausible slip in the code that TLC finds.

**Bounds.** Capacity 2 and five frames let the queue overflow several times around
a reset and a held frame. Three connections over two handles give one thread that
closes, one that reuses its handle and one bystander. Four set-ups are two
sessions of keys and stream. Two host threads and
one move are what it takes to put a dead address back into the cache; the second
move and fault repeat it. Two starts are a start over a running advertiser of
either kind. `dacp_cache` uses senders that send both headers or none, which keeps
the cache small; the other DACP runs and the proofs have no such limit or a weaker
one. Symmetry is used for safety only.

In audio_path the datagram sizes lie on both sides of each limit (12 bytes of header,
16 for CSRCs, 24 of nonce and tag); `Word` is 2^16, so that a frame size can be a
multiple of it. In formats the documents hold all triples of 19 objects, among them
truncated ones, ones that contain themselves and ones whose end wraps; two-byte sizes
leave room for all of them and let counts wrap. The names lie on both sides of 14, 63
and 255 bytes, where encodings change. In connection three requests are what a
handshake or an announcement with a later SETUP takes, and 62 + 2 is a length that
wraps. In life the second of two sockets stands for the two that are alike
(`control_` and `timing_`; the proofs are for any number), another socket takes a
handle over once it is closed, before the thread that still holds it has received, and
the second start meets what the first left.

**Fairness.** Threads of the library run when they can (weak fairness of each
thread's own steps). Peers, senders, the host and Windows owe nothing, except: the
premise of `FramesSettle` is that the host does not refuse one frame for ever
(strong fairness of acceptance, the meaning of back-pressure); in dacp_retry hosts
repeat commands and the sender keeps sending requests with its headers. The callback
of the host returns. `recvfrom` returns within the 500 ms the probe sets on its own
sockets; on another socket it returns only if it is free to, so the loops of the probe
and the worker of the responder have strong fairness of the steps that are not blocked
there. A mutex that is free again and again is acquired some time (strong fairness).
No peer has to leave and no foreign socket to close; where the code depends on one,
that is the premise of the property: `StartReturns` (a peer no shutdown() reached),
`CallsReturn` (the connection, and a loop left in recvfrom on another socket) and
`Returns` (the responder's worker).

**Deadlock** is checked except where the system may stop: PcmOutput and SessionLife
end with the destructor, a job of MCFormats and a connection end when they are done.

## 5. Findings

* A connection's thread closes its socket before it unregisters the handle; a new
  connection with the same handle is then unknown to `stop()`, which waits for its
  peer (tcp_stophang). Where no handle is given out in between, `stop()` always
  returns (`StopReturnsUnlessClashed`): the order of the two steps is what matters.
* `Session::stop()` leaves the output thread calling the host, while
  `airplayc.h:77-78` says that a frame is retried "until accepted or the stream stops"
  (pcm_stop). `HeldUntilAccepted` states the half of the sentence that holds.

Other behaviour that a reader may not expect. It is part of the models; the property
named has it as a premise or an exception, and fails without.

* A failing `start()` stops the server while `running` is still true; a connection
  registered after the sweep keeps it waiting for its peer (premise of `StartReturns`).
  `Session::stop()` clears `running` first and has no such problem (`SweptUnblocks`).
* Two senders at once can be mixed: the one decryptor then has the keys of one and the
  stream of the other (`SetupsMatch` says when; `AudioFromOneSender` is for senders in
  turn).
* A sender that leaves without TEARDOWN, or a packet that comes after it, leaves
  `playback_active` set, and the next RECORD is not reported (`tidy` of `PlaybackEnds`).
* A device name that contains "_raop" sends the AirPlay service into the slot of the
  RAOP service (`dnssd_advertiser.cpp:1028`), which is then never withdrawn
  (`Overwritten` in `OneWay` and `RunsOrSilent`).
* A service whose withdrawal Windows refuses or does not answer within 1500 ms stays
  registered, also beside the UDP responder (`GivenUp`).
* A thread that received from a handle which was closed and reused in between waits
  for the datagrams of the other socket, and `stop()` for the thread: the probe's
  loops (premise of `CallsReturn`) and the responder's worker (premise of `Returns`).
* A command after `stop()` is reported after `ReceiverStopped`, and a failed one
  replaces the error of a failed `start()` (`StoppedIsLastWord`, `FailureReported`).
* The fallback address and the token of `dacp_remote` may belong to two senders
  (`TokenReachesOwner` of DacpClient, which no run claims).
* If `CreateEventW` fails, a completion is deleted while its callback is pending
  (`CompletionOutlivesCallback` with `EventsCreated = FALSE`); otherwise it never is.
* The sum of a count and an offset in `plist.cpp:363` may wrap, and the check of it
  passes; `ReadersStayInside` excludes that case.
* A malformed request line stays in the buffer: nothing that follows on the connection
  is handled. A Content-Length near 2^64 wraps in the sum with the length of the head:
  what has arrived becomes the body, and reading goes on at a wrong place. `ServedInOrder` is for senders that keep to
  the protocol.
* A device name with a label of more than 63 bytes is announced shortened and then
  asked for in vain; `WrittenIsRead` excludes it.

## 6. What is proved

All proofs hold for every value of the constants; nothing is assumed but the named
assumptions on constants (capacity positive, bounds natural, "none" not a member, bytes
below 256). Some of them state facts rather than limits, which TLC evaluates in the run
formats: `WordBytesAssumption`, that 256 ^ WordBytes is a positive natural number, since
the prover knows no powers; `DocumentsAssumption` and `PacketsAssumption`, that what is
read is a sequence of bytes, also where the writers of the model wrote it.

* **PcmOutputProofs**: `TypeOK`, `QueueIsNewestSuffix`, `StatsConserved`,
  `StaleFramesBounded`, `HeldUntilAccepted`, and `Spec => InOrder`. The inductive
  invariant adds three parts: `StaleInv` (queued frames are newer than the reset;
  the held one is old only while no old one has been accepted), without which the
  bound on stale frames is not preserved by an accepting callback; `ConfigureInv`
  (nothing is pushed between clearing the queue and zeroing the counters), which
  the conservation law needs at the second zeroing; and `PhaseInv` (the worker's flag
  is set exactly until the destructor clears it).
* **TcpServerProofs**: `TypeOK`, `StoppedIsQuiet` and `SweptUnblocks`. The invariant ties flags to the host's position
  (`FlagInv`), lets at most one connection be accepted and unregistered
  (`AcceptInv`), keeps every thread in the hands of someone who joins it
  (`ThreadInv`), gives every registered handle an owner who will unregister it
  (`SocketInv`). Until there is a clash, connections whose socket is open or whose thread
  lives have different handles (`HandleInv`) and the sweep can reach each (`Tracked`).
* **ReceiverProofs**: `TypeOK`, `SetupsMatch`, `AudioFromOneSender`,
  `RecordAnnounced`, `PlaybackEnds`. `SetupsMatch` needs `OlderKeys`: each sender
  with keys on its connection made a set-up no younger than the keys in force.
  `AudioFromOneSender` and `RecordAnnounced` need
  `OneSender`: with
  senders that take turns the keys in force are owned by any sender that has set
  up keys on its connection, and the stream in force has the owner of the keys.
* **PeerInputProofs**, about what peers send. Of DacpClient, `TypeOK` and
  `CacheVerified`, inductive as they stand. Of `Readers`, `ReadersStayInside` and
  `KeyDerived`, for documents and packets of any length and content and messages of any
  size. The theorems are about `ReadersSpec`; the run formats checks the same properties
  of it with the independent digest beside it. The invariant has a part for each reader:
  * `FairPlayInv` says where each byte of the state comes from at each round.
    `KeyDerived` speaks of the end only, so each phase needs its own part: after one round
    of `message_decrypt` a lane holds the bytes of one word, after two all of its block
    (`TwoRoundsMix`, from the table of lanes), and what is written is the block and the
    byte 16 before (`MessageFlow`, `OutputDone`); a byte of the session key comes from all
    blocks hashed so far (`SessionFlow`), each round key from the whole core
    (`ScheduleFlow`), and `block_decrypt` spreads the tail seed the same way (`BlockFlow`).
    That no S-box serves a block twice is that `msg_sbox` is injective (`SboxInjective`:
    97 is invertible modulo 144).
  * `PlistInv` says that the stack holds at most 17 frames, 9 of the describer, that the
    frames hold natural numbers, and that the last read lay inside. The numbers are what
    is needed when the parser returns to a container and reads the next reference from
    its frame; `ObjectInside` to `ContainerInside` show one read each to be inside.
  * `DnsInv` bounds the turns of `query_matches` through a name by its jumps, times the size
    of the packet, plus its position: each turn moves forward or uses up one of eight
    jumps. The other reader counts its turns itself.

* **DnssdAdvertiserProofs**: `TypeOK`, `OneWay`, `RunsOrSilent`, and, if
  `EventsCreated`, `CompletionOutlivesCallback`. `HeldInv` says what is registered at
  each step of the caller (nothing when `stop()` is at its end, which is what makes the
  fallback safe), `WorkerInv` that the worker lives from the fallback to the join and
  that nobody else announces. `SlotInv` and `Placed` tie pointers and registrations: a
  service that Windows still has is in its slot, was overwritten there, or was given up.
  `Sound` says what a completion may look like, in particular that an event that is set
  belongs to a callback that has returned; with `WaitsWithEvent` it is deleted only then.
* **SessionLifeProofs**: `TypeOK`, `NothingOutlivesStop`, `UsedWhileThere`,
  `NoSocketLost`, `AtMostOneStolen`, `FailureReported`, `StoppedIsLastWord`. The
  probe's part of the invariant mentions only its own variables: `SocketInv` (each open
  handle is known, the sockets before `k` are closed while they are being closed, those
  from `k` on unused while they are being bound), `ThreadInv` (threads live within the
  life of the callback), `StolenInv` (while the probe runs a thread receives from its
  own socket; one that took a foreign datagram finds the flag cleared), and `CallInv`
  (the probe is `Down` when a call of `stop()` or a failed `start()` returns). `HostInv`
  lets the session keep it `Down` until the next start, `PartInv` says what else is up
  at each step of the host, and `ReportInv` why only a command can overwrite the error:
  there is no client left when it is written. After `stop()` only commands report.

* **AudioPathProofs**: `AllOrNothing`, `WholeFrames`, `DecoderFollowsStream` and
  `CountersAddUp`, for any sets of datagram sizes, rates, frame sizes and payload
  types, and with no bound on packets. `HandleInv` and `BufferInv` say what a crypto
  call holds and has written at each of its provider calls, which is what makes every
  failure path release as much as was acquired; `WorkerInv` says which functions can be
  at which provider call. `TestInv` says that a self test has passed the vectors before
  the one it is at. `PacketInv` ties the call in progress to the datagram it is made for
  (its input is the payload less nonce and tag, or whole AES blocks), from which the
  plaintext can be counted when it returns. `KeyInv` (an AES key never without its IV) is needed
  because key and IV come from two set-ups; `StreamInv` is the configuration of the
  decoder, and `StatsInv` the conservation law with one datagram counted as seen and
  not yet decided.
* **ConnectionProofs**: `ServedInOrder`, `KeysUseHandshake` and
  `ReportsRight`, for any set of requests, bodies of any length, any number of requests
  and any chunking. `StreamInv` says that each request lies in the stream, head and
  blank line first, behind the one before it, also as the sender adds more. With it
  `OrderInv` (of a sender that keeps to the protocol the first requests were handled
  and the buffer starts where the next begins) is inductive: `NextRequest` shows that
  the first blank line in the buffer is that of this request and that its end does not
  wrap, and `WaitFraming` that the loop goes back to recv only if it has not wholly
  arrived. `HandshakeInv` says that the mode and message kept are those of the last
  fp-setup accepted, or the initial ones. `ReportInv` is `ReportsRight` with the fields
  that the callbacks have; each handler either leaves volume and progress alone
  (`Elsewhere`) or sets them from values in range (`VolumeSet`, `PlistVolume`,
  `ProgressIsRight`). `HandlersReport` and `HandlersKeep` have one step per handler.

Only model-checked: the liveness properties (`FramesSettle`, `DestructorReturns`,
`StopReturnsUnlessClashed`, `StartReturns`, `Recovers`, `Returns`, `CallsReturn`), which are out of
the prover's reach under fairness, and two properties of formats. `WrittenIsRead` says
that a list or a name read back is the one written, which takes induction over the data
and is beyond the prover. `VectorsHold` is a computation on the vectors of the self test,
with bitwise operators that the prover does not know.

## 7. What is not modelled

The ciphers of Windows and the ALAC decoder (only whether they accept, and how much
they return); the contents of `fairplay_tables.h` and the garbling steps that only mix
them; the contents of metadata, artwork, TXT records, `/info` bodies and log lines, and
with them base64, hex, DMAP and the request traces, on which no control depends; the
XML functions of `plist.cpp`, which nothing calls; the unused silence pipeline; the
harness. The retry counter of the statistics is left out. `start()` and `stop()` are
called from one thread, and the host stops a session before it destroys it, as the
harness does. Commands come one at a time from another thread. The callbacks of the
host do not call back into the session.
