# Verification of go-game-proxy

TLA+ modules that model the proxies of this repository, TLC runs that check them
on small instances, and theorems that TLAPS checks for every instance. Line
numbers are those of the Go files under `src/`.

## 1. The system

The repository holds three programs that share no state.

* **gotun2socks**, the largest, turns the packets of a tun device into connections
  through SOCKS and HTTP proxies. `tun2socks.go` reads and writes the device,
  `tcp.go` and `udp.go` keep one *track* per connection, and `gosocks/` speaks SOCKS.
* **kcp/** is a tunnel in two halves, with a cipher between them.
* **socks/server/Server.go** is a plain SOCKS5 server.

| component | state | operations | talks to |
|---|---|---|---|
| TCP track, `tcp.go` | `tcpConnTrack`: TCP state, sequence numbers, two windows, `connectState`, the socket, two quit channels, `destroyed` | `run()` with its eight states, the reader `tcpSocks2Tun`, the writer it starts | tun reader (`input`), tun writer (`writeCh`), upstream socket |
| track tables, reader, writer, `tun2socks.go`, `tcp.go` 945-1041, `udp.go` 346-415 | two maps with a lock each, `writeCh`, `stopped`, `wg` | `Run`, `tcp()`, `udp()`, create, get, clear, `Stop` | every track |
| UDP track, `udp.go` | `fromTunCh`, four channels that are only closed, two sockets | `run()`: handshake, select; `newPacket`, `send` | SOCKS server, `ConnMonitor`, `UDPReader` |
| DNS cache, `udp.go` 417-484 | map from question to answer and expiry | `query`, `store` | `udp()`, UDP track |
| IP reassembly, `ip.go` | map from IP id to partial packet | `procFragment`, `genFragments` | tun reader |
| application lookup, `uid.go` | none (`/proc/net`) | `FindAppUid` | TCP track |
| packets, pools, device | none of their own | parse, serialise, get, put, `Close` | everything |
| SOCKS client and codec, `gosocks/basic.go`, `client.go` | none | read and write messages, dial | both tracks |
| SOCKS server, `gosocks/server.go` | handler, authenticator, `msgCh`, `quit` | `Serve`, `ChangeAuth`, `ChangeHandler`; CONNECT, UDP ASSOCIATE | its clients |
| tunnel, `kcp/service`, `kcp/util` | two buffer pools | `handle`, `serverSide`, `clientSide`, `pipe` | its peers |
| ciphers, `kcp/cipher` | a substitution table | encrypt, decrypt | tunnel |
| SOCKS5 server, `socks/server` | a buffer pool | `process`, `transport` | its clients |

What is hard: each TCP track has three goroutines that share its fields without a
lock, and ends in five ways, each of which closes and sets something different;
tracks are deleted from the tables by identifier and not by pointer, so that an old
one may delete a new one; `Stop` keeps two locks while it waits for a goroutine
that takes them; channels are closed from several places, where a second close ends
the process; goroutines wait for each other over unbuffered channels. `PROJECT.json`
lists the hazards at their lines with the properties that watch them.

What makes each part correct: the bytes of a connection arrive in order, once; what
is opened is closed, by whatever way a track ends; whoever waits for a track is let
go when it ends; a live track is what its identifier maps to; `Stop` reaches every
track and returns; every goroutine ends; no channel is closed twice; no buffer has
two users.

## 2. Modules

| module | models | proofs |
|---|---|---|
| `TrackLife` | the contract of a track, TCP or UDP: how `run()` ends, which channel it leaves closed, which flag set | |
| `BytePipe` | what either direction of a connection promises: bytes come out that went in, with no more than so many between | |
| `TcpTrack`, `TcpTrackProperties` | one TCP track and its three goroutines | `TcpTrackProofs` |
| `TrackTable`, `TrackTableProperties` | tables, `Run`, the dispatchers, `Stop`; a track is what `TrackLife` says | `TrackTableProofs` |
| `UdpTrack`, `UdpTrackProperties` | one UDP track, `ConnMonitor`, `UDPReader`, and what they wait for | `UdpTrackProofs` |
| `UdpReader` | `gosocks.UDPReader`, instantiated once by `UdpTrack`, twice by `SocksHandler` | |
| `Fragments` | the packets of one response | `FragmentsProofs` |
| `Reassembly`, `DnsCache`, `GoMaps` | the table of `procFragment`; the cache of DNS answers; assignment to an entry of a map, which both use | |
| `Datagrams`, `DatagramsProperties`, `MCDatagrams` | the way of datagrams from the device and back, composed of the three modules above | `DatagramsProofs` |
| `SocksServer`, `SocksServerProperties` | `Serve`, its accepting goroutine, the callers that change it, and the handler of one client | `SocksServerProofs` |
| `SocksHandler`, `SocksHandlerProperties` | that handler; instantiated by `SocksServer` | `SocksServerProofs` |
| `TwoWayCopy`, `TwoWayCopyProperties` | the connections of the tunnel and of the SOCKS5 server | `TwoWayCopyProofs` |
| `Bytes`, `SocksCodec`, `Ciphers` | SOCKS messages byte for byte, the choice of a method; the tunnel's cipher: operators, without state | `CodecProofs` |

`TrackLife` is the abstract specification that ties the tun2socks modules together:
`TcpTrack` and `UdpTrack` implement it (`ImplementsTrackLife`), and `TrackTable` runs
one copy per track (`TracksLive`), so that what is shown of the tables rests only on
what is shown of the tracks. `BytePipe` is a second one, of data: `TcpTrack` implements it twice,
from what is acknowledged to the client to what the socket accepts (`ImplementsPipeToServer`) and
from what is read from the socket to what is sent to the device (`ImplementsPipeToClient`).
A way that is cut delivers nothing more, so that the bound on what is between its ends is also
how much a connection can lose: the code closes sockets over full channels.

The operators called "Mutant" in the modules are plausible mistakes; the list in
`PROJECT.json` says which property each of them breaks. No specification uses them.

### State and code

* **`TcpTrack`.** `tt` is the struct, field by field; `run`, `rd` and `wr` are the program
  counters and locals of the three goroutines; `h` is history that no guard reads.
  A step is what a goroutine does between two points where another can see or change
  what it uses: each access the code makes to `connectState`, `recvWindow`,
  `sendWindow` or `destroyed` on its own is a step of its own, and a handler without
  such an access is one step (`StateSynRcvd` is `stateSynRcvd`, with the sends and the
  window it updates). The five ways out of `run()` go through `Ended`, `SelectTimeout`
  and `SelectQuit`; `ClearTrack` is `clearTCPConnTrack`, which takes a lock after the
  channel is closed. A payload is its position in the stream, sequence numbers are
  modulo `SeqMod`, a packet released to the pool and read again (727) has any FIN flag.
  `PeerResets`, `ForeignClear` and `Supersede` are what others do to the track. `table` is what the
  track sees of its table: whether it is in it, and whether `Stop` has the lock, which it keeps from
  before it reaches the track until the tun reader has ended (`StopReturns`, which may be never).
  `h.connects` counts the writer's CONNECTs, each written before `connectState` says so (`WriterSent`);
  that of a SYN that carries data (`EarlyConnects`, 424-428) is written while dialling, on a nil connection
  if the dial failed (`DialPanics`).
* **`TrackTable`.** A critical section is a step, disabled while `Stop` keeps the lock.
  Reading the device, testing `stopped`, looking a track up, testing its `destroyed`,
  creating and delivering are steps of their own: the gaps between them are where
  a track goes away. `Stop` visits one track per step, in any order. Only a DNS request can
  escape the lock of the UDP table by an answer from the cache, whose packets a goroutine
  puts in `writeCh` (`answers`, `AnswerPushed`) beside those of tracks (`queued`).
* **`UdpTrack`.** `run()` from `dial` to `done`; a channel that is only ever closed is the
  number of times it was, so that a second close shows. `GiveUp` is every early return
  of the handshake, `Leave` every way out of the select but `Stop`'s.
* **`Datagrams`.** The reader's turn is one step (the handover to a track is `TrackTable`'s matter)
  but for an answer from the cache: `ReadHit` is `query`, under the lock, and `Pack` what follows
  without it, the serialisation of the shared message and the packets of the response (`PackFails` if it cannot
  be serialised, and the request goes to a track); the reader takes its next packet afterwards (`ReaderFree`). A track waits, sends, stores; `pushing` is what a
  goroutine, of a track or of an answer, has still to put in `writeCh`. A packet is its place in
  the response, its IP id, its header's offset and flag. A message is named for the
  request it answered, is stored under the question it repeats, whatever that is, and `msgId` is the field that `query` overwrites. `begun`, `lost`, `passed`,
  `stores` and `found` are history. The device may lose packets and mixes those of several datagrams.
* **`SocksServer`.** `serve` is the goroutine of `ListenAndServe`, `acceptor` the one that accepts, `accepted`
  what it offers on `ch`; taking from an unbuffered channel is one step of both sides. A call of
  `ChangeAuth` or `ChangeHandler` is named by what it passes: `Nils` are the calls with nil, `Authenticating` the handlers that have a
  `ServerAuthenticate` too. `Serve`'s type switch asks for an authenticator first, so that these
  replace the authenticator, and a nil matches no case (`SetsAuth`, `SetsHandler`, `TakeNil`). The handler of
  `Watched` is `SocksHandler` in full (`Serving`), started by `TakeConn`.
* **`SocksHandler`.** `handler` is the function the client's goroutine is in; `copier` the two
  goroutines of `CopyLoopTimeout`; `clientReader` and `remoteReader` two `UdpReader`s.
  An early return is an action with the sockets it closes, no more.
* **`TwoWayCopy`.** `program` is which of the three programs it is, chosen at the start; they
  differ in the order of the preparation, in who closes the sockets, in the error channel (none or one error
  fits) and in the copier that goes on after a failed write. Buffers are numbers,
  given out as the pool makes them. `closing` holds the sockets a deferred call will close: `handle` defers one, `clientSide`,
  `serverSide` and `pipe` both, `process` both but only when the client has been told. Before that its early
  returns close the client's socket (`RequestFails`) and the target's (`AnswerFails`) by hand.
* **`SocksCodec`, `Ciphers`.** A message is the function from places to bytes that the code copies
  together; a host is the bytes of its address or name. A function that reads ends in data, an error or a panic; `NameEnd`
  is a byte, as in the code. `Decoded` is the table `NewCipher` fills in order.

### Abstractions

Time is not modelled: an armed timer or deadline may fire at any moment. A data race
on a word is one atomic access. `Stop`'s three stores per TCP track are one step
in `TcpTrack`; `stopped` is left out there, since every track is marked by the
time it is set (`StopReachesAll`). `writeCh` takes every packet in `TcpTrack`;
`TrackTable` and `UdpTrack` model it full with answers of one packet, `Datagrams` with
answers of several. What `Stop` does first, telling the tun writer and closing the device, is in `TrackTable` only. The lock of the UDP table is always free in
`UdpTrack`; `TcpTrack`, of its own table, and `TrackTable` show what happens when it is not. In the SOCKS server and the
tunnel what is relayed is not modelled, only whether a copier holds something. Goroutines of
other connections than the watched one touch nothing of the server but what they were given. In
`Datagrams` a track gives one answer, and a clock that ticks `MaxTime` times stands for time.

## 3. Runs

| run | bounds | checks |
|---|---|---|
| `upstream` | 2 client bytes, segments of 1 or 2, a window of 2, numbers 0..15 from 13, direct dial | `TypeOK`, `UpstreamFifo`, `SocketReleased`, `ImplementsTrackLife` |
| `downstream` | 5 server bytes, where 4 may be on the way, windows 0 and 2, HTTP proxy then SOCKS upstream | `DownstreamFifo`, `ClosedOnce`, `ReaderEnds`, `ImplementsPipeToClient` |
| `http_proxy` | port 443, HTTP proxy, a SYN with data, 3 client bytes, where 2 may be on the way, segments of 1 | `ConnectFirst`, `StopEndsRun`, `WriterEnds`, `ImplementsPipeToServer` |
| `table` | 1 connection, 2 TCP tracks, 2 UDP tracks, `writeCh` of 1, 1 answer from the cache | `LiveIndexed`, `UdpEntryKept`, `StopReachesAll`, `StopIsFinal`, `TracksLive`, `StopReturnsUnlessHeld` |
| `udp_track` | queues of 1 | `ClosedOnce`, `SocketsReleased`, `ImplementsTrackLife`, `TrackEnds`, `HelpersEnd`, `DeliveryReturns` |
| `datagrams` | 4 DNS requests for two names, 2 fragmented datagrams, 4 mixes of them, 2 IP ids, `writeCh` of 1, a clock of 0..2 | `TypeOK`, `Reassembled`, `CachedAnswers`, `AnswersInOrder`, `AnswersWhole` |
| `socks_server` | 2 clients, one of them watched, `ChangeAuth(nil)`, a handler, and a handler that is an authenticator | `ChangeInForce`, `NoneStranded`, `Released`, `ChangeReturns`, `AcceptedServed`, `HandlerReturns`, `EndsTogether`, `HelpersEnd` |
| `two_way_copy` | 1 connection, each of the three programs | `BuffersExclusive`, `PairEnds`, `CopiersSettle` |
| `window`, `refused`, `stop_marker`, `offsets` | as small as shows it | one property each, violated: section 6 |

The bounds, and why they are enough. Two bytes in segments of one or two give a
segment in front of, behind and across what has been acknowledged, a retransmission and
a gap. The streams of `downstream` and `http_proxy` are one byte longer than what may be on the way, so that
the bound of `BytePipe` is reached and would be passed, and so that `run()` meets a full channel whose
reader is waiting: `StopEndsRun` without its exception holds with one byte less. Sequence numbers that start at 13 of 16 wrap within the run. Queues of one are full
and empty in turn, which is all the code distinguishes. `MaxFins` stops the repeated FINs
at two in `upstream`, one more than a correct end sends, and at one in `downstream` and `http_proxy`, where data follow the first;
any number is in `AlwaysDownstreamFifo`. In `downstream`
the application is found late, so that one proxy is dialled and another spoken to; in `http_proxy` it is
known, and that a CONNECT goes first also to a proxy that is found late is `AlwaysConnectFirst`. `FastOpen` says
whether the SYN carries data, and `IdShared` whether other tracks may have the id of this one and clear or replace
its entry, which `http_proxy` leaves to the other two runs. Two tracks of one identifier
are needed for a clear that hits a newer track; that a third changes nothing is what the theorems
of `TrackTable`, over any number of tracks, add. More connections would not share anything but the
locks and `writeCh`. The mixes of `datagrams` are the smallest in which an entry is replaced
while its message is being answered with (three requests for one name), two entries live side by side, a
response in pieces meets an answer from the cache, and fragments of two datagrams mix, with one
id or two; the responses have one, two and three packets, one of them as long as just fits, and
the IP ids wrap at 65535. In `socks_server` one client's handler is enough for the server, which
does not look at it again; a second client keeps it accepting; its three calls are one of each case of the type
switch; more of a kind are in the theorem. One
connection of `TwoWayCopy` has two copiers, one of which may draw the buffer the other
put back; that many connections share no buffer is the theorem.

`CHECK_DEADLOCK FALSE` is in every configuration, since each system comes to rest: the
track is gone, the stop has returned, the connection is closed.

Violations that are expected and not findings are written into the properties, at the place
where they occur: `StopReturnsUnlessHeld` names the four places where the reader keeps `Stop`
from returning, `ReaderEnds` the three where a TCP reader stays behind, `WriterEnds` the one of
the writer, `StopEndsRun` the two where `run()` waits, for that writer or for the lock that `Stop` keeps, `SocketsReleased` the socket a failed handshake forgets, `Released` the two
early returns that leave the client's connection open, `CopiersSettle` the copier of the tunnel that
nobody receives from, `AnswersWhole` the responses that wait for a writer that has quit,
`ChangeReturns` the server that never listened,
`Reassembled` ids in use twice and lost fragments. Each exception names the
places in the code and nothing else, so that the rest of the property is still checked.

## 4. Fairness

Weak fairness of a goroutine's own steps is what Go's scheduler gives: one that can move
does. Nothing is assumed of the client, of peers, or of the order of their packets; no
environment action is fair.

* `TcpTrack`: `run()`, the reader and the writer, until the process ends. A dial, a handshake
  with a deadline and a timer return one way or the other and are steps of these.
* `TrackTable`: the reader, the starts of the goroutines, the tun writer's end, and `Stop`. The
  device need not deliver anything.
* `UdpTrack`: also strong fairness of the ready cases of a select, which picks at random, of a
  send to a channel that has room again and again (senders queue in order), and of
  a reader's quit. A read is only sure to fail once its socket is closed. The timer is part of
  the select: with fair steps it fires if nothing else happens.
* `Datagrams`: the tun writer while it runs, and one of those who wait for room in `writeCh` (weakly:
  senders queue in order). Neither the reader nor the tracks are fair, as `AnswersWhole` is about
  responses that have begun.
* `SocksServer`: the loop of `Serve` and a call that can return. A connection offered and a change
  offered are both taken, since the loop comes back to the select each time. `Accept` may wait for ever.
* `SocksHandler`, instantiated there: as `UdpTrack`. The two copiers share one weak fairness, because traffic in one
  direction moves the deadline of the other: only that one of them moves is sure.
* `TwoWayCopy`: the copiers, but for reading and writing data: the tunnel sets no deadline, and a
  peer may send nothing and take nothing for ever. `PairEnds` therefore allows for a copier that
  is blocked writing for ever.

## 5. Theorems

For every value of the constants that meets the named assumptions: `Bounds` and
`Configuration` of `TcpTrack` (windows and capacities are positive, the sequence space is larger
than what is ever sent, the segment smaller than it); `Distinct` of `TrackTable` (the sets are
disjoint); `UdpConstants` (capacities are positive); `CacheAssumption` and `DatagramsAssumption`
(requests are datagrams of one packet with a question each, a response is at least as long as its
UDP header, the first id fits the header); `MTUAssumption` (a packet has room for both headers);
`ServerConstants` (the names of clients and changes differ, and a handler that can authenticate is no nil); nothing in `CodecProofs`.

* **`TcpTrackProofs`**: `TypeCorrect` goes first, goroutine by goroutine. `EndInv` adds how a track
  ends: the socket of a track whose `run()` has gone is closed, one of its quit channels is
  closed, it is marked. None of this is inductive without `UnmappedIsDoomed` (a track that lost
  its entry, or that `Stop` has reached, is marked already), because `run()` marks only
  what its identifier maps to, nor without `LoopStates` (the five states `run()` is ever in at the top of
  its loop). The same lemmas show that every step is a step of `TrackLife` (`Refinement`).
  `Opening` (before ESTABLISHED there is no reader and no byte has been read, relayed or sent) is what the four
  theorems on data start from. `AlwaysClosedOnce` assumes that the proxy refuses nothing, which the run
  `refused` shows to be needed: the channel is then closed only once the reader has failed or is done
  (`CloseInv`). `AlwaysConnectFirst` counts the CONNECTs the writer has written: it needs that `connectState` says so from the step
  behind the first on and never says otherwise again, whatever the reader makes of it (`ConnectInv`).
  `AlwaysUpstreamFifo` adds where the payload in `run()`'s hands belongs (`UpInv`): a segment passes
  `validSeq` only at the place the track has acknowledged, since numbers that differ by less than
  `SeqMod` are not equal (`SeqAddInjective`). `AlwaysDownstreamFifo` adds that nothing is queued
  before the proxy has answered and that bytes and FINs together stay below `SeqMod` (`DownInv`). Both
  rest on lemmas on chunks: appending the next one and taking the first keep `Contiguous`.
  `PipeToServer` and `PipeToClient` go through the actions once more and ask what each moves (`UpMove`,
  `DownMove`): three of them move bytes in either direction, the others none. The bound is the harder part, as the sum of a queue is an induction
  over it. `Packed` says instead, of every chunk in the queue, that what was taken since it was put there
  fits in the places from it to the end; this is inductive, and of the first chunk it is the bound. The
  way to the server does not open again once it is cut because a socket is dialled only in CLOSED, which
  is left with the dial (`Undialled`).
* **`TrackTableProofs`**: `Inv` joins the types, `EntriesOK` (an entry is a track of that
  identifier), `ReaderOK` (what the reader holds between two locks is still a track, and of this
  connection), `LiveIndexed`, `UdpEntryKept`, `QuitsOK` (a track that ends has
  closed a channel) and `StopOK` (tracks not yet marked are those still to visit). `ReaderOK` is
  what makes `LiveIndexed` inductive: a track is created for an identifier only after the
  reader, the only creator, has seen it unmapped or its track marked. `StopIsFinal` and `TracksLive` are action
  properties from the same invariant.
* **`UdpTrackProofs`**: `Inv` is the types, `HelpersOK` (the helpers run only after the handshake),
  `ClosesOK` (each channel's count as a function of where its owner is) and `SocketsOK`.
* **`TwoWayCopyProofs`**: `Inv` is the types, `StartOK` (copiers are started once), `HoldsOK` (a
  copier has a buffer from its Get to its Put), `MadeOK` (buffers in use have been made),
  `BuffersExclusive` and `ClosingOK`: what is open of a connection is
  in `closing` from where the code defers it, and in `process`, which defers last, the target is not open before the dial; so that once the goroutine has gone both sockets are closed (`SocketsClosed`), by whichever return.
* **`SocksServerProofs`**: the server's and the handler's invariants side by side, as neither reads the other's
  variables but for the start of the handler. `ChangeInForce`, an action property of the step that serves a client, needs what is in force at any moment:
  what the server has now is a change that had not returned when the last one that returned
  was called. `Released` needs which sockets are open at each place of the handler.
  `NoneStranded` (a connection accepted is on offer to a loop that runs, and when `Serve` has returned the goroutine
  that accepts is gone) needs that this goroutine runs exactly while the loop does (`AcceptorOK`).
* **`DatagramsProofs`**: an entry of the cache is the answer stored last among those to its question, with the
  time it was stored plus its time to live; the message in `packing` carries the
  request's id, because the reader, the only one who writes ids, waits for `Pack`; the history only grows. `TypeCorrect` shows that ids fit their field and
  that nobody overfills `writeCh`. `ReassemblyCorrect`: under an id that one datagram has, and
  that has lost nothing, the table holds what was read of it, and it is passed on when and only
  when its last part has been read (`Kept`); parts are `FirstParts`, a function of how many, so that the
  statement needs no induction. `OrderCorrect`: of the packets of a response the first ones are on the device,
  the next in `writeCh` in that order, the rest with its one pusher (`UpTo`, `InTurn`, `OnePusher`), and
  each is what `Fragment` says of its number. It has a hypothesis that the other theorems have not, `FewDatagrams`: no more responses
  than ids. The code's counter wraps (`ip4.go` 95-97), and that a response 65536 back has long been written
  is a matter of time, about which the model says nothing. That ids are not repeated before is
  proved (`IdsOK`): each comes from the counter, each datagram is answered once.
* **`FragmentsProofs`**: from the two inequalities that division rounds by (`RoundUp`), the pieces of a
  response for every MTU and length (`Pieces`, `Cut`), and when their offsets are right (`Offsets`).
* **`CodecProofs`**: where each byte of a message is, and that reading finds it there: `ReadsWritten`,
  `ParsesPacked`. Both say exactly for what they do not: a name of 255 bytes, for which the code panics (`NameRange`, from what a sum does in
  one byte), and, of datagrams, 8 bytes or less, which are refused though they were packed. A password without repetition has an inverse (`DecryptsEncrypted`), and as bytes are
  replaced one by one the pieces do not matter (`PiecesDoNotMatter`). `AnyMethodWillDo`
  states another mistake of the code exactly.

Only model-checked: the liveness properties, as the prover has no fairness or ENABLED. These are `StopEndsRun`, `WriterEnds`,
`ReaderEnds`, `StopReturnsUnlessHeld`, `TrackEnds`, both `HelpersEnd`, `DeliveryReturns`, `AnswersWhole`,
`ChangeReturns`, `AcceptedServed`, `HandlerReturns`, `EndsTogether`, `PairEnds` and `CopiersSettle`; every invariant and every
action property of a passing run is a theorem. The type invariants of `TrackTable`, `UdpTrack`, `SocksServer` and
`TwoWayCopy` are theorems and in no run, which could only repeat them on one instance. (Where such a property has a half that is safety, it is one of those:
`AnswersInOrder` of `AnswersWhole`, `NoneStranded` of `AcceptedServed`.) What a recursive definition computes for every input is out of the prover's reach; there
is none in these modules. `SocksCodec` and `Ciphers` have no run: their theorems say all there is for
all bytes, which enumeration could not.

## 6. Where the code and its comments differ

Shown by a run:

* `window`: `relayPayload` and the writer load, change and store `recvWindow` without a lock, and
  an update is lost: with nothing in flight the window stays reduced (comments at
  `tcp.go` 287 and 580).
* `refused`: `callSocks` returns `nil` for a refused request after closing the channel; the reader goes
  on and closes it again, which panics (484-487, 533-537, 661-662).
* `offsets`: the fragments of a response carry 14980 bytes each while their offsets grow by
  1872 units of 8 bytes, 14976 (`ip.go` 66-72, `udp.go` 147): the second begins 4 bytes too low, the third 8; a
  response of more than 14972 bytes cannot be put together (comments at `udp.go` 123 and 132).
* `stop_marker`: the stop marker that should end the reader blocked on `Read` (`tun/stop.go` 11-13)
  is handled as a UDP packet, since `isStopMarker` has no caller; the reader then waits for
  a lock that `Stop` keeps while it waits for the reader, and so does a `run()` that must clear its track (997).

Modelled, and plain from the lines: a failed dial sends no RST, though the comment before it says so
(`tcp.go` 409-410, 439-441); the channels armed on ESTABLISHED stay armed in every later state
(847-853); a packet with an invalid sequence number ends a track in FIN_WAIT_1 (738-740); the writer
waits for the reply to its CONNECT with an `if` (563-568), after a test without the lock, so that it
may miss the last broadcast and stay, and `run()` with it once `toSocksCh` is full: `Stop` does not
end that track's `run()` (281-299), as nobody closes `socksCloseCh` of a track that is marked (661-664); the acknowledgement timer compares
numbers that wrap (910); `Stop` leaves its tracks in the tables (131-143); bytes that follow a proxy's
reply at once are lost with the buffer it was read through (`basic.go` 235-237, `tcp.go` 628);
`ChangeAuth(nil)` and `ChangeHandler(nil)` change nothing,
and a handler that has a `ServerAuthenticate` becomes the authenticator (`server.go` 132-137, comment at 122); a SYN with data to a proxy that cannot be dialled
writes its CONNECT on a nil connection, and one to a proxy that can is followed by the writer's second CONNECT (`tcp.go` 424-428, 554-560). Proved: the scan for a method
(`server.go` 167-173) finds one for every client that claims any; a name of 255 bytes makes its reader
panic (`basic.go` 174).

## 7. What is not modelled

* Headers and checksums of packets (`packet/`), which are straight-line copying, and the search for a host
  name in HTTP and TLS, which fills the text of a CONNECT.
* `/proc/net` (`uid.go`), opening the device: I/O. What they return is a choice in the models.
* The client's side of a SOCKS handshake (`client.go`) as bytes: it has as outcomes success and failure, which
  `TcpTrack` and `UdpTrack` choose from.
* AES and kcp, which are libraries; the XOR cipher, which nothing uses; the requests the tunnel reads with
  one `Read` (`kcp/service/socks5.go`), which depends on how the network cuts them.
* The small buffers of the tunnel, which two connections may share by the two puts of `GetSmallPool` and its
  callers; the pools of packets, which are `sync.Pool`s.
* Programs that start the libraries (`kcp/run`, `config`, `log`) and test programs (`Client.go`, `atest`,
  `tls`, `shadowsocks`, `go-android`), which keep no state.

What would come next: the client's side of the SOCKS handshake as bytes, so that `SocksCodec` joins
`TcpTrack` and `SocksHandler` through one exchange.
