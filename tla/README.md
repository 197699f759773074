# A TLA+ model of rust-net-protocols

The repository (crate `rust-net-protocols`) carries byte streams over UDP with a
Rust port of the KCP protocol, and has a small SOCKS5 side.  This directory holds
its verification project: TLA+ modules translated from the code, TLC runs on small
instances, and TLAPS proofs for every value of the constants.

## 1. Inventory

| part | source | state | operations |
|---|---|---|---|
| KCP control block: ARQ core | `src/src/kcp/kcb.rs` | send side `snd_queue`, `snd_buf`, `snd_una`, `snd_nxt`, `rmt_wnd`; receive side `rcv_buf`, `rcv_queue`, `rcv_nxt`, `acklist`; `probe`, `probe_wait` | `send`, `recv`, `peeksize`, `input` (`parse_una`, `parse_ack`, `parse_data`, `shrink_buf`), `flush` |
| KCP timers | `kcb.rs` | `current`, `updated`, `ts_flush`, `interval`, `ts_probe`, each segment's `resendts`, `rto`, `xmit`; `rx_srtt`, `rx_rttval`, `rx_rto` | `update`, `check`, `update_ack`, `nodelay`, the timer part of `flush` |
| KCP congestion control | `kcb.rs` | `cwnd`, `ssthresh`, `incr`, each segment's `fastack` | the tails of `input` and `flush`, `parse_fastack` |
| stream mode, `setmtu`, `wndsize`, `waitsnd` | `kcb.rs` | `stream`, `mtu`, `mss` | configuration |
| `KcpStream` | `src/src/kcp/mod.rs` | `kcb` (shared by clones), `buf`, `to_send`, `token`, `server`, `init` | `connect`, `poll_read`, `poll_write`, `poll_flush`, `try_read`, `udp_recv_and_iuc_update`, `kcp_check` |
| `KcpListener` | `src/src/kcp/mod.rs` | `connections`, `remote_tcps`, the UDP socket | `bind`, `accept`, `drop_stream`, `update_connection`, `shake_hand`, `auto_map` |
| `KcpOutput` | `src/src/kcp/mod.rs` | the UDP socket and the peer's address | `write`, `poll_write` |
| SOCKS5 handshake | `src/src/socks5/mod.rs` | one 4096-byte buffer per handshake | `Socks5::acceptor`, `parse_header` |
| SOCKS5 address, `Reply`, `Error` | `src/src/socks5/mod.rs` | none | `Address::read_from`, `write_address`; conversions |
| `TcpConnector` | `src/src/connector/mod.rs` | two TCP streams | `new`, `connect` |
| the examples | `src/examples` | a task for each connection, the program's main loop | the KCP client `kcp_c`, the KCP echo server `kcp_l`, the SOCKS5 echo server `socks5` |
| `dns`, `utils`, `lib` | `src/src/dns`, `src/src/utils`, `src/src/lib.rs` | none | `resolve`, `status`, `err_with` |

How the parts interact.  An application writes to a `KcpStream`: `poll_write` calls
`Kcb::send`, `update` and `flush`, and `flush` writes datagrams through `KcpOutput` to
the UDP socket.  A datagram that arrives is read by `KcpListener::accept` (server) or
by `poll_read` (client) and handed to `Kcb::input`, followed by `update`; `try_read`
then calls `Kcb::recv`.  The streams share one control block through
`Rc<RefCell<..>>`; nothing runs in the background, so a control block makes
progress only inside these calls.  Acknowledgements and windows travel in the
headers of the segments of the other direction.

The listener keeps one control block for each address; its caller (`kcp_l`) reads once
after every datagram and calls `drop_stream` when the read fails.  The SOCKS5 and
connector parts use TCP streams: `acceptor` is called in the accept loop of `socks5`,
which spawns a task for each connection that has shaken hands; `TcpConnector::new` reads
an address and opens a connection to it, `connect` copies both ways.

What is hard here:

* **unreliable delivery**: any datagram may be lost, repeated or late; both sides'
  numbers (`snd_una`, `rcv_nxt`) and the acknowledgements have to survive it;
* **ordering**: an old segment overwrites `rmt_wnd` and meets an `snd_buf` that has
  moved on;
* **resource bounds**: the receive window closes and has to open again although the
  announcement may be lost; a message may be longer than the window;
* **cancellation**: `flush` awaits the socket in its loops and the poll functions drop
  the future when it is not ready;
* **time**: 32-bit millisecond clocks that wrap, a wall clock that jumps, and callers
  that may or may not come back;
* **partial failure**: a datagram cut to 1024 bytes, a message that does not fit a
  buffer, a handshake of SOCKS5 cut into several TCP segments, one direction of a relay
  that ends before the other;
* **stale state**: the control block of an earlier conversation at the same address, the
  bytes of an earlier read in the same buffer.

The hazards, each at its line, are in `PROJECT.json`.

## 2. Modules and how they correspond to the code

| module | what it is | code |
|---|---|---|
| `Kcb` | both control blocks of a conversation and the network between them | `kcb.rs` 17-705, `KcpOutput::write` |
| `MessageChannel` | the abstract specification: a reliable channel of whole messages each way | what the doc comments of `send` and `recv` promise |
| `KcbTimer` | the timers of one control block over a clock of finite width | `kcb.rs` 544-593, 653-678, 736-795, 859-862; `mod.rs` 276-287, 458-495 |
| `KcbRtt` | the round-trip estimate and the retransmission timeout | `kcb.rs` 308-326, 817-840, 864-867 |
| `KcbCongestion` | the congestion window of one control block | `kcb.rs` 365-376, 458-528, 616-678, 707-730 |
| `KcpStream` | the client's and the server's task, composed with `Kcb` (it EXTENDS it) | `mod.rs` 44-53, 86-88, 126-198, 243-373, 393-475; `examples/kcp_c.rs`, `kcp_l.rs` |
| `KcpListener` | the server's table of connections and its loop, with clients that restart | `mod.rs` 70-88, 127-200, 250-267, 343-373, 449-475; `examples/kcp_l.rs`; `kcb.rs` where lengths matter |
| `Address` | a SOCKS5 address on the wire | `socks5/mod.rs` 41-43, 257-263, 425-469 |
| `Socks5` | `acceptor` and the echo server around it | `socks5/mod.rs` 72-127; `examples/socks5.rs` |
| `TcpConnector` | `Address::read_from`, `TcpConnector::new` and `connect` | `connector/mod.rs`, `socks5/mod.rs` 266-350 |
| `MCTcp` | instances of `Socks5` and `TcpConnector` side by side | |
| `MCKcb`, `MCKcbTimer`, `MCKcbRtt`, `MCKcpStream`, `MCKcpListener` | bounds of the runs that a `.cfg` cannot write as values | |
| `KcbProofs` (types), `KcbDeliveryProofs` (delivery, windows, refinement) | the theorems of `Kcb` | |
| `KcbTimerProofs`, `KcbRttProofs`, `KcbCongestionProofs`, `KcpStreamProofs`, `KcpListenerProofs` | the theorems of the module of that name | |
| `TcpProofs` | the theorems of `Socks5`, `TcpConnector` and `MCTcp` | |

**`Kcb`.**  The variables have the names of the struct's fields and are functions of the
endpoint.  `Send` and `Recv` are the calls of the application; `Input` begins a call of
`input`, and `InputAckOrWins`, `InputWask`, `InputPush` and `InputStalePush` are one
iteration each of its loop over the segments (the datagram is held in `cursor`; no other
call can be made at that end until it is empty, as `input` does not await); `Flush` is a
call of `flush` that runs to its end, `FlushDroppedAtAck` and `FlushDroppedAtProbe` are
calls whose future is dropped at an await, as the poll functions of the streams do.
(A future dropped among the data segments is a `Flush` whose last datagrams are lost.)
`net[e]` is the set of datagrams on their way to `e`: `Transmit` may lose any datagram,
`Input` takes any (reordering) and may leave it there (duplication).

Abstractions of `Kcb`: the sorted deques `snd_buf` and `rcv_buf` are functions from
sequence number to content; sequence numbers do not wrap; time is left out, so that which
segments are overdue and whether the probe timer has expired are free choices; the
congestion window is any number up to the window; payloads are `[msg, frg]`; a datagram
is a set of segments (its order is fixed by `First`).  How the output buffer cuts the
segments into datagrams is modelled (`Datagrams`), including that `remaining_mut` of the
growing buffer is not its fill level, so that a control segment always starts a new
datagram and the first PUSH joins the last control segment.

**`KcbTimer`.**  `current`, `updated`, `ts_flush`, `snd_buf` (with `resendts`, `rto`,
`xmit`), `rx_rto`, `probe_wait` and `ts_probe` are the fields; `now` is the wall clock,
`patience` the time until the caller comes back, `age` and `quiet` are history.  `UpdateEarly` and
`UpdateFlush` are the two outcomes of `update`; `FlushAgain` is the second flush of
`poll_write`, and `poll_flush`; `Acked` and `Window` are what `input` does to the timers;
`Tick` and `Jump` are the clock.  `caller` says who calls: one that `polls` comes back
within `MaxGap` ticks and may call `poll_flush`, one that `sleeps` stays away as long as
`check` says, and under one that `resets` the wall clock is set to any value.  The kind is
chosen at the start and does not change; `MaxOut` bounds the segments in flight for each.

**`KcbRtt`.**  `UpdateAck` is `update_ack` with any round trip, in the code's integer
arithmetic; `Nodelay` the setting of the interval; `Settle` is the network whose round
trip becomes steady.

**`KcbCongestion`.**  `snd_buf` holds the `fastack` of the unacknowledged segments,
numbered from `snd_una`; `cwnd`, `ssthresh`, `incr` and `rmt_wnd` are the fields.  `Input`
is the call of `input` with any `una` and acknowledgements (`Skipped` is
`parse_fastack`, `Grown` the tail, which is not reached if `input` meets an error on the
way: `whole` is false), `Flush` the call of `flush` with any set of segments overdue.
The peer is what its acknowledgements say.  The code that lowers `cwnd` to
`rmt_wnd` after it has grown (523-526) can do nothing, as `cwnd` grows by one from below
it, and is not in `Grown`; a timeout does not set `fastack` back, so that a segment may
be sent early right after it.  All streams call `nodelay` with `nc = true`: `cwnd` is
then computed and not used, which the constant `NoCwnd` says.

**`KcpStream`.**  `task[e]` says where the task of each end is between two points at which
the other end or the network may act.  `WriteSend`, `WriteUpdate`, `WriteFlush` are
`poll_write`; `Receive`, `ReceiveSegment`, `ReceiveUpdate` are a datagram's way through
`poll_read` (client) or `accept` (server) into `input` and `update`; `Take`,
`TakeNothing` and `ReadReturns` are `try_read`.  `WritePending`, `ReceivePending` and
`ReadPending` are the polls in which `flush` finds the socket busy: `async_to_poll!` makes
a new future at each poll and drops it, so that what it did stays done and the next poll
begins again.  `large` is the test of the datagram's length against a bare header.
A read that fails (`TakeNothing`; at the server also `ReadPending`, because the next poll
gives `recv` a buffer of length zero) ends the client (`ended`), as `?` does in `kcp_c`,
and makes the server call `drop_stream` (`failed`, then `DropStream`).  `known` says whether
the client's address is in the listener's table: the next datagram is then for a new
control block (`NewBlock`), and `accept` returns after it whatever its length.  From
there on `sent[B]`, `got[B]`, `read[B]` and `wrote[B]` are those of the new stream.
Abstractions: one non-empty fragment to a message, all of the same size; no write is
refused; the new control block is put in place when the old one is dropped, and not when
the next datagram comes (nothing happens at that end in between).

**`KcpListener`.**  One iteration of the server's loop is one action: `accept` with the
datagram `d`, the read that follows and the write of the reply.  `Block` is the control
block after `input` and `update` (of a new one, if the address is not in the table:
`NewBlock`); then `ServeWaits` (a bare header on a known connection: `accept` goes on
waiting), `ServeMessage` (the read succeeds), `ServeError` (`recv` fails, and `drop_stream`
takes the block out of the table) or `ServePending` (`recv` has taken a message, but the
`kcp_check` that follows is pending: the future is dropped with the message, the next poll
fails and the stream is dropped).  `flushed` says whether `update` has flushed.  `Write`,
`ClientReceive` and `Restart` are the clients: they flush when they write and when the
`update` after a datagram does, and at no other time, as nothing polls their timer.  Lengths are in bytes: how
segments share datagrams (`Datagrams`), what `recv_from` cuts off beyond `BufLen`
(`Whole`, `Length`), what of the rest `input` accepts (`Reached`, `Taken`) and whether the
next message fits the buffer of the read (`Readable`).  `log`, `read` and `lost` are
history.  Abstractions: no time; windows stay open, as fewer messages are written than
`wndsize` sets; one fragment to a message; acknowledgements are a set, as their order
does not matter; replies are not sent again and only the fact that the client owes an
acknowledgement for one is kept; the socket may be busy after `recv`, but not when the
server writes a reply (it would be sent twice, as `KcpStream` models).  A datagram comes again when the client sends it again.
Client and server are restated here and not taken from `Kcb`, because lengths and the
table are what this module is about, and neither is in `Kcb`.

**`Socks5`.**  `Accept`, `Hello` and `Request` are the points of `main` between its reads:
`acceptor` reads twice into one buffer, and `Buffer(n)` keeps what an earlier read left
behind the first `n` bytes, because `buf[1]` is looked at whatever `n` is.  A read may
return any part of what has arrived.  A slice beyond what was read panics, and an error is
returned by `main`: both end the program (`ended`), with its tasks.  `ParseHeader` keeps
what the code makes of an address: the port is read as `i16` (negative from 32768 on), an
IPv4 address becomes a text with a dot before each number.  `Echo` and `EchoEnds` are a
task.  The clients (external) speak SOCKS5 as written and go on when they are answered.
Left out are three exits that only take handles away: the `?` of acceptor's reads (76, 85)
and of its answers (82, 97) when the client's connection has broken, which end the program
as a failed handshake does, and that of `str::from_utf8` (118) for a name that is not
UTF-8.

**`Address`, `TcpConnector`.**  `Encoded` is `write_address`.  `reader` is the place in
`read_from`, each `ReadFrom` one `read_exact`; `Connect` opens the connection or fails.
`Fill` and `Drain` are the two halves of `copy`, `Finish` a copy that is done: `select`
returns with the first, and the other direction is dropped with what it holds.  A name that
is not UTF-8 (320-323) is an error of `read_from`; the model goes on to connect to it.

**`MCTcp`.**  The two share neither state nor steps; every behaviour has one of them in a
state in which it has ended, so that the run explores the sum and not the product.

## 3. Runs

| run | instance | shows |
|---|---|---|
| `kcb_loss` | 3 messages one way, 1 datagram in flight each way, sender's window 2, receiver's 1, congestion control on | types; both windows kept; nothing acknowledged that was not received |
| `kcb_late` | 1 message of 2 fragments, 2 datagrams in flight each way, flushes dropped at any await | in order, whole, never stuck, numbers never move back, under reordering and repetition; the inductive invariant; the reliable channel is implemented |
| `kcb_live` | 2 messages, windows 1, which close after every message | every message is delivered |
| `kcb_wedged` | 1 message of 3 fragments, window 2 | **violation**: the message is never ready |
| `kcb_timer` | modulus 36, interval 2, caller up to 2 ticks late, timeouts 4 and 8; window closes and opens, `poll_flush` (polls); 2 segments (sleeps); the clock set to any value (resets) | flushes, retransmissions and probes are not late, retransmissions not early, the next flush is ahead and near |
| `kcb_rtt` | round trips up to 40, three intervals | averages bounded, no overflow, timeout above a steady round trip, delays forgotten |
| `kcb_congestion` | 5 segments, peer's windows 0, 3 and 5, early retransmission after 2, any acknowledgements and timeouts, datagrams cut short | `cwnd` and `incr` agree; the window opens again |
| `kcp_stream_lockstep` | 2 requests and replies, 2 datagrams in flight each way, no loss, any delay | no message dropped; each reply is the answer to its request; every write answered unless a read has failed |
| `kcp_stream_busy` | 1 request, up to 2 replies from each stream of the server, loss, repetition, busy socket, dropped streams | reads of each stream in order, none twice; nothing read before `recv` has returned it |
| `kcp_stream_stalls` | 1 request, loss | **violation**: update is not called again |
| `kcp_listener` | 1 address, 2 conversations of 2 and 1 messages of 12, 960 or 1000 bytes, 2 datagrams in flight each way | conversations kept apart; an acknowledged message is lost with a dropped stream and in no other way; no dead control block |
| `tcp_services` | 2 SOCKS5 clients, 2 greetings, 2 addresses, 3 bytes of data; a relay of 2 bytes each way to an address of each type | nobody misdirected; data in order and whole; everyone served unless a handshake fails |

Bounds.  Windows of one and two make the window close, open and overflow after one or two
segments, where the code needs 128; three messages, or two fragments, are enough for a gap,
a repeat and an old acknowledgement to coexist; two datagrams in flight are enough to
swap any two.  The theorems hold for all values, so that these bounds matter only for
what is model-checked alone (liveness).  The clock's modulus is chosen
so that half of it is more than the longest timer, as 2^31 ms is, and small enough that
it wraps in every run; `JumpLimit` stands for 10000 ms and lies between the longest
timer and half the modulus.  In `KcbRtt` the bound of the integers (`Width`) stands in
the same relation to the largest round trip as the proofs need.
In `kcp_stream_busy` one request suffices, as it may arrive any number of times: the first
copy is read, the second makes the read fail, the third is read by the next stream; the
sender's window of one keeps a reply that was sent twice waiting behind itself.  The client is
not in lockstep there, so that it reads both copies.
In `KcpListener` the buffer has the code's 1024 bytes: two messages of 12 share a
datagram that is whole, one of 12 and one of 960 share one that just fits, one of 1000
fills the buffer alone and loses its end behind anything else.  A second message makes a
gap possible, a second conversation makes the first one's datagrams strangers.  With one
address nothing is left out that two would show, as the table's entries do not touch each
other (the theorems are about any number).  In `KcbCongestion` the window must be able to
exceed `ThreshMin`, so that both ways to grow happen, and `Mss` is the smallest that
`setmtu` allows, which makes rounding worst.  In `tcp_services` the buffer takes the longest
request with data behind it, as the code's 4096 bytes do, and a short read leaves bytes of
an earlier one behind it; three bytes of data can be cut in two places.
`MaxSegs`, `MaxNet`, `MaxXmit`, `MaxGap`, `MaxOut`, `MaxConv`, `MaxMsgs`, `MaxUp`,
`MaxDown`, `DataLen` and `RelayLen` are the bounds on counters, in the guards of `Send`,
`Transmit`, `Tick`, `Leave`, `Next` of `KcbTimer`, `Restart`, `Write`, `ClientFlush`,
`ServerSends`, and of the writers in `Socks5` and `TcpConnector`.

Deadlock is checked in all runs except those where the system really stops: in
`KcpStream` when all replies are read, and (the finding) when a datagram is lost; in
`KcpListener` when all messages are acknowledged; in `tcp_services` when the server has
ended or the relay is over.  In the runs of `Kcb` a flush is always possible, of
`KcbTimer` an update.

Mutants.  For every property of a passing run `PROJECT.json` names a mutant: an operator
defined just before the one it replaces, marked "Mutant" and changed as a plausible
mistake would change the code.  No specification uses them.

## 4. Fairness

* `Kcb!Fairness` is the contract of the doc comments: callers call `update` repeatedly
  (`Flush`), hand datagrams to `input` and call `recv` while it has a message, and the
  network does not lose every datagram (`FlushHeard`, strong fairness: among infinitely
  many flushes that could get through, one does).  It is what an *environment* of
  `kcb.rs` has to do, not what `KcpStream` does.
* `KcpStream!StreamFairSpec` assumes only that the executor runs a task that can run and
  that the client keeps reading and writing.  No fairness of the network is needed:
  `Reliable` is a constant.  Under it `Answered` holds without loss and
  `UpdatedWhileUnacked` fails with loss, because nothing polls the streams' timer.  `KcpListener`
  has no liveness property: nothing in the code makes a client send again.
* `KcbRtt!FairSpec` assumes that a steady network gives samples again and again.
* `KcbCongestion!FairSpec`: there is data to send, flush is called and the peer answers;
  `WindowOpens` speaks of behaviours in which losses end (`calm`).
* `Socks5!SocksFairness`: the runtime polls `main` and the tasks, and a client goes on
  when it has been answered.  A client need not close, nor greet once it has closed.
* The timers have bounded-time invariants (`ResentOnTime`, `ProbedOnTime`) in place of
  liveness: `patience` forces the caller to come back.

## 5. Theorems

Every safety property of section 3 and every action property is a theorem, for all values of
the constants that meet the named assumptions:

* the two endpoints differ, windows and fragment counts are positive; for `KcpStream` a
  message may have one fragment;
* the clock's modulus is even and more than twice every timer (`JumpLimit`, the longest
  timeout with its eighth, `MaxXmit` timeouts, `ProbeLimit`, an interval and a caller's
  lateness), timeouts are longer than a caller is late and the interval is at least 2
  (`ClockAssumption`, `TimerAssumption`): the code's 2^32, 10000, 60000, 120000, intervals
  from 10 and timeouts from 100, as long as one of a segment's first 35,000 transmissions is
  acknowledged;
* windows in segments fit 16 bits (`WindowsAssumption`, the width of `wnd` in a header),
  and a segment has at least the 26 bytes that `setmtu` leaves it (`MssAssumption`);
* at most 128 messages in a conversation, each of which fits the listener's buffer;
* addresses are what their types allow, greetings are as long as they say and fit
  acceptor's buffer, and data is numbered by a byte (`RequestsAssumption`,
  `GreetingsAssumption`, `DataLenAssumption`, `RelayLenAssumption`).

**The control block.**

* `KcbProofs!TypeCorrect`: `TypeOK` is inductive.
* `KcbDeliveryProofs!StreamCorrect`: `StreamInv`.  In-order delivery is not inductive: a
  wrong fragment could be waiting in any queue.  The strengthening says that every copy
  of a fragment (in `snd_queue`, `snd_buf`, a datagram, the cursor, `rcv_buf`,
  `rcv_queue`, `got`) is the fragment its number stands for, that every `una` and
  acknowledgement under way speaks of segments that have been received, and that what
  was received stays received (`Grows`), so that late datagrams stay truthful.
  `DeliveredInOrder`, `NoneForgotten` and `MessagesWhole` follow.
* `KcbDeliveryProofs!ReceiveWindowKept`, `SendWindowKept` and `NeverBack` (`snd_una` is the
  minimum of `snd_buf`, which only new, larger numbers enter), and `NeverWedged`: if no
  message has more fragments than the receive window, a full queue holds a whole message.
  Its hypothesis is what the finding `kcb_wedged` lacks.
* `KcbDeliveryProofs!ChannelImplemented`: under the mapping of `sent` and `got` every
  step is a send, a delivery of the next whole message, or invisible.
* `KcbTimerProofs!FlushNeverFar`: after every update the next flush is 1 to `JumpLimit`
  ticks ahead, for every setting of the clock, too.
* `KcbTimerProofs!FlushSoon`, `ResentInTime`, `NotResentEarly`, `ProbedInTime`,
  `TimerTypes`, all from `RetransmitInv`.  Times on the ring cannot be compared without a
  bound on their distance, so the invariant measures everything from `current`: the flush
  timer expires less than an interval after the timer of any segment, and the caller comes
  back (`patience`) less than an interval and its lateness after it; what a segment's
  `age` and the rest of its timer make together is the timeout it was sent with (no more
  than it for a caller of `poll_flush`, whose second flush uses an older `current`).
  `quiet` is tied to `ts_probe` in the same way.  Each distance stays below half the
  modulus because of the assumptions, whatever `MaxXmit` retransmissions have made of the
  timeout.
* `KcbRttProofs!TypeCorrect`, `NeverOverflows`: the averages never exceed the largest
  round trip, so that 8 times that is the largest intermediate value.
* `KcbCongestionProofs!BytesAgreeWithSegments`, `CongestionTypes`: `CongestionInv` is
  `TypeOK` and `IncrAgrees` together.  `IncrAgrees` needs the bounds: congestion avoidance
  begins at `ssthresh`, so with a window of two segments or more, and then the agreement
  itself makes `incr` so large that the two divisions add less than a segment
  (`Increment`).

**The streams and the listener.**

* `KcpStreamProofs!UsesKcb`: every step of the streams is a step of `Kcb`, or leaves the
  control blocks alone, or is a `NewBlock` of the server.  Because of the last the theorems
  about `Kcb` do not carry over as they stand: after `drop_stream` an acknowledgement under
  way may speak of a message the new block never sent, and number 0 comes again.
  `BlocksKeepWindow` shows that types and receive windows survive it.
* `KcpStreamProofs!ReadInOrder`, from `LabelInv` and `ReadInv`: what survives new blocks is
  that every fragment, wherever it is, is what its number stands for; that what a stream has
  taken out of its control block are the numbers from 0 on, as many as were moved to
  `rcv_queue`; and that reads lie behind `recv`, strictly so while `kcp_check` runs.  It
  is a statement about each stream: a later stream of the server does read the first
  message again, if a copy of it arrives.
* `KcpStreamProofs!StreamTypeCorrect`, from `StreamTypes`: a write that is past `send` but
  has not succeeded is counted (`Accepted`), a message that is past `recv` but not read is
  not (`Done`).
* `KcpStreamProofs!NoneDropped`: if the client is in lockstep and no socket is busy,
  `NoMessageDropped` holds; the theorem shows that the network need not be reliable for it.
  The one way to drop a message is a `recv` of the client after a bare header
  (`ReadReturns` with `large` false).  `LockstepInv` excludes it by counting round the
  circle: the server has sent no more than it has read, which is no more than the
  client has sent, which is at most one more than the client has read; hence at most
  one message can be in the client's `rcv_queue`, it came with a large datagram, and it is
  taken before the next datagram is.  A dropped stream sets the server's count back, and the
  new one counts from the client's first message.  `AnsweredInTurn` follows from the same
  invariant.
* `KcpListenerProofs!ConversationsKeptApart`, `AllServed`: for any number of addresses,
  conversations and messages.  `TableInv` is inductive: what was read from a connection
  and what waits in its `rcv_queue`, put together, are the messages of its conversation
  numbered from 0 on, as many as `rcv_nxt` says; what waits in `rcv_buf` has the
  conversation, too, and the number it is filed under; and every control block in the table
  has been read from, because a new one gets there only by a read that succeeded (a bare
  header for a new address makes the read fail, and the block is dropped).  Nothing is
  assumed of how datagrams are cut or which the network keeps.  That all numbers before
  the first missing one are there is a counting argument (`NextMissingFacts`).
* `KcpListenerProofs!LostOnlyWithDrop`, `ListenerTypes`, from `LostInv`: whatever an
  acknowledgement or a `una` on its way down speaks of was read, is held by the control
  block in the table, or is in `lost` (with what the block held goes the message that `recv`
  had taken when `kcp_check` was pending).  That has to stay true of late datagrams while
  messages move from `rcv_buf` to `rcv_queue`, are read, and go with a dropped stream
  (`Safe`); and a control block acknowledges only what it has taken or had, although the
  buffer cuts datagrams: `input` reaches an acknowledgement and its payload by the same
  steps (`Taken`), and what it takes beyond the next gap is held, as the window is open.

**The TCP side.**

* `TcpProofs!ConnectsWhereAsked`, `RelaysInOrder`, `EndsCopied`, from `ConnectorInv`: while
  `read_from` runs, what it holds and what is still to come are together the encoded
  address followed by the data (the lengths that `AfterType` and `RestLength` ask for are
  exactly those of the encoding); afterwards what was handed over, what `copy` holds and
  what is on its way are the data, from its first byte on, in both directions.
* `TcpProofs!HandlesAreFaithful`, `EchoesAreInOrder`, from `SocksInv`: while the server
  runs, what a client has sent and nobody has read is nothing or a whole greeting, nothing
  or a whole request, or the data from where the echo has got to; a read that takes part of
  a greeting or a request ends the program, so that no remainder is taken for the next
  thing, and nothing of the buffer beyond the bytes read gets into a handle.
* `TcpProofs!InstanceTypes`: the types of both, whichever a behaviour runs.

Only model-checked: the liveness properties (`EventualDelivery`, `Answered`,
`NoSpuriousTimeout`, `TimeoutForgets`, `WindowOpens`, `EveryoneServed`), because fairness and ENABLED are out of the prover's reach.

## 6. Findings

* `kcb_wedged`: `send` accepts up to 255 fragments whatever the receive window (128 in
  every stream); `recv` then fails for ever and the window stays closed.
* `kcp_stream_stalls`: `update` must be called repeatedly, but the timer that the streams
  make from `check` is never polled; a lost datagram is never sent again.

Both were met while modelling, and each run's trace shows the steps.  Four more facts,
which no comment of the code contradicts, shaped the properties:

* In `KcpListener`, a repeated datagram, or one that arrives before an earlier one, makes
  the read that follows it fail, and the server then drops the stream.  What the control
  block holds has been acknowledged and is lost, and the client's next datagram starts a
  control block that waits for number 0 for ever, until it is dropped itself: a
  conversation does not survive its first reordering.  Hence `LostOnlyByDrop` (nothing else
  loses a message) and not "no acknowledged message is lost".
* It takes no loss to get there: if a reply is late, the `update` after a bare
  acknowledgement sends the request again, the copy finds nothing to read at the server,
  and the stream is dropped.  The reply under way still answers the request, but the
  client's next one has a number that the new control block keeps waiting for.  Hence
  `Answered` excepts dropped streams, and `ReadsInOrder` and `AnswersMatch` speak of each
  stream of the server.  A client that restarts at its address is served if its first
  message is sent again after the old stream is dropped, which no timer of `KcpStream` does.
* In `Socks5`, any failed handshake ends the program; hence the condition of
  `EveryoneServed`.
* In `TcpConnector`, the relay ends with the first direction; hence `EndedCopied` says
  nothing about the other.

## 7. Not modelled, and what could follow

* **An address over a `KcpStream`** (`shake_hand`, `auto_map` of `KcpListener`).
  `read_from` reads one byte and then the rest, in at least two reads.  The first must find
  a message of one byte, since a longer one is taken from the control block and refused;
  after it `try_read` has emptied `buf`, so that the next read gives `recv` a buffer of
  length zero and fails ("short buffer" or "EOF") whatever has arrived, until `accept`
  fills `buf` again, which these functions do not call in between.  `shake_hand` therefore
  always fails, `remote_tcps` stays empty, and the other branch of `auto_map` is never
  taken.  `TcpConnector` models `new` and `connect` over TCP streams.
* **The walk over the deques** (`parse_ack`, `parse_una`, `parse_data`, the move loop):
  `Kcb` has what they leave, as functions by sequence number.  A module over sorted
  sequences that is shown to agree with them could follow.
* **Buffers that are shorter than a message** in `KcpStream`, and `split`: the examples
  read into 1024 bytes and use neither.
* **The error of the round trip** that is measured against the time of the last update:
  it needs `KcbTimer` and `KcbRtt` composed.
* **Stream mode, `setmtu`, `waitsnd`, `nodelay` values other than the streams'**: nothing
  in the crate uses them.

Left out for good: formatting and logging, `Reply`, `Error`, the conversions of `Address`
to and from text, `dns::resolve`, the branch for the feature `trust-dns` (which does not
compile), the bytes of the KCP headers, wrapping sequence numbers, and the panic of
`timediff` in a debug build (the model has the wrapping arithmetic of a release build).
In `Kcb` every datagram belongs to the one conversation; datagrams of another are in
`KcpListener`.
