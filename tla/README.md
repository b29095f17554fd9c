# A TLA+ verification of OS-and-Networking-programs

The repository is a collection of small programs for operating-system and
networking courses. They are short, but most of them are concurrent or talk
over an unreliable medium, and none has a test. This directory models them in
TLA+, checks small instances with TLC and proves the main results for all
instances with TLAPS.

## Inventory of the system

| Component | Source | State | Operations | What is hard | What makes it correct |
|---|---|---|---|---|---|
| Dining philosophers | `2_dining_philsophers/2_dining_philisophers.c` | one semaphore per spoon, the threads' positions | `sem_wait`, `sem_post`, thread creation | circular wait, starvation | no spoon shared, no neighbours eating at once, no deadlock, everybody eats again |
| Go-Back-N | `4_mac/gbn_sender.py`, `gbn_receiver.py` | window `S_f`, `S_n`, `pbuffer`, timer; `expected_seq_no`, `data_recvd`; the two directions of a TCP connection | send, poll for an ack, time out; receive, ack | corrupted packets, stale acks, premature timeouts, number wrap-around, end of connection | every character delivered once and in order, sender finishes only when all are delivered, and finishes |
| Selective Repeat | `4_mac/sr_sender.py`, `sr_receiver.py` | the same, a receive buffer, one `threading.Timer` per slot, `client_sync_lock` | send, ack, NACK, timer callbacks | the same, and callbacks that race the main thread for slots, timers and socket | the same, and a live timer for every unacknowledged frame |
| Stop-and-Wait | `4_mac/sw_sender.py`, `sw_receiver.py` | alternating `next_seq_no`, `expected_seq_no` | send, wait 5 s, resend | the sender does not start (see "Not modelled") | the same |
| Packet framing | `4_mac/common.py` | the byte stream | `send_packet`, `recv_packet`, `recv_packet_nblock` | partial reads, end of stream, concurrent writers, a non-blocking read between the bytes of a length | the packets read are the packets written, once and in order |
| Shared memory queue | `1_ipc/shm.c` | `count`, `next_full`, `next_avail`, `data` in shared memory, a mutex | produce, consume | the mutex lies on the stack and is copied by `fork` | FIFO, nothing lost or taken twice |
| Message queue | `1_ipc/msgq/` | the server's queue, one queue per client, `hit_no` | request, reply, restart | restarts, failed opens, bounded queues, process ids used again | a client gets the reply to its request, and gets one |
| Pipe line | `1_ipc/pipe.c` | open descriptors of three processes | fork, redirect, exec | nothing that is in the repository | everything passes through, all three end |
| Banker's algorithm | `3_bankers_alg/` | allocation, need and available resources | the safety check, one request, roll-back | does not compile (see "Not modelled") | a granted request leaves a safe state |
| FTP | `5_ftp/` with `auth.py` | connection, session (user, directory), client flags | open, login, requests, close | client time-outs, exceptions between the steps, one session object for all connections | a response belongs to its request, a session ends with its connection |
| SMTP | `6_smtp/` | `next_handler`, the mail being composed | connect, commands | datagrams lost, several clients, the client's `wait_for_response` | the mail stored is one client's mail, client and server stay in step |
| Remote finger | `7_rpc/` | none | one call | nothing | nothing to check |

How they interact: every row is a program, or a pair of programs, of its own.
Within a pair the interaction is by shared memory and semaphores (`1_ipc`,
`2_dining_philsophers`), by a TCP connection that carries pickled objects
behind a length (`4_mac`, `5_ftp`), by datagrams (`6_smtp`) or by kernel queues
(`1_ipc/msgq`). The three transfer protocols of `4_mac` share `common.py`:
`Packet` with its dice for corruption, and the framing.

The hazards this gives rise to are listed in `PROJECT.json`, each at its line.

## Plan

Done, and described below:

1. `DiningPhilosophers` with the abstract `DiningTable`, and `GoBackN` with the
   abstract `ReliableTransfer`: modelled, checked, proved.
2. `SharedQueue` for `shm.c`: modelled, checked, proved.
3. `SelectiveRepeat`, which implements `ReliableTransfer` too, and `SrTimers`,
   the threads of its sender around `client_sync_lock`; `FtpSession`: modelled,
   checked, proved.
4. `SmtpSession`: the one transaction of the server, `wait_for_response` of the
   clients, datagrams lost or overtaking each other: modelled, checked, proved.
5. `Framing` with the abstract `PacketFifo`: the byte stream under the three
   protocols: modelled, checked, proved.
6. `MessageQueue`: the bounded queues, restarts and kills: modelled, checked,
   proved.

What is left is what the provers cannot do, the liveness properties, and the
programs under "Not modelled".

## Modules

| Module | What it is |
|---|---|
| `DiningTable` | abstract: philosophers start to eat only while no neighbour eats |
| `DiningPhilosophers` | the threads and semaphores of the program |
| `DiningProofs` | theorems about it |
| `ReliableTransfer` | abstract: a window-bounded transfer that delivers each character once, in order |
| `GoBackN` | sender, receiver and connection of Go-Back-N |
| `SelectiveRepeat` | the same for Selective Repeat |
| `SrProofs` | theorems about it |
| `SrTimers` | `main` and the timer threads of the Selective Repeat sender |
| `SrTimersProofs` | theorems about them |
| `GoBackNProofs` | theorems about Go-Back-N |
| `SharedQueue` | the two processes of `shm.c` and the segment they share |
| `FtpSession` | FTP server, clients and their connections |
| `FtpProofs` | theorems about them |
| `PacketFifo` | abstract: packets come out once and, until something is thrown away, in order |
| `Framing` | one direction of the byte stream, its two writers and its reader |
| `FramingProofs` | theorems about it |
| `SmtpSession` | SMTP server, clients and the datagrams between them |
| `SmtpProofs` | theorems about them |
| `MessageQueue` | the server and the clients of `1_ipc/msgq` and their queues |
| `IpcProofs` | theorems about the two queues of `1_ipc`, `MessageQueue` and `SharedQueue` |
| `MCDining`, `MCGoBackN`, `MCSelectiveRepeat`, `MCSrTimers`, `MCSharedQueue`, `MCFtpSession`, `MCFraming`, `MCSmtpSession`, `MCMessageQueue` | the roots of the model-checking runs |

A definition marked "mutant of" is a variant of the definition it names, with a
bug the code might have had. No specification uses it; it is what the run of the
property is tried against, to see that the property can fail.

### DiningPhilosophers

`semaphore`, `created` (the threads `main` has created so far) and `pc`.
`Init` is the state after the `sem_init` loop. `CreateThread` is one turn of
the creation loop; `WaitLeft`, `WaitRight`, `PostRight`, `PostLeft` and
`WakeUp` are the steps of the endless loop of a thread between two calls that
may block or be observed. `LeftSpoon` and `RightSpoon` are the locals after
the `swap` of the odd ids. `sem_wait` never returns -1 here (no signal
handlers, valid semaphores), so the retry loops are single calls. The sleeps
are any length.

Run `dining`, with the program's 5 philosophers (an odd number: philosopher 4
and philosopher 0 are both even and neighbours, the case the swap does not treat
symmetrically):

* `SpoonsAccountedFor`: a spoon has at most one holder and has one exactly
  while its semaphore is 0. `BlockedBehindRunnable`: who is blocked is blocked
  behind a holder that can run; without the swap TLC finds the cycle.
  `TableSpec`: the refinement of `DiningTable`.
* `NobodyStarves`, under weak fairness of each thread (the kernel runs runnable
  threads) and strong fairness of the waits. The justification of the latter is
  in the sleeps: a spoon has two users, and the one that has posted it sleeps at
  least 200 ms (line 57) before it waits for it again, while the waiter has been
  woken.

### ReliableTransfer and GoBackN

`ReliableTransfer` offers characters within a window, delivers the next one,
confirms any number of delivered ones and finishes when all are confirmed.

`GoBackN` has the globals and locals of the two programs under their own
names, the positions in their loops (`spc`, `rpc`), the two directions of the
connection as FIFO sequences of packets and `conn`, what the receiver's end
knows of the connection. The correspondence:

* `SendFrame` and `WindowFilled`: the inner loop of `main`, one frame a step.
* `AcceptAck`, `IgnoreAck`, `CorruptAck`, `NoAck`: `recv_packet_nblock`, the
  dice, `is_valid_ackno` and the removal from `pbuffer`. `NoAck` is possible
  with acknowledgements in the channel: they may not have arrived yet.
* `Timeout`, `NoTimeout`, `TimerNeverStarted`: `has_timeout_occured`, the
  resending loop and the test for completion. Time is not modelled: a running
  timer may have run out at every check, so the model has every schedule,
  those with timeouts during the round trip included. In the program these are
  frequent, since the sender takes one acknowledgement per turn of 2.5 s and
  the receiver sends one per frame. The frames resent enter the channel in one
  step; only the sender writes there and it does nothing else meanwhile.
* `Close`: the two `close` calls or the end of the process. Data left unread in
  a socket turns the close into a reset, which reaches the receiver as an end
  of stream, as a reset or as both.
* `InOrderFrame`, `OutOfOrderFrame`, `CorruptFrame`, `SendAck`, `ReadReset`,
  `ReadEOF`, `SpinAtEOF`: the receiver. After the loop line 43 fails on
  `''.join()`; both ways out of the loop end the process, so `rpc = "left"`
  is its end.

Data: a character is its position in the message. Acknowledgements carry a
history field `upto`, how many characters the receiver had when it sent it; no
guard reads it. Bounds: `MaxLen` (longest message) and `MaxPremature`
(timeouts while something is on its way; timeouts with empty channels are not
bounded).

Run `gbn` (4 sequence numbers, messages up to 6, 2 premature timeouts): the
numbers wrap round once and a half, which is more than it takes for an
over-large window to fail (mutant `WindowOfAllSeqNos`, found with
`NoOldFrameTakenForNew` and, deeper, with `AckMovesWindowToItsMeaning`).

* `WindowsAgree` is the inductive invariant of the proofs. `BacklogBounded` is
  tight: less than two windows on their way in both directions together, and one
  more for each premature timeout; the model has no capacity of sockets, and
  this says from when on one matters. `TransferSpec` is the refinement.
* `Completes`: the sender gets through every message that is not empty.
  Fairness: both processes run; reading packets is strongly fair to clean reads,
  because the dice is thrown again for each packet read; the timer fires again
  and again since the sender keeps looping; what is sent arrives.

The receiver does not get past the end of an ordinary transfer: `recv` returns
`b''` at the end of the stream, and `read_k_bytes` asks again for ever
(`ReadEOF`, `SpinAtEOF`). Only a reset ends it (`ReadReset`). The same loop is in
`SelectiveRepeat`, `Framing` and `FtpSession`.

While modelling we saw that `is_valid_ackno` is not needed for safety: the only
number it rejects of those that can arrive is `S_f`, and for it the removal
loop stops at once. The proofs accordingly do not use it.

### SelectiveRepeat

The sender keeps one slot per frame of its window and resends single frames; the
receiver keeps frames that come early, sends a NACK once per gap (`nack_sent`)
and delivers what has become contiguous (`Deliver`, one turn of its inner loop;
`Drained`, the end of it with the ACK). Names, data, channels and `conn` are as
in `GoBackN`. `Timeout` is `callback_timeout` taken as one step at any moment,
so every schedule of the timer threads is there except the races of `SrTimers`.
A packet is answered with up to two packets in one step (`SendAll`): nothing
else writes in that direction. A write on a connection the sender has closed may
fail already on the second `sendall` of a packet, and then which exception it is
decides how the receiver ends (`SendFails`); the same holds for `SendAck` of
`GoBackN`.

Run `sr` (window 2 and so 4 numbers, messages up to 5 so that the numbers wrap
round, one premature timeout, besides any number when nothing is on its way):

* `WindowsAgree`: what every slot of both buffers and every packet on its way
  may hold, in terms of the positions of the two windows. With one number less
  it fails.
* `NumberTellsNewFromOld`: the receiver's test of the number accepts exactly the
  frames it has not delivered.
* `RepliesMeanWhatTheySay`: a reply may be as late as it likes, the sender
  resends the character that was missing when the NACK was sent and moves its
  window to what had been delivered when the ACK was sent.
* `OneNackPerGap`: no two NACKs for one frame are on their way, whatever comes
  in between.
* `TransferSpec`: the refinement of `ReliableTransfer`.
* `Completes`. The rule of line 69 is what it takes: an old frame is answered
  while `nack_sent` is set, or a lost last ACK would never be repeated. Fairness
  is as for Go-Back-N; each slot's timer is started again whenever it has run out.

### SrTimers

The same sender with its threads: `main` and any number of `Timer` threads, each
step one access to something they share. A `Timer` is an object with a life of
its own (`created`, `waiting`, in its callback, `finished`, or `disarmed` by a
`cancel` before its `start`); `timers[s]` only refers to it, and may be
overwritten while the object waits or runs. The receiver is reduced to the
replies that `SelectiveRepeat` shows it to give. `MaxTimers` is the number of
objects that exist at a time: with a pool too small TLC reports a deadlock, since
`main` waits for an object, so that the bound cuts nothing off.

Run `sr_timers` (window 2, three frames, so that a slot is used again; one NACK;
five timers):

* `EveryFrameGuarded`: when `main` is back in its loop every unacknowledged frame
  has a timer that waits or a callback about to start one, although timers are
  cancelled too late, overwritten, and started for one another.
* `StopFindsTimer`: `stop_timer` never meets `None`; its `raise Error` would be a
  `NameError`.

* `OnlyNackAnswersMix`: two threads are in the middle of a packet at once only
  while `main` answers a NACK (line 86), for which it takes no lock. `Framing`
  shows what that does to the stream.

Run `sr_start_race` (window 1, two frames, one NACK): the finding below.

### Framing

One direction of a connection, byte by byte: `WriteLength` and `WriteBody` are
the two `sendall` calls of `send_packet`, `BeginRead`, `Recv` and `WouldBlock`
the reads. A byte is the packet it belongs to and its place in it; `Arrive` lets
any number of further bytes reach the socket, so TCP splits the stream in every
way. The two writers are those of `sr_sender.py`: `main`, which may write without
the lock, and a timer thread, which may not. `blocking` separates `recv_packet`
from `recv_packet_nblock`; `cut`, `mixed` and `torn` are history: a part of a
length has been thrown away, a packet has begun inside another, the body of these
packets was never sent. `rpc = "lost"` is a reader that has taken other bytes for
a length or a packet.

`Close` may come at any moment: at the end of `main` (line 124) `sr_sender.py`
closes the socket without taking `client_sync_lock` and without joining its timers,
one of which may be between its two `sendall` calls, and the interrupt key takes
`main` there from inside a packet of its own. The `sendall` of the body then raises
an exception, and the reader is left with a length that nothing follows
(`SpinAtEOF`).

Run `framing` (3 packets, lengths of 3 bytes and bodies of 2: a length can be cut
in two places, a packet can end inside a length, and a third packet is there to be
taken for a part of the second):

* `LostOnlyAfterCutOrMix`: splitting alone never puts the reader out of step,
  whatever the mixture of blocking and non-blocking reads.
* `FifoSpec`: the refinement of `PacketFifo`. No packet comes out twice or in
  parts even when two are mixed; none is missing until `recv_packet_nblock` has
  thrown away a part of a length (line 132). After that the reader may be out of
  step, or back in step with packets missing.
* `EveryPacketReturned`, until one of the two happens: every packet but the one that
  `Close` has torn, also those still in the stream when the connection is closed.
  Fairness: a thread between
  its two `sendall` calls goes on, TCP delivers what was sent, and the reader
  reads again and again, as the loops of all programs do. Whether another packet
  is sent is left open.

The docstring of `recv_packet_nblock` speaks of peeking; it takes bytes from the
stream, which is what `cut` records. With the four bytes of a length sent by one
`sendall`, a cut needs TCP to split these four.

### SharedQueue

`shm.c` puts `count`, `next_full`, `next_avail` and `data` into a shared segment
and the mutex on the stack, so that after `fork` each process locks a copy of its
own (`MutexOf`). `Lock`, `Test`, `Put` or `Take`, `Load`, `Store` and `Unlock`
are the steps of the two loops; `Load` and `Store` are the two halves of
`count++` and `count--`, which is where updates are lost.

Run `queue_race`: `CountInRange`, since each process moves `count` in one
direction only and its test stays true until it acts; and `FifoUntilOverlap`,
items are taken in order and each once up to the first overlap of two updates
(`overlapped`, a history variable). Run `queue_mutex`: the finding below.

### FtpSession

The server with the one `RequestHandler` all connections share (`handler`, with
the effective user id of the process), the backlog, the connections, and the
clients with their flags and their time-out. `spc` is where the server is between
`accept` and `shutdown`; `cpc` where a client is: at its prompt, waiting for one
of the four kinds of response, closing or ending. The commands behind the login
are three: `cmd`, answered whatever happens; `put`, whose time-out the client
survives; `crash`, whose handler lets an exception escape, such as `size` without
an argument (`IndexError`, line 134) or `pwd` in a directory that has been
removed. A connection is two FIFO queues; `closed` and `reset` give the ways in
which sending and receiving fail. A put may time out when it is partly sent or
its response partly read: then the remains stay in the stream and swallow what
follows (`TearRequest`, `TearResponse`, `SwallowRequest`, `ReadDamagedPut`,
`ReadGarbage`). A client ends by `exit`, by the interrupt key, both of which send a
`close` first (`SendClose`; in `Open`, when the key comes before the ping), by an
exception (`WaitFails`, `RequestFails`, `CloseFails`), or because its input ends at a
prompt (`EndOfInput`), without one. `closes_sent` is history: the connections on
which a `close` was sent behind the first request, which `sock_ignore` throws away.

`authenticate` (of `auth.py`) is a relation of the login and the effective user
id: a name with its password, any name with a wrong one, `anonymous`, and, when
the server has given up root for an earlier session, a shadow file it cannot read
(`ShadowFileUnreadable`, an exception).

Run `ftp_safety` (two clients, three connections, four requests on each: enough
for a connection after a connection that went wrong, and for a response that is
late by two):

* `ResponsesLagByPutsGivenUp`: after a put given up, every response on the
  connection is taken for the answer to a later request, by exactly as many
  places as puts were given up, and by nothing else.
* `LoggedInAtBothEnds`: a client takes itself for logged in only where the server
  has opened a session.
* `SessionOfCurrentConnection`: the shared handler is in a session of the
  connection it serves, unless an exception ended an earlier one.
* `SpinsOnlyWithoutClose`: the server gets stuck at the end of a stream only if its
  client has ended and never sent a `close` that the server could read, or if the
  remains of a torn request are in the stream. `close`, `exit` and the interrupt key
  do let it go on, whatever was given up before and however late the server is.
* `TypeOK` says too that a client which takes itself for connected has a socket that
  is: without that `send` would use a socket that `close` has set to `None`.

Run `ftp_leftover_session`: the finding below.

### SmtpSession

The server has one transaction (`next_handler`, `mail_from`, `recps`, `data`) for
whoever sends it datagrams; `Receive` is `accept` with the whole handler
(`HandleHelo`, `HandleRcpt`, `HandleData`, `StoreText`, `StoreMail`), or `connect`
for the first datagram (`Connect`). `SaveFails` is `save_mail` with a mailbox that
cannot be opened: the earlier recipients have the mail, the exception ends the
server. A client is at its prompt or waits in `recv_response`; `WaitsAfter` is what
the line just typed does to `wait_for_response`. Network and faults: datagrams
are lost, overtake each other, and are lost for certain while there is no server.
A line is its verb and what the server finds in its argument; `text` is a line
that is no command. `mails`, `answered`, `unanswered`, the numbers of lines and
`awaited` are history that no guard reads.

Run `smtp` (two clients, five lines in all, one datagram lost or overtaken or one
interrupt of the server). Five lines are what one mail needs (`mail`, `rcpt`,
`data`, a text, the dot), from one client or from two that get into each other's
mail, and one fault lets a response be late, a server restart inside a mail, or a
command be missing.

* `HandlerFitsMail`: the next handler expects no more than has been accepted.
* `AcknowledgedMeansStored`: an answer 250 to a dot means that the mail is in the
  mailboxes of all its recipients.
* `LinesOfTheWriterKept`: on a network in order a mail holds all lines of the
  client that opened and closed it, in order, even if they look like commands.
  It may hold lines of others too; the program has nothing against that.
* `WaitsForSomething`: who waits has an answer on its way or a request that will be
  answered, or has lost it in one of the four ways `unanswered` records.
* `LateOnlyAfterRefusedData`: responses lag behind only after the server has
  answered a line that its client took for text: a `data` refused, or a mail that
  another client closed or a restart threw away.

### MessageQueue

`server.c` and `client.c` call by call: `StartServer`, `ReceiveRequest`,
`OpenClientQueue`, `SendReply`; `StartClient`, `CreateQueue`, `SendRequest`,
`ReceiveReply`, `UnlinkQueue`. Queues have a capacity and outlive their processes;
`mq_unlink` takes the name only, so a client may still write to the queue of a
server's earlier life, and the server to a queue its client has left: that queue
keeps its messages and its limit in the descriptor of the server (`client_qd`), and
`mq_send` on it blocks for ever when it is full, even if a client with the same
process id has made a new queue of that name. `replies[p]` holds the contents of
every queue that had the name of `p`, and `made` counts them. Server and
clients may be killed anywhere, and a process id may be used again, with the
queue of the killed client still there (`O_CREAT` without `O_EXCL`).

Run `message_queue` (two process ids, one with four clients and one with three, four
of the seven killed, two lives of the server, queues of two messages):

* `ReplyIsOwn`: a client gets a reply to its process id, and it is the one to its own
  request unless a client with that id was killed before.
* `BlockedOnlyBehindCrashes`: the server blocks on a full queue that nobody is going
  to read, because its client is gone, or has unlinked it after the server had opened
  it, or itself waits for room in the server's queue, a circular wait; each takes more
  than `MSG_MAX_COUNT` killed clients with that process id. The bounds reach all three:
  three kills with `p1` fill its queue and the server's hand; the fourth client may
  read one old reply, the server fill the queue again and open it once more, and the
  client unlink it. The circle takes one kill more, that of a client of `p2`, so that
  the queue of requests is full as well.
* `EveryWaitEnds`: a client that waits gets a reply, unless its server has died or is
  blocked like that and stays so (`[]Blocked`). Fairness: processes run when they can.
  Nobody has to start the server again.

## Findings

* `queue_mutex`. The mutex that is documented as shared between the processes is
  copied by `fork`: both processes are in their critical sections at once.
* `sr_start_race`. `start_timer` reads `timers[ind]` again after it has stored the
  new timer. If a callback does the same in between, one object is started twice;
  the `RuntimeError` ends `main`, though line 29 means to handle races silently.
  (In a callback the same exception ends only the timer's thread: `StartFails`.)
* `ftp_leftover_session`. An exception in the middle of a connection skips
  `shutdown()`, which should "revert back to the privileaged user" (`server.py`, line
  179): the server waits for the next connection as the user of the last one. It
  cannot read the shadow file then (`ShadowFileUnreadable`), so that logins fail until
  somebody opens a connection and closes it in order.
  `SessionOfCurrentConnection` is what remains true.

## Proofs

All theorems hold for every value of the constants under the named
assumptions (`PCountAssumption`: at least 2 philosophers; `GBNAssumption`: at
least 2 sequence numbers, any bounds; `QueueAssumption`: at least one slot;
`SRPAssumption`: a window of at least one frame, any bounds; `SrTimersAssumption`:
the same, and at least one Timer object; `FtpAssumption`:
`Root` and `None` are no clients, and a connection takes at least two requests, its
ping and a login, any other bounds;
`SmtpAssumption`: `None`, `Unknown` and `Malformed` are none of the values they
stand apart from, any bounds; `FramingAssumption`: a length and a packet have at
least one byte each, any number of packets; `MessageQueueAssumption`: a queue holds
at least one message, any bounds).

The module `IpcProofs` extends both `MessageQueue` and `SharedQueue`; that is why the
initial states, the steps and the types of the latter are called `ShmInit`,
`ShmNext`, `ShmSpec` and `ShmTypeOK`.

The facts about `%` that a component needs are at the head of its proofs:
`ModUnique` (numbers less than a modulus apart that agree modulo it are equal),
`ModShift` (counting on from a reduced number) and, for the slots of Selective
Repeat, `ModOfTwice`, `ModTurn`, `ModDifference` and `ModCovers`.

* `DiningProofs`. `SpoonSafety` proves `TypeOK /\ SpoonsAccountedFor`, which is
  inductive: that a semaphore never exceeds 1 rests on the poster being a holder.
  `DeadlockFreedom` follows from it and from one lemma on the swap: a spoon is
  the second of one philosopher and the first of another only between the last
  philosopher and philosopher 0, so chains of blocked holders have no cycle.
  `ImplementsTable` adds that neighbours share a spoon.
* `GoBackNProofs`. `WindowSafety` proves `TypeOK /\ WindowsAgree`, inductive
  together: `S_f`, `S_n`, `expected_seq_no` are positions modulo
  `MAX_SEQ_NO + 1`; the receiver is inside the sender's window; frames on their
  way are at most a window older than what is expected and than frames before
  them; acknowledgements come in order from inside the window. The last two are
  what strengthens the invariant: without the order in the channels a stale
  packet could not be bounded. Together with `ModUnique` they give `NoSeqNoConfusion`,
  `AckMeaning` and `ImplementsTransfer`. `TimerSafety` has a small invariant of
  its own, `TimerInv`. `BacklogSafety` counts the window from the last
  acknowledgement taken off the connection, also if it was thrown away
  (`last`): each acknowledgement is for at most one frame more than the one
  before it (`AckChain`), so that one taken off pays for the frame it adds to what
  is acknowledged. What travels beyond the frames counted like that
  (`PaidFor`) is less than one window for every timeout, and is all of it only
  while a whole window, which the receiver has, waits for its acknowledgement; the
  next timeout is then a premature one.
* `SrProofs`. `WindowSafety` proves `TypeOK /\ WindowsAgree` as for Go-Back-N; here
  a frame on its way may be a window older than those before it, than what is
  delivered and than what is in `rbuffer`, which is what two windows of numbers
  leave room for. `NewFromOld` and `ReplyMeaning` follow with `ModUnique` and
  `ModOfTwice`. `NackSafety` adds `NackInv` (while `nack_sent` is not set, or is
  about to be cleared, no NACK on its way asks for the frame now missing), and `ImplementsTransfer` that a sender
  which has closed had everything acknowledged.
* `SrTimersProofs`. The invariant `IInv` is `TypeOK` with four parts. `LockOK`: a
  Timer inside its `with` statement holds the lock, and so does `main` while it
  writes a new frame; `LockSafety` is a consequence. `WindowOK`: every frame
  outstanding is in its slot, but for the one that an ACK is about to count off;
  slots of frames less than a window apart differ (`ModUnique`). `TimersOK`: the
  Timer in a slot was made for that slot; only the `cancel` of `main` disarms a
  Timer before its `start`, and `main` forgets it next; every frame in a slot that
  `main` does not work on has a Timer that will send it again or that a callback is
  about to start. `PhaseOK` says what `main` is busy with at each place. A callback
  that comes between the reads and writes of `main` keeps `TimersOK` because it
  starts a Timer for its own slot only while the frame is there. `GuardSafety` and
  `StopSafety` follow. `TypeSafety` is the types alone.
* `FramingProofs`. Byte `i` of packet `p` has position `(p - 1) * Size + i` (`Pos`).
  `TypeSafety` is the types with one addition: nothing is collected between two
  packets. `SyncInv` says where the bytes stand: as long as no part of a length
  was thrown away and no packet has begun inside another, the bytes collected and
  the bytes on their way are the next positions in a row (`Whole`), up to the last
  byte written, and until the connection is closed a writer between its two
  `sendall` calls is alone and at that place. What it writes afterwards is lost, so
  that a torn packet changes nothing for the reader (`TornSync`, `TornOnce`). Once two packets are mixed, either the reader is lost, or it has begun to
  take a length for a packet (`Doomed`), or it will get there (`Ahead`): at the end
  of some length, which only in-step bytes precede, another length begins. That is
  the strengthening: `LostOnlyAfterCutOrMix` says nothing of bytes not yet read.
  `InStepUnlessSpoiled` follows. `Refinement`, that packets come out as `PacketFifo` says, also when the
  stream is spoiled, adds `OnceInv`: the last byte of a packet is written once, no
  length contains one, and a reader that returns a packet takes that byte with it.
  So even a reader out of step, or back in step by chance, returns no packet twice.
* `IpcProofs`, `SharedQueue`.
  `CountSafety` rests on `RangeInv`, `CountInRange` with `TestStillHolds`: what a
  process has found true of `count` stays true until it loads, because the other
  one can only make it truer, and what it has loaded lies in the same bounds.
  `OrderUntilOverlap` adds `BufferHoldsTheRest`: as long as no
  updates overlapped, the slots from `next_full` on hold the items produced and
  not consumed, and `count`, with the updates under way, says how many.
* `IpcProofs`, `MessageQueue`. The invariant `Inv` is `TypeInv` with four parts.
  `OnceInv`: a message is in one place, in one queue of requests, in the server's
  hand or in the queue of the client it is for. `FreshInv`: a client that has not
  sent its request has no message about, so that the next request of a process id
  is a new one. `CountInv`: of one process id no more messages are about than
  clients with that id were killed, and one more if a client waits and its own is
  among them. It speaks of
  every set of clients of whom a message is about and of its cardinality: a waiting
  client that takes a reply ends its wait, whichever reply it takes, and only a
  kill lets a message outlive the wait for it. `OwnInv`: with no kill, a message is
  that of the client there is now. `OwnReply` follows from `OwnInv` and from what
  `TypeInv` says of a queue, that only replies to its process id are in it. For
  `BlockedOnlyByKills` the messages in the full queue and the one in the server's hand
  are one more than the queue holds (`FullQueue`), and `CountInv` bounds them by the
  kills if the one a waiting client counts for is not among them. That is
  `OrphanInv`: in a queue that has lost its name while the server had it open, or
  about to go there, is no reply to the client there is now, which has come after it
  or has been answered.
* `SmtpProofs`. `HandlerSafety` proves `TypeOK /\ HandlerFitsMail` from the
  inductive `Safe`. It adds `FreshGreeting`, that a server which waits for its
  first datagram is back at `helo` (`connect` sets `next_handler` and leaves the
  sender and the recipients as they are), and `OwnDatagrams`, that a datagram is in the queue of the client
  it is from. `WaitingSafety`: taking a datagram out of a queue loses only that
  one, and whoever waited for it gets an answer or joins `unanswered`.
  `LateOnlyIfRefused` rests on `InStep`: while no line of its data mode has been
  answered, a client has at most one awaited line or unread answer, and that
  belongs to the last line it has sent. `AcknowledgedSafety`: mails are only ever
  added, and a 250 to a dot is sent in the step in which `save_mail` has been through
  the recipients, of whom `HandlerFitsMail` says that there is one. `LinesSafety`
  rests on `LinesInv`, which is void once something was lost or overtaken while the
  server ran: the datagrams of a client that are not read are numbered up to the
  last line it has sent, and a mail that is open holds the lines of the client that
  opened it up to the last one read.
* `FtpProofs`. A step is first reduced to what it does to one queue, element by
  element (`Shorter`, `Longer`, `Emptied`, `Merged`, `Torn`), and from there on
  everything is about positions in queues. `TypeSafety` proves `TypeOK` from
  `Safe`, which adds that a client is connected where it uses its socket and has
  not given up more than it has asked (`ClientFits`), and that requests are those
  of known users. `SessionSafety`: "granted" is in hand or on its way only on a
  connection that has set the session. `SpinSafety` and `ResponseOrder` share
  `SocketsOK`: no two clients hold one connection, who has closed its end has
  ended, the server closes in the order it accepts, and until `sock_ignore` has thrown
  away the first request of a connection there is one, and one more behind it if a
  close was sent (`Greeting`). `CloseIsSeen`: a connection on which a close was sent is
  over (`SentIsOver`), that is, the close is the last request on it, has been swallowed, or the
  server has dealt with it or got a reset; its client sends nothing more on it
  (`SentIsLast`), and whoever has closed a connection has sent a close or has ended
  (`ClosingIsSent`, `ClosedIsKnown`). What a server in its loop has found at the end of
  the stream does not change any more (`SpinsAlone`). `Numbered`: the responses on their way,
  the request in hand and the requests not yet read are numbered one after the
  other, from the responses a client has taken or given up to the requests it has
  sent; only what comes behind the remains of a request has no place. The head of
  the queue is then the response that `ResponsesLagByPutsGivenUp` names.

Model-checked only: the liveness properties (`NobodyStarves`, `Completes`,
`EveryPacketReturned`, `EveryWaitEnds`), which are out of reach of TLAPS. Every
invariant, every property of steps and every refinement that a run checks is
proved.

## Not modelled

* Stop-and-Wait. `sw_sender.py` imports `logging` as `log` and then uses the name
  `logging` at line 10: it ends with a `NameError` before it has a socket.
  `sw_receiver.py` cannot connect and ends too. The protocol has no behaviour to
  model; `recv_packet` with a time-out, which only it uses, is among the reads of
  `Framing`.
* The banker's algorithm. The file does not compile as committed (a stray
  character after its last brace), and its safety check uses a vector of flags it
  has made empty, so that what it would decide is undefined.
* The pipe line. `pipe.c` forks twice, redirects descriptors and executes `cat`,
  `awk` and `sort`; what runs then is not in the repository.
* `7_rpc`: one stateless call of a library.
* `p_msgq.c`, which has the server and the client of `1_ipc/msgq` in one file
  again.

Of the modelled programs: wall-clock time, log output, keyboard interrupts (but
for the FTP client's and those of the SMTP programs), the capacity of sockets,
the header and wording of mails and responses, the password hashing, and
what FTP commands do to files. With the latter goes the directory of an FTP session:
`os.chdir` (`server.py`, line 61) is not undone by `shutdown` either, so that an
anonymous session starts where the last one was. The lines of a mail are kept one by one, while
`store_data` joins them without a separator (`smtp_server.py`, line 117). In `Framing`
a close ends the stream in order; the reset that replies left unread make of it is in
`GoBackN` and `SelectiveRepeat`.
