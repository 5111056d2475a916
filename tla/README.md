# FreeDMR: verification project

TLA+ models of FreeDMR (`src/`, C++ with pthreads): a client for the Homebrew
protocol that links a DMR repeater to a master over UDP, the driver of a DV4Mini
radio stick on a serial port, and the small programs built on them. This file
says what the system consists of, what is modelled, what the runs check, what is
proved, and what is still to do. Paths are those of the repository; line numbers
of the code are in `PROJECT.json` under `map`.

## 1. Inventory

| Component | State | Operations | Interacts with |
|---|---|---|---|
| `HomebrewClient` (`lib/homebrew/homebrewclient.*`) | thread state, connection phase, server address, dialect, socket, packet queue with its mutex, times of the last ping and pong, setters' values | constructor, `open`, `close`, destructor, `getRxPacket`, `sendTxPacket`, `runReceiveThread` | application thread and receive thread share the object; UDP to a master |
| Socket library (`lib/socket`) | a descriptor or -1 | `open`, `close`, `bind`, `sendto`, `recvfrom` with and without timeout, TCP, multicast, `recvline` | `HomebrewClient`, `homebrewproxy` |
| `HomebrewPacket` | the 53 bytes of a DMRD datagram | getters and setters of its fields | the client's queue, the applications |
| `ByteFiFo` (`lib/data`) | ring, size, count, two indices, a mutex | `setSize`, `reset`, `put`, `get` (byte and block) | its test; meant to sit between threads |
| `BitFiFo` | a bit index on top of `ByteFiFo` | `reset` | unfinished |
| `DV4Mini` (`lib/dv4mini`) | states of a watchdog and a receive thread, serial port, transmit mutex, RSSI, sink | `open`, `close`, commands, the two threads, the parser of received messages | serial port, `ByteSink` of the application |
| `dv4mini-server` | locals of `main` | play a file or print the RSSI | `DV4Mini`, `FileSink`, `Opt` |
| `parrot`, `dmrrec` | locals of `main`, the flag of the signal handler | record for some seconds, then play or write a file | `HomebrewClient`, `HomebrewPacket`, `Opt` |
| `homebrewproxy` | none | echoes datagrams | socket library |
| `Opt` | table of options | `registerOpt`, `parse`, `loadFile`, getters | every `main` |
| `RS232Port`, `FileSink`, `Sha256`, `HexDump`, platform headers | descriptor / file / hash state | I/O, hashing, formatting | the above |

What is hard, and what makes each component correct:

* **HomebrewClient.** Two threads, no lock except for the queue. `close()` must
  wait for the thread that `open()` started, in whatever place that thread is;
  the members are used by one of them at a time otherwise. The protocol: each
  handshake datagram only after the answer to the one before, pings only when
  connected, one logout at the end of every session. The queue: first in first
  out, bounded, no packet lost or repeated. The network loses, reorders and
  duplicates datagrams, and other hosts can send to the socket.
* **ByteFiFo.** Index arithmetic around the end of the ring, for blocks that are
  split there, a full ring, an empty ring and a ring of size 0.
* **DV4Mini.** Two threads that stop one after the other, a blocking `read()` in
  one of them, a serial line shared by three writers, a byte parser that has to
  find the next message after noise.
* **dv4mini-server.** The lifetime of the objects the threads use.
* **parrot, dmrrec.** A signal between any two steps, returns that leave the
  client to its destructor, a queue that fills while `main()` sleeps; every packet
  is handled once, in order, and changed only where the options say.
* **Socket library, homebrewproxy.** A descriptor that is closed in one thread and
  used in another, numbers the system hands out again, calls whose failure nobody
  looks at, a line that ends in one of three ways and perhaps where the buffer does.
* **HomebrewPacket, Opt.** Bit fields that share a byte; an option file that
  includes option files.

All the places where this bites are listed with their line in `PROJECT.json`
under `hazards`, each with the properties that cover it or the reason why none
does yet.

## 2. Modules

| Module | What it is |
|---|---|
| `HomebrewClient` | the client with the most general network: any datagram of any host may arrive at any `recvfrom()`, or none |
| `RxPipe` | abstract specification: the path of a packet to the application is a first-in first-out pipe |
| `HomebrewSession` | `HomebrewClient` composed with a master and a network that loses, reorders and (optionally) duplicates |
| `HomebrewConfig` | the length of the client's configuration datagram |
| `HomebrewClientProofs` | theorems about `HomebrewClient`: its threads, the queue and the pipe, what it sends, whom it receives from |
| `HomebrewSessionProofs` | theorems about the composition with the master |
| `HomebrewPacket` | getters and setters of a DMR packet, bit by bit |
| `HomebrewPrograms` | `main()` of parrot and of dmrrec composed with `HomebrewClient` |
| `HomebrewProgramsProofs` | theorems about the accessors of `HomebrewPacket` and about the programs |
| `Sockets` | the socket objects and the descriptors behind them |
| `HomebrewProxy` | `main()` of homebrewproxy on a socket object, with its peers and the network |
| `TcpLine` | `recvline()` on a stream |
| `SocketPrograms` | the process that uses the socket library: threads that share objects, the proxy, or a reader of lines |
| `SocketProgramsProofs` | theorems about the three of them |
| `ByteFiFo` | the ring buffer, one step per operation (every one holds the lock throughout) |
| `ByteQueue` | abstract specification: a bounded queue of bytes |
| `ByteFiFoProofs` | theorems about `ByteFiFo` |
| `DV4Mini` | the driver: application, watchdog and receive thread, the serial line, the stick |
| `DV4Parser` | how the receive thread of the driver finds the messages in the bytes of the line |
| `MessageChannel` | abstract specification: messages arrive in order, once, unchanged, or not at all |
| `DV4ParserProofs` | theorems about `DV4Parser` |
| `DV4Server` | `main()` of dv4mini-server composed with `DV4Mini` |
| `DV4Proofs` | theorems about the driver and about the composition with the server |
| `OptParse` | the options of the programs: command line, option files, getters |
| `OptParseProofs` | theorems about `OptParse` |
| `MC...` | the small instances for TLC |

### How HomebrewClient corresponds to the code

`pc[Main]` and `pc[Rx]` say where the application thread and the receive thread
are. A step is the code between two accesses that the other thread can observe:
`close()` is `CloseIdle`, or `CloseActive` (the test of the state), `CloseStop`
(the write of REQUESTSTOP) and `CloseJoin`; `open()` goes through all of them
and then `OpenResolve`, `OpenSocket`, `OpenCreate`; the destructor through them
and `Destroy`. `getRxPacket()` is `GetLock`, then `GetEmpty`, or `GetFront` and
`GetErase`, for either thread, because the receive thread calls it to evict. The
receive thread is `RxStart` (login), then in a loop `RxLoopTest` (the condition)
and one of `RxNothing`, `RxClassic`, `RxAck`, `RxMasterClose`, `RxPong`,
`RxData` (one return of `recvfrom()` and what is done with it, the ping that is
sent first included), with `RxLock`, `RxCheck`, `RxPush` for the queue, and
`RxLogout`, `RxCloseSocket`, `RxExit` at the end.

| Variable | Code |
|---|---|
| `threadState`, `phase`, `server`, `dialect` | `m_eReceiveThreadState`, `m_ePhase`, `m_ServerAddr`, `m_iDialect` |
| `sockfd`, `opens` | `m_sock.sockfd`; every socket gets a number of its own, so a datagram tells on which one it was sent |
| `queue`, `rxLock` | `m_PacketRxQueue`, the holder of `m_lckRxQueue` |
| `front`, `packet` | the local `p` of `getRxPacket()` and of `runReceiveThread()` |
| `lastPing`, `lastPong`, `now` | `tLastPingTime`, `m_tLastPongTime`, `time(NULL)` |
| `config` | what the setters have set, reduced to the number of characters each value prints |
| `call` | the arguments of the call `Main` is executing |
| `toServer`, `received`, `delivered`, `notice`, `aborted` | history: what was sent, what was accepted, what the application got, whether MSTCL was seen, whether an `assert()` failed |

The application may call its operations in any order and at any time, from one
thread, as the programs of the repository do. `sendTxPacket()` is one step: it
uses the socket once. Packets are numbered in the order of their arrival, the
number standing for their 53 bytes; all other datagrams are reduced to their
kind. `OTHER` is a datagram with any other content or a wrong length.

The shared members are plain variables read and written by two threads. Between
two reads of `m_eReceiveThreadState` the loop always calls functions the compiler
cannot see through (`recvfrom()`), so each read is a read of the memory; a write
of the enumeration is a single store. The model therefore has one step per
access and no further outcome.

`HomebrewSession` replaces the general network: a master that knows each socket
as `unknown`, `login`, `auth` or `connected`, acknowledges a login datagram when
it comes in turn, refuses it otherwise, answers pings, forgets a peer that logs
out, and may announce a shutdown (after which it does not know the peer). It is
not part of the repository; it is what the datagrams of the client and its
receive thread presuppose. Loss is a datagram that nobody takes; reordering is
taking any of those in flight; with `Duplication` what was taken stays.

`HomebrewConfig` has the widths of the format of the configuration datagram. A
format pads a value that is shorter than its column and does not cut a longer
one, so the datagram has 302 characters exactly when every value fits; if not,
`AckMisfit` is the failing assertion. `AppConfigure` stands for the setters.

### How HomebrewPacket and HomebrewPrograms correspond to the code

A byte or an `int` is the set of its bits, so the shifts, masks and casts of the
header are set operations, and what a cast cuts off is lost in the model too.
Only the bytes 4 to 19 are modelled; the rest is payload that no accessor reads.

`place` is what `main()` does next; a step is one call of the client with what
`main()` does around it, or the code between two calls. `At(Main, "app")` keeps
`main()` inside a call until that returns. `program` tells parrot and the two modes of
dmrrec apart, `secs` is the seconds loop, `taken` how many packets had been returned
before the call under way: `getRxPacket()` has returned one when there are more.
`Content` gives the bytes of the packets the client numbers. `Interrupt` is the signal
handler, which only sets a flag; the flag is read where the code reads it, so a packet
taken just before is dropped, as in the code. `sleep()` and `usleep()` are the
interleaving with the receive thread.

### How Sockets, HomebrewProxy and TcpLine correspond to the code

| Variable | Code |
|---|---|
| `sockfd`, `reuseaddrflag` | the members of the objects |
| `fds` | what the system has behind a number: its owner, the port, SO_REUSEADDR |
| `doing` | per thread, the call it is in and how far it is |
| `sent`, `net`, `queue` | datagrams sent to the proxy, under way, and held by the system |
| `at`, `rxBuffer`, `fromAddr`, `iBytes`, `echoes` | locals of the proxy; for each byte of the buffer the datagram it came from |
| `stream`, `consumed`, `maxbytes`, `text`, `lines` | the stream, how much has been received, the room left in the caller's buffer, what is in it, what was returned and why |

`close()` is `CloseFd` (the system call) and `CloseReset` (the member), and `sendto()`
reads the member in `SendRead` and calls the system in `SendCall`. One thread at a
time opens, closes or binds an object while others send on it: that is how
`HomebrewClient` uses its socket. The system hands out the lowest free number. A
`bind()` that is refused, or fails at its option (`BindOptionFails`), keeps the descriptor. The proxy is `CallBind`, `BindReturned`, then
`Receive` or `ReceiveFails` and `SendBack`. A byte of text on the stream is known by
its place, so it cannot be confused with another.

### How ByteFiFo corresponds to the code

`ring`, `size`, `count`, `readIdx`, `writeIdx` are `m_pRing`, `m_iSize`,
`m_iCount`, `m_iReadIdx`, `m_iWriteIdx`; `call` is the last call: what it was given,
how many bytes it asked for, its success and what it got. The abstract queue has
the same variable, so the refinement compares every result with the call it
answers.
Bytes of the ring that were never written have the value `Unset`, so a read of
one would break `TypeOK`. `Stored` and `Fetched` are the pairs of `memcpy()`.
`setSize()` reads `m_pRing` once more after it has released the lock; as `new`
never returns NULL the result is the same, and the step ends at the unlock.

### How DV4Mini corresponds to the code

| Variable | Code |
|---|---|
| `wdState`, `rxState`, `port`, `simMode`, `sink` | `m_WatchdogThreadState`, `m_ReceiveThreadState`, `m_Port`, `m_bSimulationMode`, `m_pRxSink` |
| `txLock`, `todo`, `piece` | the holder of `m_lckTx`; the commands a thread sends before it goes on; the write of `sendCmd()` that is next |
| `wdCount`, `batch` | `iCount` of the watchdog; what one `read()` left in `rxBuffer`, as messages |
| `plugged`, `line`, `led`, `owed`, `reply` | the stick and the input buffer of the port |
| `dead`, `stray`, `closed` | history: what ended the process, whether a thread that does not exist was joined, whether `close()` has returned before |

`open()` is `AppOpen`, `OpenPort`, `CreateWd`, `CreateRx`; `close()` is `CloseRx`
(the test), `StopRx`, `JoinRx`, `CloseWd` (test and write), `JoinWd`,
`ClosePort`. A command is `SendLock` and one `SendWrite` per `transmit()`:
preamble, command, length and, unless it is one of `Bare`, the parameters; the
last one releases the lock. The watchdog is `WdStart`, then `WdPoll` until its
state is REQUESTSTOP, then `WdStops` (LED off) and `WdExit`. The receive thread
is `RxLoopTest`, `RxRead`, `RxHandle` and `RxPut` for each message (the call of the
sink is a step of its own), `RxHandled`, `RxExit`.

`RxRead` waits for the stick: the port is opened in a mode in which `read()` blocks.
In simulation mode, and with the stick unplugged, it returns at once.
`m_bSimulationMode` is set by no constructor, so `SimModes` is what it may hold.
The stick is external: it owes an answer after a whole request, and can be
unplugged. A message of the watchdog with less than two bytes (`SHORT`) fails the
assertion in `receiveCmd()`. `pthread_join()` of a thread that was joined before,
or never created, is undefined: it may end the process (`dead = "join"`) or return.
The application opens the object only when its port is closed and sends only
when `open()` has succeeded, as dv4mini-server does.

### How DV4Parser corresponds to the code

One `Parse` step is one turn of the loop over the bytes of `rxBuffer`, with the
four branches `MatchPreamble`, `TakeCmd`, `TakeLength`, `TakeParam`; `uIdx`, `iCmd`,
`iLength` are the variables of that name, `param` the filled part of `paramBuffer`.
The line carries units: messages of the stick, with any payload, and noise, which
is any bytes, the rest of a message that lost some of them included. A unit that is
noise may end in a part of a preamble, or contain a whole one; a payload may, too.

| Variable | What it is |
|---|---|
| `stream` | history: all bytes looked at |
| `due`, `passed` | history: the units sent, each with the place on the line where it ends; how many of them have been looked at to the last byte |
| `received`, `arrived` | history: what was handed to `receiveCmd()`; which units of `due` were, unchanged, at their last byte |

`MessageChannel` says what can be promised of such a line. While the parser is in step
nothing is lost, reordered, changed or made up. Noise may put it out of step; then it
may lose messages, and hand on what was none (the format has no checksum), until it
receives a message that was sent. `Astray` is that state: the last unit was noise or a
lost message.

### How DV4Server corresponds to the code

`place` is how far `main()` is; each step is one call of the driver, or the code
between two. An option that is looked at is a choice at that place. `Return` and
`Destroy` are the end of `main()`: the locals go in the opposite order of their
declaration, `fsink` first, then the driver, whose destructor calls `close()`.

### How OptParse corresponds to the code

A word is its first character and the rest of its text; the table is `m_OptMap`
with its order as a constant, `args` the vector of that name. Each turn of the
loop of `parse()` is one step, by the kind of word and its outcome; `loadFile()`
is part of `OptionFile`. A line of a file is what `wordexp()` (external) makes of
one `fgets()`: words, or `BadLine` if it reports an error, which `loadFile()` passes
over without one of its own. The options are registered in any order, any
subset of them, and again, which puts the entry back. What the loop for a word without a dash finds in the map is the least of
the places, in the order of the map, of the options that are still unset.

## 3. Runs

| Run | What it shows |
|---|---|
| `client` | Two sessions, two hosts, both dialects, a queue with limit 1 that runs over, the application polling between all steps of the receive thread. No receive thread is started before the last one was joined (`JoinedBeforeReuse`), and an assertion fails only in the classic dialect or with a value that does not fit its column (`AssertsHold`). What the server was sent fits the phase (`WireMatchesPhase`), every session that logged in logs out before its socket goes (`ClosedSessionsLoggedOut`), and nothing follows the logout except DMR data the application sends after a shutdown notice (`LogoutIsLast`). Packets come from the session's own server only (`SenderChecked`), in order, each once, and never more than one above the limit (the refinement `ImplementsPipe`); `SelfDeadlockOnlyWhenFull` |
| `client_overflow` (violation) | With one packet more than fits, `CallsReturn` fails: see section 6 |
| `client_config` (violation) | `NoAssertFails` fails for a repeater 1200 m above the sea |
| `session_login` | Client and master, two sessions, loss and reordering: the client counts each acknowledgement for the step it stands for (`HandshakeInStep`), a late login datagram never revives a session the master has seen the logout of (`NoGhostConnection`), and without loss every login succeeds unless the client leaves its loop first (`LoginCompletes`) |
| `session_duplicate` (violation) | `ReadyMeansConnected` fails when the network duplicates |
| `byte_fifo` | Rings of 0 to 3 bytes, blocks of 0 to 4: indices and count agree and stay in the ring (`IndicesAgree`), and the refinement `ImplementsQueue` |
| `dv4_threads` | Two sessions of an application with the stick, which may be unplugged, and with failing `pthread_create()`: commands are whole on the line (`WholeCommands`), the port is open while a thread runs (`PortOpenWhileRunning`), the watchdog polls as long as the receive thread may wait for the stick (`WatchdogOutlivesReceiver`), a closed stick is dark (`LedOffAfterClose`), and only a second `close()` can join a thread that does not exist (`StrayJoinNeedsClose`) |
| `dv4_parser` | Four messages and pieces of noise, cut by `read()` in every way: what is recognised stood on the line (`RecognisedIsRead`); a message is lost only behind noise or a message lost itself, and only when what stands before it looks like the beginning of a message (`LostOnlyOutOfStep`); and the refinement `ImplementsChannel` |
| `dv4_server` | dv4mini-server with a working, failing or unplugged stick: on every way out but the one of section 6 the sink outlives the thread that writes to it (`SinkOutlivesReceiver`), nothing is left running (`CleanEnd`), and `main()` comes to its end (`ServerEnds`), so `close()` returns from its joins although the receive thread blocks in `read()` |
| `options` | All command lines of up to three words with three option files: the getters answer what the grammar says of the words read (`OptionsAsWritten`), no word is dropped, repeated or read out of turn (`FilesBehindCommandLine`), and `parse()` returns if no file names itself (`ParseEnds`) |
| `programs` | parrot, dmrrec recording and dmrrec playing, with every combination of loop and override, SIGINT between any two steps, files that do not open, sockets and threads that are not created, and a configuration that does not fit: no packet is lost, repeated or reordered but the one in hand at a SIGINT (`RecordingKept`), each is sent with exactly the fields the options ask for (`ReplayReaddressed`), the server has a logout for each login whichever way `main()` ends (`EndsLoggedOut`), the programs end (`ProgramEnds`), and a shutdown notice ends the receive thread (`NoticeStops`) |
| `sockets` | Two threads on two objects with two descriptors and a port that is taken: after any calls each object holds exactly the descriptor the system gave it (`DescriptorsOwned`), and a datagram leaves on a foreign one only while its own object is being closed (`StrayOnlyWhileClosing`). The proxy with two peers: a datagram is echoed to its sender only, once, without a byte of another (`EchoToSender`), also when `bind()` or `recvfrom()` has failed. All streams of up to five bytes: `recvline()` neither loses nor joins text (`LinesAsSent`) |

**Bounds.** `MaxOpens` = 2: everything `open()` can meet - a fresh object, a
running thread, one that has ended by itself, one that could not be created -
occurs before the second session, and a third would meet the same. `MaxQueue` =
1: the queue is then empty, at the limit, or above it, which is all `OverLimit`
tells apart; `MaxPackets` = 3 is the first number that runs over. `MaxTime` is 1 or 2: pings
depend on whether the second has changed since the last one. In `session_login`
`MaxPackets` is 0: DMR data does not touch the login (`client` has it). In
`programs` one session is all that the programs open, two packets are what the
queue takes (what happens beyond is `client_overflow`), two seconds make `main()`
look at the queue more than once, and the packets differ in every field. In
`sockets` the second descriptor is what a stray send needs, a third would be one
more of the same; three datagrams of 0 to 3 bytes and a buffer of 2 have every
order of long, short and empty; four calls with room for 0 to 3 bytes cut five
bytes in every way. In `byte_fifo` the blocks are one byte
longer than the largest ring and two byte values show every mix-up of positions.
In `dv4_threads` two sessions are enough for a `close()` after a `close()` and for
what a failed `open()` leaves; `WatchdogPeriod` = 1 lets every round of the watchdog
send both of its requests (the code does so in one of ten rounds). In `dv4_parser` one
message has no parameter, one ends in the first byte of a preamble, and one carries a
whole message as its payload; the noise is that first byte, the two that follow it, a
byte of no preamble, and the beginning of a message that swallows two bytes of what
comes next. Four units have noise, a message it costs, one that this costs in turn, and
one that is received. A buffer of 5 bytes cuts all of them at every place. In `dv4_server` the file has up to one
block: the loop that plays it has no state but the file. In `options` the files
have a line that is rejected, one that includes another file, an option whose
parameter is the next word of whatever follows, and one file that names itself; `MaxWords` = 21 is
what the longest of the command lines without that file comes to.
The proofs of section 4 have none of these bounds.

**Deadlock.** TLC checks it in every run except `client` and `client_overflow`,
where the receive thread really does block for ever on its own lock, `options`,
where `parse()` is the whole behaviour and may return or read a file that names
itself up to the bound, and `sockets`, where the reader of lines stops. `programs`
checks it for the client. `Terminated` marks the two regular ends: the object
destroyed, the process aborted.

**Fairness.** `WF(MainStep)` and `WF(RxStep)`: the system schedules both threads
and `recvfrom()` returns within 500 ms; what the application calls, and when, is
never assumed; `HomebrewPrograms` adds that `main()` goes on (its sleeps end), and
assumes nothing of the signal. `HomebrewSession` adds that the network delivers (strong fairness
of `ClientReceives`, as the socket is read again and again but not at every
instant) and that the application's polling does not keep the mutex from the
receive thread for ever (strong fairness of `RxLock`; the programs sleep between
polls). It is used only for `LoginCompletes`. `DV4Mini` has weak fairness for its three
threads and for the stick, which answers if it is plugged in, and strong fairness
of `SendLock`: the watchdog sleeps between its polls, so neither sender can keep
the other from `m_lckTx`. `DV4Server` adds that `main()` goes on; `OptParse` that the
program, which waits for nothing, does.

## 4. Proofs

`tlapm` proves, for all values of the constants (any number of packets,
sessions, hosts and seconds, any limit of the queue, any sizes of rings and
blocks):

* `TypeCorrect`: `Spec => []TypeOK`.
* `ThreadsInStep`: `JoinedBeforeReuse`. `AssertionsHold`: `AssertsHold`.
* `QueueIsBounded`: `SelfDeadlockOnlyWhenFull`, and that the queue never holds more.
* `PacketsInOrder`: no packet lost, repeated or reordered.
* `ImplementsPipeCorrect`: the client implements `RxPipe`.
* `WireFollowsPhase`, `EverySessionLogsOut`, `LogoutComesLast`, `OnlyServersPackets`:
  `WireMatchesPhase`, `ClosedSessionsLoggedOut`, `LogoutIsLast`, `SenderChecked`. With
  these all properties of the run `client` are proved.
* `SetThenGet`: for every packet, field and value, what is set is what is read and
  no other field changes; `FrameTypeMixes`: what the one setter does for which this
  is not so.
* `ProgramsUseClient`: parrot and dmrrec composed with the client are behaviours of
  `HomebrewClient`; `ProgTypeCorrect`, `ProgramsLogOut`, `RecordingComplete`,
  `ReplayCorrect`: all safety properties of the run `programs`.
* `SessionUsesClient`: client, master and network together are a behaviour of
  `HomebrewClient`. `HandshakeStaysInStep`, `ClosedStaysClosed`: on a network that loses
  and reorders but does not duplicate, `HandshakeInStep` and `NoGhostConnection`. The
  hypothesis is `~Duplication` and cannot go: `HandshakeInStep` implies
  `ReadyMeansConnected`, which fails in `session_duplicate`. It covers every network the
  run `session_login` has.
* `DescriptorsStayOwned`, `StrayNeedsClose`, `EchoesGoBack`, `LinesCarryTheText`:
  `DescriptorsOwned`, `StrayOnlyWhileClosing`, `EchoToSender` and `LinesAsSent`, for any
  number of threads, objects, descriptors and peers, any sizes of datagrams and
  buffers, any stream. All properties of the run `sockets`.
* `RingCorrect`: `TypeOK` and `IndicesAgree` of `ByteFiFo`.
* `ImplementsQueueCorrect`: `ByteFiFo` implements `ByteQueue`.
* `TypeCorrect`, `CommandsStayWhole`, `PortStaysOpen`, `WatchdogStays`, `LedIsOff`,
  `JoinsExist`: all properties of `DV4Mini`.
* `BufferSuffices` (`TypeOK` of `DV4Parser`: `paramBuffer` is not overrun),
  `MessagesStoodOnLine` (`RecognisedIsRead`), `LostOnlyOutOfStepCorrect`,
  and `ImplementsChannelCorrect`: the parser implements `MessageChannel`, for any
  messages, any noise and any cuts. All properties of the run `dv4_parser`.
* `ServerUsesDriver`: a behaviour of `DV4Server` is one of `DV4Mini`; `SinkIsAlive`
  and `EndIsClean`.
* `WordsReadInTurn` and `GettersAnswerAsWritten`: `FilesBehindCommandLine` and
  `OptionsAsWritten`, for any options, files and command lines; all safety properties of
  the run `options`.

With these every invariant, action property and refinement of the passing runs is a
theorem.

**The argument for the client.** None of the properties is inductive. Take
`JoinedBeforeReuse`: that no receive thread exists when `open()` reaches its
second half follows from `close()` having seen `IDLE` or having joined, so the
invariant must say that `IDLE` means that there is no thread, and that a thread
exists while `close()` is asking it to stop. `ThreadInv` has these facts, and
that a thread which has not begun or has given up its socket finds the phase
`CP_DISCONNECTED`. `LockInv` ties the holder of the mutex to the place of each
thread, says what the holder knows of the queue (it is not empty and `front` is
its head; it has exactly one packet above the limit; it is within the limit),
and that the receive thread never gets beyond its second lock. `IInv` is `TypeOK`
with both. `TypeStep`, `ThreadStep` and `LockStep` each have one step per
action; `Inductive` puts them together.

`PacketsInOrder` does not need its own invariant about numbers: it follows from
the refinement argument. `PipeStep` shows that each step appends the next number
to the pipe, moves its head to the application, or changes nothing; the property
is inductive together with `IInv`. The `DropOldest` step of `RxPipe` is never
taken, because the code that would drop a packet blocks instead (section 6).

**The argument for the wire.** `FullInv` adds three parts to `IInv`. `AddressInv`: every
datagram belongs to a socket that was opened, and those of the session's socket went
to its server. `WireInv`: a socket just opened is unused, the session's login is as
far as its phase until it logs out, and every other socket has a logout behind its
login; stated over `OnWire`, a function of the socket, so that `SentAdds` can say in
one line what sending does. `StopInv`: the thread leaves its loop because `close()` asked
for it, and is then being waited for, or because of a notice. `LogoutIsLast` follows
from the last: after the logout `Main` is in the join, unless there was a notice.

**The argument for the session.** Each step of the composition is one the client may
make, because the general network of `HomebrewClient` may deliver what the master's
does; `FullInv` of the client is then available. Neither property is inductive.
`HandshakeInStep` compares the client's phase with what the master has granted, and
the two change at different times, so `AgreeInv` says that the master is ahead by one
exactly while its acknowledgement is on the way: then there is never a second one that
could be taken for it, and the client has sent no datagram its phase does not ask for.
`PeerInv` has the master's side: each step that was granted has used up a datagram, and
on each socket there is one of each kind only (`WireInv` of the client). After a logout
the master can therefore see a login at most, and the key that would take it further
was never sent, as the acknowledgement for it would have gone to a socket that is
closed: this is `NoGhostConnection`. With duplication the first sentence about
acknowledgements is false. `OpensInv` ties the number of sockets to the place of `open()`.

**The argument for the sockets.** `DescriptorsOwned` speaks of objects no call is
changing. `OwnInv` extends it into the calls: an object owns the descriptor whose number it
has and no other, except between the two steps of `close()`, when it has the number of
one that is free or already somebody else's. `OneChanger` keeps a second thread from
doing so for the same object, `ChangeInv` says at which places there is a descriptor,
and `SendInv` that the number a `sendto()` has read is still its object's unless a
`close()` came in between, which is `StrayOnlyWhileClosing`. `FreeDescriptor` gives the
fact behind all of it: a number the system hands out was nobody's.

**The argument for the proxy and the lines.** `OncePerDatagram`: a datagram is
under way, in the queue, in the buffer, or echoed, and in one of these places only, and
not twice in the queue. As bytes of different datagrams differ, an echo with a byte of a
datagram is the echo of that one (`EchoInv`). A failed `recvfrom()` leaves -1 in `iBytes`,
and `SendBack` then sends nothing. For `recvline()` the text that has been
received is in the lines returned and in the buffer, each buffer is a run of consecutive
bytes, and a later one lies behind an earlier one (`BufferInv`, `LinesInv`).

**The argument for the packet.** A field is a range of bits of one byte or several
bytes in a row. `SetThenGet` splits by the field that is set; that another field does not
change follows from its bytes being others or, in byte 15, its bits.

**The argument for the programs.** Each step of `main()` is a call the client's
application may make, or leaves the client alone, so `ProgSpec` implements `Spec` and
the client's invariants hold in the composition; `EndsLoggedOut` follows from them and
from the socket being gone with the object. For the packets, `CountInv` says how many
have been handled at each place of `main()` (all that were returned, or all but the one
just returned, or all but the one SIGINT made it drop), and `OutInv` that each is the
packet of its number, readdressed; `SetThenGet` then gives `ReplayReaddressed` field by
field.

**The argument for the ring.** `Content` is the refinement mapping: the `count`
bytes from the read index on. The invariant adds `ContentOK` (they have all been
written) to the type and the agreement of indices and count. `Slots` says that
positions counted from the read index are different slots and that those after
the last byte start at the write index; `StoredAt` says what each slot holds
after a block was copied in one or two pieces. With these, four lemmas say what
each operation does to `Content`.

**The argument for the driver.** `IInv` is `TypeOK` and five parts. `LineInv`: who
writes holds the lock, and a stick that can be reached has got exactly the
pieces written since. `ThreadInv`: which threads there are at each place of
`open()` and `close()`, from IDLE meaning that there is none. `StopInv`: the watchdog
leaves its loop only after REQUESTSTOP, which `close()` writes when the receive
thread has been joined or did not exist. `JoinInv`: a state other than IDLE without a
thread to join is left behind by a `close()` only. `LedInv`: the LED can be on only
while something is still to come that switches it off, in the end the watchdog's
last command, which comes after the last of the application's. One lemma per part,
one step per action.

**The argument for the parser.** `RecognisedIsRead` is inductive with the type: a
byte is either the next of what is recognised, or the recognised part becomes
empty. The other two are about what was sent, and need an account of the whole line.
`LineInv`: the units follow each other with nothing between them, and each has its bytes
on the line. `PlaceInv`: the parser is at a byte of the first unit that has not passed.
`StepInv` is the heart: unless the parser is astray it has, inside a message, recognised
exactly the message so far; and inside any message it has recognised that, or the bytes
before the message look like the beginning of another one. `InnerByte` and `FinalByte`
keep this up from byte to byte and from unit to unit. That a message which was received
leaves the parser in step is `FinalByte`; that one lost in spite of a clean start would
contradict `StepInv` is what makes `LostOnlyOutOfStep` part of the invariant. The
refinement mapping keeps only the units not passed and `Astray`; `ChannelStep` shows that
the last byte of a unit is `Receive` or `Lose` and that whatever else is handed on is
`MisRead`.

**The argument for the server.** Its steps are calls of the driver that the driver's
application may make, or leave the driver alone; hence `ServerUsesDriver`, and the
driver's invariants hold in the composition. What is added relates `place` to
them: from the return on, no call of `main()` opens the port again.

**The argument for the options.** `OptionsAsWritten` compares the table with a reading of
all the words read so far, `parse()` works word by word; so the lemmas `GrammarStep` and
`GrammarAppend` say how that reading grows by one word or two. `DashInv` and `PlainInv`
state the property without any search through the words. An option without a dash gets
the first plain word that is still free for it, so its word is found by counting those
before it: `RankInv` says that there is one plain word for each rank below their number,
which is why the next one goes to the least option not yet set (`FirstUnset`).
`FilesBehindCommandLine` needs that taking words and adding a file change the same
concatenation at its two ends (`OneWordRead`, `TwoWordsRead`, `BroughtAppend`).

**Induction.** The library's induction theorems have an operator as parameter, which
the provers cannot instantiate. Where a proof needs induction over numbers or
sequences, the statement is a set instead: `WFMin` gives a set of numbers its least
member (`LeastMember`), and from it follow `NumberInduction` and `SequenceInduction`. With
these the folds of the community modules that `OptParse` uses are proved to do what the
properties take them for (`FlattenAppend`, `GrammarStep`).

Assumptions: those named in the modules. They say that the address 0.0.0.0 is no
host, that the dialects are the two of the code, that a configuration gives a number
of characters for each column, that sizes, bounds, ports and descriptors are natural
numbers, that a process has finitely many descriptors, that blocks
are sequences of bytes and DMR packets have the bytes of `HomebrewPacket`, that an
option of a program has the type `main()` parses it to, that `Nobody` is no socket
object, that a stream consists of CR, LF and text, that option files and command lines
consist of words and no two options have the same id and order, that the application of
the driver does not switch the LED off itself, that a preamble has four bytes and a
message of the stick up to 255 bytes of parameters. TLC evaluates all of them.

Only model-checked: liveness (`LoginCompletes`, `ProgramEnds`, `NoticeStops`,
`ServerEnds`, `ParseEnds`), which like ENABLED is out of the prover's reach, and the
three violations of section 6. `IntLength` and `BitsOf`, which turn a number
into characters or bits, are definitions that no theorem compares with another.

## 5. Not modelled

* The simulation mode of the client: sending always succeeds and nothing is
  sent, which is the behaviour of a network that loses all. That the flag is not
  initialised by the constructor does not matter to the programs, which set it.
* Log output, the bytes of the datagrams, the hash of the challenge. The assertions
  on the lengths 12 and 40 cannot fail. Setters called while the receive thread runs:
  the programs do not.
* A `recvfrom()` that blocks after `select()` has announced a datagram that is then
  discarded: `FairSpec` assumes that it returns. `select()` on descriptor -1.
* `HomebrewClient` closes its socket in one step; what lies between the two steps of
  the real `close()` is shown by `Sockets`.
* `IPAddr`, the options of multicast and TTL, `getsockname()`, `connect()`: they read or
  set something of the system, and no state of the object; no program uses them.
* What the options of the programs are called: a choice at the start stands for
  them (`OptParse` has how they are read).
* The value of the RSSI, the log of `DV4Mini`, and the terminal settings of
  `RS232Port`.
* The help text of `Opt`, its conversions of texts to numbers, and lines longer
  than the 511 characters `fgets()` takes at a time: such a line counts as several.
* `FileSink`, `Sha256`, `HexDump`, platform headers: pure I/O, hashing and
  formatting.
* `BitFiFo`: only its constructor and `reset()` exist.

## 6. Where the code disagrees with what it says

* **Eviction.** `runReceiveThread()` calls `getRxPacket()` to drop the oldest
  packet while it holds the mutex that `getRxPacket()` locks. The mutex is not
  recursive. The thread never looks at its state again, and `close()`, for which
  the comment at the `recvfrom()` promises a "proper shutdown", never returns
  (`client_overflow`). `SelfDeadlockOnlyWhenFull` shows that this is the only way.
* **Configuration.** The format of the configuration datagram has minimum widths only.
  With `-hm 1200`, or a text longer than its column, `sprintf()` prints more than 302
  characters and `assert(iTxBytes == 302)` ends the process in the middle of its login
  (`client_config`). `AssertsHold` shows that values that fit never do.
* **Acknowledgements.** An RPTACK does not say what it acknowledges. When the network
  delivers the one for RPTL three times, the client goes through all its phases, enters
  `CP_DATA` and reports "received ack for config. Connection ready for use!", while the
  master has granted the first step only (`session_duplicate`). Delivered twice, it is
  enough to put the client one step ahead (`HandshakeInStep`).

Further observations, on which no text of the repository speaks:

* `main()` of dv4mini-server declares the `FileSink` after the driver. When the file
  for `-tx` cannot be opened it returns without `close()`: the sink is gone while the
  receive thread may still write to it (`SinkOutlivesReceiver` names this way out).
* `close()` of `DV4Mini` does not set the states of the threads back, so the `close()` of the
  destructor joins both threads a second time (`StrayJoinNeedsClose`).
* The words of an option file come behind those of the command line, so
  `-id 5 @file` takes the `-id` of the file (`FilesBehindCommandLine`).

* The classic dialect is the default of `open()` and has no receive path: every datagram of
  the server ends in `assert(false)` (`AssertsHold` names it).
* `setFrameType()` masks with the bits it should clear: it ors the new type into the old
  one and clears slot, call type and data type (`FrameTypeMixes`). No program calls it.
* dmrrec starts to play as soon as `open()` returns, that is before the login is complete:
  `sendTxPacket()` does not ask for the phase.
* A packet that parrot or dmrrec has taken when SIGINT comes is dropped (`RecordingKept`
  names it).
* `recvline()` cannot tell an empty line from the end of the stream, and a line that just
  fills the buffer is followed by an empty one, its own end; a `bind()` that is refused
  returns -1 like one without a descriptor, but leaves the descriptor open; so does one
  that returns -2.
* A byte that does not fit a preamble is not tried as its first one, so noise may cost the
  parser of DV4Mini a message that is whole, and a lost message that ends in that byte the
  next one (`LostOnlyOutOfStep` says when).

## 7. Plan

Done: all modules of section 2, and the proofs of all safety properties the passing runs
check. Left, in this order:

1. Keep-alive: `HomebrewSession` with a master that restarts, so that pongs stop; the
   code has no reaction to it that a property could state.
2. `HomebrewClient` on top of `Sockets` in place of its own one-step socket, and whether
   a packet of the application can go astray while the receive thread closes the socket.
3. Safety halves of the liveness properties, as `WatchdogOutlivesReceiver` is one of
   `ServerEnds`: that each wait of `close()` and of `main()` has someone to end it.
