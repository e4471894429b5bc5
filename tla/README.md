# NTAP-C in TLA+

A model of the NTAP-C client (`src/`): TLA+ modules translated from its C source,
TLC configurations that check them on small instances, and proofs checked by
TLAPS. NTAP-A (the server), NTAP-B (the node) and the TAP drivers are not part of
the repository; they appear as environment actions.

## The system

| component | source | state | operations | interacts with |
|---|---|---|---|---|
| client session | `c/tap_client.c`, `c/main.c` | option flags, `allow_config_direct`, the socket, the network library's count, the exit code | `run`: direct try, relay handshake, CONFIG_PUSH, fallbacks | NTAP-A or NTAP-B by TCP, the frame loops by call |
| Windows frame loop | `c/tap_client.c` (`_WIN32`), `common/tap_linux.c` | `win_tap_pump_t` (stop, error, err), `send_mu`, the TAP's overlapped operations | calling thread: receive, write, heartbeat; reader thread: read, send; `win_tap_fail`; the ending at `done:` | two threads over one socket and one TAP; `CancelIoEx`, `shutdown` |
| Linux frame loops | `c/tap_client.c` (else), `common/net.c` | the descriptors `select` reported | one thread: TAP half, socket half, PING on a timeout | blocking `send`/`recv`, the TAP |
| Windows front end | `c/gui_win.c` | `g_gui.connected`, `g_gui.child_process`, the buttons | Connect, Disconnect, close; the worker: write the configuration, check or prepare the TAP, run the client, clean up | UI thread and workers by shared variables and posted messages; the client by a process handle and a pipe |
| configuration | `common/config.c`, `c/config.c` | a table of section, key, value | `ntap_config_load`, `ntap_c_config_load` | reads what the front end, or an editor, wrote |
| sockets, framing | `common/net.c` | none between calls; in one, the address being tried, its socket and mode, the rest of a piece | connect (with and without a timeout), listen, accept, wait, send, receive | called by the session and the loops |
| header and payload codecs | `common/proto.c`, `common/wire.c` | none between calls; in one, the buffer and the decoder's position | encode, decode, admitted lengths | called by the session, the loops, `net.c` |
| direct token | `common/direct_token.c` | none | make, check | NTAP-A makes it, this client carries it, NTAP-B checks it |
| growing buffer | `common/buffer.c` | data, length, capacity | reserve, append, free | the encoders of `wire.c` |
| TAP device | `common/tap_linux.c` (both systems) | `ntap_tap_t`: handle and events, or descriptor | open (with the search for an adapter), bridge, read, write, interrupt, close | the session, the loops, the environment check |
| environment check | `c/env_check.c` | none | count the adapters, open the TAP, close it | `main.c` and so the front end; shares the adapters with a running client |
| hash, log, time | `common/*` | none | one-shot helpers | |

Where it is hard, and what makes each part correct:

- **Session.** Up to four connections follow each other in one process through
  recursion and nested fallbacks; every early return must give back what was taken,
  nothing of a path that was given up may reach the next one, and the exit code
  passes through all of it.
- **Windows loop.** Two threads without a lock on `stop`/`error`/`err`; cancellation
  that can miss an operation not yet issued; a reader that works on the caller's
  stack; a join without a timeout.
- **Linux loops.** One thread, blocking calls, two sources: fairness between them,
  short sends and receives, the end of the connection in the middle of a message,
  and an admission limit that is not the configured MTU.
- **Front end.** A UI thread that acts on a handle read earlier, workers that reset
  a shared flag twice, a click at any moment of a long preparation.
- **Configuration.** A writer that quotes nothing and ignores write errors, a reader
  with comments, quotes, sections, repeated keys, a line buffer and a table limit.
- **Sockets.** A list of addresses, each of which can fail in five places with a
  socket open; waits that a signal starts over; sends in pieces that stall.
- **Codecs, token.** Two sides that check different limits, optional tails for older
  peers, lengths stated by the payload itself; a token that is split at bars, read
  with `sscanf` and signed as another text.
- **TAP device.** Opening takes up to six calls that can fail, with what is open
  partly in the struct and partly in locals; the adapters may come and go, and the
  environment check looks for them with code of its own.

`PROJECT.json` lists every hazard at its line with the properties that watch it.

## The modules

### TapClient, ConnectStrategy: `ntap-c run`

`pc` is the call the thread is about to make; one action per call and outcome.
`DirectConnect`, `SendToken`, `DirectTapOpen` and their failures are
`run_direct_tap_connect`; `RelayConnect` to `RecvConfig...` are `tap_run_mode`;
`DirectDone` and `RelayDone` are the `done:` labels with the caller's cleanup;
`AfterDirect` is what `main` (`site = "cli"`) or `tap_run_mode` (`site = "cfg"`)
does with a direct try's return value. A connection is named by the number of the
try that opened it, so `fd` and `sockets` tell a leaked or reused socket from the
right one. `tries`, `sent`, `heard`, `written` are histories: nothing reads them.
Messages are records with only the fields that decide something; a peer may answer
any of them at any point.

`ConnectStrategy` is the abstract promise: one path at a time, in the planned order,
no ending on a failed direct path while the relay is allowed, no new path after a
lost relay. `TapClient` implements it through `Stage`.

### WinTapPump

Every access to shared state and every blocking call of the two threads is a step:
`stop`, `error`, `err`, `send_mu`, the header and the payload of a message, issuing
and completing an overlapped read or write, `CancelIoEx`, the join, the cleanup.
`io` is the overlapped operation of each thread; `CancelIoEx` only reaches a pending
one. The device may fail, the peer may send, read and close.

### LinuxPump, FrameLink

Both loops in one module; `loop` says which (the relay loop sends a PING first and
after a second of silence and takes a PONG; the direct loop does neither).
`SelectReady`, `TapReadFrame`/`TapReadDropped`, `SendPiece`, `Recv...` are the steps
of an iteration, `AfterTap` its order. A message is one or two pieces, as `net.c`
sends it; a frame is its length: 13, 14, Mtu + 18, Mtu + 19 are the edges of the
loops' test. `FrameLink` is the abstract link: frames cross each way in order and
once, none is lost until the link breaks.

### GuiClient

The UI thread (`ui`, `running`), up to `MaxWorkers` workers (`pc`), their client
processes (`child`), and what they share (`connected`, `slot`). Handle values are
reused once closed, so a stale handle may name another process. Posted messages are
served before clicks, as `GetMessage` does.

### ConfigFile

`connect_worker` and `write_gui_config` write a file as a sequence of characters, of
which the disk may keep a part, or give up before (`WindowIncomplete`, `CannotWrite`).
`ntap_config_load` opens it (`Open`, `CannotOpen`) and takes it line by line:
`ReadIgnored`, `ReadSection`, `ReadEntry` go on; `ReadInvalid`, `ReadTooMany`,
`ReadLongKey`, `ReadLongValue` refuse the file with `"error"`; `CannotRead` is `ferror`,
at any place. `ntap_c_config_load` is `Check`. A file that could not be opened or read is
`"unread"`, which is told apart from a refused one: nothing can be said of its contents.

Five sizes bound what is read: the line (`LineMax`, what `fgets` takes at once), and the
buffers of `config.h` for a section, a key, a value and the entries (`SectionMax`,
`KeyMax`, `ValueMax`, `EntriesMax`). `TooLong` is the decision of `copy_text`: a text that
fills its buffer has no place for its end. A new entry takes its key first, so a long key is
reported before a long value; a key that is there already needs neither a free entry nor a
check of its length (`HasPlace`, `KeyFits`).

A key, a section name or a fixed value of the window's file counts as one character. `Meant`
gives the meaning of the file as a whole, without reading it line by line, and with what
makes it malformed, the lengths included; it is what the reader is compared with.

### Buffer, WireCodec, DirectToken, MCMessages

`Buffer` is `ntap_buffer_t` as a value: `Grown` is the doubling loop over a word of
`SizeMax + 1` values, `Appended` the append. `WireCodec` encodes one message into such
a buffer piece by piece (`AppendPiece`, `AppendPieceFails`, `Finish`), lets the other
end send a part of it, or one byte more, under its own header or a damaged one
(`Deliver`), and decodes it field by field (`Receive`, `ReadNumber`, `ReadText`,
`Refuse`, `Decoded`). `Layout` lists the fields of the ten forms of messages; what one
side checks and the other does not is in `ArgumentsOk`, `TooLong`, `LengthOk`, `RestFits`,
`TextFits`, `ValuesOk`. `IsMessage` is what C's types let a caller pass: unsigned numbers
that fit their bytes (`Fits`: `uint8_t` to `uint64_t` in `wire.h`), arrays of their fixed
size, texts of any length, and no other fields. `DirectToken` makes tokens (`Make`), lets the carrier change a
character or mix two of them (`Present`) and checks the result (`Verify`).
`MCMessages` gives both their values and runs them as two independent jobs.

### NetConnect

One call of a function of `net.c`: `call` is the function with its arguments and the
system it was built for. The address loop is `OpenSocket` to `OutOfAddresses`,
`NextAddress` its `continue`; `SendSome` is a `send` that took some bytes; `WAIT` is
`select` in `wait_socket_ready` or `ntap_socket_wait_read`, and time passes there only
(`Tick`). `elapsed`, `intr` and `stream` are histories of the call. `Answer` and
`PeerMoves` are the other end, which need not do anything.

### TapDevice, MCTapDevice

A client (`"run"`) and the environment check (`"check"`) with a struct `tap` each.
`held` is what the process really has open: the struct says something else while
`ntap_tap_open` has handles in locals only. The search is a step per adapter of the
registry, `Change` installs or removes one in between. On posix the steps are
`PosixOpen`, `SetIff`, `ControlSocket`, `SetMtu`, `SetUp`, and the bridge. Reading,
writing and `ntap_tap_interrupt` are in the loops' modules.

### TapClientProofs

The inductive invariants of `TapClient` and the theorems below, up to its implementing
`ConnectStrategy`.

### NetConnectProofs

The same for `NetConnect`.

### WinTapPumpProofs

The same for `WinTapPump`.

### GuiClientProofs

The same for `GuiClient`.

### LinuxPumpProofs

The same for `LinuxPump`, up to its implementing `FrameLink`.

### TapDeviceProofs

The same for `TapDevice`.

### MessagesProofs

The same for `WireCodec` and `DirectToken` with `Buffer`, and the facts about their
recursive functions.

### ConfigFileProofs

The same for `ConfigFile`.

## The runs

| run | shows | bounds, and why they are enough |
|---|---|---|
| `session` | `TypeOK`, `ResourcesOwned`, `FramesAuthorised`, `WireOrder`, `PathOrder`, `ExitCode`, `DirectFallsBack`, and `ImplementsStrategy` | two networks (one right, one wrong; 0 is a third value); four messages sent per connection, one more than the handshake and the first PING, so loops are entered and repeat. The number of tries is not bounded by the model: four is a consequence (`TypeOK`, proved) |
| `windows_pump` | `ReaderGoneBeforeCleanup`, `FirstFailureReported`, `AtMostOneLateFrame`, `MessagesWhole`, `ReaderFailureEndsLoop`, `DoneReturns` | two pieces fit the socket buffer: one message does, two do not, so both threads block with the lock held or wanted |
| `gui` | `BackToStart`, `DisconnectEndsWorker` | three workers: the smallest number at which two clients can overlap (see `gui_one_client`), so the invariants are tried on the overlap too |
| `linux_pump` | `ConformingPeerKeepsLoop`, `CarriesFrames`, `TapServed`, `SocketServed`, `CloseEndsLoop` | MTU 1408, the largest for which `Mtu + 18 + 6 <= 1400 + 32`; room for one frame at the TAP and two pieces each way, so queues are empty, full, and hold a message in part |
| `config_file` | `ReadsMeaning`, `FieldsStayApart`, `PlainIsKept`, `CutFileKeepsAccount` | all texts of up to three characters in any one field, every cut of the file, all files of up to three edited lines, alone or after the window's; a line buffer of 8, buffers of 3, 3 and 4 for section, key and value, and a table of 8: edited lines fill each of these buffers and run past the line's, the window's file fills the table, so that a further key is one too many and a repeated one is not. Opening and every read may fail |
| `messages` | `BufferSound`, `RoundTrip`, `OnlyOptionalCutsPass`, `ReadsInside`, `OnlyMadeTokens` | every text at length 0, one below and at its limit, beyond one byte of length (255, 256 against a base of 16) and around the caller's room and the end of the word (275, 280); settings at and beside their limits; every cut of each payload. Two tokens made, so that parts of both can be mixed, and any one character put in, taken out or replaced |
| `net_connect` | `OneSocket`, `SendsInOrder`, `TimeBounded`, `CallsReturn` | two addresses, so that the first may fail in every place and the second too; timeouts 0, 2 and unlimited; header and payload of 3 bytes against 2 per `send` and room for 2, so each piece is split and stalls; two signals, so that a restarted wait is restarted |
| `tap_device` | `OwnedExactly`, `RightAdapter` | three adapters of six sorts in every order: two TAP adapters of one driver, one without an id, Wintun, another card, an unreadable entry; names that fit none, one or several of them; one installation or removal at any moment |

`TypeOK` is checked in `session`, `windows_pump`, `gui` and `linux_pump`. Deadlock checking
is off because each of these programs really ends, or waits for a user or a peer
that need not act.

Four runs check a property that the code does not have:

| run | property | what happens |
|---|---|---|
| `gui_disconnect_final` | `DisconnectIsFinal` | Disconnect during the preparation says "disconnected", and the client is started later (`gui_win.c:702`), running with Disconnect disabled |
| `gui_one_client` | `OneClient` | the second `connected = 0` of a worker undoes the next worker's `connected = 1`; two clients run (`gui_win.c:681`) |
| `linux_pump_mtu` | `ConformingPeerKeepsLoop` | above MTU 1408 a full frame is refused by `ntap_recv_msg` and ends the loop (`net.c:644`) |
| `config_password` | `PasswordIsUsed` | a password with `#` or `;`, or blanks at its ends, is read as something else (`gui_win.c:298`) |

## Fairness

- `TapClient`: only `ClientCalls`, the calls that return whatever a peer does
  (connect has the system's timeout, a short send to a fresh connection fits its
  buffer). No receive is fair, no loop has to end.
- `WinTapPump`: the two threads are scheduled. `DoneReturns` is conditional: if the
  reader's pending TAP read always ends (`ReadDone`) and the peer goes on reading or
  closes (`PeerReads`), the function returns. Without such a peer a reader blocked in
  `send` really keeps the join waiting, and without such a TAP a read that one
  `CancelIoEx` missed does.
- `GuiClient`: the UI thread and each worker are scheduled; clicks and the ends of
  clients are not fair. The programs that `ensure_tap_ready` waits for are assumed
  to end: the code waits for them without a limit.
- `NetConnect`: the thread runs, time passes, and the system answers a blocking
  `connect` at last. Nothing is assumed of the peer. `CallsReturn` leaves out what has
  no timeout: `accept`, a blocking `send`, an unlimited wait. It holds for finitely many
  signals only (`MaxInterrupts`): every signal makes a wait start over with its whole
  timeout (`net.c:132`), so a stream of them would keep the call waiting.
- `LinuxPump`: the thread is scheduled; the peer reads what it is sent and completes
  a message it has begun. It need not begin one, answer a PING or stay. Without a
  reading peer both ends may wait in `send` for ever, which the code does not
  prevent (a listed hazard).

## What is proved

`TapClientProofs` proves, for every set of networks and every `MaxLog`, from
`NetworksAssumption` and `MaxLogAssumption` only:

| theorem | states |
|---|---|
| `Inductive` | `Spec => []IInv` |
| `TypeCorrect` | `Spec => []TypeOK`: also that at most four paths are tried |
| `ResourcesReleased` | `Spec => []ResourcesOwned` |
| `OnlyGrantedFrames` | `Spec => []FramesAuthorised` |

None of the properties is inductive alone. `ResourcesOwned` does not say that the
library is initialised while `pc` is in a handshake, and a socket closed from a state
that only satisfies it could leave `wsa` at 0 or 2; `FramesAuthorised` does not say
where the active `netId` came from. `IInv` adds:

- `Holdings`: socket, library count and TAP as a function of `pc`;
- `Budget`: how many paths may have been tried at `pc`, by `allow` and `site`. This
  is what bounds the recursion: a relay try with `allow` is at most the second, so a
  direct try of CONFIG_PUSH is at most the third, and the relay after it the fourth;
- `HeardSoFar`: the answers of the current handshake at each `pc`;
- `DirectBacked`: on whose word the direct path in use was taken;
- `FramesBacked`: `FramesAuthorised` with its connections among those tried.

`Step` has one case per action and one step per conjunct of `IInv`. The lemmas before
it say what the helpers do (`TryLemma`, `ReceiveLemma`, `DirectDoneLemma`,
`RelayDoneLemma`) and that a grant, once given, stays (`GrantedKept`, `FramesKept`).

A second invariant on top of it gives, from the same assumptions:

| theorem | states |
|---|---|
| `PathsInOrder` | `Spec => []PathOrder` |
| `MessagesInOrder` | `Spec => []WireOrder` |
| `CodeTellsLastPath` | `Spec => []ExitCode` |

`IInv` knows how many paths were tried, not which. `OInv` adds:

- `PathsSoFar`: what the paths tried look like at each `pc`, and what the options must
  have said. Its core is `RelayHandedOut`: before a direct path of CONFIG_PUSH, and before
  the relay after it, there was one relay, and that one named a direct path;
- `SentSoFar`: how many messages the connection in use has sent at each `pc`. `WireOrder`
  judges a message by what was heard before it, so the count is what ties the two.

`Moves` reduces the thirty actions to the five ways in which a step can change path
(`Stays`, `Begins`, `Connects`, `FallsBack`, `GoesDirect`) or end, and `PathsStep` and
`PathOrderStep` split on those. `Ending` says what a step into the end knows of the last
connection, `Sending` what a step that sends knows of the thread, `Kept` that an answer
once heard stays heard; all are for any set of networks and messages.

and a third one, from the same assumptions:

| theorem | states |
|---|---|
| `KeepsStrategy` | `Spec => ImplementsStrategy`, the refinement of `ConnectStrategy` |

The promise asks that every list of tried paths is a beginning of a plan, which no
bound on their number gives. `PlanSoFar` adds the lists that belong to each `pc`: before the
first relay (`Opening`), with it, with the direct path it named, with the second relay.
`NextPath` says what one path more makes of each, `PlannedLemma` that all of them are
planned, `LastPath` which path is in use (so whether its loss may end the run), `StaysUp`
that a loop once entered is left for the end or another path only. `StrategyStep` then
maps each kind of step of `Moves` to `Try`, `Establish`, `Lose`, `GiveUp` or a stutter.

`NetConnectProofs` proves, for every number of addresses, every set of timeouts, every
size of header, payload, piece and system buffer and every number of signals, from
`TimeAssumption` and `SizeAssumption` only:

| theorem | states |
|---|---|
| `Inductive` | `Spec => []IInv` |
| `SocketsNeverLeak` | `Spec => []OneSocket` |
| `BytesInOrder` | `Spec => []SendsInOrder` |
| `WaitsAreBounded` | `Spec => []TimeBounded` |

Its `IInv` adds what the three do not say of a call that has not returned:

- `Holding` and `Connecting`: which address, socket, mode and kind of connection
  belong to each place of the address loop. `OneSocket` alone would let a call reach
  `HandOver` with a socket that is still non-blocking, or with none;
- `Given`: the functions that are handed a socket leave it and the address list alone;
- `Sending`: what is accepted and what is left of the piece together end at the end
  of the header or of the message, byte for byte. `SendsInOrder` does not mention the
  rest, so a step from it could send anything;
- `Timing`: the ticks waited plus those left of the running wait. A wait begins only
  with a timeout to spare: a new address, a signal, or a buffer that is full again after
  bytes got through; that last condition is the clause for `pc = "SEND"`, true because
  `select` returns only when there is room or the connection is gone.

`OpenersKeep` and `OthersKeep` have one case per action and one step per conjunct,
`NextAddressKeeps` the step that eight actions share. The products of a timeout and
a count are kept in one place (`PaidLemma`, from `MoreTime`).

`WinTapPumpProofs` proves, for every number of pieces that the socket buffer takes,
from `SendRoomAssumption` only:

| theorem | states |
|---|---|
| `Inductive` | `Spec => []IInv` |
| `TypeCorrect` | `Spec => []TypeOK` |
| `StackOutlivesReader` | `Spec => []ReaderGoneBeforeCleanup` |
| `FirstFailureTold` | `Spec => []FirstFailureReported` |
| `OneLateFrame` | `Spec => []AtMostOneLateFrame` |
| `FramesStayWhole` | `Spec => MessagesWhole` |

The properties speak of the end or of one variable; a thread gets there through states
they allow too much of. Its `IInv` adds:

- `Owners`: who holds `send_mu` at each place of the two threads, so that a header on
  the wire is the business of one of them;
- `Threads`: when the reader exists and when it waits for its read;
- `Stopping`: which of `stop`, `error` and `text` are set at each step of
  `win_tap_fail`, and by whom. The three are written one after the other, so the state
  in between is where a second failure could be told instead of the first;
- `Reports`: what the main thread knows on its way out;
- `Lateness`: where the reader is once a frame was late;
- `Whole`: whose frame is half sent.

`NextKeeps` has one case per action and one step per conjunct.

`GuiClientProofs` proves, for every number of workers, from `MaxWorkersAssumption`
only:

| theorem | states |
|---|---|
| `Inductive` | `Spec => []IInv` |
| `TypeCorrect` | `Spec => []TypeOK` |
| `ReturnsToStart` | `Spec => []BackToStart` |

The runs `gui_one_client` and `gui_disconnect_final` show what overlapping workers do break;
this shows that they do not break the way back. `BackToStart` speaks of the moment when all
is over; its `IInv` says who will have seen to it:

- `Owed`: while the buttons are in the running state a message waits or a worker lives,
  while `connected` is 1 a worker has yet to pass its `done:`, while `child_process` is set
  a worker has yet to clear it;
- `Handed`: an open handle belongs to the one worker between `CreateProcess` and
  `CloseHandle` that has it, although values are reused and the UI thread may hold an old one;
- `Posted`: the waiting messages were posted by as many ended workers;
- `Places`: who was started, and that nobody moves once `WinMain` has returned.

`LinuxPumpProofs` proves, for every MTU and every size of the TAP's queue and of the
connection's buffers, from `MtuAssumption` and `RoomAssumption` only:

| theorem | states |
|---|---|
| `Inductive` | `Spec => []IInv` |
| `TypeCorrect` | `Spec => []TypeOK` |
| `SmallMtuKeepsLoop` | if `Mtu + 18 + TapOverhead <= DefaultMtu + TapPayloadExtra`, which is `Mtu <= 1408`, then `Spec => []ConformingPeerKeepsLoop` |
| `CarriesFramesToPeer` | `Spec => CarriesFrames`, the refinement of `FrameLink` |

The condition is sharp: at MTU 1409 the run `linux_pump_mtu` ends the connection over a
full frame. `ConformingPeerKeepsLoop` speaks of the next piece only; its `IInv` adds what is
true of all that is on its way:

- `Framed`: headers and payloads alternate through the whole queue, from the piece that
  the loop is about to receive (`pc = "BODY"` or not) to what the peer has yet to send, so
  that a payload is never read as a header;
- `Obeys`: a good peer has sent nothing that this loop would refuse;
- `Calm`: the direct loop sends no PING, so that no PONG, which it would refuse, is owed.

The refinement sees a queue of frames where the loop has pieces of messages in five
places: cut short by a full buffer, in the connection, half received. `FramesIn` takes the
frames out of any run of pieces; it is recursive over the run, and `FramesConcat` (what
two runs carry is what one carries, then the other) is the induction over its length.
After it every step is one of a few: a piece moves from one place to the next without
changing what the two together carry (`PieceMoves`), its frame leaves or enters at an end
(`FramesFirst`, `MessageFrames`), or the connection breaks and takes what is on its way
(`LinkBreaks`). `LinkStep` has one case per action and names the step of `FrameLink` that it
is, or none.

`TapDeviceProofs` proves, for every set of adapters and names and any number of
installations and removals, from `NameAssumption` and `GuidAssumption` only:

| theorem | states |
|---|---|
| `Inductive` | `Spec => []IInv` |
| `NothingLeaks` | `Spec => []OwnedExactly` |
| `OpensTheRightOne` | `Spec => []RightAdapter` |

`OwnedExactly` is silent while a process is on its way through `ntap_tap_open`; `IInv` adds
`Accounts`, which says at each place what the struct names (`Fields`) and what only locals
hold (`Locals`): the two together are what is open, so every error path can be held to it.
The two theorems about the search need a second invariant, `JInv`, on top of it:

- `Found`: an id that was chosen or kept as the first is a TAP adapter's. With
  `GuidAssumption` it still is when the device is opened, whatever the registry then holds;
- `Searching`: none of the adapters passed so far (`Passed`) has the name, and `found` and
  `first` say of them whether there were none, one or several. At the end of the loop
  `Passed` is all of them, which is what `Wanted` speaks of;
- `Chosen`, `Backed`: the two halves of `RightAdapter`, the second with a device that is
  held keeping its adapter (`ChangeFinds`);
- `CheckOnce`: before its one search the check has chosen nothing, so that what it counted
  (`CountsNone`) may stand for a search.

`RightAdapter` speaks of a look through the registry that came to its end: the client's
search, the check's own, and a count of the check that finds no adapter (its verdict
"missing" then holds for the client too). A check whose `RegOpenKeyEx` fails also says
"missing" (`env_check.c:120`), of a registry it has not seen; nothing is claimed of that
verdict, and a client may open an adapter beside it. The second conjunct, about a registry
that changes between search and opening, leans on `GuidAssumption` (an id stays that of one
kind of adapter) and on `Change`, which removes no adapter that is open, as Windows does
not.

`MessagesProofs` proves, for every layout's every message, limit, number of values of a
byte, size of the machine's word, capacity, room and place where an allocation fails,
from `BaseAssumption`, `SizeAssumption`, `LimitAssumption`, `MessagesAssumption`,
`CapAssumption` and, for the last two, `HeaderAssumption` (the magic is a number of four
bytes, the version one byte, and the header's length, a `uint32_t`, can state the length of
any payload: the arrays of the callers hold 64 KiB at most):

| theorem | states |
|---|---|
| `NeverReadsOutside` | `Spec => []ReadsInside` of `WireCodec` |
| `BufferHoldsPieces` | `Spec => []BufferSound` of `WireCodec` |
| `EncodedIsDecoded` | `Spec => []RoundTrip` of `WireCodec` |
| `CutsAreOptional` | `Spec => []OnlyOptionalCutsPass` of `WireCodec` |

and, for every set of grants, every clock and every character put in the place of
another, from `GrantsAssumption`, `WideAssumption` and `ClockAssumption`:

| theorem | states |
|---|---|
| `TokensAreMade` | `TokenSpec => []OnlyMadeTokens` of `DirectToken` |

A decoder checks a length once and then reads several fields on the strength of it, so
`ReadsInside` holds at a field because of a check made fields before. `Inside` says it with
`Needs`: for each kind and each of its fields, how many bytes are certain to be left.
`StartHasEnough` gets the first from the check at the top, `EnoughFollows` each next one from
the one before, with one case per kind and field; where a length comes from the payload
itself, the check behind it is what makes the rest certain again. `Build` says that the
buffer holds what was appended so far; that its growth ends, and within the word, is
`DoublingEnds` (the loop gives up before it would double beyond `SizeMax`) and `GrownFacts`.

`EncodedIsDecoded` and `CutsAreOptional` compare a verdict, and the values behind it, with a
message that was encoded many steps before. Their inductive invariant is `TripInv`:

- `CodecInv`, the invariant of the first two;
- `Written`: the encoder has checked its arguments, and no text it appended is longer than
  two bytes can state (`append_string` refuses it before), so none of an encoded message is;
- `Arrived`: what arrives agrees with the encoding as far as both go (`Agrees`), under its
  own header unless it is all of it;
- `Judging`: while a payload is read, `Progress` says of each field before `at` that it was
  read as it was sent (`ReadValue`), where it lies (`Off`), and what the checks on the way
  have established (`Met`: the text is below the reader's limit, the payload has the length
  of the whole message, the settings are in range); the other fields are as the decoder's
  `memset` left them. A verdict keeps the step that gave it: the first checks (`Taken`),
  `AcceptedBy` or `RefusedBy`.

Without `Progress` the invariant is not inductive: `frame_len` and the settings are judged
fields after they were read, and only if they are what was sent do the checks on them mean
what `Readable` says. Three facts carry the steps: a number that fits its bytes is read back
(`GetPut`, for every width and base), the encoding is the sections of the fields laid end to
end (`LaidOut`, from `FlattenSeq` taken apart field by field), and a payload that agrees with
it is read section by section (`PlainRead`, `TextRead`). `Placed` and `RestKnown` then say
for each kind where the decoder holds the rest of the payload against what is still to come,
and that this is the whole message's length. The theorems follow by cases: on the whole
message (`Whole`) `AcceptedWhole` and `RefusedWhole`, off it (`Partial`) `AcceptedPartial`
and the three `...NotRefused`. TLC checked `TripInv` on the instance of the run `messages`
before it was proved.

A token is text that is taken apart at bars, read as decimals and signed as another text
that is put together with line ends. That nothing is lost on the way has three parts:
decimals read back (`ValueOfDecimal`), so no two numbers are written alike; two texts that
are signed alike have the same fields (`SigningInjective`: each is split at its first or last
line end, on whose other side there is none); and the bars of a token that was made are
those that were put there, so each field comes back (`BodyFields`). `AcceptedIsMade` and
`MadeIsAccepted` are then the two halves of `OnlyMadeTokens`. The HMAC is an injective
function (see below), and a string that is no HMAC is no HMAC's value.

`ConfigFileProofs` proves, for every set of typed characters, every set of texts that an
editor may have added, every size of the five limits, from
`BoundsAssumption` and `TextsAssumption`, and the last three under `WindowFits`:

| theorem | states |
|---|---|
| `ReadsWhatIsMeant` | `Spec => []ReadsMeaning` |
| `OthersStayAsTyped` | `WindowFits` proves `Spec => []FieldsStayApart` |
| `PlainIsUsed` | `WindowFits` proves `Spec => []PlainIsKept` |
| `CutFileIsSafe` | `WindowFits` proves `Spec => []CutFileKeepsAccount` |

`WindowFits` says that the window's file keeps the limits: `LineMax >= MaxTyped + 3` and
`LineMax >= 6` for its lines, `ValueMax > MaxTyped` and `ValueMax > 3` for its values,
`KeyMax > 1`, `SectionMax > 1` and `EntriesMax >= 8` for its keys, which count as one
character. In the code the longest field is a server of at most 511 bytes
(`server_utf8[512]`, `gui_win.c:260`), so its value fits the 512 of
`NTAP_CONFIG_VALUE_MAX` and its line the 1023 that `fgets` takes (`config.c:98`); the
longest key has 11 of the 63 characters allowed, and the table has 128 entries. The run's instance
satisfies it too. Without it the three need not hold: a longer value is refused with the file, and
`fgets` takes a longer line in two and reads its tail as a line of its own. The log file's
path stands for one character: it lies below `%ProgramData%` and is taken to have fewer
than 512 bytes in UTF-8, which `log_path_utf8` (`gui_win.c:266`) alone does not ensure.

The reader keeps one section and one table and forgets the lines; `Meant` looks at all
lines at once, and picks the last section above a line and the last line of a key. `SoFar`
ties them at any place in the file: the section is that of the last head above it, the table
has for each key read above it the value of its last line above it, and every line above it is
well formed (`WellFormed`, which for an entry includes that key and value fit, `HasRoom`). `ReadInv` says that what is left to read begins at a line and that `SoFar` holds
there. `ChunkIsLine` is where `LinesFit` is needed: `fgets` takes the line and nothing else.
`PassSection`, `PassIgnored` and `PassEntry` move `SoFar` over a line of each sort,
`TooManyIsMalformed`, `LongIsMalformed` and `InvalidIsMalformed` are the ways to fail, and
`AllRead` is the end, where it is the whole meaning.

The other three are about one file of eleven lines, whole or cut anywhere, and its values are
what must come out, so `SoFar` would say too little. The file is the concatenation of its
lines (`GuiFileIs`), `Body(k)` is line `k` and `From(k)` what begins there. `WindowInv` says
that while line `k` is next, what is left is a beginning of `From(k)`, all of it when the file
is whole, and that the table has exactly the keys of the lines above `k` with the values that
stand there (`Here`); when the file ended within a line, the table may have that line's key
as well, with any value (`UpTo`). It needs the part about what is left, for the entries alone
do not say which line comes next, and `UpTo`, for a line that is cut behind its `=` is still
an entry. `TakesLine` and `TakesPart` are `fgets` on a line and on a part of one, `LineReads`
and `PartReads` what the loader makes of them, and `LinesHaveRoom` that no whole line fails for its length; a
key is read once (`NamesDiffer`), so no later
line changes an earlier value. `PlainRead` is a plain value on its way through `Trim` and
`StripComment`. `CutFileIsSafe` then follows because `Acceptable` insists on `tap_name`, which
is read only when the lines above it are complete.

Three of these modules reason about recursive functions and sequences of any length. The
library's induction theorems need a predicate as a parameter, which the provers cannot give
them; here the induction is over a set of numbers instead (`LeastNumber`, from the library's
well-founded minimum, and `AllNumbers`: a set of numbers that holds 0 and each successor is
`Nat`), and the recursive definitions are functions, whose existence is shown the same way
(`Recursion`, `WritesExists`, `DoublingExists`, `FramesRecursion`).

Model-checked only is liveness, with everything under fairness, which is out of the prover's
reach: `DirectFallsBack`, `ReaderFailureEndsLoop`, `DoneReturns`, `DisconnectEndsWorker`,
`TapServed`, `SocketServed`, `CloseEndsLoop`, `CallsReturn`. Every invariant and every action
property of a passing run has a theorem.

## Not modelled

- The parsing of `host:port` (`NetConnect` takes it as a yes or no, `ConfigFile` looks
  for the colon and the digits), the log file's path in the window's file, and
  `strtol`'s leading blanks and signs in the configuration.
- `ntap_recv_msg`'s check of the caller's room (`net.c:650`): every caller brings the 64 KiB
  that `net.c:644` admits at most.
- `ntap_auth_node_sign` (a digest for NTAP-B, which this client never asks for), the
  random nonces, the digest functions themselves (`hash.c`; the token's HMAC is an
  injective function), the clock and the log: helpers without state.
- Widgets, log and status texts, command lines and paths of the front end, what the
  environment check prints.
- A registry enumeration that fails for ever (`tap_linux.c:209`, a listed hazard).
- NTAP-A's and NTAP-B's programs: their side of the protocol is anything they may send.
  So the question when two ends wait in `send` for each other (a listed hazard) has no
  second end to be asked of.

## Plan

Done, in this order, the parts that carry the traffic and the user's intent first:
`TapClient` with `ConnectStrategy` and `TapClientProofs`, `WinTapPump` with
`WinTapPumpProofs`, `GuiClient` with `GuiClientProofs`, `LinuxPump` with `FrameLink` and
`LinuxPumpProofs`, `ConfigFile`, `Buffer`, `WireCodec`, `DirectToken`, `NetConnect` with
`NetConnectProofs`, `TapDevice` with `TapDeviceProofs`, then `MessagesProofs` and
`ConfigFileProofs` for the functions without a process.

Every component with state has its module, and every module its proofs; of the passing runs'
properties only those under fairness have none. What a continuation would add is a second
end for the connections (NTAP-A's side of `send`), and with it the hazards listed without a
property.

