# QDPlay in TLA+

QDPlay runs on a small board that a car's head unit takes for an Android phone.
Programs on the board connect to it and send H.264 streams; QDPlay shows one of
them at a time on the head unit, over the QDLink protocol in USB accessory mode,
and hands touches back. This directory holds models of its control: which
stream is shown, who is told what, how a USB session begins and ends, while four
threads run and both ends of every connection may go away at any time.

Paths below are relative to the repository. Each definition that models code is
listed with its lines in `PROJECT.json`, under `map`.

## The system

| component | source | state | operations |
|---|---|---|---|
| video receiver | `src/services/video_receiver/video_receiver.c` | sources (descriptor, pid, priority, reassembly buffer), `next_priority`, `active_pid`, `sink_active`, the key-frame gate | accept, read, remove a source; `request_active`, `yield`, `switch_to_previous`, `activate`, `deactivate` |
| messaging service | `src/services/messaging_service/messaging_service.c` | control clients (descriptor, pid, receive buffer), last screen size | accept, read, remove a client; broadcasts of owner and screen size, routed key-frame requests and input events |
| accessory session | `src/usb_accessory/usb_active_accessory.c` | descriptor, processor (the protocol), `stopping`, `link_failed`, `session_done`, time stamps, `write_mutex`, bounce buffer | run a session, read, write, write a frame; watchdog |
| accessory worker | `src/usb_accessory/usb_accessory_worker.c` | retry delay | wait for a source, for START of the head unit, run a session, back off |
| USB gadget | `src/usb_accessory/usb_accessory.c` | configfs gadget, bound or not, identity | create, set mode, disable |
| message processors | `src/usb_accessory/message_processor/v1`, `v2` | receive buffer, gesture flag (V2), play state | probe, run (one message), heartbeat, write a frame |
| codecs and builders | `src/hu_message.c`, `src/messages` | none | framing, layouts, JSON |
| client tools | `video-sender`, `control-receiver` | their sockets | other processes on the two sockets |

Threads: the *receiver* thread polls the video sockets and writes frames to USB;
the *messaging* thread polls the control sockets and applies their commands to
the receiver; the *session* thread (the main one, through the worker) reads from
the head unit and calls into both services; one *watchdog* thread per session
sends heartbeats and decides when to stop.

How they interact:

* The receiver's mutex guards sources and gate, the messaging mutex the clients.
  Neither is held while the other is taken: a change of the owner is made under
  the first, reported under the second, and a frame is written under neither.
* A frame goes receiver -> `usb_active_accessory_write_h264` -> processor ->
  `write_mutex` -> the driver, which blocks until the head unit takes it.
* The session stops when any of the watchdog's conditions holds, when the
  protocol fails or the link does. Whoever decides sets `stopping`; the watchdog
  detaches the gadget and signals the session thread until it has left.

What is hard here: the owner is a cache that three threads refresh; results of
`poll` are used by index while slots move; decisions taken under a lock are
carried out after it; a broadcast can be overtaken; blocking calls end only by a
signal that may come too early; a descriptor is closed while another thread may
be writing to it; the thread that watches the timeouts also writes. Unit tests
(`tests/qdplay_test.c`, `tests/session_test.c`) drive one order of events each.
Each of the seven byte streams of the program has a framing of its own, which has
to survive short reads, short writes and several messages at once. Handlers of
the head unit's messages make several calls in a row while other threads change
what those calls act on. `PROJECT.json` lists every such place under `hazards`,
with the properties that watch it, or why none does.

## Modules

| module | models | notes |
|---|---|---|
| `ScreenOwner` | what the receiver promises | abstract: a set of streams and the process that owns the screen |
| `VideoReceiver` | `video_receiver.c` | three threads, one step per critical section; implements `ScreenOwner` |
| `MessagingService` | `messaging_service.c` | built on `ScreenOwner`; each thread's calls cut at their critical sections |
| `AccessorySession` | `usb_active_accessory.c` | session, watchdog and video thread over a free head unit and driver |
| `AccessoryWorker` | `usb_accessory_worker.c`, `usb_accessory.c` | the worker's loop, the gadget, and crashes of the program |
| `HandlerCalls` | | what handlers call, as values |
| `ProtocolV1`, `ProtocolV2` | `message_processor_v1.c`, `message_processor_v2.c`, builders of V2 | each handler is a function from a message to its calls |
| `HeadUnitSession` | the session thread with both protocols | composes the protocols with `ScreenOwner`, the clients and another thread |
| `VideoStream` | `qd_video_sender.c`, `read_source` | sender, socket and reassembly buffer |
| `KeyframeScan` | `is_keyframe` | one step per turn of the loop |
| `UsbFraming` | reads of `usb_active_accessory.c` and both protocols | transfers, bounce buffer, message readers |
| `UsbWriting` | writes of the same | padding, pieces, three writers and `write_mutex` |
| `ControlStream` | `messaging_service_read_client` | the 64-byte buffer of a control client |
| `ControlReceiver` | `messaging_service_send_to_client`, `qd_control_receiver.c` | what the service tells a client, up to its callbacks |
| `HuMessage` | `hu_message.c` | encode and decode of the messages inside V1 |
| `...Proofs` | | theorems about the module of that name; `SocketProofs` has the streams of the local sockets, `StreamsProofs` those of the USB link with the messages inside, and all seven together |
| `RecursionLemmas` | | lemmas about recursive functions |
| `MCVideoReceiver`, `MCMessagingService`, `MCHeadUnitSession` | | symmetry sets for TLC |
| `MCStreams` | | the seven streams in one state machine |

The composition goes through `ScreenOwner`: `VideoReceiver` is shown to
implement it (by TLC on an instance, by proof for all), and `MessagingService`
and `HeadUnitSession` take its actions for the receiver's calls. What holds of
the clients thus rests on the promise, not on slots and priorities.

The streams share no state with each other or with the modules above, so their
product would only multiply states: `MCStreams` is their sum. `link` chooses which of
the seven runs, the others stay where they began.

Operators that say `Mutant:` in their comment are deliberate bugs. They are not
part of any specification; each shows that a property can be violated by the
code it is about (`mutants` in `PROJECT.json`).

### VideoReceiver

`sources` is the array, in slot order, as a sequence of records; priorities,
`next_priority`, `active_pid`, `sink_active` and `awaiting_keyframe` are the
code's. `polled`, `ready` and `listen_ready` are the round of `poll` the receiver
thread is in, `frame` the frame it is writing after it released the mutex,
`switching` the pid `switch_to_previous` has read and not yet yielded. Time is
one flag, `wait_expired`: the 1.5 s of the gate are over. A frame is of one of
three kinds, as `is_keyframe` and the length test tell them apart. `shown` and
`restarted` are history. Reassembly of frames from the socket is in `VideoStream`: here
the visit of a slot hands over any number of frames and then drains or removes
the source, for whichever reason `read_source` does.

### MessagingService

`clients` is the array in slot order. Of a client's connection the model keeps
what it was told last (`active`, `size`), whether it was shut down (`link`), and
as history whether a key frame is due (`due`). `call[t]` is where each thread is
between two critical sections: about to broadcast (`notify`), to read the
active pid (`ask`), to send the request to the pid it read (`send`), to
broadcast the size (`resize`), to apply a command. A send to a client whose
buffer is full shuts it down, and which clients those are is free.

### AccessorySession

`at[t]` is where each thread is; `phase`, `inner`, `attempts` and
`protocol_errors` are the session thread's progress through status report, probe
and run. The handlers of the two protocols are one action, `Handle`: read on,
reply, or return either result. Reads and writes are split where they block. The
clock is three flags, each set at any time and reset by what resets the time
stamp: `silent`, `hb_due`, `connect_expired`. The driver is modelled from the
comments and error tests of the code: a read waits for the online state and then
for data, a write fails unless online and waits for the head unit, detaching
ends all of that but the wait for online, and a signal ends any of them. That
detaching itself succeeds is assumed.

The retried read or write after a signal while the session is not stopping is
not modelled: the watchdog signals only when it is. A signal that arrives
between the test of `stopping` and `read` is lost (`enter_read`), which is why the
watchdog repeats it.

### AccessoryWorker

The worker is one thread; `pc` is its place in the loop or in `set_mode`,
`retry_delay` the code's, in units of its minimum. `gadget` is what is in
configfs (nothing, a gadget without its function, one that is not bound, or
bound under one of the two identities), `handle` whether the program holds it.
A crash loses the handle and keeps the gadget. `listed` and `udc` keep apart what
`usbg_init` saw and what is there. Calls of libusbgx may fail, with two
assumptions: unbinding does not, and `usbg_init` does so only while configfs is
not mounted, when there is no gadget. Binding forgets the last START, as the
driver does. A session is one step that ends some time or never;
`AccessorySession` has the inside.

### HandlerCalls, ProtocolV1, ProtocolV2, HeadUnitSession

A handler of a message has no state but the gesture flag, so it is a function:
from what it tells apart in a message to the sequence of calls it makes, in the
order of the code, `reject` where it returns FALSE. `HeadUnitSession` performs those
calls one critical section at a time. `todo[t]` is what thread t has still to call; a
read or write in it may fail, which ends the handler, or the session. A call that
is routed to the process on screen is two steps, the read of its pid and the
send, as in `MessagingService`. The thread `other` stands for the receiver and
messaging threads: it changes the owner and reports it.

The head unit is external. It speaks one protocol as long as the program runs;
its `glass` has fingers on it, which come, move and go while a session is there or
not; every other message may come at any time, as one that cannot be parsed too.
History: `playing` (what the head unit asked for last), `due` (the process on screen
needs a key frame and has not been asked), `touched` (clients whose last event was
not UP), `swiped`, `missed`, `disturbed`.

What came out while modelling, and is not a disagreement with any line:

* The flag of the gesture survives a session that ends during one, so the first
  touches of the next session are ignored until the glass is empty
  (`GestureSwitchesOnce` therefore excepts a glass that was not seen to be empty).
* A touch that is down when the session ends, when another thread changes the
  owner, or whose release is out of the range line 484 of V2 tests, is not
  released at the client that has it (`disturbed`). Line 433 sends the gesture's
  release without that range test, its position cast to 16 bits.
* A second finger drives the pointer once the first was lifted.
* A client that connects after its process got the screen is not asked for a key
  frame.

### VideoStream

A byte is its position in the stream. `frames` are the sizes of what the program
sends, `sent_total` how much of the last one has been written, `in_flight` what the
socket holds. On the receiver's side `taken` is where the buffer begins, `filled` and
`buffer_size` are the code's, `handled` the frames given on. A header is what is known of the frame
that begins at its position; at any other position there is none, so a receiver
that loses its place finds a mark that does not match and drops the source.

### KeyframeScan

`data` is the access unit, `i` the loop's index, `verdict` the result. The values of a
byte that matter are 0, 1 and one whose low five bits are a key frame's type.

### UsbFraming

`transfers` are those the driver has not handed out, each as how many bytes of a
message from where on, and how many of padding. A read ends with the transfer,
with the request, or after any packet, as `tests/fake_usb.c` does it. `bounce` is the
buffer of `usb_active_accessory_read`. The first read of `run` asks for a chunk; what
follows depends on the message, so each has a kind (`Kinds`):

| | kind | who | tail |
|---|---|---|---|
| V1 | `app` | HU_MSG with action 1 (`HandleAppMsg`) | read, into a buffer of its size; refused if not longer than a chunk, or above the limit |
| V1 | `speech` | speech status (`HandleSpeech`) | read, behind the first chunk; refused above the limit |
| V1 | `other` | commands, screen captures, controls, what nobody processes | left where it is |
| V2 | `message` | every message (`ReadMessage`) | read, rounded up, into a buffer that grows; refused shorter than a header or above the limit |
| V2 | `misfit` | an extended header longer than its message | read, then refused |

`answered` is what `run` had of which message: `whole`, its `first chunk`, `nothing` of one it
refused, or `mixed`, bytes that are not one after another from one message, which `UsbInSync`
excludes. A tail that is not read comes back as reads that begin with no mark ("Broken
sequence"), each a protocol error; `stray` counts them since the last answer. `UsbInSync` says
that there are no more of them than packets of that tail, or the one of padding
behind a tail of V1, and that the next message is then found.

What came out while modelling: a refused message, or one of V1 that is longer than
a chunk and of a kind whose tail is not read, costs one protocol error per
packet behind its first. Twenty in a row (a message of some 10 KiB) end the session, line 533 of
`usb_active_accessory.c`. No line says otherwise, and which head units send such
messages the repository does not say. Here a session may end at any time, so
the model has the stray reads and not their limit; `AccessorySession` and
`HeadUnitSession` have the limit.

Not in it: a later packet of a tail that begins with the mark by chance, which would be
taken for a message; the probe, which reads no tail in V1 and in V2 one into a buffer of its own;
reads that fail, after which `AccessorySession` ends the session or goes on.

### UsbWriting

`writing[t]` is the message thread t wants to write, as the length it declares and
the bytes it is made of; `written` and `write_mutex` are the code's. The driver takes any
number of bytes at a time. A write fails while the head unit is not there
(ENODEV), when the link breaks, or by a signal as the session stops. `incoming` is
history on the head unit's side: how many bytes of whose message it still waits for.

### ControlStream, ControlReceiver

The two directions of a control connection. `rx_filled` is the 64-byte buffer,
`applied` the commands that took effect; of several in one read it is the last, a
request followed by a yield is a yield. A stream ends (`stream_ended`) when the client closes it
or when a send of the service to it fails (`ServiceShutsDown`); what was written before is still read. `told` are the messages the service sent with how much
of each the socket took; after a partial one the client is shut down, and its
reader, in a program that calls `qd_input_process` again and again as the README
shows, connects anew and begins at a header.

### HuMessage

A character is a digit below `Base`, or one of four others: a blank and a sign, which
`strtoul` accepts, one it does not, and the mark. A message is encoded, then left as it is, cut
anywhere, or altered in one character, and decoded. Observed: with `chunk_len` above 0 the
declared length is the padded one while the buffer returned is not; the only
caller passes 0. `NameLens` and `DataLens` are the lengths of names and texts; flow id, names and count
fit the two digits they are written in (`FieldsAssumption`: 8-bit fields, and names the program
chooses), and the whole message the eight of its length (`TotalAssumption`).

## Runs

TLC with two workers; states are distinct states.

| run | question | bounds |
|---|---|---|
| `VideoReceiver` | ownership, poll round and gate (`ReceiverInv` is all of it together), and does it implement `ScreenOwner` | 3 descriptors, 2 processes, 3 slots, priorities up to 5; 1.2 million states |
| `VideoReceiverStreams` | *violated*: a stream starts with a key frame | same |
| `VideoReceiverRestart` | *violated*: playing starts with a key frame | same |
| `MessagingService` | indexes of the client loop; is every owner asked for a key frame | 2 streams, 2 processes, 3 client descriptors, 2 slots; 1.7 million states |
| `MessagingClients` | screen size of late clients, release of dropped ones | 1 stream, 1 process, 2 clients, 2 sizes; 270 thousand states |
| `MessagingActiveState` | *violated*: clients end up with the truth | 2 streams, 2 processes, 2 clients |
| `AccessorySession` | descriptor, watchdog, stop, connect timeout | 1 descriptor number, 2 protocol errors, 1 extra read; 168 thousand states |
| `AccessorySilence` | *violated*: silence ends the session | same |
| `AccessoryProbed` | *violated*: frames only reach a probed session | same |
| `AccessoryWorker` | the gadget while no source is there, failures and backoff, crash recovery | delays of 1, 2, 4, 8, 16 and 20 times the minimum, as in the code; 2 crashes; 9 thousand states |
| `HeadUnitSession` | sink, key frames, touches and gesture of both protocols (`HeadUnitInv` is what each thread still owes them) | 2 streams, 2 processes, 3 fingers, 2 protocol errors, 1 extra read; 1.0 million states |
| `Streams` | framing of the seven streams; does every frame arrive | see below; 500 thousand states |

Why the bounds are enough for what they are asked: three slots of two processes
give a process with two streams next to another one, removals of the first, the
middle and the last slot of a round, and a full array; five priorities allow
four accepts, requests or yields in a run, which is what two ties at 0 and a
switch back take. The proofs do not have these bounds. One descriptor number in
`AccessorySession` is the interesting choice: the next session gets the number
the one before had, as `open` does. The counters' limits are small stand-ins for
20 and 2; only reaching them matters.

The sizes in `Streams` are small numbers in the proportions of the code's, chosen so
that each case happens: frames that fit the first buffer, that grow it once and
twice, just at and just above the limit; pieces smaller than a header; messages
shorter and longer than a chunk, of one chunk and of several, just at and just above the limit,
of each kind, so that up to three stray reads follow one message; a message longer than
the 64-byte buffer; access units of up to 7 bytes, which hold two start codes
that overlap; a second session or connection after one that was cut. `HuMessage`
has base 4 and numbers of 2 and 3 digits for 16, 2 and 8: only what fits matters.

`Sizes` is empty in two runs of `MessagingService`, and symmetry on descriptors
is used in the runs without a liveness property: no code orders descriptors.

## Fairness

* `MessagingService`: weak fairness of the messaging thread. Its loop blocks only
  in `poll`, and `poll` returns at once while a socket that was shut down is in
  the set. Data a shut-down client sent before can be read first (`drained`).
* `AccessorySession`: weak fairness of each of the three threads, nothing of the
  head unit: data may never come (`ReadData`), never be taken (`WriteTaken`), the
  accessory never be configured. `StopCloses` and `ConnectTimesOut` hold without
  its help. `POSIX` mutexes are not fair, but the property needs no thread to win
  a race for `write_mutex` twice: once `stopping` is set nobody keeps it.
* `AccessoryWorker`: weak fairness of the worker thread, whose calls all return,
  with success or not. `PresentedInTheEnd` also assumes of the kernel that what it
  refuses it grants when asked again and again (strong fairness of the four
  steps that create and bind the gadget). Nothing makes a session end or the head
  unit start, which is why `SourceGoneDetaches` excepts a running session: that it
  ends when the sources are gone is up to the watchdog, and finding 2 is about
  when it does not.
* `Streams`: weak fairness of the receiver's read. Its thread polls, and poll reports
  a socket with data or its end until it is read. Nothing is assumed of the sender.
* `VideoReceiver` and `HeadUnitSession` have safety properties only.

## Findings

Five runs show a disagreement between the code and what a line of the repository
says; the counterexamples are TLC's, `findings` in `PROJECT.json` quotes the lines.

1. The last thing a client was told may be wrong (`MessagingActiveState`): two
   threads broadcast in the other order than they switched.
2. A head unit that takes no data is never found silent (`AccessorySilence`): the
   watchdog blocks in its own heartbeat after 3 s, before the 5 s or 15 s are over.
3. Play after stop does not close the gate (`VideoReceiverRestart`).
4. Two streams of one process mix without a key frame (`VideoReceiverStreams`).
5. A frame can reach a session that is still being probed (`AccessoryProbed`).

## Proofs

Checked by TLAPS, for every value of the constants that satisfies the named
assumptions of the modules: `MaxSources` and `MaxPriority` positive; `NoFd` not a
descriptor; limits natural numbers; finitely many fingers and a gesture of at
least two; `RetryMin` positive and at most `RetryMax`, with `MaxFailures`, from
which on failures are not counted, large enough to reach it (`LimitAssumption`); chunks,
packets and headers positive, a header shorter than a message and (V2's) no longer than a chunk, a chunk no
longer than the limit of a message, a message no longer than
the buffer it is read into, the first reassembly buffer at least twice the
piece that is read and at most half of a frame's limit; a base above 1,
fields as wide as what is written into them (`FieldsAssumption`, `TotalAssumption`). In
particular `Pids` may contain the pid 0 (`NoPid`), which the code stores when `SO_PEERCRED`
fails and the instances leave out. Two theorems, `KeyFramesRequested` and `KeyFrameAsked`,
assume that it does not: a process of pid 0 that gets the screen is taken for
nobody, and is not asked for a key frame.

`RecursionLemmas` is what the proofs about recursive functions share. A library theorem
of induction needs an operator as parameter, which no prover here can
instantiate; so the induction is done as a set of counterexamples without a least
element (`Least`), and that a recursive definition has a value at all by writing
the value down (`SumsExist`, `WalkExists`, `ChainExists`, `DescentExists`). Four kinds of function occur: sums of sizes, which
say where a message of a stream begins; walks, the loops over the complete
messages of a buffer (`WalkEnds`: a loop that starts where a message begins ends where one does);
chains, each value computed from the one before (powers, digits, texts put together); and
descents, each from one further on in a buffer (the strings of a message).

`VideoReceiverProofs`:

* `Invariance`: `ReceiverInv`, which the run checks as one property, is inductive.
  `TypeCorrect`, `ActiveNeverStale` and `SnapshotStaysValid` state three of its conjuncts,
  `TypeOK`, `ActiveIsBest` and `SnapshotValid`. `PrioritiesOrdered` is needed to know that a slot just raised is the
  best one, `FdsDistinct` that a removal takes one stream out.
* `GateHolds`: `SwitchOpensWithKeyframe`. The property speaks of two consecutive
  frames; `GateConsistent` carries it from one to the next: while the gate is open
  the last frame is of the active process, unless the wait was given up.
* `Refinement`: `Spec => Screen!Spec`. Each action is mapped to an action of
  `ScreenOwner` or a stutter; yield needs that the slot raised belongs to another
  process and is then the best, removal that the owner of the rest is among them.

`AccessorySessionProofs`:

* `WritersSafe`: who is inside `write` uses the descriptor of the open session.
  Inductive with `LockHeldByWriter` (a thread writes exactly while it holds
  `write_mutex`), `OpenUntilClosed` and `PulledWhileWriting`, which names the
  exception, the path of a watchdog that could not be created.
* `WatchdogSafe`: the watchdog stays between open and close of its session, and
  finds the processor its heartbeat is for; needs `HeartbeatNeedsProcessor`.
* `TypeCorrect`: needs `CountersBounded`, which says where each limit is tested.

`AccessoryWorkerProofs`:

* `HandleSafe`, `HiddenWithoutSource`, `TypeCorrect`: `HandleIsWhole`,
  `NotPresentedWithoutSource` and `TypeOK`. Inductive with `HandleKnown` (at which
  places the program is sure to hold the gadget, or not to) and `StaleRemoved`
  (what is in configfs at each step of a creation, and that nothing is presented
  when a pass ends without a handle).
* `DelayFollowsFailures`: `BackoffFollowsFailures`. Only a session that ends resets the delay, not a pass that
  comes to nothing; and the delay that the limit has cut stays what doubling without the limit and
  cutting then would give.

`MessagingServiceProofs`:

* `TypeCorrect`, `IndexesStayValid`: `TypeOK` and `IndexesValid`. Inductive with `DueIsUp`;
  each broadcast is one lemma (`DeliverKeeps`), each change of the owner another
  (`SwitchKeeps`), both stated for any clients and any choice of those that fail.
* `KeyFramesRequested`: `KeyFrameRequestOwed`, inductive on top of them. A step makes a client
  due only as it changes the owner, and then its thread reports the change
  (`OwedBySwitch`); a thread that gives up its request has delivered it to the
  owner, or was not the one the client waits for (`OwedByRequest`). Assumes
  that no client has the pid of nobody.
* `ScreenSizeReachesAll`: `ScreenSizeKnown`. Inductive with `SizeIsStored`: what the session thread
  is about to tell is what is stored, as no other thread stores one.

`HeadUnitSessionProofs`:

* `Invariant`: `HeadUnitInv`, which the run checks too, is inductive. The reason lies in `PlansKnown`: of
  every message, in either protocol, what its handler has still to call is one of six plans,
  and those that owe something (switch the sink, ask for a key frame, release a touch) have no
  I/O in them that could fail and drop the rest. The first two sections of the module show this of every
  handler of `ProtocolV1` and `ProtocolV2`.
* `TypeCorrect`, `SinkFollows`, `KeyFrameAsked`, `TouchesReleased`: `TypeOK`, `SinkFollowsHeadUnit`, `KeyFrameAfterPlay` and
  `TouchReleased`, each from the part of `HeadUnitInv` that says what is still to come: `SinkWillFollow`,
  `AskWillFollow` with `DueFromClient`, `ReleaseWillFollow`.
* `GestureOnce`: the action property `GestureSwitchesOnce`, from `FlagFollowsGesture`.

`SocketProofs`, for messages and buffers of any size and any cuts. What
was taken from a stream ends where a message of it begins, and what does not begin there is
never read; so what came of the messages is told by their number.

* `FramesWhole`: `VideoFramesWhole`, inductive with the type invariant (`VideoTypeCorrect`). The loop
  of `read_source` goes from one frame's begin to the next, and stops at one (`WalkEnds`).
* `ScanCorrect`: `KeyframeFound`, for access units of any length over any bytes. No
  recursion is needed: `NoneBehind` says that no key frame begins behind the
  index, and `StepLeapsOverNothing` that the three bytes a turn may skip hold
  none. `ScanTypeCorrect` has the types.
* `CommandsApplied`: `CommandsInOrder`, with `RxAtParcel` (the buffer begins with a message) and
  `RxWritten` (it holds nothing that was not written). `ControlTypeCorrect` has the types.
* `CallbacksMade`: `CallbacksInOrder`, over any number of connections. `OnlyLastCut` says that a message can be
  cut only if it is the last of its connection, `AtMessage` where the library stands: before a message or
  between its header and the rest. `TellTypeCorrect` has the types.

`StreamsProofs`:

* `MessagesRead`: `UsbInSync`, for both protocols, messages of any kind and size, with or without padding.
  `UsbInv` is the invariant. `UsbQueue` says what the driver holds: the messages after the last answered one, the
  first perhaps begun in whole packets (`NewMessagesLeft`), or before them the rest of a tail nobody reads, with
  one packet gone for each stray read (`UnreadTailLeft`). `TailAwaited` says that a reader awaits what is left of its
  message and has room for it, `BounceIsPadding` that the bounce buffer holds padding of the last answered message only, and
  `StraysBounded` what stray reads are left. `RunOutcome` is what both protocols do with the first read of a
  message: the answer it is due, or its tail is awaited. `UsbTypeCorrect` has the types.
* `MessagesStayWhole`: `HeadUnitInSync`, for any chunk size, any lengths, and a driver that
  cuts anywhere. `MessagesExact` is the arithmetic: what is declared rounds up to what is
  written, in both protocols. `UnfinishedIsLast` is the invariant: an unfinished
  message belongs to who holds `write_mutex`, or nobody will get it any more.
  `WriteTypeCorrect` has the types.
* `MessagesRoundTrip`: `HuRoundTrip`, for any base and widths, and any texts and chunks that fit them. The invariant, `HuInv`, says
  of the data in each stage that it is an encoding, the beginning of one, or any characters at
  all; the rest is about the two functions. What `strtoul` reads of the digits of a number is that number
  (`NumberOfHex`, by `Divided` and `DividedTwice`: a digit more is one division more); a
  string that stands behind its length is read (`ReadPutStrAt`), and strings behind each other one after
  another (`StringsFound`). `EncodedFields` says where each field stands, and `DecodeEncoded` that the
  decoder comes to just these places. `DecodeCut`: a message that is cut still declares its whole
  length, or not all of the length is there. `DecodedInside`, of any characters whatsoever: each field ends before
  the declared end, so together they are not longer (`StringsInside`). `HuTypeCorrect` has the types.
* `StreamsTypesCorrect`, `StreamsCorrect`: `StreamsTypeOK` and the seven safety properties together, of `MCStreams`. By `EveryLink`
  its behaviours are behaviours of each link's specification, of which the theorems above speak.

Only model-checked are the liveness properties (`DroppedClientReleased`, `StopCloses`, `ConnectTimesOut`,
`SourceGoneDetaches`, `PresentedInTheEnd`, `VideoFramesArrive`), which are out of the prover's reach. Every
invariant, the action properties and the refinement are proved.

## Not modelled

* The vendored JSON library and the checksum: code with no state of this program;
  a parameter that cannot be read is a value (`broken`) in `ProtocolV2`.
* Layouts of messages, logging, colours of the head unit's identity: nothing a
  property here is about. `malloc` and `realloc` do not fail in the stream modules.
* Socket set-up at start and `main`: they run before any thread, and end the
  program when they fail.
* The number of sources that is sent along with who is on screen.
* Frames above half the size limit: the doubling of the reassembly buffer refuses some of them that
  are within it. `VideoFramesArrive` excepts them; no line says they must be taken.
* Which of three sources is the previous one: the gesture goes back and forth
  between the two used last. The repository speaks of two sources, so there is
  nothing to state a property from.
* That a session of `AccessorySession` is the step `AccessoryWorker` takes it for has
  not been shown; both have it open, run, and end, and the worker assumes no more.
