---------------------------- MODULE VideoReceiver ----------------------------
(***************************************************************************)
(* src/services/video_receiver/video_receiver.c: the video sources, the    *)
(* choice of the one that is on screen and the gate that holds frames back *)
(* after a switch until a key frame comes.                                 *)
(*                                                                         *)
(* Three threads meet here, a critical section of the mutex is one step:   *)
(*   receiver   video_receiver_processing_thread: polls, reads, accepts    *)
(*   messaging  applies the commands of the control clients                *)
(*   session    the USB session: play status, three-finger gesture         *)
(* The notification each change is followed by, outside the mutex, is the  *)
(* subject of MessagingService.                                            *)
(***************************************************************************)
EXTENDS Naturals, Sequences, FiniteSets

CONSTANTS
    Fds,            \* descriptors accept4 may return
    Pids,           \* processes; NoPid may be one of them (SO_PEERCRED failed)
    NoPid,          \* the pid 0
    MaxSources,     \* VIDEO_RECEIVER_MAX_SOURCES
    MaxPriority     \* bound: next_priority (64 bits in the code) stops here

ASSUME MaxSourcesAssumption == MaxSources \in Nat \ {0}
ASSUME MaxPriorityAssumption == MaxPriority \in Nat \ {0}

VARIABLES
    sources,            \* the array of connected sources, sources_count long
    next_priority,
    active_pid,
    sink_active,        \* the head unit plays video
    awaiting_keyframe,
    wait_expired,       \* 1.5 s have passed since awaiting_keyframe_since
    polled,             \* fds_snapshot of the current round
    ready,              \* indexes with revents not yet visited in this round
    listen_ready,       \* POLLIN on the listening socket in this round
    frame,              \* <<>>, or the frame usb_active_accessory_write_h264 has
    switching,          \* <<>>, or the pid switch_to_previous read and will yield
    shown,              \* history: <<>>, or the stream of the last frame written
    restarted           \* history: no frame was forwarded since Activate

receiverVars == <<polled, ready, listen_ready>>
choiceVars == <<sources, next_priority, active_pid>>
gateVars == <<awaiting_keyframe, wait_expired>>
frameVars == <<frame, shown, restarted>>
vars == <<choiceVars, gateVars, receiverVars, frameVars, sink_active, switching>>

(* What decides the fate of a frame: it holds an SPS or IDR, it does not,  *)
(* or it has no payload at all.                                            *)
Kinds == {"key", "delta", "empty"}

Source == [fd : Fds, pid : Pids, priority : Nat]
Stream == [fd : Fds, pid : Pids]
Frame == [fd : Fds, pid : Pids, kind : Kinds]

-----------------------------------------------------------------------------
(* Helpers on the array of sources *)

(* The slot a loop "if (best == NULL || s->priority > best->priority)" over *)
(* the indexes I ends with: the first one of the highest priority.          *)
BestOf(s, I) ==
    CHOOSE i \in I : \A j \in I : \/ s[j].priority < s[i].priority
                                  \/ s[j].priority = s[i].priority /\ i <= j

PickActive(s) == IF s = <<>> THEN NoPid ELSE s[BestOf(s, DOMAIN s)].pid

(* Mutant: sources_count is not decremented. *)
RemoveSlotKeepsLast(s, i) == [s EXCEPT ![i] = s[Len(s)]]

(* The last source moves into the slot of the removed one. *)
RemoveSlot(s, i) ==
    [j \in 1..(Len(s) - 1) |-> IF j = i THEN s[Len(s)] ELSE s[j]]

SlotsOf(p) == {i \in DOMAIN sources : sources[i].pid = p}

(* video_receiver_update_active_locked, after the sources became s *)
UpdateActive(s) ==
    /\ sources' = s
    /\ active_pid' = PickActive(s)
    /\ IF active_pid' # active_pid
       THEN awaiting_keyframe' = TRUE /\ wait_expired' = FALSE
       ELSE UNCHANGED gateVars

-----------------------------------------------------------------------------
Init ==
    /\ sources = <<>>
    /\ next_priority = 1
    /\ active_pid = NoPid
    /\ sink_active = FALSE
    /\ awaiting_keyframe = FALSE
    /\ wait_expired = FALSE
    /\ polled = <<>>
    /\ ready = {}
    /\ listen_ready = FALSE
    /\ frame = <<>>
    /\ switching = <<>>
    /\ shown = <<>>
    /\ restarted = FALSE

(* Receiver thread *)

(* poll returns: any set of sources may be readable, hung up or broken *)
PollWake ==
    /\ ready = {} /\ ~listen_ready
    /\ polled' = [i \in DOMAIN sources |-> sources[i].fd]
    /\ \E R \in SUBSET DOMAIN sources, l \in BOOLEAN :
         /\ R # {} \/ l
         /\ ready' = R
         /\ listen_ready' = l
    /\ UNCHANGED <<choiceVars, gateVars, frameVars, sink_active, switching>>

(* Mutant: the loop goes forward. *)
VisitingForward(i) == frame = <<>> /\ i \in ready /\ \A j \in ready : i <= j

(* The loop visits the ready slots from the last to the first. *)
Visiting(i) == frame = <<>> /\ i \in ready /\ \A j \in ready : j <= i

OnScreen(source) == sink_active /\ active_pid = source.pid

(* Mutant: a frame without payload opens the gate. *)
HeldDeltaOnly(kind) == awaiting_keyframe /\ kind = "delta" /\ ~wait_expired

Held(kind) == awaiting_keyframe /\ kind # "key" /\ ~wait_expired

(* video_receiver_handle_frame: the decision is taken under the mutex, the *)
(* frame is written to the USB side after it is released.                  *)
HandleFrame(i, kind) ==
    /\ Visiting(i)
    /\ LET source == sources[i]
           forward == OnScreen(source) /\ ~Held(kind)
       IN  /\ awaiting_keyframe' = (awaiting_keyframe /\ ~forward)
           /\ frame' = IF forward /\ kind # "empty"
                       THEN <<[fd |-> source.fd, pid |-> source.pid, kind |-> kind]>>
                       ELSE <<>>
    /\ restarted' = (restarted /\ frame' = <<>>)
    /\ UNCHANGED <<choiceVars, wait_expired, receiverVars, shown, sink_active, switching>>

(* usb_active_accessory_write_h264 returns *)
FrameWritten ==
    /\ frame # <<>>
    /\ shown' = <<[fd |-> frame[1].fd, pid |-> frame[1].pid]>>
    /\ frame' = <<>>
    /\ UNCHANGED <<choiceVars, restarted, gateVars, receiverVars, sink_active, switching>>

(* read_source returns TRUE: recv would block *)
SourceDrained(i) ==
    /\ Visiting(i)
    /\ ready' = ready \ {i}
    /\ UNCHANGED <<choiceVars, gateVars, polled, listen_ready, frameVars, sink_active, switching>>

(* Mutant: the active source is not chosen again. *)
RemoveSourceOnly(i) ==
    /\ Visiting(i)
    /\ ready' = ready \ {i}
    /\ sources' = RemoveSlot(sources, i)
    /\ UNCHANGED <<next_priority, active_pid, gateVars, polled, listen_ready, frameVars,
                   sink_active, switching>>

(* read_source returns FALSE (end of stream, error, malformed or too large *)
(* a frame) and the source is removed.                                     *)
RemoveSource(i) ==
    /\ Visiting(i)
    /\ ready' = ready \ {i}
    /\ UpdateActive(RemoveSlot(sources, i))
    /\ UNCHANGED <<next_priority, polled, listen_ready, frameVars, sink_active, switching>>

(* The listening socket is served when every ready slot has been visited. *)
Accepting == frame = <<>> /\ ready = {} /\ listen_ready

(* Mutant: a new source gets the priority handed out last. *)
AcceptSourceTied(fd, pid) ==
    /\ Accepting
    /\ Len(sources) < MaxSources
    /\ next_priority < MaxPriority
    /\ \A i \in DOMAIN sources : sources[i].fd # fd
    /\ listen_ready' = FALSE
    /\ next_priority' = next_priority + 1
    /\ UpdateActive(Append(sources, [fd |-> fd, pid |-> pid, priority |-> next_priority - 1]))
    /\ UNCHANGED <<polled, ready, frameVars, sink_active, switching>>

AcceptSource(fd, pid) ==
    /\ Accepting
    /\ Len(sources) < MaxSources
    /\ next_priority < MaxPriority
    /\ \A i \in DOMAIN sources : sources[i].fd # fd
    /\ listen_ready' = FALSE
    /\ next_priority' = next_priority + 1
    /\ UpdateActive(Append(sources, [fd |-> fd, pid |-> pid, priority |-> next_priority]))
    /\ UNCHANGED <<polled, ready, frameVars, sink_active, switching>>

(* accept4 failed, or the array is full and the new socket is closed *)
AcceptDeclined ==
    /\ Accepting
    /\ listen_ready' = FALSE
    /\ UNCHANGED <<choiceVars, gateVars, polled, ready, frameVars, sink_active, switching>>

-----------------------------------------------------------------------------
(* Messaging and session threads *)

(* The slots I get the next priorities, in their order. *)
RaiseAll(I) ==
    [i \in DOMAIN sources |->
       IF i \in I
       THEN [sources[i] EXCEPT !.priority = next_priority + Cardinality({j \in I : j < i})]
       ELSE sources[i]]

RequestActive(p) ==
    /\ next_priority + Cardinality(SlotsOf(p)) <= MaxPriority
    /\ next_priority' = next_priority + Cardinality(SlotsOf(p))
    /\ UpdateActive(RaiseAll(SlotsOf(p)))
    /\ UNCHANGED <<receiverVars, frameVars, sink_active, switching>>

(* The slot of next is raised above all, those of p go to priority 0. *)
LowerAll(p, next) ==
    [i \in DOMAIN sources |->
       IF i \in SlotsOf(p) THEN [sources[i] EXCEPT !.priority = 0]
       ELSE IF i = next THEN [sources[i] EXCEPT !.priority = next_priority]
       ELSE sources[i]]

(* video_receiver_yield: the best of the streams of the others is raised, *)
(* lowering those of p would not be enough between two tied at 0.         *)
YieldScreen(p) ==
    LET others == DOMAIN sources \ SlotsOf(p) IN
    /\ next_priority < MaxPriority
    /\ next_priority' = next_priority + (IF others = {} THEN 0 ELSE 1)
    /\ UpdateActive(LowerAll(p, BestOf(sources, others)))
    /\ UNCHANGED <<receiverVars, frameVars, sink_active>>

Yield(p) == YieldScreen(p) /\ UNCHANGED switching

(* video_receiver_switch_to_previous: the active pid is read in a critical *)
(* section of its own; it may not be active any more when it yields.       *)
SwitchRead ==
    /\ switching = <<>>
    /\ active_pid # NoPid
    /\ switching' = <<active_pid>>
    /\ UNCHANGED <<choiceVars, gateVars, receiverVars, frameVars, sink_active>>

SwitchYield ==
    /\ switching # <<>>
    /\ YieldScreen(switching[1])
    /\ switching' = <<>>

Activate ==
    /\ sink_active' = TRUE
    /\ restarted' = TRUE
    /\ UNCHANGED <<choiceVars, gateVars, receiverVars, frame, shown, switching>>

Deactivate ==
    /\ sink_active' = FALSE
    /\ UNCHANGED <<choiceVars, gateVars, receiverVars, frameVars, switching>>

(* The clock passes awaiting_keyframe_since + 1.5 s.  It is only looked at *)
(* while a key frame is awaited.                                           *)
KeyframeWaitExpires ==
    /\ awaiting_keyframe /\ ~wait_expired
    /\ wait_expired' = TRUE
    /\ UNCHANGED <<choiceVars, awaiting_keyframe, receiverVars, frameVars, sink_active, switching>>

Next ==
    \/ PollWake
    \/ \E i \in ready : \/ \E kind \in Kinds : HandleFrame(i, kind)
                        \/ SourceDrained(i)
                        \/ RemoveSource(i)
    \/ FrameWritten
    \/ \E fd \in Fds, pid \in Pids : AcceptSource(fd, pid)
    \/ AcceptDeclined
    \/ \E p \in Pids : RequestActive(p) \/ Yield(p)
    \/ SwitchRead
    \/ SwitchYield
    \/ Activate
    \/ Deactivate
    \/ KeyframeWaitExpires

Spec == Init /\ [][Next]_vars

-----------------------------------------------------------------------------
(* Properties *)

TypeOK ==
    /\ sources \in Seq(Source) /\ Len(sources) <= MaxSources
    /\ next_priority \in 1..MaxPriority
    /\ active_pid \in Pids \cup {NoPid}
    /\ sink_active \in BOOLEAN /\ awaiting_keyframe \in BOOLEAN /\ wait_expired \in BOOLEAN
    /\ polled \in Seq(Fds) /\ ready \subseteq DOMAIN polled /\ listen_ready \in BOOLEAN
    /\ frame \in {<<>>} \cup {<<f>> : f \in Frame}
    /\ shown \in {<<>>} \cup {<<s>> : s \in Stream}
    /\ restarted \in BOOLEAN
    /\ switching \in {<<>>} \cup {<<p>> : p \in Pids}

(* The cached active_pid is what the priorities say, whichever thread      *)
(* changed them last (update_active_locked, lines 270-280).                *)
ActiveIsBest == active_pid = PickActive(sources)

(* Outside ties at 0, which yield alone makes, no two streams share a      *)
(* priority, and a stream that connects or is raised is above all others.  *)
PrioritiesOrdered ==
    /\ \A i \in DOMAIN sources : sources[i].priority < next_priority
    /\ \A i, j \in DOMAIN sources :
         i # j /\ sources[i].priority = sources[j].priority => sources[i].priority = 0

(* Comments of lines 568 and 592: a slot the loop has still to visit holds *)
(* the descriptor poll reported, in spite of the removals in between.      *)
SnapshotValid ==
    \A i \in ready : i <= Len(sources) /\ sources[i].fd = polled[i]

(* No descriptor is in two slots: a removal closes it once. *)
FdsDistinct ==
    \A i, j \in DOMAIN sources : sources[i].fd = sources[j].fd => i = j

(* Once the gate is open, the last frame decided on belongs to the process *)
(* on screen, unless the wait for a key frame was given up: what makes the *)
(* next property hold from one frame to the next.                          *)
GateConsistent ==
    LET last == IF frame # <<>> THEN frame ELSE shown IN
    ~awaiting_keyframe /\ last # <<>> => last[1].pid = active_pid \/ wait_expired

(* The frame given to the USB side is a key frame, or the wait was given   *)
(* up, whenever the process differs from that of the frame before          *)
(* (lines 52-54, 412-425): across switches by any thread, even those that  *)
(* happen while a frame is being written.                                  *)
SwitchOpensWithKeyframe ==
    [][frame = <<>> /\ frame' # <<>> /\ shown # <<>> =>
         \/ frame'[1].pid = shown[1].pid
         \/ frame'[1].kind = "key"
         \/ wait_expired]_vars

(* Line 52 says this of streams: "the decoder of the head unit can not     *)
(* continue with P-frames of another stream".  Two streams of one process  *)
(* share its pid, and the gate looks at the pid only.                      *)
StreamOpensWithKeyframe ==
    [][frame = <<>> /\ frame' # <<>> /\ shown # <<>> =>
         \/ frame'[1].fd = shown[1].fd
         \/ frame'[1].kind = "key"
         \/ wait_expired]_vars

(* The head unit starts its decoder when it reports that it plays, and     *)
(* "it needs an IDR frame" (message_processor_v2.c, line 364): the first   *)
(* frame after Activate would have to be one.                              *)
RestartOpensWithKeyframe ==
    [][frame = <<>> /\ frame' # <<>> /\ restarted =>
         frame'[1].kind = "key" \/ wait_expired]_vars

(* All of them together, which VideoReceiverProofs shows to be inductive:  *)
(* across accepts, removals, requests, yields and frames of three threads  *)
(* no descriptor is ever in two slots and closed twice, no raised stream   *)
(* ties with another, and the gate is not open behind a switch.            *)
ReceiverInv ==
    /\ TypeOK
    /\ ActiveIsBest
    /\ PrioritiesOrdered
    /\ SnapshotValid
    /\ FdsDistinct
    /\ GateConsistent

(* The receiver implements the abstract ownership of the screen. *)
Screen == INSTANCE ScreenOwner WITH
    streams <- {[fd |-> sources[i].fd, pid |-> sources[i].pid] : i \in DOMAIN sources},
    owner <- active_pid

ImplementsScreenOwner == Screen!Spec
=============================================================================
