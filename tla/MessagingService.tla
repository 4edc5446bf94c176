--------------------------- MODULE MessagingService ---------------------------
(***************************************************************************)
(* src/services/messaging_service/messaging_service.c on top of the video  *)
(* receiver: who is told what, and when, while three threads change and    *)
(* report the owner of the screen.                                         *)
(*                                                                         *)
(* Each thread does one call at a time; call[t] is where it is between two *)
(* critical sections.  The receiver's state is that of ScreenOwner, which  *)
(* VideoReceiver implements.  A send never blocks: a client that does not  *)
(* take a whole message is shut down and its slot released later.          *)
(***************************************************************************)
EXTENDS Naturals, Sequences, FiniteSets

CONSTANTS
    Fds,            \* descriptors of the video sockets
    ClientFds,      \* descriptors of the control sockets
    Pids, NoPid,
    MaxClients,     \* MESSAGING_SERVICE_MAX_CLIENTS
    Sizes,          \* screen sizes the head unit may report
    NoSize          \* width or height still 0

ASSUME MaxClientsAssumption == MaxClients \in Nat \ {0}

VARIABLES
    streams,    \* ScreenOwner
    owner,      \* ScreenOwner
    clients,    \* the array of clients, number_of_clients long
    screen,     \* messaging_service_screen_width and _height
    call,       \* what each thread is in the middle of
    polled,     \* descriptors of the current round of poll
    ready,      \* indexes with revents not yet visited in this round
    listen_ready

Screen == INSTANCE ScreenOwner

roundVars == <<polled, ready, listen_ready>>
vars == <<streams, owner, clients, screen, call, roundVars>>

Threads == {"receiver", "messaging", "session"}

Commands == {"none", "request", "yield"}

-----------------------------------------------------------------------------
(* Clients.  active and size are what the client was last told, due is     *)
(* history: its process took the screen and it has not been asked for a    *)
(* key frame since.  The number of sources that is sent along with active, *)
(* and is read in a critical section of its own, is left out.              *)

NewClient(fd, pid) ==
    [fd |-> fd, pid |-> pid, link |-> "up", active |-> FALSE,
     size |-> NoSize, due |-> FALSE]

(* After shutdown nothing reaches the client, but what it sent before can  *)
(* still be read.                                                          *)
Up(i) == clients[i].link = "up"
ShutDown(c) == [NewClient(c.fd, c.pid) EXCEPT !.link = "shut"]

(* messaging_service_send_to_client for the clients with indexes in I, told *)
(* is what they are afterwards: it fails for those whose buffer is full.    *)
Deliver(I, told) ==
    \E full \in SUBSET I :
      clients' = [i \in DOMAIN clients |->
                    IF i \notin I \/ ~Up(i) THEN clients[i]
                    ELSE IF i \in full THEN ShutDown(clients[i])
                    ELSE told[i]]

(* Mutant: only one of the clients of the process is served. *)
ActiveOrAllFirst(pid) ==
    LET mine == {i \in DOMAIN clients : clients[i].pid = pid}
    IN  IF pid # NoPid /\ mine # {} THEN {CHOOSE i \in mine : \A j \in mine : i <= j}
        ELSE DOMAIN clients

(* MESSAGING_SERVICE_ROUTE_ACTIVE_OR_ALL *)
ActiveOrAll(pid) ==
    LET mine == {i \in DOMAIN clients : clients[i].pid = pid}
    IN  IF pid # NoPid /\ mine # {} THEN mine ELSE DOMAIN clients

(* History: a switch makes a key frame due from the new owner's clients.   *)
NoteSwitch ==
    clients' = IF owner' = owner THEN clients
               ELSE [i \in DOMAIN clients |->
                       [clients[i] EXCEPT !.due = Up(i) /\ clients[i].pid = owner']]

-----------------------------------------------------------------------------
(* Where a thread is *)

Idle == [at |-> "idle"]
Idling(t) == call[t] = Idle
At(t, where) == call[t].at = where
Goto(t, where) == call' = [call EXCEPT ![t] = where]

(* video_receiver_notify_active_change(old, new) is next *)
Notifying(old, new) == [at |-> "notify", new |-> new, changed |-> old # new]

Init ==
    /\ Screen!Init
    /\ clients = <<>>
    /\ screen = NoSize
    /\ call = [t \in Threads |-> Idle]
    /\ polled = <<>> /\ ready = {} /\ listen_ready = FALSE

(* Receiver thread: a source connects or goes, the change is then reported *)

SourceChanges ==
    /\ Idling("receiver")
    /\ \E s \in Screen!Stream : Screen!Connect(s) \/ Screen!Disconnect(s)
    /\ NoteSwitch
    /\ Goto("receiver", Notifying(owner, owner'))
    /\ UNCHANGED <<screen, roundVars>>

(* Messaging thread *)

(* poll: a client that was shut down is reported, others may be.           *)
PollWake ==
    /\ Idling("messaging") /\ ready = {} /\ ~listen_ready
    /\ polled' = [i \in DOMAIN clients |-> clients[i].fd]
    /\ \E R \in SUBSET DOMAIN clients, l \in BOOLEAN :
         /\ R # {} \/ l
         /\ {i \in DOMAIN clients : ~Up(i)} \subseteq R
         /\ ready' = R
         /\ listen_ready' = l
    /\ UNCHANGED <<streams, owner, clients, screen, call>>

RemoveSlot(s, i) ==
    [j \in 1..(Len(s) - 1) |-> IF j = i THEN s[Len(s)] ELSE s[j]]

(* recv returned data.  From a client that was shut down it can not go on  *)
(* for ever: the last of it is one step.                                   *)
Received(i) == IF Up(i) THEN clients ELSE [clients EXCEPT ![i].link = "drained"]

(* Mutant: the loop goes forward. *)
HandleClientForward(i, keep, command) ==
    /\ Idling("messaging")
    /\ i \in ready /\ \A j \in ready : i <= j
    /\ keep => clients[i].link # "drained"
    /\ ready' = ready \ {i}
    /\ clients' = IF keep THEN Received(i) ELSE RemoveSlot(clients, i)
    /\ Goto("messaging", IF command = "none" THEN Idle
                         ELSE [at |-> command, pid |-> clients[i].pid])
    /\ UNCHANGED <<streams, owner, screen, polled, listen_ready>>

(* Mutant: the end of the stream is taken for nothing to read. *)
HandleClientKeepsDown(i, keep, command) ==
    /\ Idling("messaging")
    /\ i \in ready /\ \A j \in ready : j <= i
    /\ ready' = ready \ {i}
    /\ clients' = IF keep THEN Received(i) ELSE RemoveSlot(clients, i)
    /\ Goto("messaging", IF command = "none" THEN Idle
                         ELSE [at |-> command, pid |-> clients[i].pid])
    /\ UNCHANGED <<streams, owner, screen, polled, listen_ready>>

(* One visit of the loop: what was received is parsed, the last command in *)
(* it counts even if the client is then removed.                           *)
HandleClient(i, keep, command) ==
    /\ Idling("messaging")
    /\ i \in ready /\ \A j \in ready : j <= i
    /\ keep => clients[i].link # "drained"
    /\ ready' = ready \ {i}
    /\ clients' = IF keep THEN Received(i) ELSE RemoveSlot(clients, i)
    /\ Goto("messaging", IF command = "none" THEN Idle
                         ELSE [at |-> command, pid |-> clients[i].pid])
    /\ UNCHANGED <<streams, owner, screen, polled, listen_ready>>

(* video_receiver_request_active, without the messaging lock *)
ApplyRequest ==
    /\ At("messaging", "request")
    /\ Screen!RequestActive(call["messaging"].pid)
    /\ NoteSwitch
    /\ Goto("messaging", Notifying(owner, owner'))
    /\ UNCHANGED <<screen, roundVars>>

Accepting == Idling("messaging") /\ ready = {} /\ listen_ready

(* Mutant: the limit is not checked. *)
AcceptClientUnlimited(fd, pid) ==
    /\ Accepting
    /\ \A i \in DOMAIN clients : clients[i].fd # fd
    /\ listen_ready' = FALSE
    /\ clients' = Append(clients, [NewClient(fd, pid) EXCEPT !.size = screen])
    /\ Goto("messaging", [at |-> "report"])
    /\ UNCHANGED <<streams, owner, screen, polled, ready>>

(* Mutant: a late client is not told the screen size. *)
AcceptClientSilently(fd, pid) ==
    /\ Accepting
    /\ Len(clients) < MaxClients
    /\ \A i \in DOMAIN clients : clients[i].fd # fd
    /\ listen_ready' = FALSE
    /\ clients' = Append(clients, NewClient(fd, pid))
    /\ Goto("messaging", [at |-> "report"])
    /\ UNCHANGED <<streams, owner, screen, polled, ready>>

(* A late client is told the screen size while the lock is held. *)
AcceptClient(fd, pid) ==
    /\ Accepting
    /\ Len(clients) < MaxClients
    /\ \A i \in DOMAIN clients : clients[i].fd # fd
    /\ listen_ready' = FALSE
    /\ clients' = Append(clients, [NewClient(fd, pid) EXCEPT !.size = screen])
    /\ Goto("messaging", [at |-> "report"])
    /\ UNCHANGED <<streams, owner, screen, polled, ready>>

AcceptDeclined ==
    /\ Accepting
    /\ listen_ready' = FALSE
    /\ UNCHANGED <<streams, owner, clients, screen, call, polled, ready>>

(* After the accept, who is on screen is read to be told to all. *)
ReportToLate ==
    /\ At("messaging", "report")
    /\ Goto("messaging", Notifying(owner, owner))
    /\ UNCHANGED <<streams, owner, clients, screen, roundVars>>

(* Session thread *)

SetScreenSize(size) ==
    /\ Idling("session")
    /\ screen' = size
    /\ Goto("session", [at |-> "resize", size |-> size])
    /\ UNCHANGED <<streams, owner, clients, roundVars>>

SendScreenSize ==
    /\ At("session", "resize")
    /\ Deliver(DOMAIN clients,
         [i \in DOMAIN clients |-> [clients[i] EXCEPT !.size = call["session"].size]])
    /\ Goto("session", Idle)
    /\ UNCHANGED <<streams, owner, screen, roundVars>>

(* video_receiver_switch_to_previous *)
SwitchToPrevious ==
    /\ Idling("session")
    /\ owner # NoPid
    /\ Goto("session", [at |-> "yield", pid |-> owner])
    /\ UNCHANGED <<streams, owner, clients, screen, roundVars>>

(* The head unit plays again: the decoder needs a key frame. *)
PlaybackStarts ==
    /\ Idling("session")
    /\ Goto("session", [at |-> "ask"])
    /\ UNCHANGED <<streams, owner, clients, screen, roundVars>>

-----------------------------------------------------------------------------
(* Steps of calls several threads make *)

YieldScreen(t) ==
    /\ At(t, "yield")
    /\ Screen!Yield(call[t].pid)
    /\ NoteSwitch
    /\ Goto(t, Notifying(owner, owner'))
    /\ UNCHANGED <<screen, roundVars>>

(* messaging_service_notify_sources, under the messaging lock *)
NotifySources(t) ==
    /\ At(t, "notify")
    /\ Deliver(DOMAIN clients,
         [i \in DOMAIN clients |->
            [clients[i] EXCEPT !.active = call[t].new # NoPid /\ clients[i].pid = call[t].new]])
    /\ Goto(t, IF call[t].new # NoPid /\ call[t].changed THEN [at |-> "ask"] ELSE Idle)
    /\ UNCHANGED <<streams, owner, screen, roundVars>>

(* messaging_service_send_key_frame_req: the active pid is read first ... *)
ReadActivePid(t) ==
    /\ At(t, "ask")
    /\ Goto(t, [at |-> "send", pid |-> owner])
    /\ UNCHANGED <<streams, owner, clients, screen, roundVars>>

(* ... then the request is routed under the messaging lock. *)
SendKeyFrameReq(t) ==
    /\ At(t, "send")
    /\ Deliver(ActiveOrAll(call[t].pid),
         [i \in DOMAIN clients |-> [clients[i] EXCEPT !.due = FALSE]])
    /\ Goto(t, Idle)
    /\ UNCHANGED <<streams, owner, screen, roundVars>>

CallStep(t) ==
    YieldScreen(t) \/ NotifySources(t) \/ ReadActivePid(t) \/ SendKeyFrameReq(t)

MessagingStep ==
    \/ PollWake
    \/ \E i \in ready, keep \in BOOLEAN, command \in Commands : HandleClient(i, keep, command)
    \/ ApplyRequest
    \/ \E fd \in ClientFds, pid \in Pids : AcceptClient(fd, pid)
    \/ AcceptDeclined
    \/ ReportToLate
    \/ CallStep("messaging")

SessionStep ==
    \/ \E size \in Sizes : SetScreenSize(size)
    \/ SendScreenSize
    \/ SwitchToPrevious
    \/ PlaybackStarts
    \/ CallStep("session")

ReceiverStep == SourceChanges \/ CallStep("receiver")

Next == ReceiverStep \/ MessagingStep \/ SessionStep

(* The clients thread runs a loop in which nothing blocks but poll, and    *)
(* poll does not block while a client is shut down.                        *)
Fairness == WF_vars(MessagingStep)

Spec == Init /\ [][Next]_vars /\ Fairness

-----------------------------------------------------------------------------
(* Properties *)

Calls ==
    {Idle, [at |-> "report"], [at |-> "ask"]}
    \cup [at : {"notify"}, new : Pids \cup {NoPid}, changed : BOOLEAN]
    \cup [at : {"request", "yield"}, pid : Pids]
    \cup [at : {"send"}, pid : Pids \cup {NoPid}]
    \cup [at : {"resize"}, size : Sizes]

Client == [fd : ClientFds, pid : Pids, link : {"up", "shut", "drained"}, active : BOOLEAN,
           size : Sizes \cup {NoSize}, due : BOOLEAN]

TypeOK ==
    /\ streams \subseteq Screen!Stream
    /\ owner \in Pids \cup {NoPid}
    /\ clients \in Seq(Client) /\ Len(clients) <= MaxClients
    /\ screen \in Sizes \cup {NoSize}
    /\ DOMAIN call = Threads /\ \A t \in Threads : call[t] \in Calls
    /\ polled \in Seq(ClientFds) /\ ready \subseteq DOMAIN polled /\ listen_ready \in BOOLEAN

(* "Only this thread adds or removes clients, so indexes stay valid"       *)
(* (line 412): a slot still to visit holds the descriptor poll reported.   *)
IndexesValid ==
    \A i \in ready : i <= Len(clients) /\ clients[i].fd = polled[i]

(* Lines 189-192: the new owner must start with an IDR frame.  As long as  *)
(* a client that was connected when its process took the screen has not    *)
(* been asked for one, some thread is on its way to ask the process that   *)
(* is active by then: the request that goes to an outdated pid is always   *)
(* followed by another.                                                    *)
WillAsk(t) ==
    \/ At(t, "notify") /\ call[t].changed /\ call[t].new # NoPid
    \/ At(t, "ask")
    \/ At(t, "send") /\ call[t].pid = owner

KeyFrameRequestOwed ==
    \A i \in DOMAIN clients :
      clients[i].due /\ clients[i].pid = owner => \E t \in Threads : WillAsk(t)

(* Lines 198-204 and 302-309: however an accept falls between the store    *)
(* and the broadcast, a connected client is only behind the stored size    *)
(* while that broadcast is still to come.                                  *)
ScreenSizeKnown ==
    \A i \in DOMAIN clients :
      Up(i) /\ clients[i].size # screen => At("session", "resize")

(* Lines 230-235: the slot of a client that was shut down is released.     *)
DroppedClientReleased ==
    \A fd \in ClientFds :
      (\E i \in DOMAIN clients : clients[i].fd = fd /\ ~Up(i))
        ~> (\A i \in DOMAIN clients : clients[i].fd = fd => Up(i))

(* Line 175: "every client learns whether it is on screen".  When all calls *)
(* have returned, what the clients were told last would be true.  It is not *)
(* always: the broadcasts of two threads may come in the other order than   *)
(* the changes they report.                                                 *)
ActiveStateTrue ==
    (\A t \in Threads : Idling(t)) =>
      \A i \in DOMAIN clients :
        Up(i) => clients[i].active = (owner # NoPid /\ clients[i].pid = owner)
=============================================================================
