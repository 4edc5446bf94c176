------------------------ MODULE MessagingServiceProofs ------------------------
(***************************************************************************)
(* Theorems about MessagingService, for any number of sources, clients and *)
(* processes.                                                              *)
(***************************************************************************)
EXTENDS MessagingService, TLAPS, SequenceTheorems

(* Only a client that can be told is owed a request. *)
DueIsUp == \A i \in DOMAIN clients : clients[i].due => Up(i)

IInv == TypeOK /\ IndexesValid /\ DueIsUp

-----------------------------------------------------------------------------
(* The array of clients *)

LEMMA ClientArray ==
    ASSUME NEW s \in Seq(Client)
    PROVE  /\ Len(s) \in Nat /\ DOMAIN s = 1..Len(s)
           /\ \A i \in DOMAIN s : s[i] \in Client
<1>1. Len(s) \in Nat /\ DOMAIN s = 1..Len(s)
  BY LenProperties
<1> QED
  BY <1>1, ElementOfSeq

LEMMA ArrayIntro ==
    ASSUME NEW n \in Nat, NEW f \in [1..n -> Client]
    PROVE  f \in Seq(Client) /\ Len(f) = n /\ DOMAIN f = 1..n
<1>1. f \in Seq(Client)
  BY SeqDef
<1> QED
  BY <1>1, LenProperties

LEMMA NewClientTyped ==
    ASSUME NEW fd \in ClientFds, NEW pid \in Pids, NEW size \in Sizes \cup {NoSize}
    PROVE  /\ [NewClient(fd, pid) EXCEPT !.size = size] \in Client
           /\ [NewClient(fd, pid) EXCEPT !.link = "shut"] \in Client
BY DEF NewClient, Client

(* The same clients in the same slots. *)
SlotsKept ==
    /\ clients' \in Seq(Client) /\ Len(clients') = Len(clients)
    /\ DOMAIN clients' = DOMAIN clients
    /\ \A i \in DOMAIN clients : /\ clients'[i].fd = clients[i].fd
                                 /\ clients'[i].pid = clients[i].pid

(* Whatever is told to whomever: no slot changes hands, no client is newly *)
(* due, and those that get the message are due only if it leaves them so.  *)
LEMMA DeliverKeeps ==
    ASSUME TypeOK, DueIsUp,
           NEW I \in SUBSET DOMAIN clients, NEW told, Deliver(I, told),
           \A i \in DOMAIN clients :
             /\ told[i] \in Client
             /\ told[i].fd = clients[i].fd /\ told[i].pid = clients[i].pid
             /\ told[i].link = clients[i].link
             /\ told[i].due => clients[i].due
    PROVE  /\ SlotsKept /\ DueIsUp'
           /\ \A i \in DOMAIN clients : clients'[i].due => clients[i].due
           /\ \A i \in I : clients'[i].due => told[i].due
<1>1. /\ Len(clients) \in Nat /\ DOMAIN clients = 1..Len(clients)
      /\ \A i \in DOMAIN clients : clients[i] \in Client
  BY ClientArray DEF TypeOK
<1>2. PICK full \in SUBSET I :
        clients' = [i \in DOMAIN clients |->
                      IF i \notin I \/ ~Up(i) THEN clients[i]
                      ELSE IF i \in full THEN ShutDown(clients[i]) ELSE told[i]]
  BY DEF Deliver
<1>3. ASSUME NEW i \in DOMAIN clients
      PROVE  /\ ShutDown(clients[i]) \in Client /\ ~ShutDown(clients[i]).due
             /\ ShutDown(clients[i]).fd = clients[i].fd
             /\ ShutDown(clients[i]).pid = clients[i].pid
  BY <1>1 DEF ShutDown, NewClient, Client
<1>4. ASSUME NEW i \in DOMAIN clients
      PROVE  /\ clients'[i] \in Client
             /\ clients'[i].fd = clients[i].fd /\ clients'[i].pid = clients[i].pid
             /\ clients'[i].due => clients[i].due /\ clients'[i].link = "up"
             /\ i \in I /\ clients'[i].due => told[i].due
  <2>1. CASE i \notin I \/ ~Up(i)
    BY <1>1, <1>2, <2>1 DEF DueIsUp, Up
  <2>2. CASE i \in I /\ Up(i) /\ i \in full
    BY <1>2, <1>3, <2>2
  <2>3. CASE i \in I /\ Up(i) /\ i \notin full
    BY <1>2, <2>3 DEF Up
  <2> QED
    BY <2>1, <2>2, <2>3
<1>5. DOMAIN clients' = DOMAIN clients /\ clients' \in [1..Len(clients) -> Client]
  BY <1>1, <1>2, <1>4
<1>6. SlotsKept
  BY <1>1, <1>4, <1>5, ArrayIntro DEF SlotsKept
<1> QED
  BY <1>4, <1>5, <1>6 DEF DueIsUp, Up

(* The history of a switch: exactly the new owner's clients are due. *)
LEMMA SwitchKeeps ==
    ASSUME TypeOK, DueIsUp, NoteSwitch
    PROVE  /\ SlotsKept /\ DueIsUp'
           /\ \A i \in DOMAIN clients :
                clients'[i].due => IF owner' = owner THEN clients[i].due
                                                     ELSE clients[i].pid = owner'
<1>1. /\ Len(clients) \in Nat /\ DOMAIN clients = 1..Len(clients)
      /\ \A i \in DOMAIN clients : clients[i] \in Client
  BY ClientArray DEF TypeOK
<1>2. CASE owner' = owner
  BY <1>1, <1>2 DEF NoteSwitch, SlotsKept, DueIsUp, Up, TypeOK
<1>3. CASE owner' # owner
  <2>1. clients' = [i \in DOMAIN clients |->
                      [clients[i] EXCEPT !.due = Up(i) /\ clients[i].pid = owner']]
    BY <1>3 DEF NoteSwitch
  <2>2. ASSUME NEW i \in DOMAIN clients
        PROVE  /\ clients'[i] \in Client
               /\ clients'[i].fd = clients[i].fd /\ clients'[i].pid = clients[i].pid
               /\ clients'[i].link = clients[i].link
               /\ clients'[i].due = (Up(i) /\ clients[i].pid = owner')
    <3>1. (Up(i) /\ clients[i].pid = owner') \in BOOLEAN
      OBVIOUS
    <3>2. clients'[i] = [clients[i] EXCEPT !.due = Up(i) /\ clients[i].pid = owner']
      BY <2>1
    <3> HIDE DEF Up
    <3> QED
      BY <1>1, <3>1, <3>2 DEF Client
  <2>3. DOMAIN clients' = DOMAIN clients /\ clients' \in [1..Len(clients) -> Client]
    BY <1>1, <2>1, <2>2
  <2>4. SlotsKept
    BY <1>1, <2>2, <2>3, ArrayIntro DEF SlotsKept
  <2> QED
    BY <1>3, <2>2, <2>3, <2>4 DEF DueIsUp, Up
<1> QED
  BY <1>2, <1>3

-----------------------------------------------------------------------------
(* Where the threads are *)

LEMMA GotoKeeps ==
    ASSUME TypeOK, NEW t \in Threads, NEW where \in Calls, Goto(t, where)
    PROVE  /\ DOMAIN call' = Threads /\ \A u \in Threads : call'[u] \in Calls
           /\ call'[t] = where /\ \A u \in Threads \ {t} : call'[u] = call[u]
BY DEF TypeOK, Goto

(* The owner, whatever happens to it, is a process or nobody. *)
LEMMA OwnerTyped ==
    ASSUME TypeOK,
           \/ \E s \in Screen!Stream : Screen!Connect(s) \/ Screen!Disconnect(s)
           \/ \E p \in Pids : Screen!RequestActive(p) \/ Screen!Yield(p)
    PROVE  streams' \subseteq Screen!Stream /\ owner' \in Pids \cup {NoPid}
<1>1. /\ streams \subseteq Screen!Stream /\ owner \in Pids \cup {NoPid}
      /\ \A s \in Screen!Stream : s.pid \in Pids
  BY DEF TypeOK, Screen!Stream
<1>2. ASSUME NEW s \in Screen!Stream, Screen!Connect(s)
      PROVE  streams' \subseteq Screen!Stream /\ owner' \in Pids \cup {NoPid}
  <2>1. streams' = streams \cup {s} /\ owner' = s.pid
    BY <1>2 DEF Screen!Connect
  <2> QED
    BY <1>1, <2>1
<1>3. ASSUME NEW s \in Screen!Stream, Screen!Disconnect(s)
      PROVE  streams' \subseteq Screen!Stream /\ owner' \in Pids \cup {NoPid}
  <2>1. streams' = streams \ {s} /\ owner' \in {owner, NoPid} \cup {r.pid : r \in streams'}
    BY <1>3 DEF Screen!Disconnect
  <2> QED
    BY <1>1, <2>1
<1>4. ASSUME NEW p \in Pids, Screen!RequestActive(p)
      PROVE  streams' \subseteq Screen!Stream /\ owner' \in Pids \cup {NoPid}
  BY <1>1, <1>4 DEF Screen!RequestActive
<1>5. ASSUME NEW p \in Pids, Screen!Yield(p)
      PROVE  streams' \subseteq Screen!Stream /\ owner' \in Pids \cup {NoPid}
  <2>1. streams' = streams /\ owner' \in {owner} \cup Screen!Connected
    BY <1>5 DEF Screen!Yield
  <2> QED
    BY <1>1, <2>1 DEF Screen!Connected
<1> QED
  BY <1>2, <1>3, <1>4, <1>5

-----------------------------------------------------------------------------
(* The inductive invariant *)

LEMMA InitEstablishes == Init => IInv
<1> SUFFICES ASSUME Init PROVE IInv
  OBVIOUS
<1>1. clients = <<>> /\ clients \in Seq(Client) /\ Len(clients) = 0 /\ DOMAIN clients = {}
  BY EmptySeq DEF Init
<1>2. polled \in Seq(ClientFds)
  BY EmptySeq DEF Init
<1>3. DOMAIN call = Threads /\ \A t \in Threads : call[t] \in Calls
  BY DEF Init, Calls
<1>4. streams \subseteq Screen!Stream /\ owner \in Pids \cup {NoPid}
  BY DEF Init, Screen!Init
<1>5. TypeOK
  <2>1. Len(clients) <= MaxClients
    BY <1>1, MaxClientsAssumption
  <2>2. screen \in Sizes \cup {NoSize} /\ ready \subseteq DOMAIN polled /\ listen_ready \in BOOLEAN
    BY DEF Init
  <2> QED
    BY <1>1, <1>2, <1>3, <1>4, <2>1, <2>2 DEF TypeOK
<1> QED
  BY <1>1, <1>5 DEF Init, IInv, IndexesValid, DueIsUp

(* A step that leaves the slots and the round alone, and sends one thread  *)
(* somewhere. *)
LEMMA SlotsKeptKeeps ==
    ASSUME IInv, SlotsKept, DueIsUp', NEW t \in Threads, NEW where \in Calls, Goto(t, where),
           streams' \subseteq Screen!Stream, owner' \in Pids \cup {NoPid},
           screen' \in Sizes \cup {NoSize}, UNCHANGED roundVars
    PROVE  IInv'
<1>1. TypeOK /\ IndexesValid
  BY DEF IInv
<1>2. DOMAIN call' = Threads /\ \A u \in Threads : call'[u] \in Calls
  BY <1>1, GotoKeeps
<1>3. TypeOK'
  BY <1>1, <1>2 DEF TypeOK, SlotsKept, roundVars
<1>4. IndexesValid'
  <2>1. DOMAIN clients = 1..Len(clients) /\ Len(clients) \in Nat /\ ready \subseteq DOMAIN polled
        /\ DOMAIN polled \subseteq Nat \ {0}
    BY <1>1, ClientArray, LenProperties DEF TypeOK
  <2> QED
    BY <1>1, <2>1 DEF IndexesValid, SlotsKept, roundVars
<1> QED
  BY <1>3, <1>4 DEF IInv

(* What a thread that changes the owner does next is report it. *)
LEMMA NotifyingTyped ==
    ASSUME NEW old, NEW new \in Pids \cup {NoPid}
    PROVE  Notifying(old, new) \in Calls
BY DEF Notifying, Calls

(* Nothing happens to the clients. *)
LEMMA Untouched ==
    ASSUME IInv, UNCHANGED clients
    PROVE  SlotsKept /\ DueIsUp'
BY DEF IInv, TypeOK, SlotsKept, DueIsUp, Up

-----------------------------------------------------------------------------
(* Steps *)

LEMMA SourceChangesKeeps ==
    ASSUME IInv, SourceChanges  PROVE IInv'
<1>1. streams' \subseteq Screen!Stream /\ owner' \in Pids \cup {NoPid}
  BY OwnerTyped DEF IInv, SourceChanges
<1>2. Notifying(owner, owner') \in Calls
  BY <1>1, NotifyingTyped
<1>3. SlotsKept /\ DueIsUp'
  BY SwitchKeeps DEF IInv, SourceChanges
<1> QED
  BY <1>1, <1>2, <1>3, SlotsKeptKeeps DEF IInv, TypeOK, SourceChanges, Threads

LEMMA PollWakeKeeps ==
    ASSUME IInv, PollWake  PROVE IInv'
<1>1. /\ Len(clients) \in Nat /\ DOMAIN clients = 1..Len(clients)
      /\ \A i \in DOMAIN clients : clients[i] \in Client
  BY ClientArray DEF IInv, TypeOK
<1>2. /\ polled' = [i \in DOMAIN clients |-> clients[i].fd]
      /\ ready' \subseteq DOMAIN clients /\ listen_ready' \in BOOLEAN
      /\ UNCHANGED <<streams, owner, clients, screen, call>>
  BY DEF PollWake
<1>3. polled' \in [1..Len(clients) -> ClientFds]
  BY <1>1, <1>2 DEF Client
<1>4. polled' \in Seq(ClientFds)
  BY <1>1, <1>3, SeqDef
<1>5. TypeOK'
  BY <1>2, <1>4 DEF IInv, TypeOK
<1>6. IndexesValid'
  BY <1>1, <1>2 DEF IndexesValid
<1> QED
  BY <1>2, <1>5, <1>6 DEF IInv, DueIsUp, Up

(* A client is read, or removed: then the last one takes its slot, which   *)
(* the loop has visited already. *)
LEMMA HandleClientKeeps ==
    ASSUME IInv, NEW i \in ready, NEW keep \in BOOLEAN, NEW command \in Commands,
           HandleClient(i, keep, command)
    PROVE  IInv'
<1> DEFINE where == IF command = "none" THEN Idle ELSE [at |-> command, pid |-> clients[i].pid]
<1>1. /\ Len(clients) \in Nat /\ DOMAIN clients = 1..Len(clients)
      /\ \A j \in DOMAIN clients : clients[j] \in Client
  BY ClientArray DEF IInv, TypeOK
<1>2. /\ ready' = ready \ {i} /\ \A j \in ready : j <= i
      /\ clients' = IF keep THEN Received(i) ELSE RemoveSlot(clients, i)
      /\ Goto("messaging", where)
      /\ UNCHANGED <<streams, owner, screen, polled, listen_ready>>
  BY DEF HandleClient
<1>3. /\ \A j \in ready : j \in DOMAIN clients /\ clients[j].fd = polled[j]
      /\ ready \subseteq DOMAIN polled /\ i \in DOMAIN clients
      /\ DOMAIN polled = 1..Len(polled) /\ Len(polled) \in Nat
  BY <1>1, LenProperties DEF IInv, TypeOK, IndexesValid
<1>4. where \in Calls
  BY <1>1, <1>3 DEF Calls, Commands, Client
<1>5. DOMAIN call' = Threads /\ \A u \in Threads : call'[u] \in Calls
  BY <1>2, <1>4, GotoKeeps DEF IInv, Threads
<1>6. CASE keep
  <2>1. clients' = Received(i)
    BY <1>2, <1>6
  <2>2. CASE Up(i)
    <3>1. UNCHANGED clients
      BY <2>1, <2>2 DEF Received
    <3>2. TypeOK'
      BY <1>2, <1>5, <3>1 DEF IInv, TypeOK
    <3> QED
      BY <1>2, <3>1, <3>2 DEF IInv, IndexesValid, DueIsUp, Up
  <2>3. CASE ~Up(i)
    <3>1. clients' = [clients EXCEPT ![i].link = "drained"]
      BY <2>1, <2>3 DEF Received
    <3>2. \A j \in DOMAIN clients : /\ clients'[j] \in Client
                                    /\ clients'[j].fd = clients[j].fd
                                    /\ clients'[j].due = clients[j].due
                                    /\ j # i => clients'[j] = clients[j]
      BY <1>1, <1>3, <3>1 DEF Client
    <3>3. DOMAIN clients' = DOMAIN clients /\ clients' \in [1..Len(clients) -> Client]
      BY <1>1, <3>1, <3>2
    <3>4. clients' \in Seq(Client) /\ Len(clients') = Len(clients)
      BY <1>1, <3>3, ArrayIntro
    <3>5. TypeOK'
      BY <1>2, <1>5, <3>4 DEF IInv, TypeOK
    <3>6. IndexesValid'
      BY <1>1, <1>2, <1>3, <3>2, <3>4 DEF IndexesValid
    <3>7. DueIsUp'
      BY <2>3, <3>2, <3>3 DEF IInv, DueIsUp, Up
    <3> QED
      BY <3>5, <3>6, <3>7 DEF IInv
  <2> QED
    BY <2>2, <2>3
<1>7. CASE ~keep
  <2> DEFINE n == Len(clients)
  <2>1. clients' = [j \in 1..(n - 1) |-> IF j = i THEN clients[n] ELSE clients[j]]
    BY <1>2, <1>7 DEF RemoveSlot
  <2>2. n \in Nat \ {0} /\ n - 1 \in Nat /\ 1..(n - 1) \subseteq DOMAIN clients /\ n \in DOMAIN clients
    BY <1>1, <1>3
  <2>3. clients' \in [1..(n - 1) -> Client]
    BY <1>1, <2>1, <2>2
  <2>4. clients' \in Seq(Client) /\ Len(clients') = n - 1 /\ DOMAIN clients' = 1..(n - 1)
    BY <2>2, <2>3, ArrayIntro
  <2>5. TypeOK'
    BY <1>2, <1>5, <2>2, <2>4, MaxClientsAssumption DEF IInv, TypeOK
  <2>6. \A j \in ready' : j \in 1..(n - 1) /\ clients'[j] = clients[j]
    BY <1>1, <1>2, <1>3, <2>1, <2>2
  <2>7. IndexesValid'
    BY <1>2, <1>3, <2>4, <2>6 DEF IndexesValid
  <2>8. DueIsUp'
    BY <2>1, <2>2, <2>4 DEF IInv, DueIsUp, Up
  <2> QED
    BY <2>5, <2>7, <2>8 DEF IInv
<1> QED
  BY <1>6, <1>7

LEMMA AcceptClientKeeps ==
    ASSUME IInv, NEW fd \in ClientFds, NEW pid \in Pids, AcceptClient(fd, pid)
    PROVE  IInv'
<1> DEFINE c == [NewClient(fd, pid) EXCEPT !.size = screen]
<1>1. c \in Client /\ ~c.due
  BY NewClientTyped DEF IInv, TypeOK, NewClient
<1>2. /\ ready = {} /\ Len(clients) < MaxClients
      /\ clients' = Append(clients, c) /\ Goto("messaging", [at |-> "report"])
      /\ listen_ready' = FALSE /\ UNCHANGED <<streams, owner, screen, polled, ready>>
  BY DEF AcceptClient, Accepting
<1> HIDE DEF c
<1>3. clients \in Seq(Client) /\ Len(clients) \in Nat /\ DOMAIN clients = 1..Len(clients)
  BY ClientArray DEF IInv, TypeOK
<1>4. /\ clients' \in Seq(Client) /\ Len(clients') = Len(clients) + 1
      /\ DOMAIN clients' = 1..(Len(clients) + 1)
      /\ \A i \in DOMAIN clients : clients'[i] = clients[i]
      /\ clients'[Len(clients) + 1] = c
  BY <1>1, <1>2, <1>3, AppendProperties, LenProperties
<1>5. DOMAIN call' = Threads /\ \A u \in Threads : call'[u] \in Calls
  <2>1. [at |-> "report"] \in Calls
    BY DEF Calls
  <2> QED
    BY <1>2, <2>1, GotoKeeps DEF IInv, Threads
<1>6. TypeOK'
  <2>1. Len(clients') <= MaxClients
    BY <1>2, <1>3, <1>4, MaxClientsAssumption
  <2>2. listen_ready' \in BOOLEAN
    BY <1>2
  <2> QED
    BY <1>2, <1>4, <1>5, <2>1, <2>2 DEF IInv, TypeOK
<1>7. DueIsUp'
  BY <1>1, <1>3, <1>4 DEF IInv, DueIsUp, Up
<1> QED
  BY <1>2, <1>6, <1>7 DEF IInv, IndexesValid

LEMMA CallTyped ==
    ASSUME TypeOK, NEW t \in Threads
    PROVE  /\ At(t, "notify") => call[t].new \in Pids \cup {NoPid} /\ call[t].changed \in BOOLEAN
           /\ At(t, "request") \/ At(t, "yield") => call[t].pid \in Pids
           /\ At(t, "resize") => call[t].size \in Sizes
<1>1. call[t] \in Calls
  BY DEF TypeOK
<1> QED
  BY <1>1 DEF Calls, At, Idle

(* The steps that end or begin in the middle of a call and change neither  *)
(* the clients nor who owns the screen.                                    *)
LEMMA GoingKeeps ==
    ASSUME IInv, NEW t \in Threads, NEW where \in Calls, Goto(t, where),
           screen' \in Sizes \cup {NoSize}, UNCHANGED <<streams, owner, clients, roundVars>>
    PROVE  IInv'
BY Untouched, SlotsKeptKeeps DEF IInv, TypeOK

LEMMA ApplyRequestKeeps ==
    ASSUME IInv, ApplyRequest  PROVE IInv'
<1>1. call["messaging"].pid \in Pids
  BY CallTyped DEF IInv, ApplyRequest, Threads
<1>2. streams' \subseteq Screen!Stream /\ owner' \in Pids \cup {NoPid}
  BY <1>1, OwnerTyped DEF IInv, ApplyRequest
<1>3. Notifying(owner, owner') \in Calls
  BY <1>2, NotifyingTyped
<1>4. SlotsKept /\ DueIsUp'
  BY SwitchKeeps DEF IInv, ApplyRequest
<1> QED
  BY <1>2, <1>3, <1>4, SlotsKeptKeeps DEF IInv, TypeOK, ApplyRequest, Threads

LEMMA YieldScreenKeeps ==
    ASSUME IInv, NEW t \in Threads, YieldScreen(t)  PROVE IInv'
<1>1. call[t].pid \in Pids
  BY CallTyped DEF IInv, YieldScreen
<1>2. streams' \subseteq Screen!Stream /\ owner' \in Pids \cup {NoPid}
  BY <1>1, OwnerTyped DEF IInv, YieldScreen
<1>3. Notifying(owner, owner') \in Calls
  BY <1>2, NotifyingTyped
<1>4. SlotsKept /\ DueIsUp'
  BY SwitchKeeps DEF IInv, YieldScreen
<1> QED
  BY <1>2, <1>3, <1>4, SlotsKeptKeeps DEF IInv, TypeOK, YieldScreen

(* A broadcast leaves the clients where they are and makes none of them due. *)
NobodyNewlyDue ==
    /\ SlotsKept /\ DueIsUp'
    /\ \A i \in DOMAIN clients : clients'[i].due => clients[i].due

LEMMA ActiveTold ==
    ASSUME IInv, NEW t \in Threads, NotifySources(t)
    PROVE  NobodyNewlyDue
<1> DEFINE told == [i \in DOMAIN clients |->
                      [clients[i] EXCEPT !.active = call[t].new # NoPid /\ clients[i].pid = call[t].new]]
<1>1. \A i \in DOMAIN clients : clients[i] \in Client
  BY ClientArray DEF IInv, TypeOK
<1>2. ASSUME NEW i \in DOMAIN clients
      PROVE  /\ told[i] \in Client
             /\ told[i].fd = clients[i].fd /\ told[i].pid = clients[i].pid
             /\ told[i].link = clients[i].link /\ told[i].due = clients[i].due
  <2>1. PICK b \in BOOLEAN : told[i] = [clients[i] EXCEPT !.active = b]
    OBVIOUS
  <2> HIDE DEF told
  <2> QED
    BY <1>1, <2>1 DEF Client
<1>3. Deliver(DOMAIN clients, told)
  BY DEF NotifySources
<1> HIDE DEF told
<1> QED
  BY <1>2, <1>3, DeliverKeeps DEF IInv, NobodyNewlyDue

LEMMA SizeTold ==
    ASSUME IInv, SendScreenSize
    PROVE  NobodyNewlyDue
<1> DEFINE told == [i \in DOMAIN clients |-> [clients[i] EXCEPT !.size = call["session"].size]]
<1>1. \A i \in DOMAIN clients : clients[i] \in Client
  BY ClientArray DEF IInv, TypeOK
<1>2. call["session"].size \in Sizes
  BY CallTyped DEF IInv, SendScreenSize, Threads
<1>3. ASSUME NEW i \in DOMAIN clients
      PROVE  /\ told[i] \in Client
             /\ told[i].fd = clients[i].fd /\ told[i].pid = clients[i].pid
             /\ told[i].link = clients[i].link /\ told[i].due = clients[i].due
  BY <1>1, <1>2 DEF Client
<1>4. Deliver(DOMAIN clients, told)
  BY DEF SendScreenSize
<1> HIDE DEF told
<1> QED
  BY <1>3, <1>4, DeliverKeeps DEF IInv, NobodyNewlyDue

(* After a request for a key frame its addressees are not due any more. *)
LEMMA KeyFrameAsked ==
    ASSUME IInv, NEW t \in Threads, SendKeyFrameReq(t)
    PROVE  /\ NobodyNewlyDue
           /\ \A i \in ActiveOrAll(call[t].pid) : ~clients'[i].due
<1> DEFINE told == [i \in DOMAIN clients |-> [clients[i] EXCEPT !.due = FALSE]]
<1>1. \A i \in DOMAIN clients : clients[i] \in Client
  BY ClientArray DEF IInv, TypeOK
<1>2. ASSUME NEW i \in DOMAIN clients
      PROVE  /\ told[i] \in Client
             /\ told[i].fd = clients[i].fd /\ told[i].pid = clients[i].pid
             /\ told[i].link = clients[i].link /\ ~told[i].due
  BY <1>1 DEF Client
<1>3. Deliver(ActiveOrAll(call[t].pid), told)
  BY DEF SendKeyFrameReq
<1>4. ActiveOrAll(call[t].pid) \subseteq DOMAIN clients
  BY DEF ActiveOrAll
<1> HIDE DEF told
<1> QED
  BY <1>2, <1>3, <1>4, DeliverKeeps DEF IInv, NobodyNewlyDue

LEMMA BroadcastKeeps ==
    ASSUME IInv, NobodyNewlyDue, NEW t \in Threads, NEW where \in Calls, Goto(t, where),
           UNCHANGED <<streams, owner, screen, roundVars>>
    PROVE  IInv'
BY SlotsKeptKeeps DEF IInv, TypeOK, NobodyNewlyDue

(* Every step of every thread keeps the invariant. *)
LEMMA StepKeeps == IInv /\ [Next]_vars => IInv'
<1> SUFFICES ASSUME IInv, [Next]_vars PROVE IInv'
  OBVIOUS
<1>1. /\ Idle \in Calls /\ [at |-> "ask"] \in Calls /\ [at |-> "report"] \in Calls
      /\ \A pid \in Pids \cup {NoPid} : [at |-> "send", pid |-> pid] \in Calls
      /\ \A pid \in Pids : [at |-> "yield", pid |-> pid] \in Calls
      /\ \A size \in Sizes : [at |-> "resize", size |-> size] \in Calls
      /\ owner \in Pids \cup {NoPid} /\ screen \in Sizes \cup {NoSize}
  BY DEF Calls, IInv, TypeOK
<1>2. CASE SourceChanges
  BY <1>2, SourceChangesKeeps
<1>3. CASE PollWake
  BY <1>3, PollWakeKeeps
<1>4. ASSUME NEW i \in ready, NEW keep \in BOOLEAN, NEW command \in Commands,
             HandleClient(i, keep, command)
      PROVE  IInv'
  BY <1>4, HandleClientKeeps
<1>5. CASE ApplyRequest
  BY <1>5, ApplyRequestKeeps
<1>6. ASSUME NEW fd \in ClientFds, NEW pid \in Pids, AcceptClient(fd, pid)
      PROVE  IInv'
  BY <1>6, AcceptClientKeeps
<1>7. CASE AcceptDeclined
  BY <1>7 DEF AcceptDeclined, Accepting, IInv, TypeOK, IndexesValid, DueIsUp, Up
<1>8. CASE ReportToLate
  <2>1. Notifying(owner, owner) \in Calls
    BY <1>1, NotifyingTyped
  <2> QED
    BY <1>1, <1>8, <2>1, GoingKeeps DEF ReportToLate, Threads
<1>9. ASSUME NEW size \in Sizes, SetScreenSize(size)
      PROVE  IInv'
  BY <1>1, <1>9, GoingKeeps DEF SetScreenSize, Threads
<1>10. CASE SendScreenSize
  BY <1>1, <1>10, SizeTold, BroadcastKeeps DEF SendScreenSize, Threads
<1>11. CASE SwitchToPrevious
  <2>1. owner \in Pids
    BY <1>1, <1>11 DEF SwitchToPrevious
  <2> QED
    BY <1>1, <1>11, <2>1, GoingKeeps DEF SwitchToPrevious, Threads
<1>12. CASE PlaybackStarts
  BY <1>1, <1>12, GoingKeeps DEF PlaybackStarts, Threads
<1>13. ASSUME NEW t \in Threads, CallStep(t)
       PROVE  IInv'
  <2>1. CASE YieldScreen(t)
    BY <2>1, YieldScreenKeeps
  <2>2. CASE NotifySources(t)
    <3>1. PICK where \in Calls : Goto(t, where)
      BY <1>1, <2>2 DEF NotifySources
    <3> QED
      BY <2>2, <3>1, ActiveTold, BroadcastKeeps DEF NotifySources
  <2>3. CASE ReadActivePid(t)
    BY <1>1, <2>3, GoingKeeps DEF ReadActivePid
  <2>4. CASE SendKeyFrameReq(t)
    BY <1>1, <2>4, KeyFrameAsked, BroadcastKeeps DEF SendKeyFrameReq
  <2> QED
    BY <1>13, <2>1, <2>2, <2>3, <2>4 DEF CallStep
<1>14. CASE UNCHANGED vars
  BY <1>14 DEF vars, roundVars, IInv, TypeOK, IndexesValid, DueIsUp, Up
<1> QED
  BY <1>2, <1>3, <1>4, <1>5, <1>6, <1>7, <1>8, <1>9, <1>10, <1>11, <1>12, <1>13, <1>14
     DEF Next, ReceiverStep, MessagingStep, SessionStep, Threads

(* The types, the slots of a poll round and the link of due clients are    *)
(* right in every reachable state. *)
THEOREM Invariance == Spec => []IInv
<1>1. Init => IInv
  BY InitEstablishes
<1>2. IInv /\ [Next]_vars => IInv'
  BY StepKeeps
<1> QED
  BY <1>1, <1>2, PTL DEF Spec

(* The array of clients never grows beyond its limit, and a thread in the  *)
(* middle of a call has what its next step needs. *)
THEOREM TypeCorrect == Spec => []TypeOK
<1>1. IInv => TypeOK
  BY DEF IInv
<1> QED
  BY <1>1, Invariance, PTL

(* However many clients a round removes, each index still to visit is of   *)
(* the client that poll reported. *)
THEOREM IndexesStayValid == Spec => []IndexesValid
<1>1. IInv => IndexesValid
  BY DEF IInv
<1> QED
  BY <1>1, Invariance, PTL

-----------------------------------------------------------------------------
(* Requests for key frames *)

(* A thread that goes elsewhere leaves what the others are about to do. *)
LEMMA OthersStillAsk ==
    ASSUME TypeOK, UNCHANGED owner, NEW t \in Threads, NEW where, Goto(t, where),
           NEW u \in Threads, u # t, WillAsk(u)
    PROVE  WillAsk(u)'
<1>1. call'[u] = call[u]
  BY DEF TypeOK, Goto
<1> QED
  BY <1>1 DEF WillAsk, At

(* A step that makes nobody due, and after which the thread that took it   *)
(* still asks if it was about to. *)
LEMMA OwedStays ==
    ASSUME IInv, KeyFrameRequestOwed, NobodyNewlyDue, UNCHANGED owner,
           NEW t \in Threads, NEW where, Goto(t, where), WillAsk(t) => WillAsk(t)'
    PROVE  KeyFrameRequestOwed'
<1> SUFFICES ASSUME NEW i \in DOMAIN clients', clients'[i].due, clients'[i].pid = owner'
             PROVE  \E u \in Threads : WillAsk(u)'
  BY DEF KeyFrameRequestOwed
<1>1. i \in DOMAIN clients /\ clients[i].due /\ clients[i].pid = owner
  BY DEF NobodyNewlyDue, SlotsKept
<1>2. PICK u \in Threads : WillAsk(u)
  BY <1>1 DEF KeyFrameRequestOwed
<1> QED
  BY <1>2, OthersStillAsk DEF IInv

(* A thread that changes the owner, whoever that is, was not about to ask, *)
(* and reports the change: the new owner is then asked by it. *)
LEMMA OwedBySwitch ==
    ASSUME IInv, KeyFrameRequestOwed, NoPid \notin Pids, NoteSwitch,
           NEW t \in Threads, ~WillAsk(t), Goto(t, Notifying(owner, owner'))
    PROVE  KeyFrameRequestOwed'
<1>1. /\ SlotsKept
      /\ \A i \in DOMAIN clients :
           clients'[i].due => IF owner' = owner THEN clients[i].due
                                                ELSE clients[i].pid = owner'
  BY SwitchKeeps DEF IInv
<1>2. CASE owner' = owner
  BY <1>1, <1>2, SwitchKeeps, OwedStays DEF IInv, NobodyNewlyDue
<1>3. CASE owner' # owner
  <2> SUFFICES ASSUME NEW i \in DOMAIN clients', clients'[i].due, clients'[i].pid = owner'
               PROVE  WillAsk(t)'
    BY DEF KeyFrameRequestOwed
  <2>1. i \in DOMAIN clients /\ clients[i].pid = owner'
    BY <1>1, <1>3 DEF SlotsKept
  <2>2. owner' # NoPid
    <3>1. clients[i] \in Client
      BY <2>1, ClientArray DEF IInv, TypeOK
    <3> QED
      BY <2>1, <3>1 DEF Client
  <2>3. call'[t] = [at |-> "notify", new |-> owner', changed |-> TRUE]
    BY <1>3 DEF Goto, Notifying, IInv, TypeOK
  <2> QED
    BY <2>2, <2>3 DEF WillAsk, At
<1> QED
  BY <1>2, <1>3

LEMMA OwedByRequest ==
    ASSUME IInv, KeyFrameRequestOwed, NEW t \in Threads, SendKeyFrameReq(t)
    PROVE  KeyFrameRequestOwed'
<1>1. /\ NobodyNewlyDue
      /\ \A i \in ActiveOrAll(call[t].pid) : ~clients'[i].due
  BY KeyFrameAsked
<1>2. CASE WillAsk(t)
  <2>1. call[t].pid = owner
    BY <1>2 DEF WillAsk, SendKeyFrameReq, At
  <2>2. ASSUME NEW i \in DOMAIN clients, clients[i].pid = owner
        PROVE  i \in ActiveOrAll(call[t].pid)
    BY <2>1, <2>2 DEF ActiveOrAll
  <2> QED
    BY <1>1, <2>2 DEF KeyFrameRequestOwed, SendKeyFrameReq, NobodyNewlyDue, SlotsKept
<1>3. CASE ~WillAsk(t)
  BY <1>1, <1>3, OwedStays DEF SendKeyFrameReq
<1> QED
  BY <1>2, <1>3

(* Clients that are read, removed or accepted are not newly due. *)
LEMMA OwedByRead ==
    ASSUME IInv, KeyFrameRequestOwed, NEW i \in ready, NEW keep \in BOOLEAN,
           NEW command \in Commands, HandleClient(i, keep, command)
    PROVE  KeyFrameRequestOwed'
<1>1. /\ Len(clients) \in Nat /\ DOMAIN clients = 1..Len(clients)
      /\ \A j \in DOMAIN clients : clients[j] \in Client
      /\ i \in DOMAIN clients
  <2>1. ready \subseteq Nat \ {0}
    BY LenProperties DEF IInv, TypeOK
  <2> QED
    BY <2>1, ClientArray DEF IInv, TypeOK, IndexesValid
<1>2. PICK where : Goto("messaging", where)
  BY DEF HandleClient
<1>3. ~WillAsk("messaging") /\ UNCHANGED owner
  BY DEF HandleClient, Idling, Idle, WillAsk, At
<1>4. ASSUME NEW j \in DOMAIN clients', clients'[j].due
      PROVE  \E k \in DOMAIN clients : clients[k].due /\ clients[k].pid = clients'[j].pid
  <2>1. CASE keep /\ Up(i)
    BY <1>4, <2>1 DEF HandleClient, Received
  <2>2. CASE keep /\ ~Up(i)
    <3>1. clients' = [clients EXCEPT ![i].link = "drained"]
      BY <2>2 DEF HandleClient, Received
    <3>2. clients'[j].due = clients[j].due /\ clients'[j].pid = clients[j].pid /\ j \in DOMAIN clients
      BY <1>1, <3>1 DEF Client
    <3> QED
      BY <1>4, <3>2
  <2>3. CASE ~keep
    <3>1. clients' = [k \in 1..(Len(clients) - 1) |-> IF k = i THEN clients[Len(clients)]
                                                               ELSE clients[k]]
      BY <2>3 DEF HandleClient, RemoveSlot
    <3>2. j \in 1..(Len(clients) - 1) /\ Len(clients) \in DOMAIN clients /\ j \in DOMAIN clients
      BY <1>1, <3>1
    <3> QED
      BY <1>4, <3>1, <3>2
  <2> QED
    BY <2>1, <2>2, <2>3
<1> SUFFICES ASSUME NEW j \in DOMAIN clients', clients'[j].due, clients'[j].pid = owner'
             PROVE  \E u \in Threads : WillAsk(u)'
  BY DEF KeyFrameRequestOwed
<1>5. PICK u \in Threads : WillAsk(u)
  BY <1>3, <1>4 DEF KeyFrameRequestOwed
<1> QED
  BY <1>2, <1>3, <1>5, OthersStillAsk DEF IInv, Threads

LEMMA OwedByAccept ==
    ASSUME IInv, KeyFrameRequestOwed, NEW fd \in ClientFds, NEW pid \in Pids,
           AcceptClient(fd, pid)
    PROVE  KeyFrameRequestOwed'
<1> DEFINE c == [NewClient(fd, pid) EXCEPT !.size = screen]
<1>1. ~c.due /\ c \in Client
  BY NewClientTyped DEF NewClient, IInv, TypeOK
<1>2. clients' = Append(clients, c) /\ Goto("messaging", [at |-> "report"]) /\ UNCHANGED owner
  BY DEF AcceptClient
<1> HIDE DEF c
<1>3. ~WillAsk("messaging")
  BY DEF AcceptClient, Accepting, Idling, Idle, WillAsk, At
<1>4. /\ DOMAIN clients' = 1..(Len(clients) + 1) /\ DOMAIN clients = 1..Len(clients)
      /\ Len(clients) \in Nat
      /\ \A i \in DOMAIN clients : clients'[i] = clients[i]
      /\ clients'[Len(clients) + 1] = c
  BY <1>1, <1>2, ClientArray, AppendProperties, LenProperties DEF IInv, TypeOK
<1> SUFFICES ASSUME NEW j \in DOMAIN clients', clients'[j].due, clients'[j].pid = owner'
             PROVE  \E u \in Threads : WillAsk(u)'
  BY DEF KeyFrameRequestOwed
<1>5. j \in DOMAIN clients /\ clients'[j] = clients[j]
  BY <1>1, <1>4
<1>6. PICK u \in Threads : WillAsk(u)
  BY <1>2, <1>5 DEF KeyFrameRequestOwed
<1> QED
  BY <1>2, <1>3, <1>6, OthersStillAsk DEF IInv, Threads

LEMMA StepOwes ==
    ASSUME NoPid \notin Pids
    PROVE  IInv /\ KeyFrameRequestOwed /\ [Next]_vars => KeyFrameRequestOwed'
<1> SUFFICES ASSUME IInv, KeyFrameRequestOwed, [Next]_vars PROVE KeyFrameRequestOwed'
  OBVIOUS
<1> USE DEF At
<1>1. ASSUME UNCHANGED clients  PROVE NobodyNewlyDue
  BY <1>1, Untouched DEF NobodyNewlyDue
<1>2. CASE SourceChanges
  <2>1. ~WillAsk("receiver")
    BY <1>2 DEF SourceChanges, Idling, Idle, WillAsk
  <2> QED
    BY <1>2, <2>1, OwedBySwitch DEF SourceChanges, Threads
<1>3. CASE ApplyRequest
  <2>1. ~WillAsk("messaging")
    BY <1>3 DEF ApplyRequest, WillAsk
  <2> QED
    BY <1>3, <2>1, OwedBySwitch DEF ApplyRequest, Threads
<1>4. ASSUME NEW i \in ready, NEW keep \in BOOLEAN, NEW command \in Commands,
             HandleClient(i, keep, command)
      PROVE  KeyFrameRequestOwed'
  BY <1>4, OwedByRead
<1>5. ASSUME NEW fd \in ClientFds, NEW pid \in Pids, AcceptClient(fd, pid)
      PROVE  KeyFrameRequestOwed'
  BY <1>5, OwedByAccept
<1>6. CASE PollWake \/ AcceptDeclined \/ UNCHANGED vars
  <2>1. UNCHANGED <<clients, owner, call>>
    BY <1>6 DEF PollWake, AcceptDeclined, vars
  <2> QED
    BY <2>1 DEF KeyFrameRequestOwed, WillAsk
<1>7. CASE ReportToLate
  <2>1. ~WillAsk("messaging")
    BY <1>7 DEF ReportToLate, WillAsk
  <2> QED
    BY <1>1, <1>7, <2>1, OwedStays DEF ReportToLate, Threads
<1>8. CASE \/ \E size \in Sizes : SetScreenSize(size)
           \/ SwitchToPrevious \/ PlaybackStarts
  <2>1. Idling("session") /\ UNCHANGED <<clients, owner>>
    BY <1>8 DEF SetScreenSize, SwitchToPrevious, PlaybackStarts
  <2>3. ~WillAsk("session")
    BY <2>1 DEF Idling, Idle, WillAsk
  <2>2. PICK where : Goto("session", where)
    BY <1>8 DEF SetScreenSize, SwitchToPrevious, PlaybackStarts
  <2> QED
    BY <1>1, <2>1, <2>2, <2>3, OwedStays DEF Threads
<1>9. CASE SendScreenSize
  <2>1. ~WillAsk("session")
    BY <1>9 DEF SendScreenSize, WillAsk
  <2> QED
    BY <1>9, <2>1, SizeTold, OwedStays DEF SendScreenSize, Threads
<1>10. ASSUME NEW t \in Threads, CallStep(t)
       PROVE  KeyFrameRequestOwed'
  <2>1. CASE YieldScreen(t)
    <3>1. ~WillAsk(t)
      BY <2>1 DEF YieldScreen, WillAsk
    <3> QED
      BY <2>1, <3>1, OwedBySwitch DEF YieldScreen
  <2>2. CASE NotifySources(t)
    <3>1. WillAsk(t) => WillAsk(t)'
      BY <2>2 DEF NotifySources, WillAsk, Goto, IInv, TypeOK
    <3>2. PICK where : Goto(t, where)
      BY <2>2 DEF NotifySources
    <3> QED
      BY <2>2, <3>1, <3>2, ActiveTold, OwedStays DEF NotifySources
  <2>3. CASE ReadActivePid(t)
    <3>1. WillAsk(t)'
      BY <2>3 DEF ReadActivePid, WillAsk, Goto, IInv, TypeOK
    <3> QED
      BY <1>1, <2>3, <3>1, OwedStays DEF ReadActivePid
  <2>4. CASE SendKeyFrameReq(t)
    BY <2>4, OwedByRequest
  <2> QED
    BY <1>10, <2>1, <2>2, <2>3, <2>4 DEF CallStep
<1> QED
  BY <1>2, <1>3, <1>4, <1>5, <1>6, <1>7, <1>8, <1>9, <1>10
     DEF Next, ReceiverStep, MessagingStep, SessionStep, Threads

(* Three threads change the owner and ask for key frames, each after it    *)
(* has read who the owner is: no order of their steps leaves the process   *)
(* on screen without a request on its way.  (A client without a pid could  *)
(* not be told from the clients of nobody.)                                *)
THEOREM KeyFramesRequested ==
    ASSUME NoPid \notin Pids
    PROVE  Spec => []KeyFrameRequestOwed
<1>1. Init => KeyFrameRequestOwed
  BY EmptySeq DEF Init, KeyFrameRequestOwed
<1>2. IInv /\ KeyFrameRequestOwed /\ [Next]_vars => KeyFrameRequestOwed'
  BY StepOwes
<1> QED
  BY <1>1, <1>2, Invariance, PTL DEF Spec

-----------------------------------------------------------------------------
(* The screen size *)

(* The broadcast to come has the stored size. *)
SizeIsStored == At("session", "resize") => call["session"].size = screen

SizeInv == SizeIsStored /\ ScreenSizeKnown

(* Whoever is up was up, and knows what somebody knew. *)
SizesKept ==
    /\ screen' = screen
    /\ \A i \in DOMAIN clients' :
         Up(i)' => \E j \in DOMAIN clients : Up(j) /\ clients'[i].size = clients[j].size

ResizeKept ==
    /\ At("session", "resize")' <=> At("session", "resize")
    /\ At("session", "resize") => call'["session"].size = call["session"].size

LEMMA SizesKeptKeeps ==
    ASSUME SizeInv, SizesKept, ResizeKept
    PROVE  SizeInv'
<1>1. SizeIsStored'
  BY DEF SizeInv, SizeIsStored, SizesKept, ResizeKept
<1>2. ScreenSizeKnown'
  BY DEF SizeInv, ScreenSizeKnown, SizesKept, ResizeKept
<1> QED
  BY <1>1, <1>2 DEF SizeInv

LEMMA GoingElsewhere ==
    ASSUME TypeOK, NEW t \in Threads, NEW where, Goto(t, where), where.at # "resize",
           ~At(t, "resize")
    PROVE  ResizeKept
BY DEF TypeOK, Goto, ResizeKept, At, Threads

(* A broadcast of something else, or a switch, tells nobody a size. *)
LEMMA DeliverKeepsSizes ==
    ASSUME TypeOK, NEW I \in SUBSET DOMAIN clients, NEW told, Deliver(I, told), screen' = screen,
           \A i \in DOMAIN clients : told[i].size = clients[i].size
    PROVE  SizesKept
<1>1. PICK full \in SUBSET I :
        clients' = [i \in DOMAIN clients |->
                      IF i \notin I \/ ~Up(i) THEN clients[i]
                      ELSE IF i \in full THEN ShutDown(clients[i])
                      ELSE told[i]]
  BY DEF Deliver
<1>2. ASSUME NEW i \in DOMAIN clients', Up(i)'
      PROVE  i \in DOMAIN clients /\ Up(i) /\ clients'[i].size = clients[i].size
  <2>1. i \in DOMAIN clients
    BY <1>1
  <2>2. ShutDown(clients[i]).link = "shut"
    BY DEF ShutDown, NewClient
  <2>3. CASE i \notin I \/ ~Up(i)
    BY <1>1, <1>2, <2>1, <2>3 DEF Up
  <2>4. CASE i \in I /\ Up(i) /\ i \in full
    BY <1>1, <1>2, <2>1, <2>2, <2>4 DEF Up
  <2>5. CASE i \in I /\ Up(i) /\ i \notin full
    BY <1>1, <2>1, <2>5
  <2> QED
    BY <2>3, <2>4, <2>5
<1> QED
  BY <1>2 DEF SizesKept

LEMMA SwitchKeepsSizes ==
    ASSUME TypeOK, NoteSwitch, screen' = screen
    PROVE  SizesKept
<1>1. \A i \in DOMAIN clients : clients[i] \in Client
  BY ClientArray DEF TypeOK
<1>2. CASE owner' = owner
  BY <1>2 DEF NoteSwitch, SizesKept, Up
<1>3. CASE owner' # owner
  <2> DEFINE d(i) == Up(i) /\ clients[i].pid = owner'
  <2>1. clients' = [i \in DOMAIN clients |-> [clients[i] EXCEPT !.due = d(i)]]
    BY <1>3 DEF NoteSwitch
  <2> HIDE DEF d
  <2>2. \A i \in DOMAIN clients :
          clients'[i].link = clients[i].link /\ clients'[i].size = clients[i].size
    BY <1>1, <2>1 DEF Client
  <2> QED
    BY <2>1, <2>2 DEF SizesKept, Up
<1> QED
  BY <1>2, <1>3

LEMMA ReadKeepsSizes ==
    ASSUME IInv, NEW i \in ready, NEW keep \in BOOLEAN, NEW command \in Commands,
           HandleClient(i, keep, command)
    PROVE  SizesKept
<1>1. /\ Len(clients) \in Nat /\ DOMAIN clients = 1..Len(clients)
      /\ \A j \in DOMAIN clients : clients[j] \in Client
  BY ClientArray DEF IInv, TypeOK
<1>2. screen' = screen /\ clients' = IF keep THEN Received(i) ELSE RemoveSlot(clients, i)
  BY DEF HandleClient
<1>3. CASE keep /\ Up(i)
  BY <1>2, <1>3 DEF Received, SizesKept, Up
<1>4. CASE keep /\ ~Up(i)
  <2>1. clients' = [clients EXCEPT ![i].link = "drained"]
    BY <1>2, <1>4 DEF Received
  <2>2. \A j \in DOMAIN clients : /\ clients'[j].size = clients[j].size
                                  /\ j # i => clients'[j].link = clients[j].link
                                  /\ j = i => clients'[j].link = "drained"
    BY <1>1, <2>1 DEF Client
  <2> QED
    BY <1>2, <2>1, <2>2 DEF SizesKept, Up
<1>5. CASE ~keep
  <2>1. clients' = [k \in 1..(Len(clients) - 1) |-> IF k = i THEN clients[Len(clients)]
                                                             ELSE clients[k]]
    BY <1>2, <1>5 DEF RemoveSlot
  <2>2. ASSUME NEW j \in DOMAIN clients'
        PROVE  \E k \in DOMAIN clients : clients'[j] = clients[k]
    <3>1. j \in DOMAIN clients /\ Len(clients) \in DOMAIN clients
      BY <1>1, <2>1
    <3>2. clients'[j] = IF j = i THEN clients[Len(clients)] ELSE clients[j]
      BY <2>1
    <3> QED
      BY <3>1, <3>2
  <2> QED
    BY <1>2, <2>2 DEF SizesKept, Up
<1> QED
  BY <1>3, <1>4, <1>5

(* A client that is accepted is told the size that is stored. *)
LEMMA AcceptTellsSize ==
    ASSUME IInv, SizeInv, NEW fd \in ClientFds, NEW pid \in Pids, AcceptClient(fd, pid)
    PROVE  SizeInv'
<1> DEFINE c == [NewClient(fd, pid) EXCEPT !.size = screen]
<1>1. c.size = screen /\ c \in Client
  BY NewClientTyped DEF NewClient, IInv, TypeOK
<1>2. clients' = Append(clients, c) /\ Goto("messaging", [at |-> "report"]) /\ screen' = screen
  BY DEF AcceptClient
<1> HIDE DEF c
<1>3. ResizeKept
  BY <1>2, GoingElsewhere DEF IInv, Threads, AcceptClient, Accepting, Idling, Idle, At
<1>4. ASSUME NEW i \in DOMAIN clients'
      PROVE  clients'[i].size = screen \/ (i \in DOMAIN clients /\ clients'[i] = clients[i])
  BY <1>1, <1>2, ClientArray, AppendProperties, LenProperties DEF IInv, TypeOK
<1>5. SizeIsStored'
  BY <1>2, <1>3 DEF SizeInv, SizeIsStored, ResizeKept
<1>6. ScreenSizeKnown'
  BY <1>2, <1>3, <1>4 DEF SizeInv, ScreenSizeKnown, ResizeKept, Up
<1> QED
  BY <1>5, <1>6 DEF SizeInv

(* The broadcast tells it all that still listen. *)
LEMMA BroadcastTellsSize ==
    ASSUME IInv, SizeInv, SendScreenSize
    PROVE  SizeInv'
<1> DEFINE told == [i \in DOMAIN clients |-> [clients[i] EXCEPT !.size = call["session"].size]]
<1>1. \A i \in DOMAIN clients : clients[i] \in Client
  BY ClientArray DEF IInv, TypeOK
<1>2. call["session"].size = screen /\ screen' = screen
  BY DEF SizeInv, SizeIsStored, SendScreenSize
<1>3. \A i \in DOMAIN clients : told[i].size = screen
  BY <1>1, <1>2 DEF Client
<1>4. Deliver(DOMAIN clients, told)
  BY DEF SendScreenSize
<1> HIDE DEF told
<1>5. PICK full \in SUBSET DOMAIN clients :
        clients' = [i \in DOMAIN clients |->
                      IF i \notin DOMAIN clients \/ ~Up(i) THEN clients[i]
                      ELSE IF i \in full THEN ShutDown(clients[i])
                      ELSE told[i]]
  BY <1>4 DEF Deliver
<1>6. ASSUME NEW i \in DOMAIN clients', Up(i)'
      PROVE  clients'[i].size = screen
  <2>1. i \in DOMAIN clients /\ ShutDown(clients[i]).link = "shut"
    BY <1>5 DEF ShutDown, NewClient
  <2>2. Up(i) /\ i \notin full
    BY <1>5, <1>6, <2>1 DEF Up
  <2> QED
    BY <1>3, <1>5, <2>1, <2>2
<1>7. ~At("session", "resize")'
  BY DEF SendScreenSize, Goto, IInv, TypeOK, At, Idle, Threads
<1> QED
  BY <1>2, <1>6, <1>7 DEF SizeInv, SizeIsStored, ScreenSizeKnown

LEMMA StepTellsSize == IInv /\ SizeInv /\ [Next]_vars => SizeInv'
<1> SUFFICES ASSUME IInv, SizeInv, [Next]_vars PROVE SizeInv'
  OBVIOUS
<1>1. TypeOK
  BY DEF IInv
<1>2. ASSUME UNCHANGED <<clients, screen>>  PROVE SizesKept
  BY <1>2 DEF SizesKept, Up
<1>3. CASE SourceChanges \/ ApplyRequest \/ \E t \in Threads : YieldScreen(t)
  <2>1. PICK t \in Threads : Goto(t, Notifying(owner, owner')) /\ ~At(t, "resize")
    BY <1>3 DEF SourceChanges, ApplyRequest, YieldScreen, Idling, Idle, At, Threads
  <2>2. ResizeKept
    BY <1>1, <2>1, GoingElsewhere DEF Notifying
  <2>3. SizesKept
    BY <1>1, <1>3, SwitchKeepsSizes DEF SourceChanges, ApplyRequest, YieldScreen
  <2> QED
    BY <2>2, <2>3, SizesKeptKeeps
<1>4. CASE PollWake \/ AcceptDeclined \/ UNCHANGED vars
  <2>1. UNCHANGED <<clients, screen, call>>
    BY <1>4 DEF PollWake, AcceptDeclined, vars
  <2>2. ResizeKept
    BY <2>1 DEF ResizeKept, At
  <2> QED
    BY <1>2, <2>1, <2>2, SizesKeptKeeps
<1>5. ASSUME NEW i \in ready, NEW keep \in BOOLEAN, NEW command \in Commands,
             HandleClient(i, keep, command)
      PROVE  SizeInv'
  <2>1. PICK where : Goto("messaging", where) /\ where.at # "resize"
    BY <1>5 DEF HandleClient, Idle, Commands
  <2>2. ResizeKept
    BY <1>1, <1>5, <2>1, GoingElsewhere DEF HandleClient, Idling, Idle, At, Threads
  <2> QED
    BY <1>5, <2>2, ReadKeepsSizes, SizesKeptKeeps
<1>6. ASSUME NEW fd \in ClientFds, NEW pid \in Pids, AcceptClient(fd, pid)
      PROVE  SizeInv'
  BY <1>6, AcceptTellsSize
<1>7. CASE ReportToLate \/ SwitchToPrevious \/ PlaybackStarts \/ \E t \in Threads : ReadActivePid(t)
  <2>0. PICK t \in Threads : \E where : Goto(t, where) /\ where.at # "resize" /\ ~At(t, "resize")
    BY <1>7
       DEF ReportToLate, SwitchToPrevious, PlaybackStarts, ReadActivePid, Notifying, Idling, Idle, At,
           Threads
  <2>1. PICK where : Goto(t, where) /\ where.at # "resize" /\ ~At(t, "resize")
    BY <2>0
  <2>2. UNCHANGED <<clients, screen>>
    BY <1>7 DEF ReportToLate, SwitchToPrevious, PlaybackStarts, ReadActivePid
  <2> QED
    BY <1>1, <1>2, <2>1, <2>2, GoingElsewhere, SizesKeptKeeps
<1>8. ASSUME NEW size \in Sizes, SetScreenSize(size)
      PROVE  SizeInv'
  BY <1>1, <1>8 DEF SetScreenSize, Goto, TypeOK, At, Threads, SizeInv, SizeIsStored, ScreenSizeKnown
<1>9. CASE SendScreenSize
  BY <1>9, BroadcastTellsSize
<1>10. ASSUME NEW t \in Threads, NotifySources(t)
       PROVE  SizeInv'
  <2> DEFINE told == [i \in DOMAIN clients |->
                        [clients[i] EXCEPT !.active = call[t].new # NoPid /\ clients[i].pid = call[t].new]]
  <2>1. \A i \in DOMAIN clients : clients[i] \in Client
    BY <1>1, ClientArray DEF TypeOK
  <2>2. \A i \in DOMAIN clients : told[i].size = clients[i].size
    BY <2>1 DEF Client
  <2>3. Deliver(DOMAIN clients, told) /\ screen' = screen
    BY <1>10 DEF NotifySources
  <2> HIDE DEF told
  <2>4. SizesKept
    BY <1>1, <2>2, <2>3, DeliverKeepsSizes
  <2>5. PICK where : Goto(t, where) /\ where.at # "resize"
    BY <1>10 DEF NotifySources, Idle
  <2>6. ResizeKept
    BY <1>1, <1>10, <2>5, GoingElsewhere DEF NotifySources, At
  <2> QED
    BY <2>4, <2>6, SizesKeptKeeps
<1>11. ASSUME NEW t \in Threads, SendKeyFrameReq(t)
       PROVE  SizeInv'
  <2> DEFINE told == [i \in DOMAIN clients |-> [clients[i] EXCEPT !.due = FALSE]]
  <2>1. \A i \in DOMAIN clients : clients[i] \in Client
    BY <1>1, ClientArray DEF TypeOK
  <2>2. \A i \in DOMAIN clients : told[i].size = clients[i].size
    BY <2>1 DEF Client
  <2>3. Deliver(ActiveOrAll(call[t].pid), told) /\ screen' = screen
    BY <1>11 DEF SendKeyFrameReq
  <2>4. ActiveOrAll(call[t].pid) \subseteq DOMAIN clients
    BY DEF ActiveOrAll
  <2> HIDE DEF told
  <2>5. SizesKept
    BY <1>1, <2>2, <2>3, <2>4, DeliverKeepsSizes
  <2>6. ResizeKept
    BY <1>1, <1>11, GoingElsewhere DEF SendKeyFrameReq, At, Idle
  <2> QED
    BY <2>5, <2>6, SizesKeptKeeps
<1> QED
  BY <1>3, <1>4, <1>5, <1>6, <1>7, <1>8, <1>9, <1>10, <1>11
     DEF Next, ReceiverStep, MessagingStep, SessionStep, CallStep, Threads

(* The size is stored in one critical section and told in another, and a   *)
(* client may be accepted in between, before or after: none is left behind *)
(* what is stored once the broadcast is over.                              *)
THEOREM ScreenSizeReachesAll == Spec => []ScreenSizeKnown
<1>1. Init => SizeInv
  BY EmptySeq DEF Init, SizeInv, SizeIsStored, ScreenSizeKnown, At, Idle, Threads
<1>2. IInv /\ SizeInv /\ [Next]_vars => SizeInv'
  BY StepTellsSize
<1>3. SizeInv => ScreenSizeKnown
  BY DEF SizeInv
<1> QED
  BY <1>1, <1>2, <1>3, Invariance, PTL DEF Spec
=============================================================================
