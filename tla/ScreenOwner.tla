----------------------------- MODULE ScreenOwner -----------------------------
(***************************************************************************)
(* What the video receiver promises to the rest of the accessory: at any   *)
(* time one of the connected processes owns the head unit screen.  How the *)
(* owner is chosen (priorities, slots of an array, a poll loop) is left to *)
(* VideoReceiver, which implements this module; MessagingService is built  *)
(* on it.                                                                  *)
(***************************************************************************)
EXTENDS Naturals, FiniteSets

CONSTANTS
    Fds,    \* descriptors of the video sockets
    Pids,   \* processes that open video streams
    NoPid   \* the pid 0 of the code: nobody is on screen

VARIABLES
    streams,    \* the connected video streams, a set of [fd, pid]
    owner       \* video_receiver_active_pid()

ownerVars == <<streams, owner>>

Stream == [fd : Fds, pid : Pids]

Connected == {s.pid : s \in streams}

Init ==
    /\ streams = {}
    /\ owner = NoPid

(* A process that opens a stream gets the screen. *)
Connect(s) ==
    /\ \A r \in streams : r.fd # s.fd
    /\ streams' = streams \cup {s}
    /\ owner' = s.pid

(* A stream of a process that is not shown may go without a change on      *)
(* screen.  When the owner loses a stream, one of the connected processes  *)
(* (itself, if it has other streams) is shown.                             *)
Disconnect(s) ==
    /\ s \in streams
    /\ streams' = streams \ {s}
    /\ owner' \in IF s.pid # owner THEN {owner}
                  ELSE IF streams' = {} THEN {NoPid}
                  ELSE {r.pid : r \in streams'}

(* REQUEST_ACTIVE: a process without a stream can not be shown. *)
RequestActive(p) ==
    /\ owner' = IF p \in Connected THEN p ELSE owner
    /\ UNCHANGED streams

(* YIELD of p: it leaves the screen if somebody else can be shown, and     *)
(* takes it from nobody.                                                   *)
Yield(p) ==
    /\ owner' \in IF p = owner /\ Connected \ {p} # {} THEN Connected \ {p}
                  ELSE {owner}
    /\ UNCHANGED streams

Next ==
    \/ \E s \in Stream : Connect(s) \/ Disconnect(s)
    \/ \E p \in Pids : RequestActive(p) \/ Yield(p)

Spec == Init /\ [][Next]_ownerVars
=============================================================================
