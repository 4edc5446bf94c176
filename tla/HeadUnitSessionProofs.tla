------------------------ MODULE HeadUnitSessionProofs ------------------------
(***************************************************************************)
(* Theorems about HeadUnitSession, for any number of sources, processes    *)
(* and fingers, and any limits.  A failure of I/O drops the rest of a plan *)
(* at once, so everything rests on which plans there are: the first two    *)
(* sections are about them, the others about one part of HeadUnitInv each.        *)
(***************************************************************************)
EXTENDS HeadUnitSession, TLAPS, SequenceTheorems, FiniteSetTheorems

-----------------------------------------------------------------------------
(* Plans as sequences of calls *)

LEMMA One ==
    ASSUME NEW a
    PROVE  /\ <<a>> # <<>> /\ DOMAIN <<a>> = {1} /\ <<a>>[1] = a
           /\ Head(<<a>>) = a /\ Tail(<<a>>) = <<>>
OBVIOUS

LEMMA Two ==
    ASSUME NEW a, NEW b
    PROVE  /\ <<a, b>> # <<>> /\ DOMAIN <<a, b>> = {1, 2}
           /\ <<a, b>>[1] = a /\ <<a, b>>[2] = b
           /\ Head(<<a, b>>) = a /\ Tail(<<a, b>>) = <<b>>
OBVIOUS

LEMMA ShortTyped ==
    ASSUME NEW S, NEW a \in S, NEW b \in S
    PROVE  <<a>> \in Seq(S) /\ <<a, b>> \in Seq(S)
OBVIOUS

LEMMA Joined ==
    ASSUME NEW S, NEW a \in S, NEW s \in Seq(S)
    PROVE  /\ <<a>> \o s \in Seq(S) /\ <<a>> \o <<>> = <<a>> /\ <<>> \o s = s
           /\ \A b \in S : <<a>> \o <<b>> = <<a, b>>
<1>1. <<a>> \in Seq(S) /\ <<>> \in Seq(S) /\ Len(<<a>>) = 1
  OBVIOUS
<1>2. ASSUME NEW b \in S  PROVE <<a>> \o <<b>> = <<a, b>>
  <2>1. <<b>> \in Seq(S) /\ <<a, b>> \in Seq(S) /\ Len(<<b>>) = 1 /\ Len(<<a, b>>) = 2
    OBVIOUS
  <2>2. /\ <<a>> \o <<b>> \in Seq(S) /\ Len(<<a>> \o <<b>>) = 2
        /\ \A i \in 1..2 : (<<a>> \o <<b>>)[i] = IF i <= 1 THEN <<a>>[i] ELSE <<b>>[i - 1]
    BY <1>1, <2>1, ConcatProperties
  <2>3. \A i \in 1..2 : (<<a>> \o <<b>>)[i] = <<a, b>>[i]
    BY <2>2
  <2> QED
    BY <2>1, <2>2, <2>3, SeqEqual
<1> QED
  BY <1>1, <1>2, ConcatProperties, ConcatEmptySeq

IoCall == {c \in Calls : c.call \in {"read", "write", "set_screen_size", "reject"}}

LEMMA IoSequence ==
    ASSUME NEW s \in Seq(IoCall)
    PROVE  s \in Seq(Calls) /\ IoPlan(s)
<1>1. IoCall \subseteq Calls
  BY DEF IoCall
<1>2. s \in Seq(Calls)
  BY <1>1, SeqMonotonic
<1>3. \A i \in DOMAIN s : s[i] \in IoCall
  BY ElementOfSeq, LenProperties
<1> QED
  BY <1>2, <1>3 DEF IoPlan, IoCall

LEMMA IoRest ==
    ASSUME NEW s \in Seq(Calls), s # <<>>, IoPlan(s)
    PROVE  IoPlan(Tail(s)) /\ Tail(s) \in Seq(Calls)
           /\ Head(s).call \in {"read", "write", "set_screen_size", "reject"}
<1>1. /\ Tail(s) \in Seq(Calls) /\ Len(Tail(s)) = Len(s) - 1
      /\ \A i \in 1..Len(Tail(s)) : Tail(s)[i] = s[i + 1]
  BY HeadTailProperties
<1>2. Len(s) \in Nat /\ DOMAIN s = 1..Len(s) /\ Len(s) # 0 /\ DOMAIN Tail(s) = 1..Len(Tail(s))
  BY <1>1, LenProperties, EmptySeq
<1>3. Head(s) = s[1] /\ 1 \in DOMAIN s
  BY <1>2
<1>4. \A i \in 1..Len(Tail(s)) : i + 1 \in DOMAIN s
  BY <1>1, <1>2
<1> QED
  BY <1>1, <1>2, <1>3, <1>4 DEF IoPlan

(* The calls, typed. *)
LEMMA CallsTyped ==
    /\ {KeyFrameReq, Activate, Deactivate, SwitchToPrevious} \subseteq Calls
    /\ \A a \in Actions : InputEvent(a) \in Calls
    /\ \A p \in Pids \cup {NoPid} : SendKeyFrameReq(p) \in Calls /\ Yield(p) \in Calls
    /\ \A a \in Actions, p \in Pids \cup {NoPid} : SendInputEvent(a, p) \in Calls
BY DEF Calls, KeyFrameReq, Activate, Deactivate, SwitchToPrevious, InputEvent, SendKeyFrameReq,
       Yield, SendInputEvent

LEMMA PlansTyped ==
    ASSUME NEW s,
           KeyFramePlan(s) \/ TouchPlan(s) \/ GesturePlan(s) \/ PlayPlan(s) \/ StopPlan(s)
    PROVE  s \in Seq(Calls)
<1>1. \A a, b \in Calls : <<a>> \in Seq(Calls) /\ <<a, b>> \in Seq(Calls)
  BY ShortTyped
<1>2. CASE KeyFramePlan(s)
  <2>1. PICK a \in Calls : s = <<a>>
    BY <1>2, CallsTyped DEF KeyFramePlan
  <2> QED
    BY <1>1, <2>1
<1>3. CASE TouchPlan(s)
  <2>1. PICK a \in Calls : s = <<a>>
    BY <1>3, CallsTyped DEF TouchPlan
  <2> QED
    BY <1>1, <2>1
<1>4. CASE GesturePlan(s)
  <2>1. "UP" \in Actions
    BY DEF Actions
  <2>2. PICK a, b \in Calls : s = <<a>> \/ s = <<a, b>>
    BY <1>4, <2>1, CallsTyped DEF GesturePlan
  <2> QED
    BY <1>1, <2>2
<1>5. CASE PlayPlan(s) \/ StopPlan(s)
  BY <1>1, <1>5, CallsTyped DEF PlayPlan, StopPlan
<1> QED
  BY <1>2, <1>3, <1>4, <1>5

(* What the next call of a plan is, and what is left after it. *)
LEMMA KeyFramePlanNext ==
    ASSUME NEW s, KeyFramePlan(s)
    PROVE  /\ s # <<>> /\ Tail(s) = <<>> /\ DOMAIN s = {1} /\ s[1] = Head(s)
           /\ \/ Head(s) = KeyFrameReq
              \/ \E p \in Pids \cup {NoPid} : Head(s) = SendKeyFrameReq(p)
BY One DEF KeyFramePlan

LEMMA TouchPlanNext ==
    ASSUME NEW s, TouchPlan(s)
    PROVE  /\ s # <<>> /\ Tail(s) = <<>> /\ DOMAIN s = {1} /\ s[1] = Head(s)
           /\ \E a \in Actions : \/ Head(s) = InputEvent(a)
                                 \/ \E p \in Pids \cup {NoPid} : Head(s) = SendInputEvent(a, p)
BY One DEF TouchPlan

LEMMA GesturePlanNext ==
    ASSUME NEW s, GesturePlan(s)
    PROVE  /\ s # <<>>
           /\ \/ /\ Tail(s) = <<SwitchToPrevious>>
                 /\ DOMAIN s = {1, 2} /\ s[1] = Head(s) /\ s[2] = SwitchToPrevious
                 /\ \/ Head(s) = InputEvent("UP")
                    \/ \E p \in Pids \cup {NoPid} : Head(s) = SendInputEvent("UP", p)
              \/ /\ Tail(s) = <<>> /\ DOMAIN s = {1} /\ s[1] = Head(s)
                 /\ \/ Head(s) = SwitchToPrevious
                    \/ \E p \in Pids \cup {NoPid} : Head(s) = Yield(p)
<1>1. CASE s = <<InputEvent("UP"), SwitchToPrevious>>
  BY <1>1, Two
<1>2. ASSUME NEW p \in Pids \cup {NoPid}, s = <<SendInputEvent("UP", p), SwitchToPrevious>>
      PROVE  /\ s # <<>> /\ Tail(s) = <<SwitchToPrevious>> /\ Head(s) = SendInputEvent("UP", p)
             /\ DOMAIN s = {1, 2} /\ s[1] = Head(s) /\ s[2] = SwitchToPrevious
  BY <1>2, Two
<1>3. CASE s = <<SwitchToPrevious>>
  BY <1>3, One
<1>4. ASSUME NEW p \in Pids \cup {NoPid}, s = <<Yield(p)>>
      PROVE  /\ s # <<>> /\ Tail(s) = <<>> /\ Head(s) = Yield(p)
             /\ DOMAIN s = {1} /\ s[1] = Head(s)
  BY <1>4, One
<1> QED
  BY <1>1, <1>2, <1>3, <1>4 DEF GesturePlan

LEMMA SinkPlanNext ==
    ASSUME NEW s
    PROVE  /\ PlayPlan(s) => s # <<>> /\ Head(s) = Activate /\ Tail(s) = <<KeyFrameReq>>
                             /\ DOMAIN s = {1, 2} /\ s[1] = Activate /\ s[2] = KeyFrameReq
           /\ StopPlan(s) => s # <<>> /\ Head(s) = Deactivate /\ Tail(s) = <<>>
                             /\ DOMAIN s = {1} /\ s[1] = Deactivate
<1>1. ASSUME PlayPlan(s)
      PROVE  s # <<>> /\ Head(s) = Activate /\ Tail(s) = <<KeyFrameReq>>
             /\ DOMAIN s = {1, 2} /\ s[1] = Activate /\ s[2] = KeyFrameReq
  <2>1. s = <<Activate, KeyFrameReq>>
    BY <1>1 DEF PlayPlan
  <2> QED
    BY <2>1, Two
<1>2. ASSUME StopPlan(s)
      PROVE  s # <<>> /\ Head(s) = Deactivate /\ Tail(s) = <<>>
             /\ DOMAIN s = {1} /\ s[1] = Deactivate
  <2>1. s = <<Deactivate>>
    BY <1>2 DEF StopPlan
  <2> QED
    BY <2>1, One
<1> QED
  BY <1>1, <1>2

(* The call that is next tells the plan. *)
LEMMA NextCall ==
    ASSUME NEW s \in Seq(Calls), s # <<>>, KnownPlan(s)
    PROVE  /\ Head(s).call \in {"read", "write", "set_screen_size", "reject"} => IoPlan(s)
           /\ Head(s).call = "activate" => PlayPlan(s)
           /\ Head(s).call = "deactivate" => StopPlan(s)
           /\ Head(s).call = "key_frame_req" =>
                KeyFramePlan(s) /\ Tail(s) = <<>> /\ Head(s) = KeyFrameReq
           /\ Head(s).call = "send_key_frame_req" =>
                KeyFramePlan(s) /\ Tail(s) = <<>>
                /\ \E p \in Pids \cup {NoPid} : Head(s) = SendKeyFrameReq(p)
           /\ Head(s).call = "input" =>
                \E a \in Actions :
                  /\ Head(s) = InputEvent(a)
                  /\ \/ TouchPlan(s) /\ Tail(s) = <<>>
                     \/ GesturePlan(s) /\ a = "UP" /\ Tail(s) = <<SwitchToPrevious>>
           /\ Head(s).call = "send_input" =>
                \E a \in Actions, p \in Pids \cup {NoPid} :
                  /\ Head(s) = SendInputEvent(a, p)
                  /\ \/ TouchPlan(s) /\ Tail(s) = <<>>
                     \/ GesturePlan(s) /\ a = "UP" /\ Tail(s) = <<SwitchToPrevious>>
           /\ Head(s).call = "switch" => GesturePlan(s) /\ Tail(s) = <<>>
           /\ Head(s).call = "yield" =>
                GesturePlan(s) /\ Tail(s) = <<>>
                /\ \E p \in Pids \cup {NoPid} : Head(s) = Yield(p)
<1> USE DEF KeyFrameReq, SendKeyFrameReq, InputEvent, SendInputEvent, SwitchToPrevious, Yield,
            Activate, Deactivate
<1>1. CASE IoPlan(s)
  BY <1>1, IoRest
<1>2. CASE KeyFramePlan(s)
  BY <1>2, KeyFramePlanNext
<1>3. CASE TouchPlan(s)
  BY <1>3, TouchPlanNext
<1>4. CASE GesturePlan(s)
  <2>1. "UP" \in Actions
    BY DEF Actions
  <2> QED
    BY <1>4, <2>1, GesturePlanNext
<1>5. CASE PlayPlan(s)
  BY <1>5, SinkPlanNext
<1>6. CASE StopPlan(s)
  BY <1>6, SinkPlanNext
<1> QED
  BY <1>1, <1>2, <1>3, <1>4, <1>5, <1>6 DEF KnownPlan

-----------------------------------------------------------------------------
(* The plans of the handlers *)

(* The types of the session thread's own variables. *)
SessionTyped ==
    /\ phase \in {"off", "probe", "run"}
    /\ attempts \in 0..ProbeExtraReads /\ protocol_errors \in 0..(MaxProtocolErrors - 1)

(* A result ends the plan, or the session, which then turns the sink off. *)
LEMMA ReturnedEffect ==
    ASSUME TypeOK, NEW ok \in BOOLEAN, Returned(ok)
    PROVE  /\ SessionTyped'
           /\ \/ todo' = [todo EXCEPT !["session"] = <<>>] /\ playing' = playing
              \/ ~ok /\ todo' = [todo EXCEPT !["session"] = <<Deactivate>>] /\ playing' = FALSE
BY LimitsAssumption
   DEF Returned, AttemptFailed, MessageFailed, EndSession, NextMessage, Teardown, TypeOK, SessionTyped,
       sessionVars

LEMMA EndSessionEffect ==
    ASSUME TypeOK, EndSession
    PROVE  /\ SessionTyped'
           /\ todo' = [todo EXCEPT !["session"] = <<Deactivate>>] /\ playing' = FALSE
BY DEF EndSession, Teardown, TypeOK, SessionTyped

LEMMA ContinueEffect ==
    ASSUME TypeOK, NEW t \in Threads, NEW calls, Continue(t, calls)
    PROVE  SessionTyped' /\ todo' = [todo EXCEPT ![t] = calls] /\ playing' = playing
<1>1. CASE t = "session" /\ calls = <<>>
  BY <1>1, ReturnedEffect DEF Continue
<1>2. CASE ~(t = "session" /\ calls = <<>>)
  BY <1>2 DEF Continue, TypeOK, SessionTyped, sessionVars
<1> QED
  BY <1>1, <1>2

(* One thread's plan changes, to one that is known. *)
LEMMA PlanChanges ==
    ASSUME TypeOK, PlansKnown, NEW t \in Threads, NEW calls \in Seq(Calls),
           todo' = [todo EXCEPT ![t] = calls],
           IF t = "session" THEN KnownPlan(calls) ELSE calls = <<>> \/ KeyFramePlan(calls)
    PROVE  /\ DOMAIN todo' = Threads /\ \A u \in Threads : todo'[u] \in Seq(Calls)
           /\ PlansKnown'
           /\ todo'[t] = calls /\ \A u \in Threads \ {t} : todo'[u] = todo[u]
<1>1. /\ DOMAIN todo' = Threads /\ \A u \in Threads : todo'[u] \in Seq(Calls)
      /\ todo'[t] = calls /\ \A u \in Threads \ {t} : todo'[u] = todo[u]
  BY DEF TypeOK
<1>2. PlansKnown'
  <2>1. CASE t = "session"
    BY <1>1, <2>1 DEF PlansKnown, Idle, Threads
  <2>2. CASE t = "other"
    BY <1>1, <2>2 DEF PlansKnown, Idle, Threads
  <2> QED
    BY <2>1, <2>2 DEF Threads
<1> QED
  BY <1>1, <1>2

(* The protocols' calls are the session's. *)
LEMMA ProtocolCalls ==
    /\ \A what \in ReplyNames : /\ V1!Write(what) = Write(what) /\ V2!Write(what) = Write(what)
                            /\ Write(what) \in IoCall
    /\ V1!ReadTail \in IoCall /\ V1!SetScreenSize \in IoCall /\ V2!SetScreenSize \in IoCall
    /\ V1!Reject \in IoCall /\ V2!Reject \in IoCall
    /\ V1!Activate = Activate /\ V2!Activate = Activate /\ V2!Deactivate = Deactivate
    /\ V1!KeyFrameReq = KeyFrameReq /\ V2!KeyFrameReq = KeyFrameReq
    /\ \A a : V1!InputEvent(a) = InputEvent(a) /\ V2!InputEvent(a) = InputEvent(a)
    /\ V2!SwitchToPrevious = SwitchToPrevious
BY DEF V1!Write, V2!Write, Write, V1!ReadTail, V1!SetScreenSize, V2!SetScreenSize, V1!Reject, V2!Reject,
       V1!Activate, V2!Activate, Activate, V2!Deactivate, Deactivate, V1!KeyFrameReq, V2!KeyFrameReq,
       KeyFrameReq, V1!InputEvent, V2!InputEvent, InputEvent, V2!SwitchToPrevious, SwitchToPrevious,
       IoCall, Calls

LEMMA IoShort ==
    ASSUME NEW a \in IoCall
    PROVE  <<a>> \in Seq(IoCall)
OBVIOUS

(* Replies are written, in one message or several. *)
LEMMA Replies ==
    /\ <<>> \in Seq(IoCall)
    /\ \A what \in ReplyNames : <<V1!Write(what)>> \in Seq(IoCall) /\ <<V2!Write(what)>> \in Seq(IoCall)
    /\ <<V1!Reject>> \in Seq(IoCall) /\ <<V2!Reject>> \in Seq(IoCall)
    /\ <<V1!ReadTail>> \in Seq(IoCall) /\ <<V2!SetScreenSize>> \in Seq(IoCall)
    /\ \A s, t \in Seq(IoCall) : s \o t \in Seq(IoCall)
<1>1. ASSUME NEW what \in ReplyNames
      PROVE  <<V1!Write(what)>> \in Seq(IoCall) /\ <<V2!Write(what)>> \in Seq(IoCall)
  <2>1. V1!Write(what) \in IoCall /\ V2!Write(what) \in IoCall
    BY ProtocolCalls
  <2> QED
    BY <2>1, IoShort
<1>2. <<V1!Reject>> \in Seq(IoCall) /\ <<V2!Reject>> \in Seq(IoCall)
  BY ProtocolCalls, IoShort
<1>3. <<V1!ReadTail>> \in Seq(IoCall) /\ <<V2!SetScreenSize>> \in Seq(IoCall)
  BY ProtocolCalls, IoShort
<1>4. \A s, t \in Seq(IoCall) : s \o t \in Seq(IoCall)
  BY ConcatProperties
<1> QED
  BY <1>1, <1>2, <1>3, <1>4

LEMMA ProbePlan ==
    ASSUME NEW m \in FirstMessages
    PROVE  (IF protocol = "V1" THEN V1!Probe(m) ELSE V2!Probe(m)) \in Seq(IoCall)
<1>1. V1!Probe(m) \in Seq(IoCall)
  <2>1. V1!SetScreenSize \in IoCall /\ V1!Write("version") \in IoCall /\ V1!Write("upgrade") \in IoCall
    BY ProtocolCalls DEF ReplyNames
  <2>2. V1!ReplyStartSeq \in Seq(IoCall)
    BY <2>1 DEF V1!ReplyStartSeq
  <2> QED
    BY <2>2, Replies DEF V1!Probe
<1>2. V2!Probe(m) \in Seq(IoCall)
  <2>1. V2!PhoneInfo \in Seq(IoCall) /\ V2!UpdateStatus \in Seq(IoCall)
    BY Replies DEF ReplyNames, V2!PhoneInfo, V2!UpdateStatus
  <2>2. <<V2!SetScreenSize>> \o V2!PhoneInfo \o V2!UpdateStatus \in Seq(IoCall)
    BY <2>1, Replies
  <2> QED
    BY <2>2, Replies DEF V2!Probe
<1> QED
  BY <1>1, <1>2

(* What a message makes a handler do besides I/O is what it wishes. *)
FollowsWish(calls, wish) ==
    \/ calls \in Seq(IoCall) /\ wish = playing
    \/ calls = <<KeyFrameReq>> /\ wish = playing
    \/ calls = <<Activate, KeyFrameReq>> /\ wish = TRUE
    \/ calls = <<Deactivate>> /\ wish = FALSE

LEMMA V1RunPlan ==
    ASSUME protocol = "V1", NEW m \in V1!Messages
    PROVE  FollowsWish(V1!Run(m), Wish(m))
<1> DEFINE cmds == {"LAND_MODE", "MIRROR_SUPPORT", "PLAY_STATUS", "KEY_FRAME_REQ", "HEARTBEAT", "other"}
<1>1. CASE m \in [type : {"cmd"}, cmd : cmds]
  <2>1. /\ V1!ReplyLandMode \in Seq(IoCall) /\ V1!WriteHb \in Seq(IoCall)
        /\ V1!ReplyPhoneReady \o V1!ReplyMirrorSupport \in Seq(IoCall)
    <3>1. /\ V1!ReplyLandMode \in Seq(IoCall) /\ V1!WriteHb \in Seq(IoCall)
          /\ V1!ReplyPhoneReady \in Seq(IoCall) /\ V1!ReplyMirrorSupport \in Seq(IoCall)
      BY Replies DEF ReplyNames, V1!ReplyLandMode, V1!WriteHb, V1!ReplyPhoneReady, V1!ReplyMirrorSupport, V1!SendAppMsg
    <3> QED
      BY <3>1, Replies
  <2>2. m.type = "cmd" /\ m.cmd \in cmds /\ V1!Run(m) = V1!HandleCmd[m.cmd]
    BY <1>1 DEF V1!Run
  <2>3. Wish(m) = IF m.cmd = "PLAY_STATUS" THEN TRUE ELSE playing
    BY <2>2 DEF Wish
  <2>4. /\ V1!Activate = Activate /\ V1!KeyFrameReq = KeyFrameReq
    BY ProtocolCalls
  <2>5. CASE m.cmd = "PLAY_STATUS"
    <3>1. V1!HandleCmd[m.cmd] = <<Activate, KeyFrameReq>>
      BY <2>4, <2>5 DEF V1!HandleCmd
    <3> QED
      BY <2>2, <2>3, <2>5, <3>1 DEF FollowsWish
  <2>6. CASE m.cmd = "KEY_FRAME_REQ"
    <3>1. V1!HandleCmd[m.cmd] = <<KeyFrameReq>>
      BY <2>4, <2>6 DEF V1!HandleCmd
    <3> QED
      BY <2>2, <2>3, <2>6, <3>1 DEF FollowsWish
  <2>7. CASE m.cmd \in {"LAND_MODE", "MIRROR_SUPPORT", "HEARTBEAT", "other"}
    <3>1. V1!HandleCmd[m.cmd] \in Seq(IoCall)
      <4>1. /\ V1!HandleCmd["LAND_MODE"] = V1!ReplyLandMode
            /\ V1!HandleCmd["MIRROR_SUPPORT"] = V1!ReplyPhoneReady \o V1!ReplyMirrorSupport
            /\ V1!HandleCmd["HEARTBEAT"] = V1!WriteHb /\ V1!HandleCmd["other"] = <<>>
        BY DEF V1!HandleCmd
      <4> QED
        BY <2>1, <2>7, <4>1, Replies
    <3> QED
      BY <2>2, <2>3, <2>7, <3>1 DEF FollowsWish
  <2> QED
    BY <2>2, <2>5, <2>6, <2>7
<1>2. CASE m \in [type : {"hu"}, size : V1!Sizes, logic_id : V1!LogicIds]
  <2>1. m.type = "hu" /\ m.logic_id \in V1!LogicIds /\ V1!Run(m) = V1!HandleAppMsg(m.size, m.logic_id)
    BY <1>2 DEF V1!Run
  <2>2. /\ V1!ReplyPhoneInitOk \o V1!ReplyNeedUpgrade \in Seq(IoCall)
        /\ V1!ReplyBtAutoConnected \in Seq(IoCall)
    <3>1. /\ V1!ReplyPhoneInitOk \in Seq(IoCall) /\ V1!ReplyNeedUpgrade \in Seq(IoCall)
          /\ V1!ReplyBtAutoConnected \in Seq(IoCall)
      BY Replies DEF ReplyNames, V1!ReplyPhoneInitOk, V1!ReplyNeedUpgrade, V1!ReplyBtAutoConnected, V1!SendAppMsg
    <3> QED
      BY <3>1, Replies
  <2> DEFINE answer == [HUINFO |-> V1!ReplyPhoneInitOk \o V1!ReplyNeedUpgrade,
                        BT_AUTO_CONNECTED |-> V1!ReplyBtAutoConnected,
                        undecodable |-> <<>>, other |-> <<>>]
  <2>3. answer[m.logic_id] \in Seq(IoCall)
    <3>1. /\ answer["HUINFO"] = V1!ReplyPhoneInitOk \o V1!ReplyNeedUpgrade
          /\ answer["BT_AUTO_CONNECTED"] = V1!ReplyBtAutoConnected
          /\ answer["undecodable"] = <<>> /\ answer["other"] = <<>>
      OBVIOUS
    <3> HIDE DEF answer
    <3> QED
      BY <2>1, <2>2, <3>1, Replies DEF V1!LogicIds
  <2>4. V1!HandleAppMsg(m.size, m.logic_id) \in Seq(IoCall)
    BY <2>3, Replies DEF V1!HandleAppMsg
  <2> QED
    BY <2>1, <2>4 DEF FollowsWish, Wish
<1>3. CASE m \in [type : {"screen"}, action : {18, 1}]
  <2>1. m.type = "screen" /\ V1!Run(m) = V1!HandleScreen(m.action)
    BY <1>3 DEF V1!Run
  <2> QED
    BY <2>1, Replies DEF ReplyNames, V1!HandleScreen, FollowsWish, Wish
<1>4. CASE m \in [type : {"speech"}, size : V1!Sizes]
  <2>1. m.type = "speech" /\ m.size \in {"chunk", "long", "huge"} /\ V1!Run(m) = V1!HandleSpeech(m.size)
    BY <1>4 DEF V1!Run, V1!Sizes
  <2>2. V1!HandleSpeech(m.size) \in Seq(IoCall)
    <3>1. /\ V1!HandleSpeech("chunk") = <<>> /\ V1!HandleSpeech("long") = <<V1!ReadTail>>
          /\ V1!HandleSpeech("huge") = <<V1!Reject>>
      BY DEF V1!HandleSpeech
    <3> QED
      BY <2>1, <3>1, Replies
  <2> QED
    BY <2>1, <2>2 DEF FollowsWish, Wish
<1>5. CASE m \in [type : {"version", "bad_mark", "other"}]
  <2>1. m.type \in {"version", "bad_mark", "other"}
    BY <1>5
  <2>2. V1!Run(m) = (IF m.type = "bad_mark" THEN <<V1!Reject>> ELSE <<>>)
    BY <2>1 DEF V1!Run
  <2> QED
    BY <2>1, <2>2, Replies DEF FollowsWish, Wish
<1> QED
  BY <1>1, <1>2, <1>3, <1>4, <1>5 DEF V1!Messages, V1!HandleCmd

LEMMA V2RunPlan ==
    ASSUME protocol # "V1", NEW m \in V2!Messages
    PROVE  FollowsWish(V2!Run(m), Wish(m))
<1>1. CASE m \in [source : {"CAR"}, format : {"JSON"}, json : V2!JsonMessages]
  <2>1. /\ m.source = "CAR" /\ m.format = "JSON" /\ m.json \in V2!JsonMessages
        /\ V2!Run(m) = V2!HandleJson(m.json)
    BY <1>1 DEF V2!Run
  <2>2. Wish(m) = IF m.json.cmd = "DISCONNECT_REQ" THEN FALSE
                  ELSE IF m.json.cmd = "VIDEO_CTRL" /\ m.json.parameters # "broken"
                  THEN m.json.parameters = "play"
                  ELSE playing
    BY <2>1 DEF Wish
  <2>3. CASE m.json \in [cmd : {"VIDEO_SUP_REQ"}, parameters : V2!Formats]
    <3>1. m.json.cmd = "VIDEO_SUP_REQ" /\ V2!Run(m) = V2!AnswerVideoSupportType(m.json.parameters)
      BY <2>1, <2>3 DEF V2!HandleJson
    <3>2. V2!Run(m) \in Seq(IoCall)
      BY <3>1, Replies DEF V2!AnswerVideoSupportType, V2!VideoSupportRsp, ReplyNames
    <3> QED
      BY <2>2, <3>1, <3>2 DEF FollowsWish
  <2>4. CASE m.json \in [cmd : {"VIDEO_CTRL"}, parameters : V2!PlayStatuses]
    <3>1. /\ m.json.cmd = "VIDEO_CTRL" /\ m.json.parameters \in {"play", "stop", "broken"}
          /\ V2!Run(m) = V2!HandleVideoCtrl[m.json.parameters]
      BY <2>1, <2>4 DEF V2!HandleJson, V2!PlayStatuses
    <3>2. /\ V2!HandleVideoCtrl["play"] = <<Activate, KeyFrameReq>>
          /\ V2!HandleVideoCtrl["stop"] = <<Deactivate>> /\ V2!HandleVideoCtrl["broken"] = <<>>
      BY ProtocolCalls DEF V2!HandleVideoCtrl
    <3> QED
      BY <2>2, <3>1, <3>2, Replies DEF FollowsWish
  <2>5. CASE m.json \in [cmd : {"CAR_INFO"}, parameters : {"size", "broken"}]
    <3>1. m.json.cmd = "CAR_INFO" /\ V2!Run(m) = <<>>
      BY <2>1, <2>5 DEF V2!HandleJson
    <3> QED
      BY <2>2, <3>1, Replies DEF FollowsWish
  <2>6. CASE m.json \in [cmd : {"HEARTBEAT", "KEY_FRAME_REQ", "VIDEO_ARGS", "DISCONNECT_REQ",
                                "other", "broken"},
                         parameters : {"none"}]
    <3>1. m.json.cmd \in {"HEARTBEAT", "KEY_FRAME_REQ", "VIDEO_ARGS", "DISCONNECT_REQ",
                          "other", "broken"}
      BY <2>6
    <3>2. V2!Run(m) = IF m.json.cmd = "KEY_FRAME_REQ" THEN <<KeyFrameReq>>
                      ELSE IF m.json.cmd = "DISCONNECT_REQ" THEN <<Deactivate>> ELSE <<>>
      BY <2>1, <3>1, ProtocolCalls DEF V2!HandleJson
    <3> QED
      BY <2>2, <3>1, <3>2, Replies DEF FollowsWish
  <2> QED
    BY <2>1, <2>3, <2>4, <2>5, <2>6 DEF V2!JsonMessages
<1>2. CASE \/ m \in [source : {"CAR"}, format : {"BIN"}]
           \/ m \in [source : {"PHONE", "CAR"}, format : {"other"}]
           \/ m \in [source : {"CAR"}, format : {"broken"}]
  <2>1. m.format \in {"BIN", "other", "broken"}
    BY <1>2
  <2>2. V2!Run(m) = IF m.format = "broken" THEN <<V2!Reject>> ELSE <<>>
    BY <2>1 DEF V2!Run
  <2>3. Wish(m) = playing
    BY <2>1 DEF Wish
  <2> QED
    BY <2>2, <2>3, Replies DEF FollowsWish
<1> QED
  BY <1>1, <1>2 DEF V2!Messages

LEMMA MessagePlan ==
    ASSUME NEW m \in RunMessages
    PROVE  FollowsWish(IF protocol = "V1" THEN V1!Run(m) ELSE V2!Run(m), Wish(m))
BY V1RunPlan, V2RunPlan DEF RunMessages

(* The session thread begins a plan, and what the head unit wants is noted. *)
Wished(calls) ==
    /\ calls \in Seq(Calls)
    /\ \/ IoPlan(calls) /\ playing' = playing
       \/ KeyFramePlan(calls) /\ playing' = playing
       \/ PlayPlan(calls) /\ playing' = TRUE
       \/ StopPlan(calls) /\ playing' = FALSE

LEMMA WishNoted ==
    ASSUME NEW calls, NEW wish, FollowsWish(calls, wish), playing' = wish
    PROVE  Wished(calls)
<1>1. ASSUME calls \in Seq(IoCall), wish = playing  PROVE Wished(calls)
  BY <1>1, IoSequence DEF Wished
<1>2. ASSUME calls = <<KeyFrameReq>>, wish = playing  PROVE Wished(calls)
  BY <1>2, PlansTyped DEF Wished, KeyFramePlan
<1>3. ASSUME calls = <<Activate, KeyFrameReq>>, wish = TRUE  PROVE Wished(calls)
  <2>1. PlayPlan(calls) /\ calls \in Seq(Calls)
    BY <1>3, PlansTyped DEF PlayPlan
  <2>2. playing' = TRUE
    BY <1>3, Zenon
  <2> QED
    BY <2>1, <2>2, Zenon DEF Wished
<1>4. ASSUME calls = <<Deactivate>>, wish = FALSE  PROVE Wished(calls)
  <2>1. StopPlan(calls) /\ calls \in Seq(Calls)
    BY <1>4, PlansTyped DEF StopPlan
  <2>2. playing' = FALSE
    BY <1>4, Zenon
  <2> QED
    BY <2>1, <2>2, Zenon DEF Wished
<1> QED
  BY <1>1, <1>2, <1>3, <1>4, Zenon DEF FollowsWish

LEMMA MessageWished ==
    ASSUME NEW m \in RunMessages, playing' = Wish(m)
    PROVE  Wished(IF protocol = "V1" THEN V1!Run(m) ELSE V2!Run(m))
BY MessagePlan, WishNoted, Zenon

-----------------------------------------------------------------------------
(* What keeps a part of the invariant *)

NoInput(s) == s = <<>> \/ Head(s).call \notin {"input", "send_input"}

LEMMA PlansWithoutInput ==
    ASSUME NEW s \in Seq(Calls), IoPlan(s) \/ KeyFramePlan(s) \/ PlayPlan(s) \/ StopPlan(s)
    PROVE  NoInput(s) /\ ~GesturePlan(s)
<1>1. CASE s = <<>>
  BY <1>1, GesturePlanNext DEF NoInput
<1>2. CASE s # <<>>
  <2>1. Head(s).call \in {"read", "write", "set_screen_size", "reject", "key_frame_req",
                          "send_key_frame_req", "activate", "deactivate"}
    BY <1>2, IoRest, KeyFramePlanNext, SinkPlanNext
       DEF KeyFrameReq, SendKeyFrameReq, Activate, Deactivate
  <2>2. GesturePlan(s) => Head(s).call \in {"input", "send_input", "switch", "yield"}
    BY GesturePlanNext DEF InputEvent, SendInputEvent, SwitchToPrevious, Yield
  <2> QED
    BY <2>1, <2>2 DEF NoInput
<1> QED
  BY <1>1, <1>2

(* A release is only lost, or elsewhere, while a disturbance is remembered. *)
LEMMA NoteEffect ==
    ASSUME TypeOK, NEW d \in BOOLEAN, Note(d)
    PROVE  /\ disturbed' \in BOOLEAN
           /\ disturbed' \/ (~disturbed /\ ~d) \/ (touched' = {} /\ todo'["session"] = <<>>)
BY DEF Note

LEMMA CleanKeepsRelease ==
    ASSUME touched' = {}, todo'["session"] = <<>>
    PROVE  ReleaseWillFollow'
BY DEF ReleaseWillFollow, Sends

LEMMA QuietKeepsRelease ==
    ASSUME TypeOK, ReleaseWillFollow, NEW d \in BOOLEAN, Note(d),
           UNCHANGED <<touched, owner, clients, gesture_fired, glass>>,
           \/ NoInput(todo["session"]) /\ NoInput(todo'["session"])
           \/ todo'["session"] = todo["session"]
    PROVE  ReleaseWillFollow'
<1>1. CASE disturbed'
  BY <1>1 DEF ReleaseWillFollow
<1>2. CASE touched' = {} /\ todo'["session"] = <<>>
  BY <1>2, CleanKeepsRelease
<1>3. CASE ~disturbed
  <2>1. touched \subseteq ActiveOrAll(owner) /\ ActiveOrAll(owner) = ActiveOrAll(owner)'
    BY <1>3 DEF ReleaseWillFollow, ActiveOrAll
  <2>2. CASE todo'["session"] = todo["session"]
    BY <1>3, <2>1, <2>2 DEF ReleaseWillFollow, Sends
  <2>3. CASE NoInput(todo["session"]) /\ NoInput(todo'["session"])
    <3>1. \A a : ~Sends(todo["session"], a) /\ ~Sends(todo'["session"], a)
      BY <2>3 DEF Sends, NoInput
    <3>2. \A a \in Actions, p \in Pids \cup {NoPid} :
            todo'["session"] # <<>> => Head(todo'["session"]) # SendInputEvent(a, p)
      BY <2>3 DEF NoInput, SendInputEvent
    <3> QED
      BY <1>3, <2>1, <3>1, <3>2 DEF ReleaseWillFollow
  <2> QED
    BY <2>2, <2>3
<1> QED
  BY <1>1, <1>2, <1>3, NoteEffect

Asks(s, pid) == \E i \in DOMAIN s : s[i] \in {KeyFrameReq, SendKeyFrameReq(pid)}

(* Nobody forgets to ask while a key frame is due. *)
LEMMA AskingKept ==
    ASSUME AskWillFollow, due' => due, owner' = owner,
           \A t \in Threads : Asks(todo[t], owner) => Asks(todo'[t], owner)
    PROVE  AskWillFollow'
BY DEF AskWillFollow, KeyFrameAfterPlay, WillAsk, Asks

LEMMA PlansThatAsk ==
    ASSUME NEW s, NEW pid
    PROVE  /\ IoPlan(s) \/ StopPlan(s) \/ TouchPlan(s) \/ GesturePlan(s) => ~Asks(s, pid)
           /\ PlayPlan(s) => Asks(s, pid)
           /\ ~Asks(<<>>, pid) /\ Asks(<<KeyFrameReq>>, pid) /\ Asks(<<SendKeyFrameReq(pid)>>, pid)
<1> USE DEF KeyFrameReq, SendKeyFrameReq
<1>1. IoPlan(s) => ~Asks(s, pid)
  BY DEF IoPlan, Asks
<1>2. StopPlan(s) => ~Asks(s, pid)
  BY SinkPlanNext DEF Asks, Deactivate
<1>3. TouchPlan(s) => ~Asks(s, pid)
  BY TouchPlanNext DEF Asks, InputEvent, SendInputEvent
<1>4. GesturePlan(s) => ~Asks(s, pid)
  BY GesturePlanNext DEF Asks, InputEvent, SendInputEvent, SwitchToPrevious, Yield
<1>5. PlayPlan(s) => Asks(s, pid)
  BY SinkPlanNext DEF Asks
<1>6. ~Asks(<<>>, pid) /\ Asks(<<KeyFrameReq>>, pid) /\ Asks(<<SendKeyFrameReq(pid)>>, pid)
  BY One DEF Asks
<1> QED
  BY <1>1, <1>2, <1>3, <1>4, <1>5, <1>6

LEMMA SinkPlansApart ==
    ASSUME NEW s
    PROVE  /\ PlayPlan(s) => ~StopPlan(s)
           /\ s = <<>> \/ IoPlan(s) \/ KeyFramePlan(s) \/ TouchPlan(s) \/ GesturePlan(s)
                => ~PlayPlan(s) /\ ~StopPlan(s)
<1> USE DEF Activate, Deactivate, KeyFrameReq, SendKeyFrameReq, InputEvent, SendInputEvent,
            SwitchToPrevious, Yield
<1>1. PlayPlan(s) \/ StopPlan(s) =>
        /\ s # <<>> /\ 1 \in DOMAIN s /\ s[1] = Head(s)
        /\ Head(s).call \in {"activate", "deactivate"}
  BY SinkPlanNext
<1>2. PlayPlan(s) => ~StopPlan(s)
  BY SinkPlanNext
<1>3. IoPlan(s) => ~PlayPlan(s) /\ ~StopPlan(s)
  BY <1>1 DEF IoPlan
<1>4. KeyFramePlan(s) => ~PlayPlan(s) /\ ~StopPlan(s)
  BY <1>1, KeyFramePlanNext
<1>5. TouchPlan(s) => ~PlayPlan(s) /\ ~StopPlan(s)
  BY <1>1, TouchPlanNext
<1>6. GesturePlan(s) => ~PlayPlan(s) /\ ~StopPlan(s)
  BY <1>1, GesturePlanNext
<1> QED
  BY <1>1, <1>2, <1>3, <1>4, <1>5, <1>6

LEMMA EmptyPlan == /\ <<>> \in Seq(Calls) /\ IoPlan(<<>>) /\ KnownPlan(<<>>) /\ NoInput(<<>>)
                   /\ ~GesturePlan(<<>>)
<1>1. IoPlan(<<>>)
  BY DEF IoPlan
<1>2. ~GesturePlan(<<>>)
  BY GesturePlanNext
<1> QED
  BY <1>1, <1>2 DEF KnownPlan, NoInput

-----------------------------------------------------------------------------
(* Beginning and abandoning a plan *)

(* A plan of I/O, or none, is given up, as nothing depends on the rest of  *)
(* it, and the session thread begins what a message wishes.                *)
LEMMA BeginningPreserves ==
    ASSUME HeadUnitInv, IoPlan(todo["session"]), NEW calls, Wished(calls),
           todo' = [todo EXCEPT !["session"] = calls], SessionTyped', Note(FALSE),
           UNCHANGED <<screenVars, sink_active, clients, protocol, gestureVars, touched, due>>
    PROVE  HeadUnitInv'
<1>1. /\ calls \in Seq(Calls)
      /\ \/ IoPlan(calls) /\ playing' = playing
         \/ KeyFramePlan(calls) /\ playing' = playing
         \/ PlayPlan(calls) /\ playing' = TRUE
         \/ StopPlan(calls) /\ playing' = FALSE
  BY DEF Wished
<1> USE DEF HeadUnitInv
<1>2. /\ DOMAIN todo' = Threads /\ \A u \in Threads : todo'[u] \in Seq(Calls)
      /\ PlansKnown'
      /\ todo'["session"] = calls /\ todo'["other"] = todo["other"]
  BY <1>1, PlanChanges DEF Threads, KnownPlan
<1>3. NoInput(todo["session"])
  BY PlansWithoutInput DEF TypeOK, Threads
<1>4. NoInput(calls) /\ ~GesturePlan(calls)
  BY <1>1, PlansWithoutInput
<1>5. disturbed' \in BOOLEAN
  BY NoteEffect
<1>6. TypeOK'
  BY <1>1, <1>2, <1>5 DEF TypeOK, HistoryTyped, SessionTyped, screenVars, gestureVars
<1>7. SinkWillFollow'
  <2>1. sink_active = playing
    BY SinkPlansApart DEF SinkWillFollow
  <2> QED
    BY <1>1, <1>2, <2>1, SinkPlansApart DEF SinkWillFollow
<1>8. DueFromClient' /\ AskWillFollow'
  <2>1. ~Asks(todo["session"], owner)
    BY PlansThatAsk
  <2>2. \A t \in Threads : Asks(todo[t], owner) => Asks(todo'[t], owner)
    BY <1>2, <2>1 DEF Threads
  <2>3. AskWillFollow'
    BY <2>2, AskingKept DEF screenVars
  <2> QED
    BY <2>3 DEF DueFromClient, screenVars
<1>9. ReleaseWillFollow'
  BY <1>2, <1>3, <1>4, QuietKeepsRelease DEF screenVars, gestureVars
<1>10. FlagFollowsGesture'
  BY <1>2, <1>4 DEF FlagFollowsGesture, gestureVars
<1> QED
  BY <1>2, <1>6, <1>7, <1>8, <1>9, <1>10

LEMMA MessageEffect ==
    ASSUME TypeOK, \/ \E m \in FirstMessages : ProbeMessage(m)
                   \/ \E m \in RunMessages : Message(m)
    PROVE  \E calls : Wished(calls) /\ SessionTyped' /\ todo' = [todo EXCEPT !["session"] = calls]
<1>1. ASSUME NEW m \in FirstMessages, ProbeMessage(m)
      PROVE  \E calls : Wished(calls) /\ SessionTyped' /\ todo' = [todo EXCEPT !["session"] = calls]
  <2> DEFINE calls == IF protocol = "V1" THEN V1!Probe(m) ELSE V2!Probe(m)
  <2>1. /\ SessionTyped' /\ todo' = [todo EXCEPT !["session"] = calls] /\ playing' = playing
    BY <1>1, ContinueEffect DEF ProbeMessage, Threads
  <2>2. Wished(calls)
    BY <2>1, ProbePlan, IoSequence DEF Wished
  <2> HIDE DEF calls
  <2> QED
    BY <2>1, <2>2
<1>2. ASSUME NEW m \in RunMessages, Message(m)
      PROVE  \E calls : Wished(calls) /\ SessionTyped' /\ todo' = [todo EXCEPT !["session"] = calls]
  <2> DEFINE calls == IF protocol = "V1" THEN V1!Run(m) ELSE V2!Run(m)
  <2>1. CASE calls = <<>>
    <3>1. SessionTyped' /\ todo' = [todo EXCEPT !["session"] = calls] /\ playing' = playing
      BY <1>2, <2>1, ContinueEffect DEF Message, Threads
    <3>2. Wished(calls)
      BY <2>1, <3>1, EmptyPlan DEF Wished
    <3> HIDE DEF calls
    <3> QED
      BY <3>1, <3>2
  <2>2. CASE calls # <<>>
    <3>1. todo' = [todo EXCEPT !["session"] = calls] /\ playing' = Wish(m) /\ UNCHANGED sessionVars
      BY <1>2, <2>2 DEF Message
    <3>2. SessionTyped' /\ Wished(calls)
      BY <3>1, MessageWished DEF SessionTyped, TypeOK, sessionVars
    <3> HIDE DEF calls
    <3> QED
      BY <3>1, <3>2
  <2> QED
    BY <2>1, <2>2
<1> QED
  BY <1>1, <1>2

LEMMA MessagesPreserve ==
    ASSUME HeadUnitInv, \/ \E m \in FirstMessages : ProbeMessage(m)
                 \/ \E m \in RunMessages : Message(m)
    PROVE  HeadUnitInv'
<1>1. PICK calls : Wished(calls) /\ SessionTyped' /\ todo' = [todo EXCEPT !["session"] = calls]
  BY MessageEffect DEF HeadUnitInv
<1>2. /\ IoPlan(todo["session"]) /\ Note(FALSE)
      /\ UNCHANGED <<screenVars, sink_active, clients, protocol, gestureVars, touched, due>>
  BY EmptyPlan DEF ProbeMessage, Message, Idle
<1> QED
  BY <1>1, <1>2, BeginningPreserves

LEMMA FailuresPreserve ==
    ASSUME HeadUnitInv, Rejects \/ IoFails \/ LinkLost
    PROVE  HeadUnitInv'
<1>1. TypeOK /\ KnownPlan(todo["session"]) /\ todo["session"] \in Seq(Calls)
  BY DEF HeadUnitInv, TypeOK, PlansKnown, Threads
<1>2. IoPlan(todo["session"])
  <2>1. CASE Rejects
    BY <1>1, <2>1, NextCall DEF Rejects, Calling
  <2>2. CASE IoFails
    BY <1>1, <2>2, NextCall DEF IoFails, Calling
  <2>3. CASE LinkLost
    BY <2>3, EmptyPlan DEF LinkLost, Idle
  <2> QED
    BY <2>1, <2>2, <2>3
<1>3. Returned(FALSE) \/ EndSession
  BY DEF Rejects, IoFails, LinkLost
<1>4. /\ SessionTyped'
      /\ \/ todo' = [todo EXCEPT !["session"] = <<>>] /\ playing' = playing
         \/ todo' = [todo EXCEPT !["session"] = <<Deactivate>>] /\ playing' = FALSE
  BY <1>1, <1>3, ReturnedEffect, EndSessionEffect
<1>5. /\ UNCHANGED <<screenVars, sink_active, clients, protocol, gestureVars, touched, due>>
      /\ Note(FALSE)
  BY DEF Rejects, IoFails, LinkLost
<1>6. ASSUME playing' = playing  PROVE Wished(<<>>)
  BY <1>6, EmptyPlan DEF Wished
<1>7. ASSUME playing' = FALSE  PROVE Wished(<<Deactivate>>)
  BY <1>7, PlansTyped DEF Wished, StopPlan
<1> QED
  BY <1>2, <1>4, <1>5, <1>6, <1>7, BeginningPreserves

-----------------------------------------------------------------------------
(* The calls of a plan *)

(* Plans that leave the sink alone *)
SteadyPlan(s) == s = <<>> \/ IoPlan(s) \/ KeyFramePlan(s) \/ TouchPlan(s) \/ GesturePlan(s)

LEMMA CallersPlan ==
    ASSUME TypeOK, PlansKnown, NEW t \in Threads, todo[t] # <<>>
    PROVE  /\ todo[t] \in Seq(Calls) /\ KnownPlan(todo[t])
           /\ Head(todo[t]).call \notin {"key_frame_req", "send_key_frame_req"} => t = "session"
<1>1. todo[t] \in Seq(Calls)
  BY DEF TypeOK
<1>2. CASE t = "session"
  BY <1>1, <1>2 DEF PlansKnown
<1>3. CASE t # "session"
  <2>1. KeyFramePlan(todo[t])
    BY <1>3 DEF PlansKnown, Threads, Idle
  <2>2. Head(todo[t]).call \in {"key_frame_req", "send_key_frame_req"}
    BY <2>1, KeyFramePlanNext DEF KeyFrameReq, SendKeyFrameReq
  <2> QED
    BY <1>1, <2>1, <2>2 DEF KnownPlan
<1> QED
  BY <1>2, <1>3

(* A step from one plan of a thread to another keeps what is not about the *)
(* sink, the key frame or the release.                                     *)
LEMMA GoesOn ==
    ASSUME HeadUnitInv, NEW t \in Threads, NEW calls \in Seq(Calls), Continue(t, calls),
           IF t = "session"
           THEN KnownPlan(calls) /\ (GesturePlan(calls) => GesturePlan(todo["session"]))
           ELSE calls = <<>> \/ KeyFramePlan(calls),
           Note(FALSE), UNCHANGED <<clients, protocol, gestureVars>>,
           streams' \subseteq Screen!Stream, owner' \in Pids \cup {NoPid},
           touched' \subseteq clients, sink_active' \in BOOLEAN, due' \in BOOLEAN
    PROVE  /\ TypeOK' /\ PlansKnown' /\ FlagFollowsGesture' /\ playing' = playing
           /\ todo'[t] = calls /\ \A u \in Threads \ {t} : todo'[u] = todo[u]
<1> USE DEF HeadUnitInv
<1>1. SessionTyped' /\ todo' = [todo EXCEPT ![t] = calls] /\ playing' = playing
  BY ContinueEffect
<1>2. /\ DOMAIN todo' = Threads /\ \A u \in Threads : todo'[u] \in Seq(Calls)
      /\ PlansKnown'
      /\ todo'[t] = calls /\ \A u \in Threads \ {t} : todo'[u] = todo[u]
  BY <1>1, PlanChanges
<1>3. disturbed' \in BOOLEAN
  BY NoteEffect
<1>4. TypeOK'
  BY <1>1, <1>2, <1>3 DEF TypeOK, HistoryTyped, SessionTyped, gestureVars
<1>5. GesturePlan(todo'["session"]) => GesturePlan(todo["session"])
  BY <1>2 DEF Threads
<1>6. FlagFollowsGesture'
  BY <1>5 DEF FlagFollowsGesture, gestureVars
<1> QED
  BY <1>1, <1>2, <1>4, <1>6

LEMMA SteadyKeepsSink ==
    ASSUME SinkWillFollow, sink_active' = sink_active, playing' = playing,
           \/ SteadyPlan(todo["session"]) /\ SteadyPlan(todo'["session"])
           \/ todo'["session"] = todo["session"]
    PROVE  SinkWillFollow'
<1>1. CASE todo'["session"] = todo["session"]
  BY <1>1 DEF SinkWillFollow
<1>2. CASE SteadyPlan(todo["session"]) /\ SteadyPlan(todo'["session"])
  BY <1>2, SinkPlansApart DEF SinkWillFollow, SteadyPlan
<1> QED
  BY <1>1, <1>2

LEMMA SteadyIsKnown ==
    ASSUME NEW s, SteadyPlan(s)
    PROVE  KnownPlan(s)
BY EmptyPlan DEF SteadyPlan, KnownPlan

(* Only a release that is not disturbed has to be followed. *)
LEMMA ReleaseIfQuiet ==
    ASSUME TypeOK, NEW d \in BOOLEAN, Note(d), ~disturbed /\ ~d /\ ~disturbed' => ReleaseWillFollow'
    PROVE  ReleaseWillFollow'
<1>1. CASE disturbed'
  BY <1>1 DEF ReleaseWillFollow
<1>2. CASE touched' = {} /\ todo'["session"] = <<>>
  BY <1>2, CleanKeepsRelease
<1> QED
  BY <1>1, <1>2, NoteEffect

LEMMA CallReturnsPreserves ==
    ASSUME HeadUnitInv, NEW t \in Threads, CallReturns(t)
    PROVE  HeadUnitInv'
<1>1. TypeOK /\ PlansKnown /\ todo[t] # <<>>
      /\ Head(todo[t]).call \in {"set_screen_size", "read", "write"}
  BY DEF HeadUnitInv, CallReturns, Calling
<1>2. t = "session" /\ todo[t] \in Seq(Calls) /\ IoPlan(todo[t])
  BY <1>1, CallersPlan, NextCall
<1>3. IoPlan(Rest(t)) /\ Rest(t) \in Seq(Calls)
  BY <1>1, <1>2, IoRest DEF Rest
<1>4. SessionTyped' /\ todo' = [todo EXCEPT ![t] = Rest(t)] /\ playing' = playing
  BY <1>1, ContinueEffect DEF CallReturns
<1>5. Wished(Rest(t))
  BY <1>3, <1>4 DEF Wished
<1> HIDE DEF Rest
<1> QED
  BY <1>2, <1>4, <1>5, BeginningPreserves DEF CallReturns

LEMMA ReadsPidForKeyFrame ==
    ASSUME HeadUnitInv, NEW t \in Threads, ReadActivePid(t), Calling(t, "key_frame_req")
    PROVE  HeadUnitInv'
<1> DEFINE calls == <<SendKeyFrameReq(owner)>>
<1>1. /\ TypeOK /\ PlansKnown /\ todo[t] # <<>> /\ Head(todo[t]).call = "key_frame_req"
      /\ owner \in Pids \cup {NoPid}
  BY DEF HeadUnitInv, TypeOK, Calling
<1>2. todo[t] \in Seq(Calls) /\ KeyFramePlan(todo[t]) /\ Tail(todo[t]) = <<>>
  BY <1>1, CallersPlan, NextCall
<1>3. /\ KeyFramePlan(calls) /\ calls \in Seq(Calls) /\ Asks(calls, owner)
      /\ <<SendKeyFrameReq(owner)>> \o <<>> = calls
  <2>1. KeyFramePlan(calls)
    BY <1>1 DEF KeyFramePlan
  <2>2. SendKeyFrameReq(owner) \in Calls
    BY <1>1, CallsTyped
  <2> QED
    BY <2>1, <2>2, PlansTyped, PlansThatAsk, Joined, EmptyPlan
<1>4. Continue(t, calls)
  BY <1>1, <1>2, <1>3 DEF ReadActivePid, Calling, Rest
<1>5. /\ UNCHANGED <<screenVars, sink_active, clients, protocol, gestureVars, touched, due>>
      /\ Note(FALSE)
  BY DEF ReadActivePid
<1> HIDE DEF calls
<1>6. NoInput(calls) /\ ~GesturePlan(calls) /\ NoInput(todo[t]) /\ ~GesturePlan(todo[t])
  BY <1>2, <1>3, PlansWithoutInput
<1>7. /\ TypeOK' /\ PlansKnown' /\ FlagFollowsGesture' /\ playing' = playing
      /\ todo'[t] = calls /\ \A u \in Threads \ {t} : todo'[u] = todo[u]
  <2>1. KnownPlan(calls)
    BY <1>3 DEF KnownPlan
  <2>2. /\ streams' \subseteq Screen!Stream /\ owner' \in Pids \cup {NoPid} /\ touched' \subseteq clients
        /\ sink_active' \in BOOLEAN /\ due' \in BOOLEAN
    BY <1>1, <1>5 DEF TypeOK, HistoryTyped, screenVars
  <2> QED
    BY <1>3, <1>4, <1>5, <1>6, <2>1, <2>2, GoesOn
<1>8. SinkWillFollow'
  BY <1>2, <1>3, <1>5, <1>7, SteadyKeepsSink DEF SteadyPlan, HeadUnitInv, Threads
<1>9. DueFromClient' /\ AskWillFollow'
  <2>1. \A u \in Threads : Asks(todo[u], owner) => Asks(todo'[u], owner)
    BY <1>3, <1>7
  <2> QED
    BY <1>5, <2>1, AskingKept DEF DueFromClient, screenVars, HeadUnitInv
<1>10. ReleaseWillFollow'
  BY <1>5, <1>6, <1>7, QuietKeepsRelease DEF HeadUnitInv, screenVars, gestureVars, Threads
<1> QED
  BY <1>7, <1>8, <1>9, <1>10 DEF HeadUnitInv

LEMMA TouchIsNoGesture ==
    ASSUME NEW s, TouchPlan(s)
    PROVE  ~GesturePlan(s)
BY TouchPlanNext, GesturePlanNext, One
   DEF InputEvent, SendInputEvent, SwitchToPrevious, Yield

(* The plan of an input event, once the pid is read: the same touch or     *)
(* gesture.                                                                *)
LEMMA InputPlanGoesOn ==
    ASSUME NEW s \in Seq(Calls), s # <<>>, KnownPlan(s), Head(s).call = "input",
           NEW p \in Pids \cup {NoPid}, NEW calls, calls = <<SendInputEvent(Head(s).action, p)>> \o Tail(s)
    PROVE  /\ calls \in Seq(Calls) /\ SteadyPlan(s) /\ SteadyPlan(calls)
           /\ GesturePlan(calls) => GesturePlan(s)
           /\ calls # <<>> /\ Head(calls) = SendInputEvent(Head(s).action, p)
           /\ Head(s).action \in Actions
<1>1. PICK a \in Actions :
        /\ Head(s) = InputEvent(a)
        /\ \/ TouchPlan(s) /\ Tail(s) = <<>>
           \/ GesturePlan(s) /\ a = "UP" /\ Tail(s) = <<SwitchToPrevious>>
  BY NextCall
<1>2. Head(s).action = a /\ SendInputEvent(a, p) \in Calls /\ SwitchToPrevious \in Calls
  BY <1>1, CallsTyped DEF InputEvent
<1>3. CASE TouchPlan(s) /\ Tail(s) = <<>>
  <2>1. calls = <<SendInputEvent(a, p)>>
    BY <1>2, <1>3, Joined, EmptyPlan
  <2>2. TouchPlan(calls)
    BY <2>1 DEF TouchPlan
  <2> QED
    BY <1>2, <1>3, <2>1, <2>2, PlansTyped, TouchIsNoGesture, One DEF SteadyPlan
<1>4. CASE GesturePlan(s) /\ a = "UP" /\ Tail(s) = <<SwitchToPrevious>>
  <2>1. calls = <<SendInputEvent("UP", p), SwitchToPrevious>>
    <3>1. \A b \in Calls : <<SendInputEvent(a, p)>> \o <<b>> = <<SendInputEvent(a, p), b>>
      BY <1>2, Joined, EmptyPlan
    <3>2. calls = <<SendInputEvent("UP", p)>> \o <<SwitchToPrevious>>
      BY <1>2, <1>4
    <3> QED
      BY <1>2, <1>4, <3>1, <3>2
  <2>2. GesturePlan(calls)
    BY <2>1 DEF GesturePlan
  <2> QED
    BY <1>2, <1>4, <2>1, <2>2, PlansTyped, Two DEF SteadyPlan
<1> QED
  BY <1>1, <1>3, <1>4

LEMMA ReadsPidForInput ==
    ASSUME HeadUnitInv, NEW t \in Threads, ReadActivePid(t), Calling(t, "input")
    PROVE  HeadUnitInv'
<1> DEFINE a == Head(todo[t]).action
           calls == <<SendInputEvent(a, owner)>> \o Tail(todo[t])
<1>1. /\ TypeOK /\ PlansKnown /\ todo[t] # <<>> /\ Head(todo[t]).call = "input"
      /\ owner \in Pids \cup {NoPid}
  BY DEF HeadUnitInv, TypeOK, Calling
<1>2. t = "session" /\ todo[t] \in Seq(Calls) /\ KnownPlan(todo[t])
  BY <1>1, CallersPlan
<1>3. /\ calls \in Seq(Calls) /\ SteadyPlan(todo[t]) /\ SteadyPlan(calls)
      /\ GesturePlan(calls) => GesturePlan(todo[t])
      /\ calls # <<>> /\ Head(calls) = SendInputEvent(a, owner) /\ a \in Actions
  BY <1>1, <1>2, InputPlanGoesOn
<1>4. Continue(t, calls)
  BY <1>1 DEF ReadActivePid, Calling, Rest
<1>5. /\ UNCHANGED <<screenVars, sink_active, clients, protocol, gestureVars, touched, due>>
      /\ Note(FALSE)
  BY DEF ReadActivePid
<1> HIDE DEF calls
<1>6. KnownPlan(calls)
  BY <1>3, SteadyIsKnown
<1>7. /\ TypeOK' /\ PlansKnown' /\ FlagFollowsGesture' /\ playing' = playing
      /\ todo'[t] = calls /\ \A u \in Threads \ {t} : todo'[u] = todo[u]
  <2>1. /\ streams' \subseteq Screen!Stream /\ owner' \in Pids \cup {NoPid} /\ touched' \subseteq clients
        /\ sink_active' \in BOOLEAN /\ due' \in BOOLEAN
    BY <1>1, <1>5 DEF TypeOK, HistoryTyped, screenVars
  <2> QED
    BY <1>2, <1>3, <1>4, <1>5, <1>6, <2>1, GoesOn
<1>8. SinkWillFollow'
  BY <1>2, <1>3, <1>5, <1>7, SteadyKeepsSink DEF HeadUnitInv
<1>9. DueFromClient' /\ AskWillFollow'
  <2>1. ~Asks(todo[t], owner)
    <3>1. TouchPlan(todo[t]) \/ GesturePlan(todo[t])
      BY <1>1, <1>2, NextCall
    <3> QED
      BY <3>1, PlansThatAsk
  <2>2. \A u \in Threads : Asks(todo[u], owner) => Asks(todo'[u], owner)
    BY <1>7, <2>1
  <2> QED
    BY <1>5, <2>2, AskingKept DEF DueFromClient, screenVars, HeadUnitInv
<1>10. ReleaseWillFollow'
  <2>1. SUFFICES ASSUME ~disturbed, ~disturbed'  PROVE ReleaseWillFollow'
    BY <1>1, <1>5, ReleaseIfQuiet
  <2>2. touched' \subseteq ActiveOrAll(owner)'
    BY <1>5, <2>1 DEF HeadUnitInv, ReleaseWillFollow, ActiveOrAll, screenVars
  <2>3. \A b \in Actions, p \in Pids \cup {NoPid} :
          Head(todo'["session"]) = SendInputEvent(b, p) => p = owner'
    BY <1>2, <1>3, <1>5, <1>7 DEF SendInputEvent, screenVars
  <2>4. Sends(todo["session"], a)
    BY <1>1, <1>2 DEF Sends
  <2>5. gesture_fired \/ glass = {} => Sends(todo["session"], "UP")
    BY <1>3, <2>1, <2>4 DEF HeadUnitInv, ReleaseWillFollow
  <2>6. Sends(todo["session"], "UP") => Sends(todo'["session"], "UP")
    BY <1>2, <1>3, <1>7 DEF Sends, SendInputEvent
  <2> QED
    BY <1>5, <2>2, <2>3, <2>5, <2>6 DEF ReleaseWillFollow, gestureVars
<1> QED
  BY <1>7, <1>8, <1>9, <1>10 DEF HeadUnitInv

LEMMA ReadsPidForSwitch ==
    ASSUME HeadUnitInv, NEW t \in Threads, ReadActivePid(t), Calling(t, "switch")
    PROVE  HeadUnitInv'
<1> DEFINE calls == IF owner = NoPid THEN <<>> ELSE <<Yield(owner)>>
<1>1. /\ TypeOK /\ PlansKnown /\ todo[t] # <<>> /\ Head(todo[t]).call = "switch"
      /\ owner \in Pids \cup {NoPid}
  BY DEF HeadUnitInv, TypeOK, Calling
<1>2. t = "session" /\ todo[t] \in Seq(Calls) /\ GesturePlan(todo[t]) /\ Tail(todo[t]) = <<>>
  BY <1>1, CallersPlan, NextCall
<1>3. /\ calls \in Seq(Calls) /\ SteadyPlan(calls) /\ NoInput(calls)
  <2>1. CASE calls = <<>>
    BY <2>1, EmptyPlan DEF SteadyPlan
  <2>2. CASE calls = <<Yield(owner)>>
    <3>1. GesturePlan(calls)
      BY <1>1, <2>2 DEF GesturePlan
    <3> QED
      BY <2>2, <3>1, PlansTyped, One DEF SteadyPlan, NoInput, Yield
  <2> QED
    BY <2>1, <2>2
<1>4. Continue(t, calls)
  <2>1. Yield(owner) \in Calls
    BY <1>1, CallsTyped
  <2>2. <<Yield(owner)>> \o <<>> = <<Yield(owner)>>
    BY <2>1, Joined, EmptyPlan
  <2> QED
    BY <1>1, <1>2, <2>2 DEF ReadActivePid, Calling, Rest
<1>5. /\ UNCHANGED <<screenVars, sink_active, clients, protocol, gestureVars, touched, due>>
      /\ Note(FALSE)
  BY DEF ReadActivePid
<1> HIDE DEF calls
<1>6. KnownPlan(calls) /\ SteadyPlan(todo[t]) /\ NoInput(todo[t])
  BY <1>1, <1>2, <1>3, SteadyIsKnown DEF SteadyPlan, NoInput
<1>7. /\ TypeOK' /\ PlansKnown' /\ FlagFollowsGesture' /\ playing' = playing
      /\ todo'[t] = calls /\ \A u \in Threads \ {t} : todo'[u] = todo[u]
  <2>1. /\ streams' \subseteq Screen!Stream /\ owner' \in Pids \cup {NoPid} /\ touched' \subseteq clients
        /\ sink_active' \in BOOLEAN /\ due' \in BOOLEAN
    BY <1>1, <1>5 DEF TypeOK, HistoryTyped, screenVars
  <2> QED
    BY <1>2, <1>3, <1>4, <1>5, <1>6, <2>1, GoesOn
<1>8. SinkWillFollow'
  BY <1>2, <1>3, <1>5, <1>6, <1>7, SteadyKeepsSink DEF HeadUnitInv
<1>9. DueFromClient' /\ AskWillFollow'
  <2>1. \A u \in Threads : Asks(todo[u], owner) => Asks(todo'[u], owner)
    BY <1>2, <1>7, PlansThatAsk
  <2> QED
    BY <1>5, <2>1, AskingKept DEF DueFromClient, screenVars, HeadUnitInv
<1>10. ReleaseWillFollow'
  BY <1>2, <1>3, <1>5, <1>6, <1>7, QuietKeepsRelease DEF HeadUnitInv, screenVars, gestureVars
<1> QED
  BY <1>7, <1>8, <1>9, <1>10 DEF HeadUnitInv

LEMMA ReadActivePidPreserves ==
    ASSUME HeadUnitInv, NEW t \in Threads, ReadActivePid(t)
    PROVE  HeadUnitInv'
BY ReadsPidForKeyFrame, ReadsPidForInput, ReadsPidForSwitch DEF ReadActivePid

(* Whoever has the screen is the only one that is asked. *)
LEMMA SendsKeyFrameReqPreserves ==
    ASSUME HeadUnitInv, NEW t \in Threads, SendsKeyFrameReq(t)
    PROVE  HeadUnitInv'
<1>1. /\ TypeOK /\ PlansKnown /\ todo[t] # <<>> /\ Head(todo[t]).call = "send_key_frame_req"
  BY DEF HeadUnitInv, SendsKeyFrameReq, Calling
<1>2. PICK p \in Pids \cup {NoPid} :
        /\ todo[t] \in Seq(Calls) /\ KeyFramePlan(todo[t]) /\ Tail(todo[t]) = <<>>
        /\ Head(todo[t]) = SendKeyFrameReq(p)
  BY <1>1, CallersPlan, NextCall
<1>3. Head(todo[t]).pid = p
  BY <1>2 DEF SendKeyFrameReq
<1>4. Continue(t, <<>>)
  BY <1>2 DEF SendsKeyFrameReq, Rest
<1>5. /\ UNCHANGED <<screenVars, sink_active, clients, protocol, gestureVars, touched>>
      /\ Note(FALSE) /\ due' = (due /\ owner \notin ActiveOrAll(p))
  BY <1>3 DEF SendsKeyFrameReq
<1>6. /\ NoInput(todo[t]) /\ ~GesturePlan(todo[t]) /\ <<>> \in Seq(Calls) /\ KnownPlan(<<>>)
      /\ NoInput(<<>>) /\ ~GesturePlan(<<>>)
  BY <1>2, PlansWithoutInput, EmptyPlan
<1>7. /\ TypeOK' /\ PlansKnown' /\ FlagFollowsGesture' /\ playing' = playing
      /\ todo'[t] = <<>> /\ \A u \in Threads \ {t} : todo'[u] = todo[u]
  <2>1. /\ streams' \subseteq Screen!Stream /\ owner' \in Pids \cup {NoPid} /\ touched' \subseteq clients
        /\ sink_active' \in BOOLEAN /\ due' \in BOOLEAN
    BY <1>1, <1>5 DEF TypeOK, HistoryTyped, screenVars
  <2> QED
    BY <1>4, <1>5, <1>6, <2>1, GoesOn
<1>8. SinkWillFollow'
  BY <1>2, <1>5, <1>7, SteadyKeepsSink DEF SteadyPlan, HeadUnitInv, Threads
<1>9. DueFromClient' /\ AskWillFollow'
  <2>1. CASE due'
    <3>1. due /\ owner \in clients /\ owner \notin ActiveOrAll(p)
      BY <1>5, <2>1 DEF DueFromClient, HeadUnitInv
    <3>2. p # owner
      BY <3>1 DEF ActiveOrAll
    <3>3. ~Asks(todo[t], owner)
      BY <1>2, <3>2, KeyFramePlanNext DEF Asks, SendKeyFrameReq, KeyFrameReq
    <3>4. \A u \in Threads : Asks(todo[u], owner) => Asks(todo'[u], owner)
      BY <1>7, <3>3
    <3> QED
      BY <1>5, <3>1, <3>4, AskingKept DEF DueFromClient, screenVars, HeadUnitInv
  <2>2. CASE ~due'
    BY <2>2 DEF DueFromClient, AskWillFollow, KeyFrameAfterPlay
  <2> QED
    BY <2>1, <2>2
<1>10. ReleaseWillFollow'
  BY <1>5, <1>6, <1>7, QuietKeepsRelease DEF HeadUnitInv, screenVars, gestureVars, Threads
<1> QED
  BY <1>7, <1>8, <1>9, <1>10 DEF HeadUnitInv

(* The event goes where the touch is, as long as nothing disturbs it. *)
LEMMA SendsInputEventPreserves ==
    ASSUME HeadUnitInv, NEW t \in Threads, SendsInputEvent(t)
    PROVE  HeadUnitInv'
<1> DEFINE calls == Tail(todo[t])
<1>1. /\ TypeOK /\ PlansKnown /\ todo[t] # <<>> /\ Head(todo[t]).call = "send_input"
  BY DEF HeadUnitInv, SendsInputEvent, Calling
<1>2. t = "session" /\ todo[t] \in Seq(Calls) /\ KnownPlan(todo[t])
  BY <1>1, CallersPlan
<1>3. PICK a \in Actions, p \in Pids \cup {NoPid} :
        /\ Head(todo[t]) = SendInputEvent(a, p)
        /\ \/ TouchPlan(todo[t]) /\ calls = <<>>
           \/ GesturePlan(todo[t]) /\ a = "UP" /\ calls = <<SwitchToPrevious>>
  BY <1>1, <1>2, NextCall
<1>4. /\ calls \in Seq(Calls) /\ SteadyPlan(todo[t]) /\ SteadyPlan(calls) /\ NoInput(calls)
      /\ GesturePlan(calls) => GesturePlan(todo[t])
  <2>1. CASE calls = <<>>
    BY <1>3, <2>1, EmptyPlan DEF SteadyPlan
  <2>2. CASE GesturePlan(todo[t]) /\ calls = <<SwitchToPrevious>>
    <3>1. GesturePlan(calls)
      BY <2>2 DEF GesturePlan
    <3>2. calls \in Seq(Calls)
      BY <3>1, PlansTyped
    <3>3. NoInput(<<SwitchToPrevious>>)
      BY One DEF NoInput, SwitchToPrevious
    <3> QED
      BY <2>2, <3>1, <3>2, <3>3 DEF SteadyPlan
  <2> QED
    BY <1>3, <2>1, <2>2
<1>5. Continue(t, calls)
  BY DEF SendsInputEvent, Rest
<1>6. /\ UNCHANGED <<screenVars, sink_active, clients, protocol, gestureVars, due>>
      /\ Note(FALSE)
      /\ touched' = IF a = "UP" THEN touched \ ActiveOrAll(p) ELSE touched \cup ActiveOrAll(p)
  <2>1. Head(todo[t]).action = a /\ Head(todo[t]).pid = p
    BY <1>3 DEF SendInputEvent
  <2> QED
    BY <2>1 DEF SendsInputEvent
<1> HIDE DEF calls
<1>7. /\ TypeOK' /\ PlansKnown' /\ FlagFollowsGesture' /\ playing' = playing
      /\ todo'[t] = calls /\ \A u \in Threads \ {t} : todo'[u] = todo[u]
  <2>1. KnownPlan(calls)
    BY <1>4, SteadyIsKnown
  <2>2. /\ streams' \subseteq Screen!Stream /\ owner' \in Pids \cup {NoPid}
        /\ sink_active' \in BOOLEAN /\ due' \in BOOLEAN
    BY <1>1, <1>6 DEF TypeOK, HistoryTyped, screenVars
  <2>3. touched' \subseteq clients
    BY <1>1, <1>6 DEF TypeOK, ActiveOrAll
  <2> QED
    BY <1>2, <1>4, <1>5, <1>6, <2>1, <2>2, <2>3, GoesOn
<1>8. SinkWillFollow'
  BY <1>2, <1>4, <1>6, <1>7, SteadyKeepsSink DEF HeadUnitInv
<1>9. DueFromClient' /\ AskWillFollow'
  <2>1. \A u \in Threads : Asks(todo[u], owner) => Asks(todo'[u], owner)
    BY <1>3, <1>7, PlansThatAsk
  <2> QED
    BY <1>6, <2>1, AskingKept DEF DueFromClient, screenVars, HeadUnitInv
<1>10. ReleaseWillFollow'
  <2>1. SUFFICES ASSUME ~disturbed, ~disturbed'  PROVE ReleaseWillFollow'
    BY <1>1, <1>6, ReleaseIfQuiet
  <2>2. touched \subseteq ActiveOrAll(owner) /\ p = owner
    BY <1>1, <1>2, <1>3, <2>1 DEF HeadUnitInv, ReleaseWillFollow
  <2>3. touched' \subseteq ActiveOrAll(owner)' /\ (a = "UP" => touched' = {})
    BY <1>6, <2>2 DEF ActiveOrAll, screenVars
  <2>4. /\ \A b : ~Sends(todo'["session"], b)
        /\ \A b \in Actions, q \in Pids \cup {NoPid} :
             todo'["session"] # <<>> => Head(todo'["session"]) # SendInputEvent(b, q)
    BY <1>2, <1>4, <1>7 DEF Sends, NoInput, SendInputEvent
  <2>5. gesture_fired \/ glass = {} => a = "UP"
    BY <1>1, <1>2, <1>3, <2>1 DEF HeadUnitInv, ReleaseWillFollow, Sends, SendInputEvent
  <2> QED
    BY <1>6, <2>3, <2>4, <2>5 DEF ReleaseWillFollow, gestureVars
<1> QED
  BY <1>7, <1>8, <1>9, <1>10 DEF HeadUnitInv

LEMMA ScreenTyped ==
    ASSUME TypeOK,
           \/ \E s \in Screen!Stream : Screen!Connect(s) \/ Screen!Disconnect(s)
           \/ \E p \in Pids \cup {NoPid} : Screen!RequestActive(p) \/ Screen!Yield(p)
    PROVE  streams' \subseteq Screen!Stream /\ owner' \in Pids \cup {NoPid}
<1>1. /\ streams \subseteq Screen!Stream /\ owner \in Pids \cup {NoPid}
      /\ Screen!Connected \subseteq Pids /\ \A s \in Screen!Stream : s.pid \in Pids
  BY DEF TypeOK, Screen!Connected, Screen!Stream
<1>2. ASSUME NEW s \in Screen!Stream, Screen!Connect(s)
      PROVE  streams' \subseteq Screen!Stream /\ owner' \in Pids \cup {NoPid}
  BY <1>1, <1>2 DEF Screen!Connect
<1>3. ASSUME NEW s \in Screen!Stream, Screen!Disconnect(s)
      PROVE  streams' \subseteq Screen!Stream /\ owner' \in Pids \cup {NoPid}
  BY <1>1, <1>3 DEF Screen!Disconnect
<1>4. ASSUME NEW p \in Pids \cup {NoPid}, Screen!RequestActive(p) \/ Screen!Yield(p)
      PROVE  streams' \subseteq Screen!Stream /\ owner' \in Pids \cup {NoPid}
  BY <1>1, <1>4 DEF Screen!RequestActive, Screen!Yield
<1> QED
  BY <1>2, <1>3, <1>4

LEMMA NoteSwitchTyped ==
    ASSUME TypeOK, NoteSwitch
    PROVE  due' \in BOOLEAN
<1>1. CASE owner' = owner
  BY <1>1 DEF NoteSwitch, TypeOK, HistoryTyped
<1>2. CASE owner' # owner
  BY <1>2 DEF NoteSwitch
<1> QED
  BY <1>1, <1>2

(* A new owner with a client is asked by whoever reports it. *)
LEMMA ReportAsks ==
    ASSUME TypeOK, AskWillFollow, DueFromClient,
           NEW t \in Threads, todo'[t] = Report(owner'), \A u \in Threads \ {t} : todo'[u] = todo[u],
           ~Asks(todo[t], owner), NoteSwitch, clients' = clients
    PROVE  DueFromClient' /\ AskWillFollow'
<1>1. CASE owner' = owner
  <2>1. due' = due
    BY <1>1 DEF NoteSwitch
  <2>2. \A u \in Threads : Asks(todo[u], owner) => Asks(todo'[u], owner)
    OBVIOUS
  <2> QED
    BY <1>1, <2>1, <2>2, AskingKept DEF DueFromClient
<1>2. CASE owner' # owner
  <2>1. due' = (owner' \in clients')
    BY <1>2 DEF NoteSwitch
  <2>2. CASE due'
    <3>1. SUFFICES ASSUME NoPid \notin Pids  PROVE WillAsk(t)'
      BY <2>1, <2>2 DEF DueFromClient, AskWillFollow, KeyFrameAfterPlay
    <3>2. owner' \in Pids
      BY <2>1, <2>2 DEF TypeOK
    <3>3. todo'[t] = <<KeyFrameReq>>
      BY <1>2, <3>1, <3>2 DEF Report
    <3> QED
      BY <3>3, One DEF WillAsk
  <2>3. CASE ~due'
    BY <2>3 DEF DueFromClient, AskWillFollow, KeyFrameAfterPlay
  <2> QED
    BY <2>2, <2>3
<1> QED
  BY <1>1, <1>2

LEMMA ReportPlan ==
    ASSUME NEW new
    PROVE  /\ Report(new) \in Seq(Calls) /\ (Report(new) = <<>> \/ KeyFramePlan(Report(new)))
           /\ Report(new) \o <<>> = Report(new)
           /\ SteadyPlan(Report(new)) /\ NoInput(Report(new)) /\ ~GesturePlan(Report(new))
<1>1. CASE Report(new) = <<>>
  BY <1>1, EmptyPlan, ConcatEmptySeq DEF SteadyPlan
<1>2. CASE Report(new) = <<KeyFrameReq>>
  <2>1. KeyFramePlan(Report(new))
    BY <1>2 DEF KeyFramePlan
  <2> QED
    BY <2>1, PlansTyped, PlansWithoutInput, ConcatEmptySeq DEF SteadyPlan
<1> QED
  BY <1>1, <1>2 DEF Report

(* The gesture has released the touch before it gives the screen away. *)
LEMMA YieldsScreenPreserves ==
    ASSUME HeadUnitInv, NEW t \in Threads, YieldsScreen(t)
    PROVE  HeadUnitInv'
<1> DEFINE calls == Report(owner')
<1>1. /\ TypeOK /\ PlansKnown /\ todo[t] # <<>> /\ Head(todo[t]).call = "yield"
  BY DEF HeadUnitInv, YieldsScreen, Calling
<1>2. PICK p \in Pids \cup {NoPid} :
        /\ t = "session" /\ todo[t] \in Seq(Calls) /\ GesturePlan(todo[t]) /\ Tail(todo[t]) = <<>>
        /\ Head(todo[t]) = Yield(p)
  BY <1>1, CallersPlan, NextCall
<1>3. /\ calls \in Seq(Calls) /\ SteadyPlan(calls) /\ KnownPlan(calls) /\ NoInput(calls)
      /\ ~GesturePlan(calls) /\ calls \o <<>> = calls
  BY ReportPlan, SteadyIsKnown
<1>4. Continue(t, calls)
  BY <1>2, <1>3 DEF YieldsScreen, Rest
<1>5. /\ UNCHANGED <<clients, sink_active, protocol, gestureVars, touched>>
      /\ Note(FALSE) /\ NoteSwitch
  BY DEF YieldsScreen
<1>6. streams' \subseteq Screen!Stream /\ owner' \in Pids \cup {NoPid}
  <2>1. Screen!Yield(p)
    BY <1>2 DEF YieldsScreen, Yield
  <2> QED
    BY <1>1, <2>1, ScreenTyped
<1> HIDE DEF calls
<1>7. /\ TypeOK' /\ PlansKnown' /\ FlagFollowsGesture' /\ playing' = playing
      /\ todo'[t] = calls /\ \A u \in Threads \ {t} : todo'[u] = todo[u]
  <2>1. touched' \subseteq clients /\ sink_active' \in BOOLEAN
    BY <1>1, <1>5 DEF TypeOK
  <2>2. due' \in BOOLEAN
    BY <1>1, <1>5, NoteSwitchTyped
  <2> QED
    BY <1>2, <1>3, <1>4, <1>5, <1>6, <2>1, <2>2, GoesOn
<1>8. SinkWillFollow'
  BY <1>2, <1>3, <1>5, <1>7, SteadyKeepsSink DEF HeadUnitInv, SteadyPlan
<1>9. DueFromClient' /\ AskWillFollow'
  <2>1. ~Asks(todo[t], owner)
    BY <1>2, PlansThatAsk
  <2> QED
    BY <1>1, <1>5, <1>7, <2>1, ReportAsks DEF HeadUnitInv, calls
<1>10. ReleaseWillFollow'
  <2>1. SUFFICES ASSUME ~disturbed, ~disturbed'  PROVE ReleaseWillFollow'
    BY <1>1, <1>5, ReleaseIfQuiet
  <2>2. touched = {}
    <3>1. gesture_fired
      BY <1>2 DEF HeadUnitInv, FlagFollowsGesture
    <3>2. ~Sends(todo["session"], "UP")
      BY <1>1, <1>2 DEF Sends
    <3> QED
      BY <2>1, <3>1, <3>2 DEF HeadUnitInv, ReleaseWillFollow
  <2>3. /\ \A b : ~Sends(todo'["session"], b)
        /\ \A b \in Actions, q \in Pids \cup {NoPid} :
             todo'["session"] # <<>> => Head(todo'["session"]) # SendInputEvent(b, q)
    BY <1>2, <1>3, <1>7 DEF Sends, NoInput, SendInputEvent
  <2>4. touched' = {}
    BY <1>5, <2>2
  <2> QED
    BY <2>3, <2>4 DEF ReleaseWillFollow
<1> QED
  BY <1>7, <1>8, <1>9, <1>10 DEF HeadUnitInv

LEMMA SetSinkPreserves ==
    ASSUME HeadUnitInv, NEW t \in Threads, SetSink(t)
    PROVE  HeadUnitInv'
<1> DEFINE calls == Tail(todo[t])
<1>1. PICK call \in {"activate", "deactivate"} :
        /\ todo[t] # <<>> /\ Head(todo[t]).call = call /\ sink_active' = (call = "activate")
  BY DEF SetSink, Calling
<1>2. TypeOK /\ PlansKnown /\ sink_active' \in BOOLEAN
  BY <1>1 DEF HeadUnitInv
<1>3. /\ t = "session" /\ todo[t] \in Seq(Calls)
      /\ \/ PlayPlan(todo[t]) /\ sink_active' = TRUE
         \/ StopPlan(todo[t]) /\ sink_active' = FALSE
  BY <1>1, <1>2, CallersPlan, NextCall
<1>4. \/ PlayPlan(todo[t]) /\ sink_active' = TRUE /\ calls = <<KeyFrameReq>>
      \/ StopPlan(todo[t]) /\ sink_active' = FALSE /\ calls = <<>>
  BY <1>3, SinkPlanNext
<1>5. Continue(t, calls)
  BY DEF SetSink, Rest
<1>6. /\ UNCHANGED <<screenVars, clients, protocol, gestureVars, touched>>
      /\ Note(FALSE) /\ due' = (due \/ (sink_active' /\ owner \in clients))
  BY DEF SetSink
<1> HIDE DEF calls
<1>7. /\ calls \in Seq(Calls) /\ SteadyPlan(calls) /\ KnownPlan(calls) /\ NoInput(calls)
      /\ ~GesturePlan(calls) /\ NoInput(todo[t])
  <2>1. NoInput(todo[t])
    BY <1>3, PlansWithoutInput
  <2>2. CASE calls = <<>>
    BY <2>1, <2>2, EmptyPlan DEF SteadyPlan
  <2>3. CASE calls = <<KeyFrameReq>>
    <3>1. KeyFramePlan(calls)
      BY <2>3 DEF KeyFramePlan
    <3>2. calls \in Seq(Calls) /\ NoInput(calls) /\ ~GesturePlan(calls)
      BY <3>1, PlansTyped, PlansWithoutInput
    <3> QED
      BY <2>1, <3>1, <3>2 DEF SteadyPlan, KnownPlan
  <2> QED
    BY <1>4, <2>2, <2>3
<1>8. /\ TypeOK' /\ PlansKnown' /\ FlagFollowsGesture' /\ playing' = playing
      /\ todo'[t] = calls /\ \A u \in Threads \ {t} : todo'[u] = todo[u]
  <2>1. /\ streams' \subseteq Screen!Stream /\ owner' \in Pids \cup {NoPid} /\ touched' \subseteq clients
        /\ due' \in BOOLEAN
    BY <1>2, <1>6 DEF TypeOK, HistoryTyped, screenVars
  <2> QED
    BY <1>2, <1>3, <1>5, <1>6, <1>7, <2>1, GoesOn
<1>9. SinkWillFollow'
  <2>1. ~PlayPlan(todo'["session"]) /\ ~StopPlan(todo'["session"])
    BY <1>3, <1>7, <1>8, SinkPlansApart DEF SteadyPlan
  <2>2. CASE PlayPlan(todo[t]) /\ sink_active' = TRUE
    BY <1>3, <1>8, <2>1, <2>2 DEF HeadUnitInv, SinkWillFollow
  <2>3. CASE StopPlan(todo[t]) /\ sink_active' = FALSE
    <3>1. ~PlayPlan(todo["session"])
      BY <1>3, <2>3, SinkPlansApart
    <3>2. ~playing
      BY <1>3, <2>3, <3>1 DEF HeadUnitInv, SinkWillFollow
    <3>3. playing \in BOOLEAN
      BY <1>2 DEF TypeOK, HistoryTyped
    <3> QED
      BY <1>8, <2>1, <2>3, <3>2, <3>3 DEF SinkWillFollow
  <2> QED
    BY <1>4, <2>2, <2>3
<1>10. DueFromClient' /\ AskWillFollow'
  <2>1. CASE calls = <<KeyFrameReq>>
    <3>1. WillAsk(t)'
      BY <1>8, <2>1, One DEF WillAsk
    <3> QED
      BY <1>6, <3>1 DEF DueFromClient, AskWillFollow, KeyFrameAfterPlay, HeadUnitInv, screenVars
  <2>2. CASE StopPlan(todo[t]) /\ sink_active' = FALSE
    <3>1. \A u \in Threads : Asks(todo[u], owner) => Asks(todo'[u], owner)
      BY <1>8, <2>2, PlansThatAsk
    <3> QED
      BY <1>6, <2>2, <3>1, AskingKept DEF DueFromClient, screenVars, HeadUnitInv
  <2> QED
    BY <1>4, <2>1, <2>2
<1>11. ReleaseWillFollow'
  BY <1>2, <1>3, <1>6, <1>7, <1>8, QuietKeepsRelease DEF HeadUnitInv, screenVars, gestureVars
<1> QED
  BY <1>8, <1>9, <1>10, <1>11 DEF HeadUnitInv

LEMMA CallStepPreserves ==
    ASSUME HeadUnitInv, NEW t \in Threads, CallStep(t)
    PROVE  HeadUnitInv'
BY SetSinkPreserves, CallReturnsPreserves, ReadActivePidPreserves, SendsKeyFrameReqPreserves,
   SendsInputEventPreserves, YieldsScreenPreserves
   DEF CallStep

-----------------------------------------------------------------------------
(* Touches *)

LEMMA FingersCounted ==
    ASSUME NEW now \in SUBSET Fingers
    PROVE  /\ Cardinality(now) \in Nat /\ (Cardinality(now) = 0 <=> now = {})
           /\ Cardinality(now) >= GestureFingers => now # {}
<1>1. IsFiniteSet(now)
  BY FingersAssumption, FS_Subset
<1> QED
  BY <1>1, FingersAssumption, FS_CardinalityType, FS_EmptySet

(* A touch begins a plan; the glass is left to FlagFollowsGesture and      *)
(* ReleaseWillFollow.                                                      *)
LEMMA TouchBegins ==
    ASSUME HeadUnitInv, Idle("session"), NEW calls \in Seq(Calls),
           calls = <<>> \/ TouchPlan(calls) \/ GesturePlan(calls), Continue("session", calls),
           NEW now \in SUBSET Fingers, GlassBecomes(now, TRUE), gesture_fired' \in BOOLEAN,
           NEW d \in BOOLEAN, Note(d),
           UNCHANGED <<screenVars, sink_active, clients, protocol, touched, due>>
    PROVE  /\ TypeOK' /\ PlansKnown' /\ SinkWillFollow' /\ DueFromClient' /\ AskWillFollow'
           /\ todo'["session"] = calls
<1> USE DEF HeadUnitInv
<1>1. SteadyPlan(calls) /\ KnownPlan(calls)
  BY SteadyIsKnown DEF SteadyPlan
<1>2. SessionTyped' /\ todo' = [todo EXCEPT !["session"] = calls] /\ playing' = playing
  BY ContinueEffect DEF Threads
<1>3. /\ DOMAIN todo' = Threads /\ \A u \in Threads : todo'[u] \in Seq(Calls)
      /\ PlansKnown'
      /\ todo'["session"] = calls /\ \A u \in Threads \ {"session"} : todo'[u] = todo[u]
  BY <1>1, <1>2, PlanChanges DEF Threads
<1>4. TypeOK'
  <2>1. disturbed' \in BOOLEAN
    BY NoteEffect
  <2>2. glass' \subseteq Fingers /\ swiped' \in BOOLEAN /\ missed' \in BOOLEAN
    BY DEF GlassBecomes
  <2> QED
    BY <1>2, <1>3, <2>1, <2>2 DEF TypeOK, HistoryTyped, SessionTyped, screenVars
<1>5. SinkWillFollow'
  BY <1>1, <1>2, <1>3, SteadyKeepsSink DEF Idle, SteadyPlan
<1>6. DueFromClient' /\ AskWillFollow'
  <2>1. ~Asks(todo["session"], owner)
    BY PlansThatAsk DEF Idle
  <2>2. \A u \in Threads : Asks(todo[u], owner) => Asks(todo'[u], owner)
    BY <1>3, <2>1
  <2> QED
    BY <2>2, AskingKept DEF DueFromClient, screenVars
<1> QED
  BY <1>3, <1>4, <1>5, <1>6

LEMMA InputPlan ==
    ASSUME NEW a \in Actions, NEW calls, calls = <<InputEvent(a)>>
    PROVE  /\ calls \in Seq(Calls) /\ TouchPlan(calls) /\ ~GesturePlan(calls)
           /\ \A b : Sends(calls, b) <=> b = a
           /\ \A b \in Actions, p \in Pids \cup {NoPid} : Head(calls) # SendInputEvent(b, p)
<1>1. TouchPlan(calls)
  BY DEF TouchPlan
<1>2. Head(calls) = InputEvent(a) /\ calls # <<>>
  BY One
<1> QED
  BY <1>1, <1>2, PlansTyped, TouchIsNoGesture DEF Sends, InputEvent, SendInputEvent

(* A V1 head unit has one finger, which is no gesture. *)
LEMMA TouchV1Preserves ==
    ASSUME HeadUnitInv, NEW event \in Actions, TouchV1(event)
    PROVE  HeadUnitInv'
<1> DEFINE calls == V1!Run([type |-> "control", event |-> event])
           now == IF event = "UP" THEN {} ELSE {0}
<1>1. calls = <<InputEvent(event)>>
  BY ProtocolCalls DEF V1!Run, V1!HandleControl, Actions
<1>2. /\ calls \in Seq(Calls) /\ TouchPlan(calls) /\ ~GesturePlan(calls)
      /\ \A b : Sends(calls, b) <=> b = event
      /\ \A b \in Actions, p \in Pids \cup {NoPid} : Head(calls) # SendInputEvent(b, p)
  BY <1>1, InputPlan
<1>3. /\ Idle("session") /\ Continue("session", calls) /\ GlassBecomes(now, TRUE) /\ Note(FALSE)
      /\ UNCHANGED <<screenVars, sink_active, clients, protocol, gesture_fired, touched, due>>
      /\ protocol = "V1"
  BY DEF TouchV1
<1>4. now \in SUBSET Fingers /\ ~(Cardinality(now) >= GestureFingers)
  <2>1. GestureFingers \in Nat /\ GestureFingers > 1 /\ {0} \subseteq Fingers
    BY FingersAssumption
  <2>2. Cardinality({0}) = 1 /\ Cardinality({}) = 0
    BY FS_EmptySet, FS_Singleton
  <2>3. now = {} \/ now = {0}
    OBVIOUS
  <2>4. Cardinality(now) = 0 \/ Cardinality(now) = 1
    BY <2>2, <2>3
  <2> HIDE DEF now
  <2> QED
    BY <2>1, <2>3, <2>4
<1> HIDE DEF calls, now
<1>5. /\ TypeOK' /\ PlansKnown' /\ SinkWillFollow' /\ DueFromClient' /\ AskWillFollow'
      /\ todo'["session"] = calls
  <2>1. gesture_fired' \in BOOLEAN
    BY <1>3 DEF HeadUnitInv, TypeOK
  <2> QED
    BY <1>2, <1>3, <1>4, <2>1, TouchBegins
<1>6. ReleaseWillFollow'
  <2>1. TypeOK /\ ~gesture_fired
    BY <1>3 DEF HeadUnitInv, FlagFollowsGesture
  <2>2. SUFFICES ASSUME ~disturbed, ~disturbed'  PROVE ReleaseWillFollow'
    BY <1>3, <2>1, ReleaseIfQuiet
  <2>3. touched' \subseteq ActiveOrAll(owner)'
    BY <1>3, <2>2 DEF HeadUnitInv, ReleaseWillFollow, ActiveOrAll, screenVars
  <2>4. glass' = {} => event = "UP"
    BY <1>3 DEF GlassBecomes, now
  <2> QED
    BY <1>2, <1>3, <1>5, <2>1, <2>3, <2>4 DEF ReleaseWillFollow
<1>7. FlagFollowsGesture'
  <2>1. ~missed' => ~swiped'
    BY <1>3, <1>4 DEF HeadUnitInv, FlagFollowsGesture, GlassBecomes
  <2>2. swiped' \in BOOLEAN /\ gesture_fired' = FALSE
    BY <1>3, <1>5 DEF HeadUnitInv, FlagFollowsGesture, TypeOK, HistoryTyped
  <2> QED
    BY <1>2, <1>3, <1>5, <2>1, <2>2 DEF FlagFollowsGesture
<1> QED
  BY <1>5, <1>6, <1>7 DEF HeadUnitInv

LEMMA SameCount ==
    ASSUME NEW S
    PROVE  V2!Cardinality(S) = Cardinality(S)
BY DEF V2!Cardinality, Cardinality

(* What HandleTouch makes of an event. *)
TouchTold(now, first, usable) == [action |-> ActionsOf(now), first |-> first, usable |-> usable]
TouchAction(now, first) == ActionsOf(now)[IF 0 \in glass \cup now THEN 0 ELSE first]

LEMMA TouchRead ==
    ASSUME NEW now, NEW usable, NEW first \in glass \cup now
    PROVE  /\ V2!PressedFingers(TouchTold(now, first, usable)) = now
           /\ TouchTold(now, first, usable).usable = usable
           /\ TouchTold(now, first, usable).action[V2!PrimaryFinger(TouchTold(now, first, usable))]
                = TouchAction(now, first)
           /\ TouchAction(now, first) \in Actions
           /\ now = {} => TouchAction(now, first) = "UP"
<1>1. /\ DOMAIN ActionsOf(now) = glass \cup now
      /\ \A f \in glass \cup now : /\ ActionsOf(now)[f] \in Actions
                                   /\ ActionsOf(now)[f] # "UP" <=> f \in now
  BY DEF ActionsOf, Actions
<1>2. /\ TouchTold(now, first, usable).action = ActionsOf(now)
      /\ TouchTold(now, first, usable).first = first
      /\ TouchTold(now, first, usable).usable = usable
  BY DEF TouchTold
<1>3. V2!PressedFingers(TouchTold(now, first, usable)) = now
  BY <1>1, <1>2 DEF V2!PressedFingers
<1>4. V2!PrimaryFinger(TouchTold(now, first, usable)) = IF 0 \in glass \cup now THEN 0 ELSE first
  BY <1>1, <1>2 DEF V2!PrimaryFinger
<1> QED
  BY <1>1, <1>2, <1>3, <1>4 DEF TouchAction

TouchV2Does(now, usable, a, calls) ==
    /\ protocol = "V2" /\ Idle("session") /\ Continue("session", calls) /\ GlassBecomes(now, TRUE)
    /\ Note(~usable /\ a = "UP") /\ (now = {} => a = "UP")
    /\ UNCHANGED <<screenVars, sink_active, clients, protocol, touched, due>>
    /\ LET many == Cardinality(now) >= GestureFingers
       IN  \/ many /\ gesture_fired' = TRUE /\ gesture_fired /\ calls = <<>>
           \/ many /\ gesture_fired' = TRUE /\ ~gesture_fired
              /\ calls = <<InputEvent("UP"), SwitchToPrevious>>
           \/ ~many /\ gesture_fired /\ gesture_fired' = (now # {}) /\ calls = <<>>
           \/ ~many /\ ~gesture_fired /\ gesture_fired' = FALSE /\ calls = <<InputEvent(a)>>
           \/ ~many /\ ~gesture_fired /\ gesture_fired' = FALSE /\ ~usable /\ calls = <<>>

(* Enough fingers switch once; the rest of the gesture is ignored; what is *)
(* not a gesture is a touch, and lifting the last finger its release.      *)
LEMMA TouchV2Effect ==
    ASSUME NEW now \in SUBSET Fingers, NEW first \in glass \cup now, NEW usable \in BOOLEAN,
           TouchV2(now, first, usable)
    PROVE  \E a \in Actions, calls \in Seq(Calls) :
             /\ TouchV2Does(now, usable, a, calls)
             /\ calls = <<>> \/ TouchPlan(calls) \/ GesturePlan(calls)
             /\ calls = <<InputEvent("UP"), SwitchToPrevious>> \/ ~GesturePlan(calls)
<1> DEFINE told == TouchTold(now, first, usable)
           result == V2!HandleTouch(gesture_fired, told)
           many == Cardinality(now) >= GestureFingers
<1>0. PICK a \in Actions : a = TouchAction(now, first) /\ (now = {} => a = "UP")
  BY TouchRead
<1> DEFINE d == ~usable /\ a = "UP"
<1>1. Cardinality(now) \in Nat /\ (Cardinality(now) = 0 <=> now = {}) /\ (many => now # {})
  BY FingersCounted
<1>2. /\ V2!PressedFingers(told) = now /\ V2!Cardinality(now) = Cardinality(now)
      /\ told.usable = usable /\ told.action[V2!PrimaryFinger(told)] = a
  BY <1>0, TouchRead, SameCount
<1>3. /\ protocol = "V2" /\ Idle("session")
      /\ gesture_fired' = result.fired /\ Continue("session", result.calls)
      /\ GlassBecomes(now, TRUE) /\ Note(d)
      /\ UNCHANGED <<screenVars, sink_active, clients, protocol, touched, due>>
  BY <1>2 DEF TouchV2, TouchTold
<1> HIDE DEF told
<1> DEFINE calls == result.calls
<1>4. \/ many /\ gesture_fired' = TRUE /\ gesture_fired /\ calls = <<>>
      \/ many /\ gesture_fired' = TRUE /\ ~gesture_fired
         /\ calls = <<InputEvent("UP"), SwitchToPrevious>>
      \/ ~many /\ gesture_fired /\ gesture_fired' = (now # {}) /\ calls = <<>>
      \/ ~many /\ ~gesture_fired /\ gesture_fired' = FALSE /\ calls = <<InputEvent(a)>>
      \/ ~many /\ ~gesture_fired /\ gesture_fired' = FALSE /\ ~usable /\ calls = <<>>
  <2>1. V2!SwitchGesture = <<InputEvent("UP"), SwitchToPrevious>> /\ V2!InputEvent(a) = InputEvent(a)
    BY ProtocolCalls DEF V2!SwitchGesture
  <2>2. ASSUME many
        PROVE  result = [fired |-> TRUE, calls |-> IF gesture_fired THEN <<>> ELSE V2!SwitchGesture]
    BY <1>2, <2>2 DEF V2!HandleTouch
  <2>3. ASSUME ~many, gesture_fired
        PROVE  result = [fired |-> Cardinality(now) # 0, calls |-> <<>>]
    BY <1>2, <2>3 DEF V2!HandleTouch
  <2>4. ASSUME ~many, ~gesture_fired
        PROVE  result = [fired |-> FALSE, calls |-> IF usable THEN <<V2!InputEvent(a)>> ELSE <<>>]
    BY <1>2, <2>4 DEF V2!HandleTouch
  <2> HIDE DEF result, many
  <2>5. CASE many
    BY <1>3, <2>1, <2>2, <2>5
  <2>6. CASE ~many /\ gesture_fired
    BY <1>1, <1>3, <2>3, <2>6
  <2>7. CASE ~many /\ ~gesture_fired
    BY <1>3, <2>1, <2>4, <2>7
  <2> QED
    BY <2>5, <2>6, <2>7
<1> HIDE DEF calls, many, result
<1>5. calls \in Seq(Calls) /\ (calls = <<>> \/ TouchPlan(calls) \/ GesturePlan(calls))
      /\ (calls = <<InputEvent("UP"), SwitchToPrevious>> \/ ~GesturePlan(calls))
  <2>1. CASE calls = <<>>
    BY <2>1, EmptyPlan
  <2>2. CASE calls = <<InputEvent("UP"), SwitchToPrevious>>
    <3>1. GesturePlan(calls)
      BY <2>2 DEF GesturePlan
    <3> QED
      BY <2>2, <3>1, PlansTyped
  <2>3. CASE calls = <<InputEvent(a)>>
    BY <2>3, InputPlan
  <2> QED
    BY <1>4, <2>1, <2>2, <2>3
<1>6. TouchV2Does(now, usable, a, calls)
  BY <1>0, <1>3, <1>4 DEF TouchV2Does, calls, many
<1> QED
  BY <1>5, <1>6

LEMMA TouchV2Preserves ==
    ASSUME HeadUnitInv, NEW now \in SUBSET Fingers, NEW first \in glass \cup now, NEW usable \in BOOLEAN,
           TouchV2(now, first, usable)
    PROVE  HeadUnitInv'
<1> DEFINE many == Cardinality(now) >= GestureFingers
<1>1. PICK a \in Actions, calls \in Seq(Calls) :
        /\ TouchV2Does(now, usable, a, calls)
        /\ calls = <<>> \/ TouchPlan(calls) \/ GesturePlan(calls)
        /\ calls = <<InputEvent("UP"), SwitchToPrevious>> \/ ~GesturePlan(calls)
  BY TouchV2Effect
<1> DEFINE d == ~usable /\ a = "UP"
<1>2. /\ protocol = "V2" /\ Idle("session") /\ Continue("session", calls)
      /\ GlassBecomes(now, TRUE) /\ Note(d) /\ (now = {} => a = "UP")
      /\ UNCHANGED <<screenVars, sink_active, clients, protocol, touched, due>>
  BY <1>1 DEF TouchV2Does
<1>3. Cardinality(now) \in Nat /\ (Cardinality(now) = 0 <=> now = {}) /\ (many => now # {})
  BY FingersCounted
<1>4. \/ many /\ gesture_fired' = TRUE /\ gesture_fired /\ calls = <<>>
      \/ many /\ gesture_fired' = TRUE /\ ~gesture_fired
         /\ calls = <<InputEvent("UP"), SwitchToPrevious>>
      \/ ~many /\ gesture_fired /\ gesture_fired' = (now # {}) /\ calls = <<>>
      \/ ~many /\ ~gesture_fired /\ gesture_fired' = FALSE /\ calls = <<InputEvent(a)>>
      \/ ~many /\ ~gesture_fired /\ gesture_fired' = FALSE /\ ~usable /\ calls = <<>>
  BY <1>1 DEF TouchV2Does
<1> HIDE DEF many
<1>5. gesture_fired' \in BOOLEAN /\ d \in BOOLEAN
  BY <1>4
<1> HIDE DEF d
<1>6. /\ TypeOK' /\ PlansKnown' /\ SinkWillFollow' /\ DueFromClient' /\ AskWillFollow'
      /\ todo'["session"] = calls
  BY <1>2, <1>1, <1>5, TouchBegins
<1>7. ReleaseWillFollow'
  <2>1. TypeOK
    BY DEF HeadUnitInv
  <2>2. SUFFICES ASSUME ~disturbed, ~d, ~disturbed'  PROVE ReleaseWillFollow'
    BY <1>2, <1>5, <2>1, ReleaseIfQuiet
  <2>3. touched' = touched /\ touched' \subseteq ActiveOrAll(owner)'
    BY <1>2, <2>2 DEF HeadUnitInv, ReleaseWillFollow, ActiveOrAll, screenVars
  <2>4. gesture_fired => touched = {}
    BY <1>2, <2>2 DEF HeadUnitInv, ReleaseWillFollow, Idle, Sends
  <2>5. glass' = now
    BY <1>2 DEF GlassBecomes
  <2>6. CASE calls = <<>>
    <3>1. gesture_fired \/ now # {}
      BY <1>2, <1>3, <1>4, <2>2, <2>6 DEF d
    <3> QED
      BY <1>4, <1>6, <2>3, <2>4, <2>5, <2>6, <3>1 DEF ReleaseWillFollow, Sends
  <2>7. CASE calls = <<InputEvent("UP"), SwitchToPrevious>>
    <3>1. Head(calls) = InputEvent("UP") /\ calls # <<>>
      BY <2>7, Two
    <3> QED
      BY <1>6, <2>3, <3>1 DEF ReleaseWillFollow, Sends, InputEvent, SendInputEvent
  <2>8. CASE ~gesture_fired' /\ calls = <<InputEvent(a)>>
    <3>1. /\ \A b : Sends(calls, b) <=> b = a
          /\ \A b \in Actions, p \in Pids \cup {NoPid} : Head(calls) # SendInputEvent(b, p)
      BY <2>8, InputPlan
    <3> QED
      BY <1>2, <1>6, <2>3, <2>5, <2>8, <3>1 DEF ReleaseWillFollow
  <2> QED
    BY <1>4, <2>6, <2>7, <2>8
<1>8. FlagFollowsGesture'
  <2>1. GesturePlan(todo'["session"]) => gesture_fired'
    <3>1. gesture_fired' = FALSE => ~GesturePlan(calls)
      BY <1>4, <1>1, EmptyPlan, InputPlan
    <3> QED
      BY <1>5, <1>6, <3>1
  <2>2. ASSUME ~missed'  PROVE gesture_fired' = swiped'
    <3>1. swiped' = (now # {} /\ (swiped \/ many)) /\ missed' = (missed /\ now # {})
      BY <1>2 DEF GlassBecomes, many
    <3>2. CASE now = {}
      BY <1>3, <1>4, <3>1, <3>2
    <3>3. CASE now # {}
      <4>1. gesture_fired = swiped
        BY <2>2, <3>1, <3>3 DEF HeadUnitInv, FlagFollowsGesture
      <4> QED
        BY <1>4, <3>1, <3>3, <4>1
    <3> QED
      BY <3>2, <3>3
  <2> QED
    BY <1>2, <2>1, <2>2 DEF FlagFollowsGesture
<1> QED
  BY <1>6, <1>7, <1>8 DEF HeadUnitInv

LEMMA GlassUnseenPreserves ==
    ASSUME HeadUnitInv, NEW now \in SUBSET Fingers, GlassUnseen(now)
    PROVE  HeadUnitInv'
<1> USE DEF HeadUnitInv
<1>1. /\ UNCHANGED <<screenVars, sink_active, clients, protocol, sessionVars, gesture_fired,
                     todo, touched, playing, due>>
      /\ Note(TRUE) /\ glass' = now /\ missed' = TRUE
      /\ swiped' = (now # {} /\ (swiped \/ Cardinality(now) >= GestureFingers))
  BY DEF GlassUnseen, GlassBecomes
<1>2. disturbed' \in BOOLEAN
  BY <1>1, NoteEffect
<1>3. TypeOK'
  BY <1>1, <1>2 DEF TypeOK, HistoryTyped, screenVars, sessionVars
<1>4. PlansKnown' /\ SinkWillFollow' /\ DueFromClient'
  BY <1>1 DEF PlansKnown, Idle, SinkWillFollow, DueFromClient, screenVars
<1>5. AskWillFollow'
  BY <1>1, AskingKept DEF screenVars
<1>6. ReleaseWillFollow'
  BY <1>1, ReleaseIfQuiet
<1>7. FlagFollowsGesture'
  BY <1>1 DEF FlagFollowsGesture
<1> QED
  BY <1>3, <1>4, <1>5, <1>6, <1>7

-----------------------------------------------------------------------------
(* Sessions, owners and clients *)

LEMMA OpenSessionPreserves ==
    ASSUME HeadUnitInv, OpenSession
    PROVE  HeadUnitInv'
<1> USE DEF HeadUnitInv
<1>1. /\ UNCHANGED <<screenVars, sink_active, clients, protocol, gestureVars, todo, touched,
                     playing, due, disturbed>>
      /\ SessionTyped'
  BY LimitsAssumption DEF OpenSession, SessionTyped
<1>2. TypeOK'
  BY <1>1 DEF TypeOK, HistoryTyped, SessionTyped, screenVars, gestureVars
<1>3. PlansKnown' /\ SinkWillFollow' /\ DueFromClient' /\ FlagFollowsGesture'
  BY <1>1
     DEF PlansKnown, Idle, SinkWillFollow, DueFromClient, FlagFollowsGesture, screenVars, gestureVars
<1>4. AskWillFollow'
  BY <1>1, AskingKept DEF screenVars
<1>5. ReleaseWillFollow'
  BY <1>1 DEF ReleaseWillFollow, ActiveOrAll, Sends, screenVars, gestureVars
<1> QED
  BY <1>2, <1>3, <1>4, <1>5

LEMMA OwnerChangesPreserves ==
    ASSUME HeadUnitInv, OwnerChanges
    PROVE  HeadUnitInv'
<1> USE DEF HeadUnitInv
<1> DEFINE calls == Report(owner')
           d == owner' # owner
<1>1. /\ todo["other"] = <<>> /\ todo' = [todo EXCEPT !["other"] = calls]
      /\ UNCHANGED <<clients, touched, sink_active, protocol, sessionVars, gestureVars, playing>>
      /\ NoteSwitch /\ Note(d)
  BY DEF OwnerChanges, Idle
<1>2. streams' \subseteq Screen!Stream /\ owner' \in Pids \cup {NoPid}
  BY ScreenTyped DEF OwnerChanges
<1>3. calls \in Seq(Calls) /\ (calls = <<>> \/ KeyFramePlan(calls))
  BY ReportPlan
<1> HIDE DEF calls
<1>4. /\ DOMAIN todo' = Threads /\ \A u \in Threads : todo'[u] \in Seq(Calls)
      /\ PlansKnown'
      /\ todo'["other"] = calls /\ \A u \in Threads \ {"other"} : todo'[u] = todo[u]
  BY <1>1, <1>3, PlanChanges DEF Threads
<1>5. todo'["session"] = todo["session"]
  BY <1>4 DEF Threads
<1>6. TypeOK'
  <2>1. disturbed' \in BOOLEAN /\ due' \in BOOLEAN
    BY <1>1, NoteEffect, NoteSwitchTyped
  <2> QED
    BY <1>1, <1>2, <1>4, <2>1 DEF TypeOK, HistoryTyped, sessionVars, gestureVars
<1>7. SinkWillFollow'
  BY <1>1, <1>5, SteadyKeepsSink
<1>8. DueFromClient' /\ AskWillFollow'
  <2>1. ~Asks(todo["other"], owner)
    BY <1>1, PlansThatAsk
  <2> QED
    BY <1>1, <1>4, <2>1, ReportAsks DEF Threads, calls
<1>9. ReleaseWillFollow'
  <2>1. CASE owner' = owner
    BY <1>1, <1>5, <2>1, QuietKeepsRelease DEF gestureVars
  <2>2. CASE owner' # owner
    BY <1>1, <2>2, ReleaseIfQuiet
  <2> QED
    BY <2>1, <2>2
<1>10. FlagFollowsGesture'
  BY <1>1, <1>5 DEF FlagFollowsGesture, gestureVars
<1> QED
  BY <1>4, <1>6, <1>7, <1>8, <1>9, <1>10

LEMMA ClientsPreserve ==
    ASSUME HeadUnitInv, NEW p \in Pids, ClientConnects(p) \/ ClientGoes(p)
    PROVE  HeadUnitInv'
<1> USE DEF HeadUnitInv
<1>1. /\ UNCHANGED <<screenVars, sink_active, protocol, sessionVars, gestureVars, playing, todo>>
      /\ Note(TRUE)
  BY DEF ClientConnects, ClientGoes
<1>2. /\ clients' \subseteq Pids /\ touched' \subseteq clients' /\ due' \in BOOLEAN
      /\ due' => due /\ owner \in clients'
  <2>1. CASE ClientConnects(p)
    BY <2>1 DEF ClientConnects, TypeOK, HistoryTyped, DueFromClient
  <2>2. CASE ClientGoes(p)
    BY <2>2 DEF ClientGoes, TypeOK, HistoryTyped, DueFromClient
  <2> QED
    BY <2>1, <2>2
<1>3. disturbed' \in BOOLEAN
  BY <1>1, NoteEffect
<1>4. TypeOK'
  BY <1>1, <1>2, <1>3 DEF TypeOK, HistoryTyped, screenVars, sessionVars, gestureVars
<1>5. PlansKnown' /\ SinkWillFollow' /\ FlagFollowsGesture'
  BY <1>1 DEF PlansKnown, Idle, SinkWillFollow, FlagFollowsGesture, gestureVars
<1>6. DueFromClient' /\ AskWillFollow'
  BY <1>1, <1>2, AskingKept DEF DueFromClient, screenVars
<1>7. ReleaseWillFollow'
  BY <1>1, ReleaseIfQuiet
<1> QED
  BY <1>4, <1>5, <1>6, <1>7

-----------------------------------------------------------------------------
(* The invariant *)

LEMMA InitEstablishes ==
    ASSUME Init
    PROVE  HeadUnitInv
<1>1. /\ streams = {} /\ owner = NoPid /\ sink_active = FALSE /\ playing = FALSE /\ clients = {}
      /\ protocol \in {"V1", "V2"} /\ phase = "off" /\ attempts = 0 /\ protocol_errors = 0
      /\ gesture_fired = FALSE /\ todo = [t \in Threads |-> <<>>]
      /\ glass = {} /\ swiped = FALSE /\ missed = FALSE /\ touched = {}
      /\ disturbed = FALSE /\ due = FALSE
  BY DEF Init, Screen!Init
<1>2. todo["session"] = <<>> /\ todo["other"] = <<>>
  BY <1>1 DEF Threads
<1>3. TypeOK
  <2>1. DOMAIN todo = Threads /\ \A t \in Threads : todo[t] \in Seq(Calls)
    BY <1>1, EmptyPlan
  <2>2. attempts \in 0..ProbeExtraReads /\ protocol_errors \in 0..(MaxProtocolErrors - 1)
    BY <1>1, LimitsAssumption
  <2>3. HistoryTyped
    BY <1>1 DEF HistoryTyped
  <2> QED
    BY <1>1, <2>1, <2>2, <2>3 DEF TypeOK
<1>4. PlansKnown /\ SinkWillFollow
  BY <1>1, <1>2, EmptyPlan, SinkPlansApart DEF PlansKnown, Idle, SinkWillFollow
<1>5. DueFromClient /\ AskWillFollow
  BY <1>1 DEF DueFromClient, AskWillFollow, KeyFrameAfterPlay
<1>6. ReleaseWillFollow
  BY <1>1, <1>2 DEF ReleaseWillFollow, Sends
<1>7. FlagFollowsGesture
  BY <1>1, <1>2, EmptyPlan DEF FlagFollowsGesture
<1> QED
  BY <1>3, <1>4, <1>5, <1>6, <1>7 DEF HeadUnitInv

LEMMA StutterPreserves ==
    ASSUME HeadUnitInv, UNCHANGED vars
    PROVE  HeadUnitInv'
<1> USE DEF HeadUnitInv
<1>1. /\ UNCHANGED <<streams, owner, sink_active, clients, protocol, phase, attempts,
                     protocol_errors, gesture_fired, glass, swiped, missed, todo, touched>>
      /\ UNCHANGED <<playing, due, disturbed>>
  BY DEF vars, screenVars, sessionVars, gestureVars
<1>2. TypeOK' /\ PlansKnown' /\ SinkWillFollow' /\ DueFromClient' /\ FlagFollowsGesture'
  BY <1>1 DEF TypeOK, HistoryTyped, PlansKnown, Idle, SinkWillFollow, DueFromClient, FlagFollowsGesture
<1>3. AskWillFollow'
  BY <1>1, AskingKept
<1>4. ReleaseWillFollow'
  BY <1>1 DEF ReleaseWillFollow, ActiveOrAll, Sends
<1> QED
  BY <1>2, <1>3, <1>4

LEMMA NextPreserves ==
    ASSUME HeadUnitInv, [Next]_vars
    PROVE  HeadUnitInv'
<1>1. CASE HeadUnit
  <2>1. ASSUME NEW now \in SUBSET Fingers,
               GlassUnseen(now) \/ \E first \in glass \cup now, usable \in BOOLEAN : TouchV2(now, first, usable)
        PROVE  HeadUnitInv'
    BY <2>1, GlassUnseenPreserves, TouchV2Preserves
  <2> QED
    BY <1>1, <2>1, OpenSessionPreserves, MessagesPreserve, TouchV1Preserves, FailuresPreserve
       DEF HeadUnit
<1>2. CASE Rejects \/ IoFails
  BY <1>2, FailuresPreserve
<1>3. CASE \E t \in Threads : CallStep(t)
  BY <1>3, CallStepPreserves
<1>4. CASE OwnerChanges
  BY <1>4, OwnerChangesPreserves
<1>5. CASE \E p \in Pids : ClientConnects(p) \/ ClientGoes(p)
  BY <1>5, ClientsPreserve
<1>6. CASE UNCHANGED vars
  BY <1>6, StutterPreserves
<1> QED
  BY <1>1, <1>2, <1>3, <1>4, <1>5, <1>6 DEF Next

(* The parts of HeadUnitInv, always: what the plans of the threads promise. *)
THEOREM Invariant == Spec => []HeadUnitInv
<1>1. Init => HeadUnitInv
  BY InitEstablishes
<1>2. HeadUnitInv /\ [Next]_vars => HeadUnitInv'
  BY NextPreserves
<1> QED
  BY <1>1, <1>2, PTL DEF Spec

(* Every variable of the model keeps its type, for any number of sources   *)
(* and fingers; the counters of errors stay below their limits.            *)
THEOREM TypeCorrect == Spec => []TypeOK
<1>1. HeadUnitInv => TypeOK
  BY DEF HeadUnitInv
<1> QED
  BY <1>1, Invariant, PTL

(* Between two messages the receiver's sink is as the head unit asked      *)
(* last, however its sessions end, as no handler can fail between the      *)
(* change of the sink and the end of its message.                          *)
THEOREM SinkFollows == Spec => []SinkFollowsHeadUnit
<1>1. HeadUnitInv => SinkFollowsHeadUnit
  BY SinkPlansApart DEF HeadUnitInv, SinkWillFollow, SinkFollowsHeadUnit, Idle
<1> QED
  BY <1>1, Invariant, PTL

(* A process that gets the screen, or has it while the head unit starts to *)
(* play, is always about to be asked for a key frame, or was.  A process   *)
(* of pid 0, whose credentials were not told, is not.                      *)
THEOREM KeyFrameAsked ==
    ASSUME NoPid \notin Pids
    PROVE  Spec => []KeyFrameAfterPlay
<1>1. HeadUnitInv => KeyFrameAfterPlay
  BY DEF HeadUnitInv, AskWillFollow
<1> QED
  BY <1>1, Invariant, PTL

(* No client is left with a touch, as long as nothing comes between the    *)
(* touch and its release.                                                  *)
THEOREM TouchesReleased == Spec => []TouchReleased
<1>1. HeadUnitInv => TouchReleased
  BY DEF HeadUnitInv, ReleaseWillFollow, TouchReleased, Idle, Sends
<1> QED
  BY <1>1, Invariant, PTL

-----------------------------------------------------------------------------
(* One switch for each gesture *)

LEMMA PlansThatSwitch ==
    ASSUME NEW s, s = <<>> \/ IoPlan(s) \/ KeyFramePlan(s) \/ TouchPlan(s) \/ PlayPlan(s) \/ StopPlan(s),
           NEW i \in DOMAIN s
    PROVE  s[i] # SwitchToPrevious
<1> USE DEF SwitchToPrevious
<1>1. CASE s = <<>>
  BY <1>1
<1>2. CASE IoPlan(s)
  BY <1>2 DEF IoPlan
<1>3. CASE KeyFramePlan(s)
  BY <1>3, KeyFramePlanNext DEF KeyFrameReq, SendKeyFrameReq
<1>4. CASE TouchPlan(s)
  BY <1>4, TouchPlanNext DEF InputEvent, SendInputEvent
<1>5. CASE PlayPlan(s) \/ StopPlan(s)
  BY <1>5, SinkPlanNext DEF Activate, Deactivate, KeyFrameReq
<1> QED
  BY <1>1, <1>2, <1>3, <1>4, <1>5

(* Only touches of several fingers make the session thread switch. *)
LEMMA OnlyTouchesSwitch ==
    ASSUME HeadUnitInv, Next, SwitchBegins
    PROVE  \E now \in SUBSET Fingers : \E first \in glass \cup now, usable \in BOOLEAN :
             TouchV2(now, first, usable)
<1> DEFINE plan == todo'["session"]
<1> SUFFICES ASSUME ~(\E now \in SUBSET Fingers : \E first \in glass \cup now, usable \in BOOLEAN :
                        TouchV2(now, first, usable))
             PROVE  plan = <<>> \/ IoPlan(plan) \/ KeyFramePlan(plan) \/ TouchPlan(plan)
                    \/ PlayPlan(plan) \/ StopPlan(plan)
  BY PlansThatSwitch DEF SwitchBegins
<1>1. /\ TypeOK /\ todo["session"] = <<>> /\ DOMAIN todo = Threads
      /\ "session" \in Threads
  BY DEF HeadUnitInv, TypeOK, SwitchBegins, Idle, Threads
<1>2. CASE \/ \E m \in FirstMessages : ProbeMessage(m)
           \/ \E m \in RunMessages : Message(m)
  <2>1. PICK calls : Wished(calls) /\ todo' = [todo EXCEPT !["session"] = calls]
    BY <1>1, <1>2, MessageEffect
  <2> QED
    BY <1>1, <2>1 DEF Wished
<1>3. CASE LinkLost
  BY <1>1, <1>3, EndSessionEffect DEF LinkLost, StopPlan
<1>4. CASE \E event \in Actions : TouchV1(event)
  <2>1. PICK event \in Actions : Continue("session", V1!Run([type |-> "control", event |-> event]))
    BY <1>4 DEF TouchV1
  <2>2. V1!Run([type |-> "control", event |-> event]) = <<InputEvent(event)>>
    BY ProtocolCalls DEF V1!Run, V1!HandleControl, Actions
  <2>3. plan = <<InputEvent(event)>>
    BY <1>1, <2>1, <2>2, ContinueEffect
  <2> QED
    BY <2>3 DEF TouchPlan
<1>5. CASE \/ OpenSession \/ OwnerChanges
           \/ \E p \in Pids : ClientConnects(p) \/ ClientGoes(p)
           \/ \E now \in SUBSET Fingers : GlassUnseen(now)
  BY <1>1, <1>5
     DEF OpenSession, OwnerChanges, ClientConnects, ClientGoes, GlassUnseen, Threads
<1>6. CASE Rejects \/ IoFails
  BY <1>1, <1>6 DEF Rejects, IoFails, Calling
<1>7. ASSUME NEW t \in Threads, CallStep(t)  PROVE plan = <<>>
  <2>1. t # "session"
    BY <1>1, <1>7
       DEF CallStep, SetSink, CallReturns, ReadActivePid, SendsKeyFrameReq, SendsInputEvent,
           YieldsScreen, Calling
  <2>2. PICK calls : Continue(t, calls)
    BY <1>7
       DEF CallStep, SetSink, CallReturns, ReadActivePid, SendsKeyFrameReq, SendsInputEvent,
           YieldsScreen
  <2>3. todo' = [todo EXCEPT ![t] = calls]
    BY <1>1, <2>2, ContinueEffect
  <2> QED
    BY <1>1, <2>1, <2>3
<1> QED
  BY <1>2, <1>3, <1>4, <1>5, <1>6, <1>7 DEF Next, HeadUnit

(* Only touches make a gesture that the handler sees. *)
LEMMA OnlyTouchesSwipe ==
    ASSUME HeadUnitInv, Next, swiped', ~swiped, ~missed'
    PROVE  \E now \in SUBSET Fingers : \E first \in glass \cup now, usable \in BOOLEAN :
             TouchV2(now, first, usable)
<1> SUFFICES ASSUME ~(\E now \in SUBSET Fingers : \E first \in glass \cup now, usable \in BOOLEAN :
                        TouchV2(now, first, usable))
             PROVE  FALSE
  OBVIOUS
<1>1. CASE UNCHANGED gestureVars
  BY <1>1 DEF gestureVars
<1>2. CASE \E now \in SUBSET Fingers : GlassUnseen(now)
  BY <1>2 DEF GlassUnseen, GlassBecomes
<1>3. CASE \E event \in Actions : TouchV1(event)
  <2>1. PICK event \in Actions : GlassBecomes(IF event = "UP" THEN {} ELSE {0}, TRUE)
    BY <1>3 DEF TouchV1
  <2>2. ~(Cardinality({0}) >= GestureFingers)
    BY FingersAssumption, FS_Singleton
  <2> QED
    BY <2>1, <2>2 DEF GlassBecomes
<1>4. \/ UNCHANGED gestureVars
      \/ \E now \in SUBSET Fingers : GlassUnseen(now)
      \/ \E event \in Actions : TouchV1(event)
  <2>1. CASE HeadUnit
    BY <2>1 DEF HeadUnit, OpenSession, ProbeMessage, Message, LinkLost
  <2>2. CASE Rejects \/ IoFails \/ OwnerChanges
    BY <2>2 DEF Rejects, IoFails, OwnerChanges
  <2>3. CASE \E p \in Pids : ClientConnects(p) \/ ClientGoes(p)
    BY <2>3 DEF ClientConnects, ClientGoes
  <2>4. CASE \E t \in Threads : CallStep(t)
    BY <2>4
       DEF CallStep, SetSink, CallReturns, ReadActivePid, SendsKeyFrameReq, SendsInputEvent,
           YieldsScreen
  <2> QED
    BY <2>1, <2>2, <2>3, <2>4 DEF Next
<1> QED
  BY <1>1, <1>2, <1>3, <1>4

(* A step that begins to switch begins a gesture, and one that begins a    *)
(* gesture begins to switch, as gesture_fired tells the one from the rest  *)
(* of it.                                                                  *)
LEMMA SwitchStep ==
    ASSUME HeadUnitInv, NEW now \in SUBSET Fingers, NEW first \in glass \cup now, NEW usable \in BOOLEAN,
           TouchV2(now, first, usable)
    PROVE  /\ SwitchBegins /\ ~missed => ~swiped
           /\ swiped' /\ ~swiped /\ ~missed' => SwitchBegins
<1>1. PICK a \in Actions, calls \in Seq(Calls) :
        /\ TouchV2Does(now, usable, a, calls)
        /\ calls = <<InputEvent("UP"), SwitchToPrevious>> \/ ~GesturePlan(calls)
        /\ calls = <<>> \/ TouchPlan(calls) \/ GesturePlan(calls)
  BY TouchV2Effect
<1>2. todo'["session"] = calls
  <2>1. Continue("session", calls) /\ TypeOK
    BY <1>1 DEF TouchV2Does, HeadUnitInv
  <2>2. todo' = [todo EXCEPT !["session"] = calls]
    BY <2>1, ContinueEffect DEF Threads
  <2> QED
    BY <2>1, <2>2 DEF TypeOK, Threads
<1>3. (calls = <<InputEvent("UP"), SwitchToPrevious>>) <=> SwitchBegins
  <2>1. CASE calls = <<InputEvent("UP"), SwitchToPrevious>>
    <3>1. 2 \in DOMAIN calls /\ calls[2] = SwitchToPrevious
      BY <2>1, Two
    <3> QED
      BY <1>1, <1>2, <2>1, <3>1 DEF SwitchBegins, TouchV2Does
  <2>2. CASE calls = <<>> \/ TouchPlan(calls)
    <3>1. ~GesturePlan(calls)
      BY <2>2, EmptyPlan, TouchIsNoGesture
    <3>2. calls # <<InputEvent("UP"), SwitchToPrevious>>
      BY <3>1 DEF GesturePlan
    <3> QED
      BY <1>2, <2>2, <3>2, PlansThatSwitch DEF SwitchBegins
  <2> QED
    BY <1>1, <2>1, <2>2
<1>4. /\ calls = <<InputEvent("UP"), SwitchToPrevious>> => ~gesture_fired
      /\ Cardinality(now) >= GestureFingers /\ ~gesture_fired =>
           calls = <<InputEvent("UP"), SwitchToPrevious>>
  BY <1>1, Two DEF TouchV2Does
<1>5. SwitchBegins /\ ~missed => ~swiped
  BY <1>3, <1>4 DEF HeadUnitInv, FlagFollowsGesture
<1>6. ASSUME swiped', ~swiped, ~missed'  PROVE SwitchBegins
  <2>1. now # {} /\ Cardinality(now) >= GestureFingers /\ ~missed
    BY <1>1, <1>6 DEF TouchV2Does, GlassBecomes
  <2>2. ~gesture_fired
    BY <1>6, <2>1 DEF HeadUnitInv, FlagFollowsGesture
  <2> QED
    BY <1>3, <1>4, <2>1, <2>2
<1> QED
  BY <1>5, <1>6

(* A gesture whose every event is seen switches once: when it begins, and  *)
(* not again before the glass is empty, whatever the fingers do and        *)
(* however many sessions there are in between.                             *)
THEOREM GestureOnce == Spec => GestureSwitchesOnce
<1>1. ASSUME HeadUnitInv, [Next]_vars
      PROVE  [ /\ SwitchBegins /\ ~missed => ~swiped
               /\ swiped' /\ ~swiped /\ ~missed' => SwitchBegins ]_vars
  <2>1. CASE Next
    <3>1. (SwitchBegins /\ ~missed => ~swiped) /\ (swiped' /\ ~swiped /\ ~missed' => SwitchBegins)
      BY <1>1, <2>1, OnlyTouchesSwitch, OnlyTouchesSwipe, SwitchStep
    <3> QED
      BY <3>1
  <2>2. CASE UNCHANGED vars
    BY <2>2
  <2> QED
    BY <1>1, <2>1, <2>2
<1> QED
  BY <1>1, Invariant, PTL DEF Spec, GestureSwitchesOnce
=============================================================================
