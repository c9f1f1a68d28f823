---------------------------- MODULE SessionProofs ----------------------------
(***************************************************************************)
(* Proofs about Session, for any number of threads and messages: the one   *)
(* _sendEvent and the one _recvEvent are each in one hand, an event that   *)
(* is with the kernel keeps the session alive, messages are sent in their  *)
(* order, and a session is released once, after it was added.              *)
(*                                                                         *)
(* No call is twice on a thread's stack, so that its calls may be treated  *)
(* as a set.  What is on top of what (Stacks) is told first; the rest of   *)
(* the invariant speaks of who is in which call.                           *)
(***************************************************************************)
EXTENDS Session, FiniteSetTheorems, SequenceTheorems, TLAPS

-----------------------------------------------------------------------------
(* The stacks *)

\* What a Listener's thread still has to do after it welcomed a session.
Accepting == {<<>>, <<"registerAccept">>}

\* What content code may have been called from.
Content == {<<>>, <<"sendNext">>, <<"onRecv", "registerRecv">>,
            <<"onConnected", "registerRecv">>,
            <<"onConnected", "registerRecv", "registerAccept">>}

\* What the sender may have been called from: content, or ProcessSend.
Sending == (Content \ {<<"sendNext">>}) \cup {<<"unlock">>}

\* What RegisterDisconnect may have been called from.
Failing == {<<"recvFailed">>, <<"recvFailed", "registerAccept">>,
            <<"sendFailed">>, <<"sendFailed", "unlock">>,
            <<"sendFailed", "onRecv", "registerRecv">>,
            <<"sendFailed", "onConnected", "registerRecv">>,
            <<"sendFailed", "onConnected", "registerRecv", "registerAccept">>}

\* The calls below this one on a stack that has it on top.
Below(label) ==
  CASE label = "push" -> Content
    [] label \in {"registerSend", "drain", "wsaSend", "sendFailed"} -> Sending
    [] label = "disconnect" -> Content \cup Failing
    [] label = "addSession" -> {<<"onConnected", "registerRecv">>,
                                <<"onConnected", "registerRecv", "registerAccept">>}
    [] label = "onConnected" -> {<<"registerRecv">>, <<"registerRecv", "registerAccept">>}
    [] label = "onRecv" -> {<<"registerRecv">>}
    [] label \in {"registerRecv", "wsaRecv", "recvFailed"} -> Accepting
    [] OTHER -> {<<>>}

\* The calls that may be below this one.
Under(label) ==
  CASE label = "push" -> {"sendNext", "onRecv", "onConnected", "registerRecv", "registerAccept"}
    [] label \in {"registerSend", "drain", "wsaSend", "sendFailed"} ->
         {"unlock", "onRecv", "onConnected", "registerRecv", "registerAccept"}
    [] label = "disconnect" -> {"sendNext", "onRecv", "onConnected", "registerRecv",
                                "registerAccept", "recvFailed", "sendFailed", "unlock"}
    [] label = "addSession" -> {"onConnected", "registerRecv", "registerAccept"}
    [] label = "onConnected" -> {"registerRecv", "registerAccept"}
    [] label = "onRecv" -> {"registerRecv"}
    [] label \in {"registerRecv", "wsaRecv", "recvFailed"} -> {"registerAccept"}
    [] OTHER -> {}

\* The stacks there are.
Stacks == {s \in Seq(Labels) : s = <<>> \/ Tail(s) \in Below(Head(s))}

Elems(s) == {s[i] : i \in 1..Len(s)}

\* The calls that t is in.
On(t) == Elems(stack[t])

Busy(t, labels) == \E label \in labels : label \in On(t)

-----------------------------------------------------------------------------
(* The inductive invariant *)

Ends      == {"disconnect", "release"}
Writing   == {"wsaSend", "sendFailed"}           \* with what is in the event
Sender    == {"drain", "wsaSend", "sendFailed"}  \* after ADD_REF
Reader    == {"wsaRecv", "recvFailed"}           \* after ADD_REF
Broken    == {"sendFailed", "recvFailed"}
Opener    == {"registerConnect", "registerAccept"}
Welcoming == {"addSession", "onConnected", "registerRecv", "registerAccept"}

Types ==
  /\ role \in {"client", "server"}
  /\ {connected, inService, managed, sendRegistered} \subseteq BOOLEAN
  /\ sendQueue \in Seq(Messages) /\ sendBuffers \in Seq(Messages)
  /\ pushed \in Seq(Messages) /\ wire \in Seq(Messages)
  /\ lock \in Threads \cup {NoThread}
  /\ pending \subseteq Events /\ owned \subseteq Events
  /\ stack \in [Threads -> Stacks]
  /\ met \subseteq {"started", "refused", "accepted", "added", "early", "ignored",
                    "notDisconnected", "released", "crashed"}

\* One thread at most is in these calls, and none while the kernel has event.
OneHand(event, labels) ==
  /\ \A t, u \in Threads : Busy(t, labels) /\ Busy(u, labels) => t = u
  /\ event \in pending => \A t \in Threads : ~Busy(t, labels)

SomeHand(event, labels) == event \in pending \/ \E t \in Threads : Busy(t, labels)

SendHand ==
  /\ OneHand("send", SendLabels)
  /\ ~sendRegistered => ~SomeHand("send", SendLabels)
  /\ connected /\ sendRegistered => SomeHand("send", SendLabels)
  /\ connected /\ sendQueue # <<>> /\ "ignored" \notin met => sendRegistered
  /\ sendBuffers # <<>> => SomeHand("send", Writing)

RecvHand ==
  /\ OneHand("recv", RecvLabels)
  /\ connected /\ "ignored" \notin met => SomeHand("recv", RecvLabels)

\* After a call that failed the session is done for, or the error was ignored.
Failed == (\E t \in Threads : Busy(t, Broken)) => ~connected \/ "ignored" \in met

\* SentInOrder, in terms of who is in which call.
Sent ==
  connected /\ "ignored" \notin met =>
    wire \o (IF \E t \in Threads : Busy(t, {"wsaSend"}) THEN sendBuffers ELSE <<>>)
         \o sendQueue = pushed

Owned ==
  /\ "recv" \in owned <=> SomeHand("recv", Reader)
  /\ "send" \in owned <=> SomeHand("send", Sender)
  /\ "connect" \in owned <=> "connect" \in pending
  /\ "disconnect" \in owned <=> "disconnect" \in pending

AcceptHand ==
  /\ OneHand("accept", {"registerAccept"})
  /\ SomeHand("accept", {"registerAccept"}) <=> role = "server" /\ "started" \in met

ConnectHand ==
  /\ OneHand("connect", {"registerConnect"})
  /\ SomeHand("connect", {"registerConnect"}) => role = "client" /\ "started" \in met

\* Nobody has used the session yet.
Untouched ==
  /\ ~sendRegistered /\ ~inService /\ ~managed
  /\ sendQueue = <<>> /\ sendBuffers = <<>> /\ pushed = <<>> /\ wire = <<>>
  /\ pending \subseteq {"connect", "accept"}
  /\ met \subseteq {"started", "refused", "accepted"}

\* The session has still to be connected.
Opening ==
  \/ "started" \notin met
  \/ SomeHand("connect", {"registerConnect"})
  \/ role = "server" /\ "accepted" \notin met

Opened ==
  Opening => /\ Untouched /\ ~connected
             /\ \A t \in Threads : On(t) \subseteq Opener

\* The session has still to be added to the service, and is open till then.
Adding == \E t \in Threads : Busy(t, {"addSession"})

Added == Adding => connected /\ Untouched /\ \A t \in Threads : On(t) \subseteq Welcoming

\* A session is disconnected and released once, and it is in the service then.
EndsOnce ==
  /\ OneHand("disconnect", Ends)
  /\ connected \/ "released" \in met => ~SomeHand("disconnect", Ends)
  /\ connected => "released" \notin met
  /\ SomeHand("disconnect", Ends) => inService
  /\ connected => inService \/ Adding
  /\ "crashed" \notin met

\* A server's OnConnected runs, and nobody has used the session early.
Connecting == /\ role = "server" /\ "early" \notin met
              /\ \E t \in Threads : Busy(t, {"onConnected"})

Managing ==
  /\ role = "client" => ~managed
  /\ "early" \notin met /\ ("released" \in met \/ \E t \in Threads : Busy(t, {"release"}))
       => ~managed
  /\ Connecting => /\ connected /\ pending \subseteq {"accept"}
                   /\ \A t \in Threads : On(t) \subseteq Welcoming

Pushing == {t \in Threads : Busy(t, {"push"})}

\* There is a message for every thread that is about to push one.
Room == Len(pushed) + Cardinality(Pushing) <= Cardinality(Messages)

\* No message is counted twice.
Lengths ==
  /\ "send" \in pending =>
       /\ Len(sendBuffers) <= Len(wire)
       /\ Len(wire) + Len(sendQueue) <= Len(pushed)
  /\ "send" \notin pending =>
       Len(wire) + Len(sendBuffers) + Len(sendQueue) <= Len(pushed)

IInv ==
  /\ Types /\ SendHand /\ RecvHand /\ Failed /\ Sent /\ Owned
  /\ AcceptHand /\ ConnectHand /\ Opened /\ Added /\ EndsOnce /\ Managing
  /\ Room /\ Lengths

-----------------------------------------------------------------------------
(* Lemmas about the stacks *)

(* A sequence that is not empty is its head on top of its tail.             *)
LEMMA HeadOnTail ==
  ASSUME NEW S, NEW s \in Seq(S), s # <<>>
  PROVE  /\ Head(s) \in S /\ Tail(s) \in Seq(S)
         /\ Elems(s) = {Head(s)} \cup Elems(Tail(s))
<1>1. Head(s) \in S /\ Tail(s) \in Seq(S) /\ Len(s) \in Nat \ {0} /\ s \in [1..Len(s) -> S]
  BY SMT
<1>2. PICK n \in Nat : Len(s) = n + 1
  <2>1. Len(s) - 1 \in Nat /\ Len(s) = (Len(s) - 1) + 1
    BY <1>1, SMT
  <2> QED BY <2>1
<1>3. Len(Tail(s)) = n /\ \A i \in 1..n : Tail(s)[i] = s[i + 1]
  BY <1>1, <1>2, SMT
<1>4. Head(s) = s[1]
  BY SMT
<1>5. ASSUME NEW x
      PROVE  x \in Elems(s) <=> x = Head(s) \/ x \in Elems(Tail(s))
  <2>1. ASSUME NEW i \in 1..(n + 1), x = s[i]
        PROVE  x = Head(s) \/ x \in Elems(Tail(s))
    <3>1. CASE i = 1
      BY <2>1, <3>1, <1>4
    <3>2. CASE i # 1
      <4>1. i - 1 \in 1..n /\ (i - 1) + 1 = i
        BY <3>2, SMT
      <4> QED BY <4>1, <2>1, <1>3 DEF Elems
    <3> QED BY <3>1, <3>2
  <2>2. ASSUME NEW i \in 1..n, x = Tail(s)[i]
        PROVE  x \in Elems(s)
    <3>1. i + 1 \in 1..(n + 1)
      BY SMT
    <3> QED BY <3>1, <2>2, <1>2, <1>3 DEF Elems
  <2>3. x = Head(s) => x \in Elems(s)
    <3>1. 1 \in 1..(n + 1)
      BY SMT
    <3> QED BY <3>1, <1>2, <1>4 DEF Elems
  <2> QED BY <2>1, <2>2, <2>3, <1>2, <1>3 DEF Elems
<1> QED BY <1>1, <1>5

(* A label on top of a sequence is its head.                                *)
LEMMA LabelOnTop ==
  ASSUME NEW S, NEW a \in S, NEW r \in Seq(S)
  PROVE  /\ <<a>> \o r \in Seq(S) /\ <<a>> \o r # <<>>
         /\ Head(<<a>> \o r) = a /\ Tail(<<a>> \o r) = r
<1> DEFINE s == <<a>> \o r
<1>1. s \in Seq(S) /\ Len(s) = Len(r) + 1
  BY SMT
<1>2. s[1] = a /\ \A i \in 1..Len(r) : s[i + 1] = r[i]
  BY SMT
<1>3. s # <<>> /\ Head(s) = a
  BY <1>1, <1>2, SMT
<1>4. Tail(s) \in Seq(S) /\ Len(Tail(s)) = Len(r)
  BY <1>1, <1>3, SMT
<1>5. \A i \in 1..Len(r) : Tail(s)[i] = s[i + 1]
  BY <1>1, <1>3, SMT
<1>6. Tail(s) = r
  BY <1>2, <1>4, <1>5, SeqEqual
<1> QED BY <1>1, <1>3, <1>6

(* The literal stacks, each a label on top of a shorter one.                *)
LEMMA Literals ==
  /\ Elems(<<>>) = {}
  /\ \A S : <<>> \in Seq(S) /\ \A r \in Seq(S) : <<>> \o r = r
  /\ \A a, b : <<a, b>> = <<a>> \o <<b>>
  /\ \A a, b, c : <<a, b, c>> = <<a>> \o <<b, c>>
  /\ \A a, b, c, d : <<a, b, c, d>> = <<a>> \o <<b, c, d>>
<1>1. Elems(<<>>) = {}
  BY SMT DEF Elems
<1>2. \A S : <<>> \in Seq(S) /\ \A r \in Seq(S) : <<>> \o r = r
  BY SMT
<1>3. ASSUME NEW a, NEW b
      PROVE  <<a, b>> = <<a>> \o <<b>>
  <2>1. <<a, b>> \in Seq({a, b}) /\ <<a>> \in Seq({a, b}) /\ <<b>> \in Seq({a, b})
    BY SMT
  <2>2. Len(<<a, b>>) = 2 /\ Len(<<a>> \o <<b>>) = 2 /\ <<a>> \o <<b>> \in Seq({a, b})
    BY <2>1, SMT
  <2>3. (<<a>> \o <<b>>)[1] = a /\ (<<a>> \o <<b>>)[2] = b
    BY <2>1, SMT
  <2>4. <<a, b>>[1] = a /\ <<a, b>>[2] = b
    BY SMT
  <2>5. 1..2 = {1, 2}
    BY SMT
  <2>6. \A i \in 1..2 : <<a, b>>[i] = (<<a>> \o <<b>>)[i]
    BY <2>3, <2>4, <2>5
  <2> QED BY <2>1, <2>2, <2>6, SeqEqual
<1>4. \A a, b, c : <<a, b, c>> = <<a>> \o <<b, c>>
  BY SMT
<1>5. \A a, b, c, d : <<a, b, c, d>> = <<a>> \o <<b, c, d>>
  BY SMT
<1> QED BY <1>1, <1>2, <1>3, <1>4, <1>5
(* A call that may be made from the top of a stack gives a stack.           *)
LEMMA OnStack ==
  ASSUME NEW a \in Labels, NEW r \in Stacks, r \in Below(a)
  PROVE  /\ <<a>> \o r \in Stacks /\ <<a>> \o r # <<>>
         /\ Head(<<a>> \o r) = a /\ Tail(<<a>> \o r) = r
         /\ Elems(<<a>> \o r) = {a} \cup Elems(r)
<1>1. r \in Seq(Labels)
  BY DEF Stacks
<1>2. /\ <<a>> \o r \in Seq(Labels) /\ <<a>> \o r # <<>>
      /\ Head(<<a>> \o r) = a /\ Tail(<<a>> \o r) = r
  BY <1>1, LabelOnTop
<1>3. Elems(<<a>> \o r) = {a} \cup Elems(r)
  BY <1>2, HeadOnTail
<1> QED BY <1>2, <1>3 DEF Stacks

(* The stacks with one call, which is called by nothing or by a completion. *)
LEMMA OneCall ==
  /\ <<>> \in Stacks /\ Elems(<<>>) = {}
  /\ \A a \in Labels \ {"addSession", "onConnected", "onRecv"} :
       <<a>> \in Stacks /\ Elems(<<a>>) = {a}
<1>1. <<>> \in Stacks /\ Elems(<<>>) = {}
  BY Literals DEF Stacks
<1>2. ASSUME NEW a \in Labels \ {"addSession", "onConnected", "onRecv"}
      PROVE  <<a>> \in Stacks /\ Elems(<<a>>) = {a}
  <2>1. <<>> \in Below(a)
    BY DEF Below, Content, Sending, Accepting, Labels
  <2>2. <<a>> \o <<>> = <<a>>
    BY SMT
  <2>3. a \in Labels
    OBVIOUS
  <2>4. <<a>> \o <<>> \in Stacks /\ Elems(<<a>> \o <<>>) = {a} \cup Elems(<<>>)
    BY <1>1, <2>1, <2>3, OnStack
  <2> QED BY <1>1, <2>2, <2>4
<1> QED BY <1>1, <1>2

(* The stacks with more calls that others are made from.                    *)
LEMMA MoreCalls ==
  /\ \A a \in {"onRecv", "onConnected"} :
       <<a, "registerRecv">> \in Stacks /\ Elems(<<a, "registerRecv">>) = {a, "registerRecv"}
  /\ \A a \in {"recvFailed", "registerRecv"} :
       <<a, "registerAccept">> \in Stacks /\ Elems(<<a, "registerAccept">>) = {a, "registerAccept"}
  /\ \A a \in {"sendFailed", "registerSend"} :
       <<a, "unlock">> \in Stacks /\ Elems(<<a, "unlock">>) = {a, "unlock"}
  /\ \A a \in {"onRecv", "onConnected"} :
       /\ <<"sendFailed", a, "registerRecv">> \in Stacks
       /\ Elems(<<"sendFailed", a, "registerRecv">>) = {"sendFailed", a, "registerRecv"}
  /\ <<"onConnected", "registerRecv", "registerAccept">> \in Stacks
  /\ Elems(<<"onConnected", "registerRecv", "registerAccept">>) =
        {"onConnected", "registerRecv", "registerAccept"}
  /\ <<"sendFailed", "onConnected", "registerRecv", "registerAccept">> \in Stacks
  /\ Elems(<<"sendFailed", "onConnected", "registerRecv", "registerAccept">>) =
        {"sendFailed", "onConnected", "registerRecv", "registerAccept"}
<1>1. ASSUME NEW a \in {"onRecv", "onConnected"}
      PROVE  /\ <<a, "registerRecv">> \in Stacks
             /\ Elems(<<a, "registerRecv">>) = {a, "registerRecv"}
  <2>1. <<"registerRecv">> \in Below(a) /\ a \in Labels /\ "registerRecv" \in Labels
    BY DEF Below, Labels
  <2> QED BY <2>1, OneCall, OnStack, Literals
<1>2. ASSUME NEW a \in {"recvFailed", "registerRecv"}
      PROVE  /\ <<a, "registerAccept">> \in Stacks
             /\ Elems(<<a, "registerAccept">>) = {a, "registerAccept"}
  <2>1. <<"registerAccept">> \in Below(a) /\ a \in Labels /\ "registerAccept" \in Labels
    BY DEF Below, Labels, Accepting
  <2> QED BY <2>1, OneCall, OnStack, Literals
<1>3. ASSUME NEW a \in {"sendFailed", "registerSend"}
      PROVE  /\ <<a, "unlock">> \in Stacks
             /\ Elems(<<a, "unlock">>) = {a, "unlock"}
  <2>1. <<"unlock">> \in Below(a) /\ a \in Labels /\ "unlock" \in Labels
    BY DEF Below, Labels, Sending
  <2> QED BY <2>1, OneCall, OnStack, Literals
<1>4. ASSUME NEW a \in {"onRecv", "onConnected"}
      PROVE  /\ <<"sendFailed", a, "registerRecv">> \in Stacks
             /\ Elems(<<"sendFailed", a, "registerRecv">>) = {"sendFailed", a, "registerRecv"}
  <2>1. <<a, "registerRecv">> \in Content \ {<<"sendNext">>}
    BY DEF Content
  <2>2. <<a, "registerRecv">> \in Below("sendFailed") /\ "sendFailed" \in Labels
    BY <2>1 DEF Below, Labels, Sending
  <2>3. <<"sendFailed", a, "registerRecv">> = <<"sendFailed">> \o <<a, "registerRecv">>
    BY Literals
  <2>4. {"sendFailed"} \cup {a, "registerRecv"} = {"sendFailed", a, "registerRecv"}
    OBVIOUS
  <2>5. /\ <<a, "registerRecv">> \in Stacks
        /\ Elems(<<a, "registerRecv">>) = {a, "registerRecv"}
    BY <1>1
  <2> DEFINE d == <<a, "registerRecv">>
             e == <<"sendFailed", a, "registerRecv">>
  <2>6. d \in Stacks /\ Elems(d) = {a, "registerRecv"} /\ d \in Below("sendFailed")
        /\ e = <<"sendFailed">> \o d
    BY <2>2, <2>3, <2>5
  <2> HIDE DEF d, e
  <2>7. e \in Stacks /\ Elems(e) = {"sendFailed"} \cup {a, "registerRecv"}
    BY <2>2, <2>6, OnStack
  <2> QED BY <2>4, <2>7 DEF e
<1> DEFINE c == <<"onConnected", "registerRecv", "registerAccept">>
<1>5. c \in Stacks /\ Elems(c) = {"onConnected", "registerRecv", "registerAccept"}
  <2>1. <<"registerRecv", "registerAccept">> \in Below("onConnected") /\ "onConnected" \in Labels
    BY DEF Below, Labels
  <2>2. c = <<"onConnected">> \o <<"registerRecv", "registerAccept">>
    BY Literals
  <2>3. /\ <<"registerRecv", "registerAccept">> \in Stacks
        /\ Elems(<<"registerRecv", "registerAccept">>) = {"registerRecv", "registerAccept"}
    BY <1>2
  <2> HIDE DEF c
  <2>4. c \in Stacks /\ Elems(c) = {"onConnected"} \cup {"registerRecv", "registerAccept"}
    BY <2>1, <2>2, <2>3, OnStack
  <2> QED BY <2>4
<1>6. /\ <<"sendFailed", "onConnected", "registerRecv", "registerAccept">> \in Stacks
      /\ Elems(<<"sendFailed", "onConnected", "registerRecv", "registerAccept">>) =
           {"sendFailed", "onConnected", "registerRecv", "registerAccept"}
  <2>1. c \in Below("sendFailed") /\ "sendFailed" \in Labels
    BY DEF Below, Labels, Sending, Content
  <2>2. <<"sendFailed", "onConnected", "registerRecv", "registerAccept">> = <<"sendFailed">> \o c
    BY Literals
  <2> DEFINE d == <<"sendFailed", "onConnected", "registerRecv", "registerAccept">>
  <2>3. d = <<"sendFailed">> \o c
    BY <2>2
  <2> HIDE DEF c, d
  <2>4. d \in Stacks /\ Elems(d) = {"sendFailed"} \cup Elems(c)
    BY <1>5, <2>1, <2>3, OnStack
  <2>5. Elems(d) = {"sendFailed", "onConnected", "registerRecv", "registerAccept"}
    BY <1>5, <2>4
  <2> QED BY <2>4, <2>5 DEF d
<1> QED BY <1>1, <1>2, <1>3, <1>4, <1>5, <1>6
(* What content code was called from, and what is in those stacks.          *)
LEMMA ContentCalls ==
  ASSUME NEW r \in Content
  PROVE  /\ r \in Stacks
         /\ Elems(r) \subseteq Under("push")
<1>1. CASE r = <<>>
  BY <1>1, OneCall
<1>2. CASE r = <<"sendNext">>
  <2>1. "sendNext" \in Labels \ {"addSession", "onConnected", "onRecv"}
    BY DEF Labels
  <2>2. r \in Stacks /\ Elems(r) = {"sendNext"}
    BY <1>2, <2>1, OneCall
  <2> QED BY <2>2 DEF Under
<1>3. CASE r = <<"onRecv", "registerRecv">>
  <2>1. r \in Stacks /\ Elems(r) = {"onRecv", "registerRecv"}
    BY <1>3, MoreCalls
  <2> QED BY <2>1 DEF Under
<1>4. CASE r = <<"onConnected", "registerRecv">>
  <2>1. r \in Stacks /\ Elems(r) = {"onConnected", "registerRecv"}
    BY <1>4, MoreCalls
  <2> QED BY <2>1 DEF Under
<1>5. CASE r = <<"onConnected", "registerRecv", "registerAccept">>
  <2>1. r \in Stacks /\ Elems(r) = {"onConnected", "registerRecv", "registerAccept"}
    BY <1>5, MoreCalls
  <2> QED BY <2>1 DEF Under
<1> QED BY <1>1, <1>2, <1>3, <1>4, <1>5 DEF Content

(* What the sender was called from: none of it is another send.             *)
LEMMA SendingCalls ==
  ASSUME NEW r \in Sending
  PROVE  /\ r \in Stacks
         /\ Elems(r) \subseteq Under("wsaSend")
<1>1. CASE r = <<>>
  BY <1>1, OneCall
<1>2. CASE r = <<"unlock">>
  <2>1. "unlock" \in Labels \ {"addSession", "onConnected", "onRecv"}
    BY DEF Labels
  <2>2. r \in Stacks /\ Elems(r) = {"unlock"}
    BY <1>2, <2>1, OneCall
  <2> QED BY <2>2 DEF Under
<1>3. CASE r = <<"onRecv", "registerRecv">>
  <2>1. r \in Stacks /\ Elems(r) = {"onRecv", "registerRecv"}
    BY <1>3, MoreCalls
  <2> QED BY <2>1 DEF Under
<1>4. CASE r = <<"onConnected", "registerRecv">>
  <2>1. r \in Stacks /\ Elems(r) = {"onConnected", "registerRecv"}
    BY <1>4, MoreCalls
  <2> QED BY <2>1 DEF Under
<1>5. CASE r = <<"onConnected", "registerRecv", "registerAccept">>
  <2>1. r \in Stacks /\ Elems(r) = {"onConnected", "registerRecv", "registerAccept"}
    BY <1>5, MoreCalls
  <2> QED BY <2>1 DEF Under
<1>6. \/ r = <<>> \/ r = <<"unlock">> \/ r = <<"onRecv", "registerRecv">>
      \/ r = <<"onConnected", "registerRecv">>
      \/ r = <<"onConnected", "registerRecv", "registerAccept">>
  <2>1. (r \in Content /\ r # <<"sendNext">>) \/ r = <<"unlock">>
    BY DEF Sending
  <2> QED BY <2>1 DEF Content
<1> QED BY <1>1, <1>2, <1>3, <1>4, <1>5, <1>6

(* What a disconnect after a failed call goes on with.                      *)
LEMMA FailingCalls ==
  ASSUME NEW r \in Failing
  PROVE  /\ r \in Stacks
         /\ Elems(r) \subseteq Under("disconnect")
<1>1. CASE r \in {<<"recvFailed">>, <<"sendFailed">>}
  <2>1. PICK a \in {"recvFailed", "sendFailed"} : r = <<a>>
    BY <1>1
  <2>2. a \in Labels \ {"addSession", "onConnected", "onRecv"}
    BY DEF Labels
  <2>3. r \in Stacks /\ Elems(r) = {a}
    BY <2>1, <2>2, OneCall
  <2> QED BY <2>3 DEF Under
<1>2. CASE r = <<"recvFailed", "registerAccept">>
  <2>1. r \in Stacks /\ Elems(r) = {"recvFailed", "registerAccept"}
    BY <1>2, MoreCalls
  <2> QED BY <2>1 DEF Under
<1>3. CASE r = <<"sendFailed", "unlock">>
  <2>1. r \in Stacks /\ Elems(r) = {"sendFailed", "unlock"}
    BY <1>3, MoreCalls
  <2> QED BY <2>1 DEF Under
<1>4. CASE r \in {<<"sendFailed", "onRecv", "registerRecv">>,
                  <<"sendFailed", "onConnected", "registerRecv">>}
  <2>1. PICK a \in {"onRecv", "onConnected"} : r = <<"sendFailed", a, "registerRecv">>
    BY <1>4
  <2>2. r \in Stacks /\ Elems(r) = {"sendFailed", a, "registerRecv"}
    BY <2>1, MoreCalls
  <2> QED BY <2>2 DEF Under
<1>5. CASE r = <<"sendFailed", "onConnected", "registerRecv", "registerAccept">>
  <2>1. r \in Stacks /\ Elems(r) = {"sendFailed", "onConnected", "registerRecv", "registerAccept"}
    BY <1>5, MoreCalls
  <2> QED BY <2>1 DEF Under
<1> QED BY <1>1, <1>2, <1>3, <1>4, <1>5 DEF Failing

(* What may be below a call is a stack, and holds only what Under tells.    *)
LEMMA BelowCalls ==
  ASSUME NEW a \in Labels, NEW r \in Below(a)
  PROVE  r \in Stacks /\ Elems(r) \subseteq Under(a)
<1>1. CASE a = "push"
  BY <1>1, ContentCalls DEF Below
<1>2. CASE a \in {"registerSend", "drain", "wsaSend", "sendFailed"}
  <2>1. r \in Sending /\ Under(a) = Under("wsaSend")
    BY <1>2 DEF Below, Under
  <2> QED BY <2>1, SendingCalls
<1>3. CASE a = "disconnect"
  <2>1. r \in Content \/ r \in Failing
    BY <1>3 DEF Below
  <2>2. Under("push") \subseteq Under("disconnect")
    BY DEF Under
  <2> QED BY <1>3, <2>1, <2>2, ContentCalls, FailingCalls
<1>4. CASE a = "addSession"
  <2>1. \/ r = <<"onConnected", "registerRecv">>
        \/ r = <<"onConnected", "registerRecv", "registerAccept">>
    BY <1>4 DEF Below
  <2>2. r \in Stacks
    BY <2>1, MoreCalls
  <2>3. \/ Elems(r) = {"onConnected", "registerRecv"}
        \/ Elems(r) = {"onConnected", "registerRecv", "registerAccept"}
    BY <2>1, MoreCalls
  <2> QED BY <1>4, <2>2, <2>3 DEF Under
<1>5. CASE a = "onConnected"
  <2>1. r = <<"registerRecv">> \/ r = <<"registerRecv", "registerAccept">>
    BY <1>5 DEF Below
  <2>2. "registerRecv" \in Labels \ {"addSession", "onConnected", "onRecv"}
    BY DEF Labels
  <2>3. r \in Stacks /\ (Elems(r) = {"registerRecv"} \/ Elems(r) = {"registerRecv", "registerAccept"})
    BY <2>1, <2>2, OneCall, MoreCalls
  <2> QED BY <1>5, <2>3 DEF Under
<1>6. CASE a = "onRecv"
  <2>1. r = <<"registerRecv">>
    BY <1>6 DEF Below
  <2>2. "registerRecv" \in Labels \ {"addSession", "onConnected", "onRecv"}
    BY DEF Labels
  <2>3. r \in Stacks /\ Elems(r) = {"registerRecv"}
    BY <2>1, <2>2, OneCall
  <2> QED BY <1>6, <2>3 DEF Under
<1>7. CASE a \in {"registerRecv", "wsaRecv", "recvFailed"}
  <2>1. r = <<>> \/ r = <<"registerAccept">>
    BY <1>7 DEF Below, Accepting
  <2>2. "registerAccept" \in Labels \ {"addSession", "onConnected", "onRecv"}
    BY DEF Labels
  <2>3. r \in Stacks /\ (Elems(r) = {} \/ Elems(r) = {"registerAccept"})
    BY <2>1, <2>2, OneCall
  <2> QED BY <1>7, <2>3 DEF Under
<1>8. CASE a \in {"sendNext", "unlock", "release", "registerConnect", "registerAccept"}
  <2>1. r = <<>>
    BY <1>8 DEF Below
  <2> QED BY <2>1, OneCall
<1> QED BY <1>1, <1>2, <1>3, <1>4, <1>5, <1>6, <1>7, <1>8 DEF Labels

(* What runs under a welcome or a message that was received.                *)
LEMMA ReceivingCalls ==
  ASSUME NEW a \in {"addSession", "onConnected", "onRecv"}, NEW r \in Below(a)
  PROVE  /\ "registerRecv" \in Elems(r)
         /\ a = "addSession" => "onConnected" \in Elems(r)
<1>1. \/ r = <<"onConnected", "registerRecv">>
      \/ r = <<"onConnected", "registerRecv", "registerAccept">>
      \/ a # "addSession" /\ (r = <<"registerRecv">> \/ r = <<"registerRecv", "registerAccept">>)
  BY DEF Below
<1>2. "registerRecv" \in Labels \ {"addSession", "onConnected", "onRecv"}
  BY DEF Labels
<1>3. \/ Elems(r) = {"onConnected", "registerRecv"}
      \/ Elems(r) = {"onConnected", "registerRecv", "registerAccept"}
      \/ a # "addSession" /\ (Elems(r) = {"registerRecv"} \/ Elems(r) = {"registerRecv", "registerAccept"})
  BY <1>1, <1>2, OneCall, MoreCalls
<1> QED BY <1>3
(* The call on top of a stack, and the calls below it.                      *)
LEMMA TopCall ==
  ASSUME NEW s \in Stacks, s # <<>>
  PROVE  /\ Head(s) \in Labels /\ Tail(s) \in Below(Head(s)) /\ Tail(s) \in Stacks
         /\ Elems(s) = {Head(s)} \cup Elems(Tail(s))
         /\ Elems(Tail(s)) \subseteq Under(Head(s))
         /\ Head(s) \notin Elems(Tail(s))
<1>1. s \in Seq(Labels) /\ Tail(s) \in Below(Head(s))
  BY DEF Stacks
<1>2. Head(s) \in Labels /\ Elems(s) = {Head(s)} \cup Elems(Tail(s))
  BY <1>1, HeadOnTail
<1>3. Tail(s) \in Stacks /\ Elems(Tail(s)) \subseteq Under(Head(s))
  BY <1>1, <1>2, BelowCalls
<1>4. \A a \in Labels : a \notin Under(a)
  BY DEF Under, Labels
<1> QED BY <1>1, <1>2, <1>3, <1>4

\* The calls that make no call of the session's own.
Leaves == Labels \ {"sendNext", "onRecv", "onConnected", "registerRecv", "registerAccept",
                    "unlock", "recvFailed", "sendFailed"}

(* A call that makes none of its own is on top of its stack.                *)
LEMMA LeafOnTop ==
  ASSUME NEW s \in Stacks, NEW a \in Leaves, a \in Elems(s)
  PROVE  s # <<>> /\ Head(s) = a
<1>1. s # <<>>
  BY OneCall
<1>2. \A b \in Labels : a \notin Under(b)
  BY DEF Under, Leaves
<1> QED BY <1>1, <1>2, TopCall

(* A stack with a call of content code on top may make content's calls.     *)
LEMMA ContentTop ==
  ASSUME NEW s \in Stacks, s = <<>> \/ Head(s) \in {"onConnected", "onRecv", "sendNext"}
  PROVE  s \in Content
<1>1. CASE s = <<>>
  BY <1>1 DEF Content
<1>2. CASE s # <<>>
  <2>1. s \in Seq(Labels) /\ Tail(s) \in Below(Head(s))
    BY <1>2 DEF Stacks
  <2>2. s = <<Head(s)>> \o Tail(s)
    BY <1>2, <2>1, SMT
  <2>3. Head(s) \in {"onConnected", "onRecv", "sendNext"}
    BY <1>2
  <2>4. \/ Head(s) = "onConnected" /\ Tail(s) = <<"registerRecv">>
        \/ Head(s) = "onConnected" /\ Tail(s) = <<"registerRecv", "registerAccept">>
        \/ Head(s) = "onRecv" /\ Tail(s) = <<"registerRecv">>
        \/ Head(s) = "sendNext" /\ Tail(s) = <<>>
    BY <2>1, <2>3 DEF Below
  <2>5. <<"sendNext">> \o <<>> = <<"sendNext">>
    BY SMT
  <2>6. \/ s = <<"onConnected">> \o <<"registerRecv">>
        \/ s = <<"onConnected">> \o <<"registerRecv", "registerAccept">>
        \/ s = <<"onRecv">> \o <<"registerRecv">>
        \/ s = <<"sendNext">>
    BY <2>2, <2>4, <2>5
  <2>7. \/ s = <<"onConnected", "registerRecv">>
        \/ s = <<"onConnected", "registerRecv", "registerAccept">>
        \/ s = <<"onRecv", "registerRecv">>
        \/ s = <<"sendNext">>
    <3>1. \A a, b : <<a, b>> = <<a>> \o <<b>>
      BY Literals
    <3>2. \A a, b, c : <<a, b, c>> = <<a>> \o <<b, c>>
      BY Literals
    <3>3. <<"onConnected", "registerRecv">> = <<"onConnected">> \o <<"registerRecv">>
      BY <3>1, Zenon
    <3>4. <<"onRecv", "registerRecv">> = <<"onRecv">> \o <<"registerRecv">>
      BY <3>1, Zenon
    <3>5. <<"onConnected", "registerRecv", "registerAccept">>
            = <<"onConnected">> \o <<"registerRecv", "registerAccept">>
      BY <3>2, Zenon
    <3> QED BY <2>6, <3>3, <3>4, <3>5, Zenon
  <2> QED BY <2>7 DEF Content
<1> QED BY <1>1, <1>2

-----------------------------------------------------------------------------
(* What a step does to the calls *)

\* t leaves these calls and makes those, and nobody else's calls change.
Moves(t, gone, come) ==
  /\ stack' \in [Threads -> Stacks]
  /\ On(t)' = (On(t) \ gone) \cup come
  /\ \A u \in Threads \ {t} : On(u)' = On(u)

(* A step that gives one thread a stack of its own moves nobody else.       *)
LEMMA StackMoves ==
  ASSUME Types, NEW t \in Threads, NEW q \in Stacks, stack' = [stack EXCEPT ![t] = q],
         NEW gone, NEW come, Elems(q) = (On(t) \ gone) \cup come
  PROVE  Moves(t, gone, come)
<1>1. stack \in [Threads -> Stacks]
  BY DEF Types
<1>2. stack' \in [Threads -> Stacks] /\ stack'[t] = q
  BY <1>1
<1>3. \A u \in Threads \ {t} : stack'[u] = stack[u]
  BY <1>1
<1>4. On(t)' = Elems(q)
  BY <1>2 DEF On
<1>5. \A u \in Threads \ {t} : On(u)' = On(u)
  BY <1>3 DEF On
<1> QED BY <1>2, <1>4, <1>5 DEF Moves

(* A thread in a call, and what it was called from.                         *)
LEMMA AtCall ==
  ASSUME Types, NEW t \in Threads, NEW a \in Labels, At(t, a)
  PROVE  /\ stack[t] \in Stacks /\ Rest(t) \in Below(a) /\ Rest(t) \in Stacks
         /\ a \in On(t) /\ On(t) \ {a} = Elems(Rest(t))
         /\ On(t) \subseteq {a} \cup Under(a)
<1>1. stack[t] \in Stacks /\ stack[t] # <<>> /\ Head(stack[t]) = a
  BY DEF Types, At
<1>2. /\ Rest(t) \in Below(a) /\ Rest(t) \in Stacks
      /\ On(t) = {a} \cup Elems(Rest(t)) /\ Elems(Rest(t)) \subseteq Under(a)
      /\ a \notin Elems(Rest(t))
  BY <1>1, TopCall DEF Rest, On
<1> QED BY <1>1, <1>2

(* A call that returns.                                                     *)
LEMMA Returns ==
  ASSUME Types, NEW t \in Threads, NEW a \in Labels, At(t, a), Then(t, <<>>, Rest(t))
  PROVE  Moves(t, {a}, {})
<1>1. Rest(t) \in Stacks /\ On(t) \ {a} = Elems(Rest(t))
  BY AtCall
<1>2. <<>> \o Rest(t) = Rest(t)
  BY <1>1, Literals DEF Stacks
<1>3. PICK q \in Stacks : q = Rest(t)
  BY <1>1
<1>4. stack' = [stack EXCEPT ![t] = q]
  BY <1>2, <1>3 DEF Then
<1>5. Elems(q) = (On(t) \ {a}) \cup {}
  BY <1>1, <1>3
<1> QED BY <1>3, <1>4, <1>5, StackMoves

(* A call that goes on as another one.                                      *)
LEMMA GoesOn ==
  ASSUME Types, NEW t \in Threads, NEW a \in Labels, NEW b \in Labels, At(t, a),
         Rest(t) \in Below(b), Then(t, <<b>>, Rest(t))
  PROVE  Moves(t, {a}, {b})
<1>1. Rest(t) \in Stacks /\ On(t) \ {a} = Elems(Rest(t))
  BY AtCall
<1>2. PICK q : q = <<b>> \o Rest(t)
  OBVIOUS
<1>3. q \in Stacks /\ Elems(q) = {b} \cup Elems(Rest(t))
  BY <1>1, <1>2, OnStack
<1>4. stack' = [stack EXCEPT ![t] = q]
  BY <1>2 DEF Then
<1>5. Elems(q) = (On(t) \ {a}) \cup {b}
  BY <1>1, <1>3
<1> QED BY <1>3, <1>4, <1>5, StackMoves

(* A call that is made from the top of a stack.                             *)
LEMMA Makes ==
  ASSUME Types, NEW t \in Threads, NEW b \in Labels, stack[t] \in Below(b),
         Then(t, <<b>>, stack[t])
  PROVE  Moves(t, {}, {b})
<1>1. stack[t] \in Stacks
  BY DEF Types
<1>2. PICK q : q = <<b>> \o stack[t]
  OBVIOUS
<1>3. q \in Stacks /\ Elems(q) = {b} \cup Elems(stack[t])
  BY <1>1, <1>2, OnStack
<1>4. stack' = [stack EXCEPT ![t] = q]
  BY <1>2 DEF Then
<1>5. Elems(q) = (On(t) \ {}) \cup {b}
  BY <1>3 DEF On
<1> QED BY <1>3, <1>4, <1>5, StackMoves

(* An idle thread is in no call, and takes one up.                          *)
LEMMA IdleCalls ==
  ASSUME Types, NEW t \in Threads, Idle(t)
  PROVE  On(t) = {}
BY OneCall DEF Idle, On

(* A completion begins on an empty stack.                                   *)
LEMMA Begins ==
  ASSUME Types, NEW t \in Threads, Idle(t), NEW q \in Stacks, Then(t, q, <<>>)
  PROVE  Moves(t, {}, Elems(q))
<1>1. On(t) = {}
  BY IdleCalls
<1>2. q \o <<>> = q
  BY SMT DEF Stacks
<1>3. stack' = [stack EXCEPT ![t] = q]
  BY <1>2 DEF Then
<1>4. Elems(q) = (On(t) \ {}) \cup Elems(q)
  BY <1>1
<1> QED BY <1>3, <1>4, StackMoves
-----------------------------------------------------------------------------
(* What a step leaves alone *)

\* The same threads are in these calls.
Same(labels) == \A u \in Threads : Busy(u, labels)' <=> Busy(u, labels)

(* Who is in other calls than those a step ends and makes stays in them.    *)
LEMMA Elsewhere ==
  ASSUME NEW t \in Threads, NEW gone, NEW come, Moves(t, gone, come),
         NEW labels, labels \cap (gone \cup come) = {}
  PROVE  Same(labels)
BY DEF Moves, Same, Busy

(* A call that goes on as another of these, or makes one while in one.      *)
LEMMA Within ==
  ASSUME NEW t \in Threads, NEW gone, NEW come, Moves(t, gone, come),
         NEW labels, Busy(t, labels), \E b \in labels : b \in (On(t) \ gone) \cup come
  PROVE  Same(labels)
BY DEF Moves, Same, Busy

(* A thread that leaves these calls: nobody else's change.                  *)
LEMMA Leaving ==
  ASSUME NEW t \in Threads, NEW gone, NEW come, Moves(t, gone, come),
         NEW labels, \A b \in labels : b \notin (On(t) \ gone) \cup come
  PROVE  /\ ~Busy(t, labels)'
         /\ \A u \in Threads \ {t} : Busy(u, labels)' <=> Busy(u, labels)
BY DEF Moves, Busy

(* A thread that enters these calls: nobody else's change.                  *)
LEMMA Entering ==
  ASSUME NEW t \in Threads, NEW gone, NEW come, Moves(t, gone, come),
         NEW labels, \E b \in labels : b \in (On(t) \ gone) \cup come
  PROVE  /\ Busy(t, labels)'
         /\ \A u \in Threads \ {t} : Busy(u, labels)' <=> Busy(u, labels)
BY DEF Moves, Busy

(* The parts of the invariant, each kept by a step that does not touch it.  *)
LEMMA SendHandFrame ==
  ASSUME SendHand, Same(SendLabels), Same(Writing), UNCHANGED sendState,
         "send" \in pending' <=> "send" \in pending, connected' => connected, met \subseteq met'
  PROVE  SendHand'
BY DEF SendHand, Same, sendState, OneHand, SomeHand

(* The same of the receive.                                                 *)
LEMMA RecvHandFrame ==
  ASSUME RecvHand, Same(RecvLabels),
         "recv" \in pending' <=> "recv" \in pending, connected' => connected, met \subseteq met'
  PROVE  RecvHand'
BY DEF RecvHand, Same, OneHand, SomeHand

(* The same of the calls that failed.                                       *)
LEMMA FailedFrame ==
  ASSUME Failed, Same(Broken), connected' => connected, met \subseteq met'
  PROVE  Failed'
BY DEF Failed, Same

(* The same of the order of the messages.                                   *)
LEMMA SentFrame ==
  ASSUME Sent, Same({"wsaSend"}), UNCHANGED <<sendState, wire, pushed>>,
         connected' => connected, met \subseteq met'
  PROVE  Sent'
<1>1. (\E t \in Threads : Busy(t, {"wsaSend"}))' <=> \E t \in Threads : Busy(t, {"wsaSend"})
  BY DEF Same
<1> QED BY <1>1 DEF Sent, sendState

(* The same of the references.                                              *)
LEMMA OwnedFrame ==
  ASSUME Owned, Same(Reader), Same(Sender), UNCHANGED io
  PROVE  Owned'
BY DEF Owned, Same, SomeHand, io

(* The same of the listener's event.                                        *)
LEMMA AcceptHandFrame ==
  ASSUME AcceptHand, Same({"registerAccept"}), "accept" \in pending' <=> "accept" \in pending,
         UNCHANGED role, "started" \in met' <=> "started" \in met
  PROVE  AcceptHand'
BY DEF AcceptHand, Same, OneHand, SomeHand

(* The same of the connect.                                                 *)
LEMMA ConnectHandFrame ==
  ASSUME ConnectHand, Same({"registerConnect"}), "connect" \in pending' <=> "connect" \in pending,
         UNCHANGED role, "started" \in met' <=> "started" \in met
  PROVE  ConnectHand'
BY DEF ConnectHand, Same, OneHand, SomeHand

(* A session that has been connected stays so.                              *)
LEMMA OpenedFrame ==
  ASSUME ~Opening, Same({"registerConnect"}), "connect" \in pending' => "connect" \in pending,
         UNCHANGED role, met \subseteq met'
  PROVE  Opened'
BY DEF Opened, Opening, Same, SomeHand

(* A session is not added again.                                            *)
LEMMA AddedFrame ==
  ASSUME ~Adding, Same({"addSession"})
  PROVE  ~Adding' /\ Added'
BY DEF Added, Adding, Same

(* A session that is neither disconnected nor released by this step.        *)
LEMMA EndsOnceFrame ==
  ASSUME EndsOnce, Same(Ends), Same({"addSession"}),
         "disconnect" \in pending' <=> "disconnect" \in pending, UNCHANGED inService,
         connected' => connected, "released" \in met' <=> "released" \in met, "crashed" \notin met'
  PROVE  EndsOnce'
BY DEF EndsOnce, Adding, Same, OneHand, SomeHand

(* The manager is not touched, and OnConnected is done.                     *)
LEMMA ManagingFrame ==
  ASSUME Managing, Same({"release"}), ~Connecting', UNCHANGED <<role, managed>>,
         "released" \in met' <=> "released" \in met, met \subseteq met'
  PROVE  Managing'
BY DEF Managing, Same

(* Nobody begins to push.                                                   *)
LEMMA RoomFrame ==
  ASSUME Room, Same({"push"}), UNCHANGED pushed
  PROVE  Room'
<1>1. Pushing' = Pushing
  BY DEF Pushing, Same
<1> QED BY <1>1 DEF Room

(* No message moves.                                                        *)
LEMMA LengthsFrame ==
  ASSUME Lengths, UNCHANGED <<sendState, wire, pushed>>,
         "send" \in pending' <=> "send" \in pending
  PROVE  Lengths'
BY DEF Lengths, sendState
\* Nobody begins or ends to send, to receive, to open the session, to end it.
SendStays == /\ Same(SendLabels) /\ Same(Writing) /\ Same(Sender)
             /\ Same({"wsaSend"}) /\ Same({"push"})
RecvStays == /\ Same(RecvLabels) /\ Same(Reader)
             /\ Same({"addSession"}) /\ Same({"onConnected"})
OpenStays == Same({"registerAccept"}) /\ Same({"registerConnect"})
EndsStay  == Same(Ends) /\ Same({"release"})

(* Which calls a step does not change, by the calls it ends and makes.      *)
LEMMA Stays ==
  ASSUME NEW t \in Threads, NEW gone, NEW come, Moves(t, gone, come)
  PROVE  /\ (SendLabels \cup {"push"}) \cap (gone \cup come) = {} => SendStays
         /\ RecvLabels \cap (gone \cup come) = {} => RecvStays
         /\ Opener \cap (gone \cup come) = {} => OpenStays
         /\ Ends \cap (gone \cup come) = {} => EndsStay
         /\ Broken \cap (gone \cup come) = {} => Same(Broken)
<1>0. ASSUME NEW labels, labels \cap (gone \cup come) = {}
      PROVE  Same(labels)
  BY <1>0, Elsewhere
<1>1. ASSUME NEW labels, NEW all, labels \subseteq all, all \cap (gone \cup come) = {}
      PROVE  Same(labels)
  <2>1. labels \cap (gone \cup come) = {}
    BY <1>1
  <2> QED BY <2>1, <1>0
<1>2. /\ SendLabels \subseteq SendLabels \cup {"push"} /\ Writing \subseteq SendLabels \cup {"push"}
      /\ Sender \subseteq SendLabels \cup {"push"} /\ {"wsaSend"} \subseteq SendLabels \cup {"push"}
      /\ {"push"} \subseteq SendLabels \cup {"push"}
  BY DEF SendLabels, Writing, Sender
<1>3. /\ Reader \subseteq RecvLabels /\ {"addSession"} \subseteq RecvLabels
      /\ {"onConnected"} \subseteq RecvLabels
  BY DEF RecvLabels, Reader
<1>4. {"registerAccept"} \subseteq Opener /\ {"registerConnect"} \subseteq Opener
  BY DEF Opener
<1>5. {"release"} \subseteq Ends
  BY DEF Ends
<1>6. (SendLabels \cup {"push"}) \cap (gone \cup come) = {} => SendStays
  BY <1>1, <1>2 DEF SendStays
<1>7. RecvLabels \cap (gone \cup come) = {} => RecvStays
  BY <1>0, <1>1, <1>3 DEF RecvStays
<1>8. Opener \cap (gone \cup come) = {} => OpenStays
  BY <1>1, <1>4 DEF OpenStays
<1>9. Ends \cap (gone \cup come) = {} => EndsStay
  BY <1>0, <1>1, <1>5 DEF EndsStay
<1>10. Broken \cap (gone \cup come) = {} => Same(Broken)
  BY <1>0
<1> QED BY <1>6, <1>7, <1>8, <1>9, <1>10

\* What the send needs of a step that is not about it.
SendUntold ==
  /\ SendStays /\ UNCHANGED <<sendState, wire, pushed>>
  /\ "send" \in pending' <=> "send" \in pending
  /\ connected' => connected
  /\ met \subseteq met'

(* A step that is not about the send.                                       *)
LEMMA SendFrame ==
  ASSUME IInv, SendUntold
  PROVE  SendHand' /\ Sent' /\ Room' /\ Lengths'
<1>1. SendHand'
  BY SendHandFrame DEF IInv, SendUntold, SendStays
<1>2. Sent'
  BY SentFrame DEF IInv, SendUntold, SendStays
<1>3. Room'
  BY RoomFrame DEF IInv, SendUntold, SendStays
<1>4. Lengths'
  BY LengthsFrame DEF IInv, SendUntold, SendStays
<1> QED BY <1>1, <1>2, <1>3, <1>4

\* What the listener and the connect need of a step that is not about them.
OpenUntold ==
  /\ OpenStays /\ UNCHANGED role
  /\ "accept" \in pending' <=> "accept" \in pending
  /\ "connect" \in pending' <=> "connect" \in pending
  /\ "started" \in met' <=> "started" \in met

(* A step that is not about the listener or the connect.                    *)
LEMMA OpenFrame ==
  ASSUME IInv, OpenUntold
  PROVE  AcceptHand' /\ ConnectHand'
<1>1. AcceptHand'
  BY AcceptHandFrame DEF IInv, OpenUntold, OpenStays
<1>2. ConnectHand'
  BY ConnectHandFrame DEF IInv, OpenUntold, OpenStays
<1> QED BY <1>1, <1>2

\* What the other parts need of a step of a session that is open.
LifeUntold ==
  /\ ~Opening /\ ~Adding
  /\ OpenStays /\ Same({"addSession"}) /\ Same(Ends) /\ Same({"release"})
  /\ UNCHANGED <<role, inService, managed>>
  /\ "connect" \in pending' => "connect" \in pending
  /\ "disconnect" \in pending' <=> "disconnect" \in pending
  /\ connected' => connected
  /\ met \subseteq met' /\ "crashed" \notin met'
  /\ "released" \in met' <=> "released" \in met
  /\ ~Connecting'

(* A step of an open session that does not end it.                          *)
LEMMA LifeFrame ==
  ASSUME IInv, LifeUntold
  PROVE  Opened' /\ Added' /\ EndsOnce' /\ Managing'
<1>1. Opened'
  BY OpenedFrame DEF LifeUntold, OpenStays
<1>2. Added'
  BY AddedFrame DEF LifeUntold
<1>3. EndsOnce'
  BY EndsOnceFrame DEF IInv, LifeUntold
<1>4. Managing'
  BY ManagingFrame DEF IInv, LifeUntold
<1> QED BY <1>1, <1>2, <1>3, <1>4

(* OnConnected is done and stays so.                                        *)
LEMMA ConnectingFrame ==
  ASSUME ~Connecting, Same({"onConnected"}), UNCHANGED role, met \subseteq met'
  PROVE  ~Connecting'
BY DEF Connecting, Same

(* A session that is used in any other call has been opened; in a call      *)
(* that no welcome makes, it has been added, and OnConnected is done.       *)
LEMMA InUse ==
  ASSUME IInv, NEW t \in Threads, NEW a \in Labels \ Opener, a \in On(t)
  PROVE  ~Opening /\ (a \notin Welcoming => ~Adding /\ ~Connecting)
<1>1. Opened /\ Added /\ Managing
  BY DEF IInv
<1>2. ~Opening
  BY <1>1 DEF Opened
<1>3. a \notin Welcoming => ~Adding
  BY <1>1 DEF Added
<1>4. a \notin Welcoming => ~Connecting
  BY <1>1 DEF Managing
<1> QED BY <1>2, <1>3, <1>4

(* The reader is the thread that welcomed, and has done so.                 *)
LEMMA Reading ==
  ASSUME IInv, NEW t \in Threads, NEW a \in RecvLabels \ {"addSession"}, At(t, a)
  PROVE  ~Opening /\ ~Adding /\ (a # "onConnected" => ~Connecting)
<1>1. Types /\ RecvHand /\ a \in Labels \ Opener
  BY DEF IInv, RecvLabels, Labels, Opener
<1>2. stack[t] \in Stacks /\ a \in On(t) /\ On(t) \subseteq {a} \cup Under(a)
  BY <1>1, AtCall
<1>3. Busy(t, RecvLabels)
  BY <1>2 DEF Busy
<1>4. "addSession" \notin On(t)
  <2>1. "addSession" \notin Under(a)
    BY DEF Under, RecvLabels
  <2> QED BY <1>2, <2>1
<1>5. ASSUME NEW u \in Threads, Busy(u, {"addSession"})
      PROVE  FALSE
  <2>1. Busy(u, RecvLabels) /\ "addSession" \in On(u)
    BY <1>5 DEF Busy, RecvLabels
  <2>2. u = t
    BY <1>1, <1>3, <2>1 DEF RecvHand, OneHand
  <2> QED BY <1>4, <2>1, <2>2
<1>6. ASSUME a # "onConnected", NEW u \in Threads, Busy(u, {"onConnected"})
      PROVE  FALSE
  <2>1. Busy(u, RecvLabels) /\ "onConnected" \in On(u)
    BY <1>6 DEF Busy, RecvLabels
  <2>2. u = t
    BY <1>1, <1>3, <2>1 DEF RecvHand, OneHand
  <2>3. "onConnected" \notin Under(a)
    BY <1>6 DEF Under, RecvLabels
  <2> QED BY <1>2, <1>6, <2>1, <2>2, <2>3
<1>7. ~Opening
  BY <1>1, <1>2, InUse
<1> QED BY <1>5, <1>6, <1>7 DEF Adding, Connecting
-----------------------------------------------------------------------------
(* The steps of the send *)

(* A message appended to what follows is appended to the whole.             *)
LEMMA AppendAfter ==
  ASSUME NEW S, NEW p \in Seq(S), NEW q \in Seq(S), NEW m \in S
  PROVE  p \o Append(q, m) = Append(p \o q, m)
OBVIOUS

(* A step of a thread in a call of the send's own: the session is open, and *)
(* what the send does not touch is kept.                                    *)
LEMMA SendStepKeeps ==
  ASSUME IInv, NEW t \in Threads, NEW a \in SendLabels \cup {"push", "unlock"}, At(t, a), NEW gone, NEW come, Moves(t, gone, come),
         (gone \cup come) \cap (RecvLabels \cup Opener \cup Ends) = {},
         UNCHANGED service, connected' => connected, met \subseteq met',
         met' \subseteq met \cup {"ignored"},
         \A event \in Events \ {"send"} : event \in pending' <=> event \in pending
  PROVE  /\ RecvHand' /\ AcceptHand' /\ ConnectHand' /\ Opened' /\ Added' /\ EndsOnce' /\ Managing'
         /\ a \in On(t) /\ On(t) \subseteq {a} \cup Under(a)
         /\ RecvStays
<1>1. Types /\ a \in Labels \ Opener /\ a \notin Welcoming /\ "crashed" \notin met /\ RecvHand
  BY DEF IInv, Labels, Opener, Welcoming, EndsOnce, SendLabels
<1>2. a \in On(t) /\ On(t) \subseteq {a} \cup Under(a)
  BY <1>1, AtCall
<1>3. ~Opening /\ ~Adding /\ ~Connecting
  BY <1>1, <1>2, InUse
<1>4. RecvStays /\ OpenStays /\ EndsStay
  BY Stays
<1>5. \A event \in {"recv", "accept", "connect", "disconnect"} : event \in pending' <=> event \in pending
  BY DEF Events
<1>6. role' = role /\ inService' = inService /\ managed' = managed
  BY DEF service
<1>7. RecvHand'
  BY <1>1, <1>4, <1>5, RecvHandFrame DEF RecvStays
<1>8. AcceptHand' /\ ConnectHand'
  <2>1. OpenUntold
    BY <1>4, <1>5, <1>6 DEF OpenUntold
  <2> QED BY <2>1, OpenFrame
<1>9. ~Connecting'
  BY <1>3, <1>4, <1>6, ConnectingFrame DEF RecvStays
<1>10. Opened' /\ Added' /\ EndsOnce' /\ Managing'
  <2>1. "crashed" \notin met' /\ ("released" \in met' <=> "released" \in met)
    BY <1>1
  <2>2. LifeUntold
    BY <1>3, <1>4, <1>5, <1>6, <1>9, <2>1 DEF LifeUntold, RecvStays, EndsStay
  <2> QED BY <2>2, LifeFrame
<1> QED BY <1>2, <1>4, <1>7, <1>8, <1>10

(* Only one thread sends, and the kernel does not while it does.            *)
LEMMA SendingAlone ==
  ASSUME IInv, NEW t \in Threads, Busy(t, SendLabels)
  PROVE  /\ "send" \notin pending /\ sendRegistered
         /\ \A u \in Threads \ {t} : ~Busy(u, SendLabels) /\ ~Busy(u, Writing) /\ ~Busy(u, Sender)
                                     /\ ~Busy(u, {"wsaSend"})
<1>1. SendHand
  BY DEF IInv
<1>2. "send" \notin pending /\ sendRegistered /\ \A u \in Threads \ {t} : ~Busy(u, SendLabels)
  BY <1>1 DEF SendHand, OneHand, SomeHand
<1>3. \A u : Busy(u, Writing) \/ Busy(u, Sender) \/ Busy(u, {"wsaSend"}) => Busy(u, SendLabels)
  BY DEF Busy, Writing, Sender, SendLabels
<1> QED BY <1>2, <1>3

(* Session::Send's push: the message is the last of the queue, and whoever  *)
(* finds nobody sending sends.                                              *)
LEMMA PushMessageKept ==
  ASSUME IInv, NEW t \in Threads, NEW m \in Messages, PushMessage(t, m)
  PROVE  IInv'
<1>1. Types /\ At(t, "push") /\ "push" \in Labels /\ "registerSend" \in Labels
  BY DEF IInv, PushMessage, Labels
<1>2. PICK come : /\ Moves(t, {"push"}, come)
                  /\ \/ sendRegistered /\ come = {}
                     \/ ~sendRegistered /\ come = {"registerSend"}
  <2>1. CASE sendRegistered
    BY <1>1, <2>1, Returns DEF PushMessage
  <2>2. CASE ~sendRegistered
    <3>1. Rest(t) \in Content /\ Rest(t) \in Stacks /\ On(t) \ {"push"} = Elems(Rest(t))
      BY <1>1, AtCall DEF Below
    <3>2. "sendNext" \notin On(t)
      BY <1>1, <2>2 DEF IInv, SendHand, SomeHand, Busy, SendLabels
    <3>3. Rest(t) # <<"sendNext">>
      <4>1. "sendNext" \in Labels \ {"addSession", "onConnected", "onRecv"}
        BY DEF Labels
      <4> QED BY <3>1, <3>2, <4>1, OneCall
    <3>4. Rest(t) \in Below("registerSend")
      BY <3>1, <3>3 DEF Below, Sending
    <3> QED BY <1>1, <2>2, <3>4, GoesOn DEF PushMessage
  <2> QED BY <2>1, <2>2
<1>3. /\ sendQueue' = Append(sendQueue, m) /\ pushed' = Append(pushed, m) /\ sendRegistered'
      /\ UNCHANGED <<connected, service, sendBuffers, lock, io, met, wire>>
  BY DEF PushMessage
<1>4. /\ RecvHand' /\ AcceptHand' /\ ConnectHand' /\ Opened' /\ Added' /\ EndsOnce' /\ Managing'
      /\ "push" \in On(t) /\ RecvStays
  <2>1. ({"push"} \cup come) \cap (RecvLabels \cup Opener \cup Ends) = {}
    BY <1>2 DEF RecvLabels, Opener, Ends
  <2>2. "push" \in SendLabels \cup {"push", "unlock"}
    BY DEF SendLabels
  <2> QED BY <1>1, <1>2, <1>3, <2>1, <2>2, SendStepKeeps DEF io
<1>5. Types'
  BY <1>1, <1>2, <1>3 DEF Types, Moves, service, io
<1>6. /\ Same(Writing) /\ Same(Sender) /\ Same({"wsaSend"}) /\ Same(Broken)
  <2>1. \A labels \in {Writing, Sender, {"wsaSend"}, Broken} : labels \cap ({"push"} \cup come) = {}
    BY <1>2 DEF Writing, Sender, Broken
  <2> QED BY <1>2, <2>1, Elsewhere
<1>7. SendHand'
  <2>1. CASE sendRegistered
    <3>1. Same(SendLabels)
      <4>1. SendLabels \cap ({"push"} \cup come) = {}
        BY <1>2, <2>1 DEF SendLabels
      <4> QED BY <1>2, <4>1, Elsewhere
    <3> QED BY <1>3, <1>6, <2>1, <3>1 DEF IInv, SendHand, OneHand, SomeHand, Same, io
  <2>2. CASE ~sendRegistered
    <3>1. "send" \notin pending /\ \A u \in Threads : ~Busy(u, SendLabels)
      BY <2>2 DEF IInv, SendHand, SomeHand
    <3>2. Busy(t, SendLabels)' /\ \A u \in Threads \ {t} : Busy(u, SendLabels)' <=> Busy(u, SendLabels)
      <4>1. \E b \in SendLabels : b \in (On(t) \ {"push"}) \cup come
        BY <1>2, <2>2 DEF SendLabels
      <4> QED BY <1>2, <4>1, Entering
    <3> QED BY <1>3, <1>6, <3>1, <3>2 DEF IInv, SendHand, OneHand, SomeHand, Same, io
  <2> QED BY <2>1, <2>2
<1>8. Failed'
  BY <1>3, <1>6, FailedFrame DEF IInv
<1>9. Sent'
  <2>1. PICK a : a = IF \E u \in Threads : Busy(u, {"wsaSend"}) THEN sendBuffers ELSE <<>>
    OBVIOUS
  <2>2. (IF \E u \in Threads : Busy(u, {"wsaSend"}) THEN sendBuffers ELSE <<>>)' = a
    BY <1>3, <1>6, <2>1 DEF Same
  <2>3. a \in Seq(Messages) /\ wire \in Seq(Messages) /\ sendQueue \in Seq(Messages)
    BY <1>1, <2>1 DEF Types
  <2>4. (wire \o a) \o Append(sendQueue, m) = Append((wire \o a) \o sendQueue, m)
    BY <2>3, AppendAfter
  <2> QED BY <1>3, <2>1, <2>2, <2>4 DEF IInv, Sent
<1>10. Owned'
  BY <1>3, <1>4, <1>6, OwnedFrame DEF IInv, RecvStays
<1>11. Room'
  <2>1. Pushing' = Pushing \ {t} /\ t \in Pushing
    BY <1>2, <1>4 DEF Pushing, Busy, Moves
  <2>2. IsFiniteSet(Pushing)
    BY ThreadsFinite, FS_Subset DEF Pushing
  <2>3. Cardinality(Pushing') = Cardinality(Pushing) - 1 /\ Cardinality(Pushing) \in Nat
    BY <2>1, <2>2, FS_RemoveElement, FS_CardinalityType
  <2>4. Len(pushed') = Len(pushed) + 1 /\ Len(pushed) \in Nat
    BY <1>1, <1>3 DEF Types
  <2> QED BY <2>3, <2>4 DEF IInv, Room
<1>12. Lengths'
  <2>1. /\ Len(pushed') = Len(pushed) + 1 /\ Len(sendQueue') = Len(sendQueue) + 1
        /\ Len(pushed) \in Nat /\ Len(sendQueue) \in Nat /\ Len(sendBuffers) \in Nat /\ Len(wire) \in Nat
    BY <1>1, <1>3 DEF Types
  <2> QED BY <1>3, <2>1 DEF IInv, Lengths, io
<1> QED BY <1>4, <1>5, <1>7, <1>8, <1>9, <1>10, <1>11, <1>12 DEF IInv
(* RegisterSend: the event takes its reference, or the session has ended.   *)
LEMMA RegisterSendKept ==
  ASSUME IInv, NEW t \in Threads, RegisterSend(t)
  PROVE  IInv'
<1>1. Types /\ At(t, "registerSend") /\ "registerSend" \in Labels /\ "drain" \in Labels
  BY DEF IInv, RegisterSend, Labels
<1>2. PICK come : /\ Moves(t, {"registerSend"}, come)
                  /\ \/ connected /\ come = {"drain"} /\ owned' = owned \cup {"send"}
                     \/ ~connected /\ come = {} /\ owned' = owned
  <2>1. CASE connected
    <3>1. Rest(t) \in Below("drain")
      BY <1>1, AtCall DEF Below
    <3> QED BY <1>1, <2>1, <3>1, GoesOn DEF RegisterSend
  <2>2. CASE ~connected
    BY <1>1, <2>2, Returns DEF RegisterSend
  <2> QED BY <2>1, <2>2
<1>3. UNCHANGED <<connected, service, sendState, lock, pending, met, pushed, wire>>
  BY DEF RegisterSend
<1>4. /\ RecvHand' /\ AcceptHand' /\ ConnectHand' /\ Opened' /\ Added' /\ EndsOnce' /\ Managing'
      /\ "registerSend" \in On(t) /\ On(t) \subseteq {"registerSend"} \cup Under("registerSend")
      /\ RecvStays
  <2>1. ({"registerSend"} \cup come) \cap (RecvLabels \cup Opener \cup Ends) = {}
    BY <1>2 DEF RecvLabels, Opener, Ends
  <2>2. "registerSend" \in SendLabels \cup {"push", "unlock"}
    BY DEF SendLabels
  <2> QED BY <1>1, <1>2, <1>3, <2>1, <2>2, SendStepKeeps
<1>5. Types'
  BY <1>1, <1>2, <1>3 DEF Types, Moves, service, sendState, Events
<1>6. Same(Writing) /\ Same({"wsaSend"}) /\ Same(Broken) /\ Same({"push"})
  <2>1. \A labels \in {Writing, {"wsaSend"}, Broken, {"push"}} :
          labels \cap ({"registerSend"} \cup come) = {}
    BY <1>2 DEF Writing, Broken
  <2> QED BY <1>2, <2>1, Elsewhere
<1>7. /\ Busy(t, SendLabels) /\ "send" \notin pending /\ sendRegistered
      /\ \A u \in Threads \ {t} : ~Busy(u, SendLabels) /\ ~Busy(u, Sender)
  <2>1. Busy(t, SendLabels)
    BY <1>4 DEF Busy, SendLabels
  <2> QED BY <2>1, SendingAlone
<1>8. \A labels \in {SendLabels, Sender} :
        \A u \in Threads \ {t} : Busy(u, labels)' <=> Busy(u, labels)
  BY <1>2 DEF Moves, Busy
<1>9. SendHand'
  <2>1. connected => Busy(t, SendLabels)'
    <3>1. connected => \E b \in SendLabels : b \in (On(t) \ {"registerSend"}) \cup come
      BY <1>2 DEF SendLabels
    <3> QED BY <1>2, <3>1, Entering
  <2> QED BY <1>3, <1>6, <1>7, <1>8, <2>1 DEF IInv, SendHand, OneHand, SomeHand, Same, sendState
<1>10. Failed'
  BY <1>3, <1>6, FailedFrame DEF IInv
<1>11. Sent'
  BY <1>3, <1>6, SentFrame DEF IInv
<1>12. Owned'
  <2>1. ~Busy(t, Sender)
    <3>1. \A b \in Sender : b \notin {"registerSend"} \cup Under("registerSend")
      BY DEF Under, Sender
    <3> QED BY <1>4, <3>1 DEF Busy
  <2>2. "send" \notin owned
    BY <1>7, <2>1 DEF IInv, Owned, SomeHand
  <2>3. Busy(t, Sender)' <=> connected
    <3>1. connected => \E b \in Sender : b \in (On(t) \ {"registerSend"}) \cup come
      BY <1>2 DEF Sender
    <3>2. ~connected => \A b \in Sender : b \notin (On(t) \ {"registerSend"}) \cup come
      BY <1>2, <2>1 DEF Busy
    <3> QED BY <1>2, <3>1, <3>2, Entering, Leaving
  <2>4. "send" \in owned' <=> SomeHand("send", Sender)'
    BY <1>2, <1>3, <1>7, <1>8, <2>2, <2>3 DEF SomeHand
  <2>5. \A event \in {"recv", "connect", "disconnect"} : event \in owned' <=> event \in owned
    BY <1>2
  <2> QED BY <1>3, <1>4, <2>4, <2>5 DEF IInv, Owned, SomeHand, Same, RecvStays
<1>13. Room'
  BY <1>3, <1>6, RoomFrame DEF IInv
<1>14. Lengths'
  BY <1>3, LengthsFrame DEF IInv
<1> QED BY <1>4, <1>5, <1>9, <1>10, <1>11, <1>12, <1>13, <1>14 DEF IInv

(* Lists one after the other are one list, however they are cut.            *)
LEMMA Joined ==
  ASSUME NEW S, NEW a \in Seq(S), NEW b \in Seq(S), NEW c \in Seq(S)
  PROVE  /\ (a \o <<>>) \o c = a \o c
         /\ (a \o (b \o c)) \o <<>> = (a \o b) \o c
         /\ ((a \o b) \o <<>>) \o c = (a \o b) \o c
         /\ <<>> \o c = c /\ a \o b \in Seq(S) /\ Len(a \o b) = Len(a) + Len(b)
OBVIOUS

(* RegisterSend, under the lock: the queue moves to the event, which is     *)
(* empty.                                                                   *)
LEMMA DrainKept ==
  ASSUME IInv, NEW t \in Threads, Drain(t)
  PROVE  IInv'
<1>1. Types /\ At(t, "drain") /\ "drain" \in Labels /\ "wsaSend" \in Labels
  BY DEF IInv, Drain, Labels
<1>2. Moves(t, {"drain"}, {"wsaSend"})
  <2>1. Rest(t) \in Below("wsaSend")
    BY <1>1, AtCall DEF Below
  <2> QED BY <1>1, <2>1, GoesOn DEF Drain
<1>3. /\ UNCHANGED <<connected, service, sendRegistered, lock, io, met, pushed, wire>>
      /\ sendBuffers' = sendBuffers \o sendQueue /\ sendQueue' = <<>>
  BY DEF Drain
<1>4. /\ RecvHand' /\ AcceptHand' /\ ConnectHand' /\ Opened' /\ Added' /\ EndsOnce' /\ Managing'
      /\ "drain" \in On(t) /\ On(t) \subseteq {"drain"} \cup Under("drain")
      /\ RecvStays
  <2>1. ({"drain"} \cup {"wsaSend"}) \cap (RecvLabels \cup Opener \cup Ends) = {}
    BY DEF RecvLabels, Opener, Ends
  <2>2. "drain" \in SendLabels \cup {"push", "unlock"}
    BY DEF SendLabels
  <2> QED BY <1>1, <1>2, <1>3, <2>1, <2>2, SendStepKeeps DEF io
<1>5. Same(Broken) /\ Same({"push"})
  <2>1. \A labels \in {Broken, {"push"}} : labels \cap ({"drain"} \cup {"wsaSend"}) = {}
    BY DEF Broken
  <2> QED BY <1>2, <2>1, Elsewhere
<1>6. Busy(t, SendLabels) /\ Busy(t, Sender)
  BY <1>4 DEF Busy, SendLabels, Sender
<1>7. Same(SendLabels) /\ Same(Sender)
  <2>1. \A labels \in {SendLabels, Sender} : \E b \in labels : b \in (On(t) \ {"drain"}) \cup {"wsaSend"}
    BY DEF SendLabels, Sender
  <2> QED BY <1>2, <1>6, <2>1, Within
<1>8. /\ "send" \notin pending /\ sendRegistered
      /\ \A u \in Threads : ~Busy(u, Writing) /\ ~Busy(u, {"wsaSend"})
  <2>1. \A b \in {"wsaSend", "sendFailed"} : b \notin {"drain"} \cup Under("drain")
    BY DEF Under
  <2>2. ~Busy(t, Writing) /\ ~Busy(t, {"wsaSend"})
    BY <1>4, <2>1 DEF Busy, Writing
  <2> QED BY <1>6, <2>2, SendingAlone
<1>9. sendBuffers = <<>>
  BY <1>8 DEF IInv, SendHand, SomeHand
<1>10. sendBuffers' = sendQueue
  BY <1>1, <1>3, <1>9, Joined DEF Types
<1>11. Types'
  BY <1>1, <1>2, <1>3, <1>10 DEF Types, Moves, service, io
<1>12. SendHand'
  <2>1. Busy(t, Writing)'
    <3>1. \E b \in Writing : b \in (On(t) \ {"drain"}) \cup {"wsaSend"}
      BY DEF Writing
    <3> QED BY <1>2, <3>1, Entering
  <2> QED BY <1>3, <1>7, <1>8, <2>1 DEF IInv, SendHand, OneHand, SomeHand, Same, io
<1>13. Failed'
  BY <1>3, <1>5, FailedFrame DEF IInv
<1>14. Sent'
  <2>1. \E u \in Threads : Busy(u, {"wsaSend"})'
    <3>1. \E b \in {"wsaSend"} : b \in (On(t) \ {"drain"}) \cup {"wsaSend"}
      OBVIOUS
    <3> QED BY <1>2, <3>1, Entering
  <2>2. connected /\ "ignored" \notin met => wire \o <<>> \o sendQueue = pushed
    BY <1>8 DEF IInv, Sent
  <2>3. (wire \o sendQueue) \o <<>> = wire \o <<>> \o sendQueue
    BY <1>1 DEF Types
  <2> QED BY <1>3, <1>10, <2>1, <2>2, <2>3 DEF Sent
<1>15. Owned'
  BY <1>3, <1>4, <1>7, OwnedFrame DEF IInv, RecvStays
<1>16. Room'
  BY <1>3, <1>5, RoomFrame DEF IInv
<1>17. Lengths'
  <2>1. Len(sendBuffers) = 0 /\ Len(sendQueue') = 0 /\ Len(sendQueue) \in Nat /\ Len(wire) \in Nat
    BY <1>1, <1>3, <1>9 DEF Types
  <2> QED BY <1>3, <1>8, <1>10, <2>1 DEF IInv, Lengths, io
<1> QED BY <1>4, <1>11, <1>12, <1>13, <1>14, <1>15, <1>16, <1>17 DEF IInv
(* WSASend: the kernel has the event, and what was in it is on its way.     *)
LEMMA WsaSendKept ==
  ASSUME IInv, NEW t \in Threads, WsaSend(t)
  PROVE  IInv'
<1>1. Types /\ At(t, "wsaSend") /\ "wsaSend" \in Labels
  BY DEF IInv, WsaSend, Labels
<1>2. Moves(t, {"wsaSend"}, {})
  BY <1>1, Returns DEF WsaSend
<1>3. /\ UNCHANGED <<connected, service, sendState, lock, owned, met, pushed>>
      /\ pending' = pending \cup {"send"} /\ wire' = wire \o sendBuffers
  BY DEF WsaSend
<1>4. /\ RecvHand' /\ AcceptHand' /\ ConnectHand' /\ Opened' /\ Added' /\ EndsOnce' /\ Managing'
      /\ "wsaSend" \in On(t) /\ On(t) \subseteq {"wsaSend"} \cup Under("wsaSend")
      /\ RecvStays
  <2>1. ({"wsaSend"} \cup {}) \cap (RecvLabels \cup Opener \cup Ends) = {}
    BY DEF RecvLabels, Opener, Ends
  <2>2. "wsaSend" \in SendLabels \cup {"push", "unlock"}
    BY DEF SendLabels
  <2> QED BY <1>1, <1>2, <1>3, <2>1, <2>2, SendStepKeeps
<1>5. Same(Broken) /\ Same({"push"})
  <2>1. \A labels \in {Broken, {"push"}} : labels \cap ({"wsaSend"} \cup {}) = {}
    BY DEF Broken
  <2> QED BY <1>2, <2>1, Elsewhere
<1>6. Busy(t, SendLabels) /\ Busy(t, Sender) /\ Busy(t, {"wsaSend"})
  BY <1>4 DEF Busy, SendLabels, Sender
<1>7. /\ "send" \notin pending /\ sendRegistered
      /\ \A u \in Threads : ~Busy(u, SendLabels)' /\ ~Busy(u, {"wsaSend"})'
  <2>1. \A b \in SendLabels : b \notin (On(t) \ {"wsaSend"}) \cup {}
    <3>1. \A b \in SendLabels : b \notin Under("wsaSend")
      BY DEF Under, SendLabels
    <3> QED BY <1>4, <3>1
  <2>2. \A b \in {"wsaSend"} : b \notin (On(t) \ {"wsaSend"}) \cup {}
    OBVIOUS
  <2>3. /\ ~Busy(t, SendLabels)'
        /\ \A u \in Threads \ {t} : Busy(u, SendLabels)' <=> Busy(u, SendLabels)
    BY <1>2, <2>1, Leaving
  <2>4. /\ ~Busy(t, {"wsaSend"})'
        /\ \A u \in Threads \ {t} : Busy(u, {"wsaSend"})' <=> Busy(u, {"wsaSend"})
    BY <1>2, <2>2, Leaving
  <2> QED BY <1>6, <2>3, <2>4, SendingAlone
<1>8. Types'
  BY <1>1, <1>2, <1>3, Joined DEF Types, Moves, service, sendState, Events
<1>9. SendHand'
  BY <1>3, <1>7 DEF IInv, SendHand, OneHand, SomeHand, sendState
<1>10. Failed'
  BY <1>3, <1>5, FailedFrame DEF IInv
<1>11. Sent'
  <2>1. connected /\ "ignored" \notin met => wire \o sendBuffers \o sendQueue = pushed
    BY <1>6 DEF IInv, Sent
  <2>2. ((wire \o sendBuffers) \o <<>>) \o sendQueue = wire \o sendBuffers \o sendQueue
    BY <1>1, Joined DEF Types
  <2> QED BY <1>3, <1>7, <2>1, <2>2 DEF Sent, sendState
<1>12. Owned'
  <2>1. "send" \in owned
    BY <1>6 DEF IInv, Owned, SomeHand
  <2> QED BY <1>3, <1>4, <2>1 DEF IInv, Owned, SomeHand, Same, RecvStays
<1>13. Room'
  BY <1>3, <1>5, RoomFrame DEF IInv
<1>14. Lengths'
  <2>1. /\ Len(sendBuffers) \in Nat /\ Len(sendQueue) \in Nat /\ Len(wire) \in Nat
        /\ Len(wire') = Len(wire) + Len(sendBuffers)
    BY <1>1, <1>3, Joined DEF Types
  <2> QED BY <1>3, <1>7, <2>1 DEF IInv, Lengths, sendState
<1> QED BY <1>4, <1>8, <1>9, <1>10, <1>11, <1>12, <1>13, <1>14 DEF IInv

(* A call that disconnects: it goes on to DisconnectEx if it is the first.  *)
LEMMA DisconnectMoves ==
  ASSUME Types, NEW t \in Threads, NEW q \in Below("disconnect"), Disconnect(t, q),
         NEW gone, NEW more, Elems(q) = (On(t) \ gone) \cup more
  PROVE  /\ connected' = FALSE
         /\ connected => Moves(t, gone, more \cup {"disconnect"})
         /\ ~connected => Moves(t, gone, more)
<1>1. q \in Stacks /\ "disconnect" \in Labels
  <2>1. "disconnect" \in Labels
    BY DEF Labels
  <2> QED BY <2>1, BelowCalls
<1>2. connected => Moves(t, gone, more \cup {"disconnect"})
  <2>1. PICK p : p = <<"disconnect">> \o q
    OBVIOUS
  <2>2. p \in Stacks /\ Elems(p) = {"disconnect"} \cup Elems(q)
    BY <1>1, <2>1, OnStack
  <2>3. Elems(p) = (On(t) \ gone) \cup (more \cup {"disconnect"})
    BY <2>2
  <2>4. connected => stack' = [stack EXCEPT ![t] = p]
    BY <2>1 DEF Disconnect, Then
  <2> QED BY <2>2, <2>3, <2>4, StackMoves
<1>3. ~connected => Moves(t, gone, more)
  <2>1. <<>> \o q = q
    BY <1>1, Literals DEF Stacks
  <2>2. ~connected => stack' = [stack EXCEPT ![t] = q]
    BY <2>1 DEF Disconnect, Then
  <2> QED BY <1>1, <2>2, StackMoves
<1> QED BY <1>2, <1>3 DEF Disconnect

(* The first disconnect of an open session is the only one under way.       *)
LEMMA DisconnectFrame ==
  ASSUME IInv, NEW t \in Threads, NEW gone, NEW come, Moves(t, gone, come),
         gone \cap (Ends \cup Opener \cup {"addSession"}) = {},
         come \cap ({"release", "addSession"} \cup Opener) = {},
         connected => "disconnect" \in come, ~connected => "disconnect" \notin come,
         ~Opening, ~Adding, ~Connecting', ~connected', UNCHANGED <<role, inService, managed>>,
         "connect" \in pending' => "connect" \in pending,
         "disconnect" \in pending' <=> "disconnect" \in pending,
         met \subseteq met', "crashed" \notin met', "released" \in met' <=> "released" \in met
  PROVE  Opened' /\ Added' /\ EndsOnce' /\ Managing'
<1>1. Same({"registerConnect"}) /\ Same({"addSession"}) /\ Same({"release"})
  <2>1. \A labels \in {{"registerConnect"}, {"addSession"}, {"release"}} :
          labels \cap (gone \cup come) = {}
    BY DEF Ends, Opener
  <2> QED BY <2>1, Elsewhere
<1>2. Opened'
  BY <1>1, OpenedFrame
<1>3. Added'
  BY <1>1, AddedFrame
<1>4. EndsOnce'
  <2>1. CASE connected
    <3>1. /\ inService /\ "released" \notin met
          /\ "disconnect" \notin pending /\ \A u \in Threads : ~Busy(u, Ends)
      BY <2>1 DEF IInv, EndsOnce, SomeHand
    <3>2. \A u \in Threads \ {t} : Busy(u, Ends)' <=> Busy(u, Ends)
      BY DEF Moves, Busy
    <3> QED BY <3>1, <3>2 DEF EndsOnce, OneHand, SomeHand
  <2>2. CASE ~connected
    <3>1. Same(Ends)
      <4>1. Ends \cap (gone \cup come) = {}
        BY <2>2 DEF Ends
      <4> QED BY <4>1, Elsewhere
    <3> QED BY <1>1, <3>1, EndsOnceFrame DEF IInv
  <2> QED BY <2>1, <2>2
<1>5. Managing'
  BY <1>1, ManagingFrame DEF IInv
<1> QED BY <1>2, <1>3, <1>4, <1>5
(* What a call that failed was called from is what its clean-up goes on     *)
(* with.                                                                    *)
LEMMA FailingTop ==
  /\ \A r \in Sending : <<"sendFailed">> \o r \in Below("disconnect")
  /\ \A r \in Accepting : <<"recvFailed">> \o r \in Below("disconnect")
<1>1. \A a : <<a>> \o <<>> = <<a>>
  BY SMT
<1>2. \A a, b : <<a, b>> = <<a>> \o <<b>>
  BY Literals
<1>3. \A a, b, c : <<a, b, c>> = <<a>> \o <<b, c>>
  BY Literals
<1>4. \A a, b, c, d : <<a, b, c, d>> = <<a>> \o <<b, c, d>>
  BY Literals
<1>5. <<"sendFailed">> \o <<>> = <<"sendFailed">> /\ <<"recvFailed">> \o <<>> = <<"recvFailed">>
  BY <1>1, Zenon
<1>6. /\ <<"sendFailed", "unlock">> = <<"sendFailed">> \o <<"unlock">>
      /\ <<"recvFailed", "registerAccept">> = <<"recvFailed">> \o <<"registerAccept">>
  BY <1>2, Zenon
<1>7. /\ <<"sendFailed", "onRecv", "registerRecv">> = <<"sendFailed">> \o <<"onRecv", "registerRecv">>
      /\ <<"sendFailed", "onConnected", "registerRecv">>
           = <<"sendFailed">> \o <<"onConnected", "registerRecv">>
  BY <1>3, Zenon
<1>8. <<"sendFailed", "onConnected", "registerRecv", "registerAccept">>
        = <<"sendFailed">> \o <<"onConnected", "registerRecv", "registerAccept">>
  BY <1>4, Zenon
<1>9. Failing \subseteq Below("disconnect")
  BY DEF Below
<1>10. ASSUME NEW r \in Sending
       PROVE  <<"sendFailed">> \o r \in Failing
  <2>1. \/ r \in Content /\ r # <<"sendNext">>
        \/ r = <<"unlock">>
    BY DEF Sending
  <2>2. \/ r = <<>> \/ r = <<"unlock">> \/ r = <<"onRecv", "registerRecv">>
        \/ r = <<"onConnected", "registerRecv">>
        \/ r = <<"onConnected", "registerRecv", "registerAccept">>
    BY <2>1 DEF Content
  <2>3. \/ <<"sendFailed">> \o r = <<"sendFailed">>
        \/ <<"sendFailed">> \o r = <<"sendFailed", "unlock">>
        \/ <<"sendFailed">> \o r = <<"sendFailed", "onRecv", "registerRecv">>
        \/ <<"sendFailed">> \o r = <<"sendFailed", "onConnected", "registerRecv">>
        \/ <<"sendFailed">> \o r = <<"sendFailed", "onConnected", "registerRecv", "registerAccept">>
    BY <2>2, <1>5, <1>6, <1>7, <1>8, Zenon
  <2> QED BY <2>3, Zenon DEF Failing
<1>11. ASSUME NEW r \in Accepting
       PROVE  <<"recvFailed">> \o r \in Failing
  <2>1. \/ <<"recvFailed">> \o r = <<"recvFailed">>
        \/ <<"recvFailed">> \o r = <<"recvFailed", "registerAccept">>
    BY <1>5, <1>6, Zenon DEF Accepting
  <2> QED BY <2>1, Zenon DEF Failing
<1> QED BY <1>9, <1>10, <1>11

\* The call a failed and goes on as f, under a disconnect where one is made.
Breaks(t, a, f, come) ==
  /\ Moves(t, {a}, come)
  /\ \/ connected /\ connected' = FALSE /\ come = {f, "disconnect"} /\ met' = met
     \/ ~connected /\ connected' = FALSE /\ come = {f} /\ met' = met
     \/ connected' = connected /\ come = {f} /\ met' = met \cup {"ignored"}

(* HandleError: the session is disconnected, or the error is ignored; the   *)
(* call that failed goes on to clean up.                                    *)
LEMMA HandleErrorMoves ==
  ASSUME Types, NEW t \in Threads, NEW error \in Errors, NEW q \in Below("disconnect"),
         NEW a, NEW f, Elems(q) = (On(t) \ {a}) \cup {f}, HandleError(t, error, q)
  PROVE  \E come : Breaks(t, a, f, come)
<1> USE DEF Breaks
<1>1. CASE error = "reset"
  <2>1. Disconnect(t, q) /\ met' = met
    BY <1>1 DEF HandleError
  <2>2. /\ connected' = FALSE
        /\ connected => Moves(t, {a}, {f} \cup {"disconnect"})
        /\ ~connected => Moves(t, {a}, {f})
    BY <2>1, DisconnectMoves
  <2>3. {f} \cup {"disconnect"} = {f, "disconnect"}
    OBVIOUS
  <2> QED BY <2>1, <2>2, <2>3
<1>2. CASE error # "reset"
  <2>1. Then(t, <<>>, q) /\ met' = met \cup {"ignored"} /\ connected' = connected
    BY <1>2 DEF HandleError
  <2>2. q \in Stacks
    <3>1. "disconnect" \in Labels
      BY DEF Labels
    <3> QED BY <3>1, BelowCalls
  <2>3. <<>> \o q = q
    BY <2>2, Literals DEF Stacks
  <2>4. stack' = [stack EXCEPT ![t] = q]
    BY <2>1, <2>3 DEF Then
  <2>5. Moves(t, {a}, {f})
    BY <2>2, <2>4, StackMoves
  <2> QED BY <2>1, <2>5
<1> QED BY <1>1, <1>2

(* WSASend fails: HandleError disconnects, or the error is ignored; then    *)
(* the sender cleans up.                                                    *)
LEMMA WsaSendFailsKept ==
  ASSUME IInv, NEW t \in Threads, NEW error \in Errors, WsaSendFails(t, error)
  PROVE  IInv'
<1>1. Types /\ At(t, "wsaSend") /\ "wsaSend" \in Labels /\ "sendFailed" \in Labels
  BY DEF IInv, WsaSendFails, Labels
<1>2. /\ "wsaSend" \in On(t) /\ On(t) \subseteq {"wsaSend"} \cup Under("wsaSend")
      /\ Rest(t) \in Sending /\ Rest(t) \in Stacks /\ On(t) \ {"wsaSend"} = Elems(Rest(t))
  BY <1>1, AtCall DEF Below
<1>3. PICK come : Breaks(t, "wsaSend", "sendFailed", come)
  <2>1. PICK q : q = <<"sendFailed">> \o Rest(t)
    OBVIOUS
  <2>2. q \in Below("disconnect") /\ Elems(q) = (On(t) \ {"wsaSend"}) \cup {"sendFailed"}
    <3>1. Rest(t) \in Below("sendFailed")
      BY <1>2 DEF Below
    <3>2. Elems(q) = {"sendFailed"} \cup Elems(Rest(t))
      BY <1>1, <1>2, <2>1, <3>1, OnStack
    <3> QED BY <1>2, <2>1, <3>2, FailingTop
  <2>3. HandleError(t, error, q)
    BY <2>1 DEF WsaSendFails
  <2> QED BY <1>1, <2>2, <2>3, HandleErrorMoves
<1> USE DEF Breaks
<1>4. UNCHANGED <<service, sendState, lock, io, pushed, wire>> /\ met \subseteq met'
  BY <1>3 DEF WsaSendFails
<1>5. ~Opening /\ ~Adding /\ ~Connecting
  <2>1. "wsaSend" \in Labels \ Opener /\ "wsaSend" \notin Welcoming
    BY DEF Labels, Opener, Welcoming
  <2> QED BY <1>2, <2>1, InUse
<1>6. /\ RecvStays /\ OpenStays /\ Same({"push"})
  <2>1. /\ RecvLabels \cap ({"wsaSend"} \cup come) = {} /\ Opener \cap ({"wsaSend"} \cup come) = {}
        /\ {"push"} \cap ({"wsaSend"} \cup come) = {}
    BY <1>3 DEF RecvLabels, Opener
  <2> QED BY <1>3, <2>1, Stays, Elsewhere
<1>7. Busy(t, SendLabels) /\ Busy(t, Sender) /\ Busy(t, Writing)
  BY <1>2 DEF Busy, SendLabels, Sender, Writing
<1>8. Same(SendLabels) /\ Same(Sender) /\ Same(Writing)
  <2>1. \A labels \in {SendLabels, Sender, Writing} : \E b \in labels : b \in (On(t) \ {"wsaSend"}) \cup come
    BY <1>3 DEF SendLabels, Sender, Writing
  <2> QED BY <1>3, <1>7, <2>1, Within
<1>9. Types'
  <2>1. connected' \in BOOLEAN /\ met' \subseteq met \cup {"ignored"} /\ stack' \in [Threads -> Stacks]
    <3>1. connected' \in BOOLEAN
      BY <1>1, <1>3 DEF Types
    <3>2. met' \subseteq met \cup {"ignored"}
      BY <1>3
    <3> QED BY <1>3, <3>1, <3>2 DEF Moves
  <2> QED BY <1>1, <1>4, <2>1 DEF Types, service, sendState, io
<1>10. ~connected' \/ "ignored" \in met'
  BY <1>3
<1>11. SendHand'
  BY <1>3, <1>4, <1>8, SendHandFrame DEF IInv, io
<1>12. RecvHand'
  BY <1>3, <1>4, <1>6, RecvHandFrame DEF IInv, RecvStays, io
<1>13. Failed' /\ Sent'
  BY <1>10 DEF Failed, Sent
<1>14. Owned'
  BY <1>4, <1>6, <1>8, OwnedFrame DEF IInv, RecvStays
<1>15. AcceptHand' /\ ConnectHand'
  <2>1. OpenUntold
    BY <1>3, <1>4, <1>6 DEF OpenUntold, service, io
  <2> QED BY <2>1, OpenFrame
<1>16. Opened' /\ Added' /\ EndsOnce' /\ Managing'
  <2>1. "crashed" \notin met' /\ ("released" \in met' <=> "released" \in met)
    BY <1>3 DEF IInv, EndsOnce
  <2>2. ~Connecting'
    BY <1>4, <1>5, <1>6, ConnectingFrame DEF RecvStays, service
  <2>3. CASE connected /\ ~connected' /\ come = {"sendFailed", "disconnect"}
    <3>1. /\ {"wsaSend"} \cap (Ends \cup Opener \cup {"addSession"}) = {}
          /\ come \cap ({"release", "addSession"} \cup Opener) = {}
      BY <2>3 DEF Ends, Opener
    <3> QED BY <1>3, <1>4, <1>5, <2>1, <2>2, <2>3, <3>1, DisconnectFrame DEF service, io
  <2>4. CASE come = {"sendFailed"} /\ (connected' => connected)
    <3>1. Same(Ends) /\ Same({"release"})
      <4>1. Ends \cap ({"wsaSend"} \cup come) = {}
        BY <2>4 DEF Ends
      <4> QED BY <1>3, <4>1, Stays DEF EndsStay
    <3>2. LifeUntold
      BY <1>4, <1>5, <1>6, <2>1, <2>2, <2>4, <3>1 DEF LifeUntold, RecvStays, service, io
    <3> QED BY <3>2, LifeFrame
  <2> QED BY <1>3, <2>3, <2>4
<1>17. Room'
  BY <1>4, <1>6, RoomFrame DEF IInv
<1>18. Lengths'
  BY <1>4, LengthsFrame DEF IInv, io
<1> QED BY <1>9, <1>11, <1>12, <1>13, <1>14, <1>15, <1>16, <1>17, <1>18 DEF IInv
(* The sender cleans up after an error; the session has ended, or the error *)
(* was ignored.                                                             *)
LEMMA SendFailedKept ==
  ASSUME IInv, NEW t \in Threads, SendFailed(t)
  PROVE  IInv'
<1>1. Types /\ At(t, "sendFailed") /\ "sendFailed" \in Labels
  BY DEF IInv, SendFailed, Labels
<1>2. Moves(t, {"sendFailed"}, {})
  BY <1>1, Returns DEF SendFailed
<1>3. /\ UNCHANGED <<connected, service, sendQueue, lock, pending, met, pushed, wire>>
      /\ owned' = owned \ {"send"} /\ sendBuffers' = <<>> /\ sendRegistered' = FALSE
  BY DEF SendFailed
<1>4. /\ RecvHand' /\ AcceptHand' /\ ConnectHand' /\ Opened' /\ Added' /\ EndsOnce' /\ Managing'
      /\ "sendFailed" \in On(t) /\ On(t) \subseteq {"sendFailed"} \cup Under("sendFailed")
      /\ RecvStays
  <2>1. ({"sendFailed"} \cup {}) \cap (RecvLabels \cup Opener \cup Ends) = {}
    BY DEF RecvLabels, Opener, Ends
  <2>2. "sendFailed" \in SendLabels \cup {"push", "unlock"}
    BY DEF SendLabels
  <2> QED BY <1>1, <1>2, <1>3, <2>1, <2>2, SendStepKeeps
<1>5. Same({"push"})
  <2>1. {"push"} \cap ({"sendFailed"} \cup {}) = {}
    OBVIOUS
  <2> QED BY <1>2, <2>1, Elsewhere
<1>6. Busy(t, SendLabels) /\ Busy(t, Broken)
  BY <1>4 DEF Busy, SendLabels, Broken
<1>7. "send" \notin pending /\ \A u \in Threads : ~Busy(u, SendLabels)' /\ ~Busy(u, Sender)'
  <2>1. \A b \in SendLabels : b \notin (On(t) \ {"sendFailed"}) \cup {}
    <3>1. \A b \in SendLabels : b \notin Under("sendFailed")
      BY DEF Under, SendLabels
    <3> QED BY <1>4, <3>1
  <2>2. /\ ~Busy(t, SendLabels)'
        /\ \A u \in Threads \ {t} : Busy(u, SendLabels)' <=> Busy(u, SendLabels)
    BY <1>2, <2>1, Leaving
  <2>3. \A b \in Sender : b \notin (On(t) \ {"sendFailed"}) \cup {}
    BY <2>1 DEF Sender, SendLabels
  <2>4. /\ ~Busy(t, Sender)'
        /\ \A u \in Threads \ {t} : Busy(u, Sender)' <=> Busy(u, Sender)
    BY <1>2, <2>3, Leaving
  <2> QED BY <1>6, <2>2, <2>4, SendingAlone
<1>8. ~connected' \/ "ignored" \in met'
  BY <1>3, <1>6 DEF IInv, Failed
<1>9. Types'
  BY <1>1, <1>2, <1>3, Literals DEF Types, Moves, service
<1>10. SendHand'
  BY <1>3, <1>7, <1>8 DEF SendHand, OneHand, SomeHand
<1>11. Failed' /\ Sent'
  BY <1>8 DEF Failed, Sent
<1>12. Owned'
  <2>1. "send" \notin owned' /\ ~SomeHand("send", Sender)'
    BY <1>3, <1>7 DEF SomeHand
  <2> QED BY <1>3, <1>4, <2>1 DEF IInv, Owned, SomeHand, Same, RecvStays
<1>13. Room'
  BY <1>3, <1>5, RoomFrame DEF IInv
<1>14. Lengths'
  <2>1. Len(sendBuffers') = 0 /\ Len(sendBuffers) \in Nat /\ Len(sendQueue) \in Nat /\ Len(wire) \in Nat
    BY <1>1, <1>3 DEF Types
  <2>2. Len(pushed) \in Nat
    BY <1>1 DEF Types
  <2> QED BY <1>3, <1>7, <2>1, <2>2 DEF IInv, Lengths
<1> QED BY <1>4, <1>9, <1>10, <1>11, <1>12, <1>13, <1>14 DEF IInv

(* The end of ProcessSend gives the turn up when the queue is empty, and    *)
(* otherwise goes on to send what is in it, with the lock.                  *)
LEMMA SendNextKept ==
  ASSUME IInv, NEW t \in Threads, SendNext(t)
  PROVE  IInv'
<1>1. Types /\ At(t, "sendNext") /\ "sendNext" \in Labels
  BY DEF IInv, SendNext, Labels
<1>2. /\ "sendNext" \in On(t) /\ On(t) = {"sendNext"} /\ Rest(t) = <<>>
  <2>1. "sendNext" \in On(t) /\ Rest(t) \in Below("sendNext") /\ On(t) \ {"sendNext"} = Elems(Rest(t))
    BY <1>1, AtCall
  <2>2. Rest(t) = <<>>
    BY <2>1 DEF Below
  <2> QED BY <2>1, <2>2, OneCall
<1>3. PICK come : /\ Moves(t, {"sendNext"}, come)
                  /\ \/ sendQueue = <<>> /\ come = {} /\ sendRegistered' = FALSE /\ lock' = lock
                     \/ sendQueue # <<>> /\ come = {"registerSend", "unlock"}
                        /\ sendRegistered' = sendRegistered /\ lock' = t
  <2>1. CASE sendQueue = <<>>
    BY <1>1, <2>1, Returns DEF SendNext
  <2>2. CASE sendQueue # <<>>
    <3>1. PICK q : q = <<"registerSend", "unlock">>
      OBVIOUS
    <3>2. q \in Stacks /\ Elems(q) = {"registerSend", "unlock"}
      BY <3>1, MoreCalls
    <3>3. q \o <<>> = q
      BY <3>2, SMT DEF Stacks
    <3>4. stack' = [stack EXCEPT ![t] = q]
      BY <1>2, <2>2, <3>1, <3>3 DEF SendNext, Then
    <3>5. Elems(q) = (On(t) \ {"sendNext"}) \cup {"registerSend", "unlock"}
      BY <1>2, <3>2
    <3>6. Moves(t, {"sendNext"}, {"registerSend", "unlock"})
      BY <1>1, <3>2, <3>4, <3>5, StackMoves
    <3> QED BY <2>2, <3>6 DEF SendNext
  <2> QED BY <2>1, <2>2
<1>4. UNCHANGED <<connected, service, sendQueue, sendBuffers, io, met, pushed, wire>>
  BY DEF SendNext
<1>5. /\ RecvHand' /\ AcceptHand' /\ ConnectHand' /\ Opened' /\ Added' /\ EndsOnce' /\ Managing'
      /\ RecvStays
  <2>1. ({"sendNext"} \cup come) \cap (RecvLabels \cup Opener \cup Ends) = {}
    BY <1>3 DEF RecvLabels, Opener, Ends
  <2>2. "sendNext" \in SendLabels \cup {"push", "unlock"}
    BY DEF SendLabels
  <2> QED BY <1>1, <1>3, <1>4, <2>1, <2>2, SendStepKeeps DEF io
<1>6. /\ Same(Writing) /\ Same(Sender) /\ Same({"wsaSend"}) /\ Same(Broken) /\ Same({"push"})
  <2>1. \A labels \in {Writing, Sender, {"wsaSend"}, Broken, {"push"}} :
          labels \cap ({"sendNext"} \cup come) = {}
    BY <1>3 DEF Writing, Sender, Broken
  <2> QED BY <1>3, <2>1, Elsewhere
<1>7. Busy(t, SendLabels)
  BY <1>2 DEF Busy, SendLabels
<1>8. /\ "send" \notin pending /\ sendRegistered
      /\ \A u \in Threads \ {t} : ~Busy(u, SendLabels)
  BY <1>7, SendingAlone
<1>9. \A u \in Threads \ {t} : Busy(u, SendLabels)' <=> Busy(u, SendLabels)
  BY <1>3 DEF Moves, Busy
<1>10. Types'
  <2>1. sendRegistered' \in BOOLEAN /\ lock' \in Threads \cup {NoThread}
    BY <1>1, <1>3 DEF Types
  <2> QED BY <1>1, <1>3, <1>4, <2>1 DEF Types, Moves, service, io
<1>11. SendHand'
  <2>1. CASE sendQueue = <<>>
    <3>1. ~Busy(t, SendLabels)'
      <4>1. \A b \in SendLabels : b \notin (On(t) \ {"sendNext"}) \cup come
        BY <1>2, <1>3, <2>1
      <4> QED BY <1>3, <4>1, Leaving
    <3> QED BY <1>3, <1>4, <1>6, <1>8, <1>9, <2>1, <3>1
          DEF IInv, SendHand, OneHand, SomeHand, Same, io
  <2>2. CASE sendQueue # <<>>
    <3>1. Busy(t, SendLabels)'
      <4>1. \E b \in SendLabels : b \in (On(t) \ {"sendNext"}) \cup come
        BY <1>3, <2>2 DEF SendLabels
      <4> QED BY <1>3, <4>1, Entering
    <3> QED BY <1>3, <1>4, <1>6, <1>8, <1>9, <2>2, <3>1
          DEF IInv, SendHand, OneHand, SomeHand, Same, io
  <2> QED BY <2>1, <2>2
<1>12. Failed'
  BY <1>4, <1>6, FailedFrame DEF IInv
<1>13. Sent'
  BY <1>4, <1>6 DEF IInv, Sent, Same
<1>14. Owned'
  BY <1>4, <1>5, <1>6, OwnedFrame DEF IInv, RecvStays
<1>15. Room'
  BY <1>4, <1>6, RoomFrame DEF IInv
<1>16. Lengths'
  BY <1>4 DEF IInv, Lengths, io
<1> QED BY <1>5, <1>10, <1>11, <1>12, <1>13, <1>14, <1>15, <1>16 DEF IInv

(* The lock is given back.                                                  *)
LEMMA UnlockKept ==
  ASSUME IInv, NEW t \in Threads, Unlock(t)
  PROVE  IInv'
<1>1. Types /\ At(t, "unlock") /\ "unlock" \in Labels
  BY DEF IInv, Unlock, Labels
<1>2. Moves(t, {"unlock"}, {})
  BY <1>1, Returns DEF Unlock
<1>3. lock' = NoThread /\ UNCHANGED <<connected, service, sendState, io, met, pushed, wire>>
  BY DEF Unlock
<1>4. /\ RecvHand' /\ AcceptHand' /\ ConnectHand' /\ Opened' /\ Added' /\ EndsOnce' /\ Managing'
      /\ RecvStays
  <2>1. ({"unlock"} \cup {}) \cap (RecvLabels \cup Opener \cup Ends) = {}
    BY DEF RecvLabels, Opener, Ends
  <2> QED BY <1>1, <1>2, <1>3, <2>1, SendStepKeeps DEF io
<1>5. Types'
  BY <1>1, <1>2, <1>3 DEF Types, Moves, service, io, sendState
<1>6. SendStays /\ Same(Broken)
  <2>1. (SendLabels \cup {"push"}) \cap ({"unlock"} \cup {}) = {} /\ Broken \cap ({"unlock"} \cup {}) = {}
    BY DEF SendLabels, Broken
  <2> QED BY <1>2, <2>1, Stays
<1>7. SendHand' /\ Sent' /\ Room' /\ Lengths'
  <2>1. SendUntold
    BY <1>3, <1>6 DEF SendUntold, io
  <2> QED BY <2>1, SendFrame
<1>8. Failed'
  BY <1>3, <1>6, FailedFrame DEF IInv
<1>9. Owned'
  BY <1>3, <1>4, <1>6, OwnedFrame DEF IInv, RecvStays, SendStays
<1> QED BY <1>4, <1>5, <1>7, <1>8, <1>9 DEF IInv
-----------------------------------------------------------------------------
(* The steps of content code *)

(* Content code runs on a stack that its calls may be made from.            *)
LEMMA ContentStack ==
  ASSUME Types, NEW t \in Threads, InContent(t)
  PROVE  stack[t] \in Content
<1>1. stack[t] \in Stacks
  BY DEF Types
<1>2. stack[t] = <<>> \/ Head(stack[t]) \in {"onConnected", "onRecv", "sendNext"}
  BY DEF InContent, At, Idle
<1> QED BY <1>1, <1>2, ContentTop

(* Content code has a session that is open and was added; where a server's  *)
(* OnConnected is still running, the use is noted as early.                 *)
LEMMA ContentWelcomed ==
  ASSUME IInv, NEW t \in Threads, InContent(t), Notice(t), UNCHANGED role
  PROVE  /\ ~Opening /\ ~Adding /\ met \subseteq met' /\ met' \subseteq met \cup {"early"}
         /\ \A come : Moves(t, {}, come) /\ come \cap {"onConnected"} = {} => ~Connecting'
<1>1. Types /\ Opened /\ Added /\ Managing
  BY DEF IInv
<1>2. ~Opening
  <2>1. ASSUME NEW a \in {"onConnected", "onRecv", "sendNext"}, At(t, a)
        PROVE  ~Opening
    <3>1. a \in Labels \ Opener
      BY DEF Labels, Opener
    <3> QED BY <1>1, <2>1, <3>1, AtCall, InUse
  <2>2. CASE Idle(t) /\ "added" \in met
    BY <1>1, <2>2 DEF Opened, Untouched
  <2> QED BY <2>1, <2>2 DEF InContent
<1>3. met \subseteq met' /\ met' \subseteq met \cup {"early"}
  BY DEF Notice
<1>4. ~Adding
  <2>1. CASE At(t, "onConnected")
    <3>1. "onConnected" \in RecvLabels \ {"addSession"}
      BY DEF RecvLabels
    <3> QED BY <2>1, <3>1, Reading
  <2>2. CASE At(t, "onRecv")
    <3>1. "onRecv" \in RecvLabels \ {"addSession"}
      BY DEF RecvLabels
    <3> QED BY <2>2, <3>1, Reading
  <2>3. CASE At(t, "sendNext")
    <3>1. "sendNext" \in On(t) /\ "sendNext" \notin Welcoming
      <4>1. "sendNext" \in Labels
        BY DEF Labels
      <4>2. "sendNext" \notin Welcoming
        BY DEF Welcoming
      <4> QED BY <1>1, <2>3, <4>1, <4>2, AtCall
    <3> QED BY <1>1, <3>1 DEF Added
  <2>4. CASE Idle(t) /\ "added" \in met
    BY <1>1, <2>4 DEF Added, Untouched
  <2> QED BY <2>1, <2>2, <2>3, <2>4 DEF InContent
<1>5. ASSUME Connecting
      PROVE  role = "client" \/ "early" \in met'
  <2>1. CASE At(t, "onConnected") /\ role = "client"
    BY <2>1
  <2>2. CASE At(t, "onRecv")
    <3>1. "onRecv" \in RecvLabels \ {"addSession"}
      BY DEF RecvLabels
    <3> QED BY <1>5, <2>2, <3>1, Reading
  <2>3. CASE At(t, "sendNext")
    <3>1. "sendNext" \in On(t) /\ "sendNext" \notin Welcoming
      <4>1. "sendNext" \in Labels
        BY DEF Labels
      <4>2. "sendNext" \notin Welcoming
        BY DEF Welcoming
      <4> QED BY <1>1, <2>3, <4>1, <4>2, AtCall
    <3> QED BY <1>1, <1>5, <3>1 DEF Managing
  <2>4. CASE Idle(t) /\ "added" \in met
    <3>1. PICK u \in Threads : Busy(u, {"onConnected"})
      BY <1>5 DEF Connecting
    <3>2. InCall(u, {"addSession", "onConnected"})
      BY <3>1 DEF InCall, Busy, On, Elems
    <3> QED BY <2>4, <3>2 DEF Notice
  <2> QED BY <2>1, <2>2, <2>3, <2>4 DEF InContent
<1>6. ASSUME NEW come, Moves(t, {}, come), come \cap {"onConnected"} = {}
      PROVE  ~Connecting'
  <2>1. Same({"onConnected"})
    <3>1. {"onConnected"} \cap ({} \cup come) = {}
      BY <1>6
    <3> QED BY <1>6, <3>1, Elsewhere
  <2> QED BY <1>3, <1>5, <2>1 DEF Connecting, Same
<1> QED BY <1>2, <1>3, <1>4, <1>6

(* Session::Send up to the lock: there is a message left for this thread.   *)
LEMMA BeginSendKept ==
  ASSUME IInv, NEW t \in Threads, BeginSend(t)
  PROVE  IInv'
<1>1. Types /\ connected /\ InContent(t) /\ Notice(t) /\ "push" \in Labels /\ "crashed" \notin met
  BY DEF IInv, BeginSend, Labels, EndsOnce
<1>2. UNCHANGED <<connected, service, sendState, lock, io, pushed, wire>>
  BY DEF BeginSend
<1>3. Moves(t, {}, {"push"})
  <2>1. stack[t] \in Below("push")
    BY <1>1, ContentStack DEF Below
  <2> QED BY <1>1, <2>1, Makes DEF BeginSend
<1>4. /\ ~Opening /\ ~Adding /\ met \subseteq met' /\ met' \subseteq met \cup {"early"} /\ ~Connecting'
  <2>1. {"push"} \cap {"onConnected"} = {}
    OBVIOUS
  <2> QED BY <1>1, <1>2, <1>3, <2>1, ContentWelcomed DEF service
<1>5. /\ RecvStays /\ OpenStays /\ EndsStay /\ Same(Broken)
  <2>1. /\ RecvLabels \cap ({} \cup {"push"}) = {} /\ Opener \cap ({} \cup {"push"}) = {}
        /\ Ends \cap ({} \cup {"push"}) = {} /\ Broken \cap ({} \cup {"push"}) = {}
    BY DEF RecvLabels, Opener, Ends, Broken
  <2> QED BY <1>3, <2>1, Stays
<1>6. Same(SendLabels) /\ Same(Writing) /\ Same(Sender) /\ Same({"wsaSend"})
  <2>1. \A labels \in {SendLabels, Writing, Sender, {"wsaSend"}} : labels \cap ({} \cup {"push"}) = {}
    BY DEF SendLabels, Writing, Sender
  <2> QED BY <1>3, <2>1, Elsewhere
<1>7. Types'
  BY <1>1, <1>2, <1>3, <1>4 DEF Types, Moves, service, sendState, io
<1>8. SendHand'
  BY <1>2, <1>4, <1>6, SendHandFrame DEF IInv, io
<1>9. RecvHand'
  BY <1>2, <1>4, <1>5, RecvHandFrame DEF IInv, RecvStays, io
<1>10. Failed'
  BY <1>2, <1>4, <1>5, FailedFrame DEF IInv
<1>11. Sent'
  BY <1>2, <1>4, <1>6, SentFrame DEF IInv
<1>12. Owned'
  BY <1>2, <1>5, <1>6, OwnedFrame DEF IInv, RecvStays
<1>13. AcceptHand' /\ ConnectHand'
  <2>1. OpenUntold
    BY <1>2, <1>4, <1>5 DEF OpenUntold, service, io
  <2> QED BY <2>1, OpenFrame
<1>14. Opened' /\ Added' /\ EndsOnce' /\ Managing'
  <2>1. "crashed" \notin met' /\ ("released" \in met' <=> "released" \in met)
    BY <1>1, <1>4
  <2>2. LifeUntold
    BY <1>2, <1>4, <1>5, <2>1 DEF LifeUntold, RecvStays, EndsStay, service, io
  <2> QED BY <2>2, LifeFrame
<1>15. Room'
  <2>1. {u \in Threads : At(u, "push")} = Pushing /\ t \notin Pushing
    <3>1. \A u \in Threads : stack[u] \in Stacks
      BY <1>1 DEF Types
    <3>2. "push" \in Leaves
      BY DEF Leaves, Labels
    <3>3. \A u \in Threads : Busy(u, {"push"}) => At(u, "push")
      BY <3>1, <3>2, LeafOnTop DEF Busy, At, On
    <3>4. \A u \in Threads : At(u, "push") => Busy(u, {"push"})
      BY <1>1, AtCall DEF Busy
    <3>5. ~At(t, "push")
      BY <1>1 DEF InContent, At, Idle
    <3> QED BY <3>3, <3>4, <3>5 DEF Pushing
  <2>2. Pushing' = Pushing \cup {t}
    BY <1>3 DEF Pushing, Moves, Busy
  <2>3. IsFiniteSet(Pushing) /\ IsFiniteSet(Messages)
    BY ThreadsFinite, MessagesFinite, FS_Subset DEF Pushing
  <2>4. Cardinality(Pushing') = Cardinality(Pushing) + 1
    BY <2>1, <2>2, <2>3, FS_AddElement
  <2>5. Len(pushed) \in Nat /\ Cardinality(Pushing) \in Nat /\ Cardinality(Messages) \in Nat
    BY <1>1, <2>3, FS_CardinalityType DEF Types
  <2>6. Len(pushed) + Cardinality(Pushing) < Cardinality(Messages) /\ pushed' = pushed
    BY <1>2, <2>1 DEF BeginSend
  <2> QED BY <2>4, <2>5, <2>6 DEF Room
<1>16. Lengths'
  BY <1>2, LengthsFrame DEF IInv, io
<1> QED BY <1>7, <1>8, <1>9, <1>10, <1>11, <1>12, <1>13, <1>14, <1>15, <1>16 DEF IInv
(* What a disconnect from anywhere but a failed call keeps: all that is not *)
(* about the end of the session.                                            *)
LEMMA DisconnectKeeps ==
  ASSUME IInv, NEW t \in Threads, NEW come, Moves(t, {}, come),
         (connected /\ come = {"disconnect"}) \/ (~connected /\ come = {}),
         connected' = FALSE, UNCHANGED <<service, sendState, lock, io, pushed, wire>>,
         ~Opening, ~Adding, ~Connecting',
         met \subseteq met', met' \subseteq met \cup {"early"}
  PROVE  IInv'
<1>1. Types /\ "crashed" \notin met
  BY DEF IInv, EndsOnce
<1>2. SendStays /\ RecvStays /\ OpenStays /\ Same(Broken)
  <2>1. /\ RecvLabels \cap ({} \cup come) = {} /\ Opener \cap ({} \cup come) = {}
        /\ (SendLabels \cup {"push"}) \cap ({} \cup come) = {} /\ Broken \cap ({} \cup come) = {}
    BY DEF RecvLabels, Opener, SendLabels, Broken
  <2> QED BY <2>1, Stays
<1>3. Types'
  BY <1>1 DEF Types, Moves, service, sendState, io
<1>4. SendHand' /\ Sent' /\ Room' /\ Lengths'
  <2>1. SendUntold
    BY <1>2 DEF SendUntold, io
  <2> QED BY <2>1, SendFrame
<1>5. RecvHand'
  BY <1>2, RecvHandFrame DEF IInv, RecvStays, io
<1>6. Failed'
  BY <1>2, FailedFrame DEF IInv
<1>7. Owned'
  BY <1>2, OwnedFrame DEF IInv, RecvStays, SendStays
<1>8. AcceptHand' /\ ConnectHand'
  <2>1. OpenUntold
    BY <1>2 DEF OpenUntold, service, io
  <2> QED BY <2>1, OpenFrame
<1>9. Opened' /\ Added' /\ EndsOnce' /\ Managing'
  <2>1. "crashed" \notin met' /\ ("released" \in met' <=> "released" \in met)
    BY <1>1
  <2>2. /\ {} \cap (Ends \cup Opener \cup {"addSession"}) = {}
        /\ come \cap ({"release", "addSession"} \cup Opener) = {}
    BY DEF Opener
  <2> QED BY <2>1, <2>2, DisconnectFrame DEF service, io
<1> QED BY <1>3, <1>4, <1>5, <1>6, <1>7, <1>8, <1>9 DEF IInv

(* Session::Disconnect, called by content code.                             *)
LEMMA DisconnectFromContentKept ==
  ASSUME IInv, NEW t \in Threads, DisconnectFromContent(t)
  PROVE  IInv'
<1>1. Types /\ InContent(t) /\ Notice(t) /\ Disconnect(t, stack[t])
  BY DEF IInv, DisconnectFromContent
<1>2. UNCHANGED <<service, sendState, lock, io, pushed, wire>>
  BY DEF DisconnectFromContent
<1>3. PICK q \in Below("disconnect") : q = stack[t]
  BY <1>1, ContentStack DEF Below
<1>4. /\ connected' = FALSE
      /\ connected => Moves(t, {}, {} \cup {"disconnect"})
      /\ ~connected => Moves(t, {}, {})
  <2>1. Disconnect(t, q) /\ Elems(q) = (On(t) \ {}) \cup {}
    BY <1>1, <1>3 DEF On
  <2> QED BY <1>1, <2>1, DisconnectMoves
<1>5. PICK come : /\ Moves(t, {}, come)
                  /\ (connected /\ come = {"disconnect"}) \/ (~connected /\ come = {})
  <2>1. {} \cup {"disconnect"} = {"disconnect"}
    OBVIOUS
  <2> QED BY <1>4, <2>1
<1>6. ~Opening /\ ~Adding /\ met \subseteq met' /\ met' \subseteq met \cup {"early"} /\ ~Connecting'
  <2>1. come \cap {"onConnected"} = {}
    BY <1>5
  <2> QED BY <1>1, <1>2, <1>5, <2>1, ContentWelcomed DEF service
<1> QED BY <1>2, <1>4, <1>5, <1>6, DisconnectKeeps

(* OnConnected of a client, or OnRecv, returns.                             *)
LEMMA ReturnFromContentKept ==
  ASSUME IInv, NEW t \in Threads, ReturnFromContent(t)
  PROVE  IInv'
<1>1. PICK a \in {"onConnected", "onRecv"} : At(t, a) /\ (a = "onConnected" => role = "client")
  BY DEF ReturnFromContent
<1>2. Types /\ a \in Labels /\ "crashed" \notin met
  BY DEF IInv, Labels, EndsOnce
<1>3. Moves(t, {a}, {})
  BY <1>1, <1>2, Returns DEF ReturnFromContent
<1>4. UNCHANGED <<connected, service, sendState, lock, io, met, pushed, wire>>
  BY DEF ReturnFromContent
<1>5. a \in On(t) /\ "registerRecv" \in On(t) /\ On(t) \ {a} = Elems(Rest(t))
  <2>1. Rest(t) \in Below(a) /\ a \in On(t) /\ On(t) \ {a} = Elems(Rest(t))
    BY <1>1, <1>2, AtCall
  <2> QED BY <2>1, ReceivingCalls
<1>6. ~Opening /\ ~Adding /\ (a # "onConnected" => ~Connecting)
  <2>1. a \in RecvLabels \ {"addSession"}
    BY DEF RecvLabels
  <2> QED BY <1>1, <2>1, Reading
<1>7. SendStays /\ OpenStays /\ EndsStay /\ Same(Broken)
  <2>1. /\ Opener \cap ({a} \cup {}) = {} /\ Ends \cap ({a} \cup {}) = {}
        /\ (SendLabels \cup {"push"}) \cap ({a} \cup {}) = {} /\ Broken \cap ({a} \cup {}) = {}
    BY DEF Opener, SendLabels, Broken, Ends
  <2> QED BY <1>3, <2>1, Stays
<1>8. Same({"addSession"}) /\ Same(Reader)
  <2>1. {"addSession"} \cap ({a} \cup {}) = {} /\ Reader \cap ({a} \cup {}) = {}
    BY DEF Reader
  <2> QED BY <1>3, <2>1, Elsewhere
<1>9. Same(RecvLabels)
  <2>1. Busy(t, RecvLabels) /\ \E b \in RecvLabels : b \in (On(t) \ {a}) \cup {}
    BY <1>1, <1>5 DEF Busy, RecvLabels
  <2> QED BY <1>3, <2>1, Within
<1>10. ~Connecting'
  <2>1. CASE a = "onConnected"
    BY <1>1, <1>4, <2>1 DEF Connecting, service
  <2>2. CASE a = "onRecv"
    <3>1. Same({"onConnected"})
      <4>1. {"onConnected"} \cap ({a} \cup {}) = {}
        BY <2>2
      <4> QED BY <1>3, <4>1, Elsewhere
    <3> QED BY <1>4, <1>6, <2>2, <3>1, ConnectingFrame DEF service
  <2> QED BY <2>1, <2>2
<1>11. Types'
  BY <1>2, <1>3, <1>4 DEF Types, Moves, service, sendState, io
<1>12. SendHand' /\ Sent' /\ Room' /\ Lengths'
  <2>1. SendUntold
    BY <1>4, <1>7 DEF SendUntold, io
  <2> QED BY <2>1, SendFrame
<1>13. RecvHand'
  BY <1>4, <1>9, RecvHandFrame DEF IInv, io
<1>14. Failed'
  BY <1>4, <1>7, FailedFrame DEF IInv
<1>15. Owned'
  BY <1>4, <1>7, <1>8, OwnedFrame DEF IInv, SendStays
<1>16. AcceptHand' /\ ConnectHand'
  <2>1. OpenUntold
    BY <1>4, <1>7 DEF OpenUntold, service, io
  <2> QED BY <2>1, OpenFrame
<1>17. Opened' /\ Added' /\ EndsOnce' /\ Managing'
  <2>1. LifeUntold
    BY <1>2, <1>4, <1>6, <1>7, <1>8, <1>10 DEF LifeUntold, EndsStay, service, io
  <2> QED BY <2>1, LifeFrame
<1> QED BY <1>11, <1>12, <1>13, <1>14, <1>15, <1>16, <1>17 DEF IInv
-----------------------------------------------------------------------------
(* The steps of the receive *)

(* A step of the reader that neither ends the session nor sends keeps all   *)
(* that is not about the receive.                                           *)
LEMMA ReaderKeeps ==
  ASSUME IInv, NEW t \in Threads, NEW a \in {"registerRecv", "wsaRecv", "recvFailed"}, At(t, a),
         NEW come, Moves(t, {a}, come), come \subseteq {"wsaRecv", "recvFailed"},
         UNCHANGED <<service, sendState, lock, pushed, wire>>,
         connected' => connected, connected' \in BOOLEAN,
         met \subseteq met', met' \subseteq met \cup {"ignored"}, owned' \subseteq Events,
         pending \subseteq pending', pending' \subseteq pending \cup {"recv"}
  PROVE  /\ Types' /\ SendHand' /\ Sent' /\ AcceptHand' /\ ConnectHand'
         /\ Opened' /\ Added' /\ EndsOnce' /\ Managing' /\ Room' /\ Lengths'
         /\ SendStays
<1>1. Types /\ "crashed" \notin met /\ a \in RecvLabels \ {"addSession", "onConnected"}
  BY DEF IInv, EndsOnce, RecvLabels
<1>2. ~Opening /\ ~Adding /\ ~Connecting
  BY <1>1, Reading
<1>3. SendStays /\ OpenStays /\ EndsStay
  <2>1. /\ Opener \cap ({a} \cup come) = {} /\ Ends \cap ({a} \cup come) = {}
        /\ (SendLabels \cup {"push"}) \cap ({a} \cup come) = {}
    BY DEF Opener, SendLabels, Ends
  <2> QED BY <2>1, Stays
<1>4. Same({"addSession"}) /\ Same({"onConnected"})
  <2>1. {"addSession"} \cap ({a} \cup come) = {} /\ {"onConnected"} \cap ({a} \cup come) = {}
    OBVIOUS
  <2> QED BY <2>1, Elsewhere
<1>5. \A event \in {"send", "accept", "connect", "disconnect"} :
        event \in pending' <=> event \in pending
  OBVIOUS
<1>6. Types'
  <2>1. pending' \subseteq Events
    BY <1>1 DEF Types, Events
  <2>2. met' \subseteq met \cup {"ignored"} /\ stack' \in [Threads -> Stacks]
    BY DEF Moves
  <2> QED BY <1>1, <2>1, <2>2 DEF Types, service, sendState
<1>7. SendHand' /\ Sent' /\ Room' /\ Lengths'
  <2>1. SendUntold
    BY <1>3, <1>5 DEF SendUntold
  <2> QED BY <2>1, SendFrame
<1>8. AcceptHand' /\ ConnectHand'
  <2>1. OpenUntold
    BY <1>3, <1>5 DEF OpenUntold, service
  <2> QED BY <2>1, OpenFrame
<1>9. Opened' /\ Added' /\ EndsOnce' /\ Managing'
  <2>1. "crashed" \notin met' /\ ("released" \in met' <=> "released" \in met)
    BY <1>1
  <2>2. ~Connecting'
    BY <1>2, <1>4, ConnectingFrame DEF service
  <2>3. LifeUntold
    BY <1>2, <1>3, <1>4, <1>5, <2>1, <2>2 DEF LifeUntold, EndsStay, service
  <2> QED BY <2>3, LifeFrame
<1> QED BY <1>3, <1>6, <1>7, <1>8, <1>9

(* Only one thread receives, and the kernel does not while it does.         *)
LEMMA ReadingAlone ==
  ASSUME IInv, NEW t \in Threads, Busy(t, RecvLabels)
  PROVE  /\ "recv" \notin pending
         /\ \A u \in Threads \ {t} : ~Busy(u, RecvLabels) /\ ~Busy(u, Reader)
<1>1. "recv" \notin pending /\ \A u \in Threads \ {t} : ~Busy(u, RecvLabels)
  BY DEF IInv, RecvHand, OneHand
<1>2. \A u : Busy(u, Reader) => Busy(u, RecvLabels)
  BY DEF Busy, Reader, RecvLabels
<1> QED BY <1>1, <1>2

(* RegisterRecv: the event takes its reference, or the session has ended.   *)
LEMMA RegisterRecvKept ==
  ASSUME IInv, NEW t \in Threads, RegisterRecv(t)
  PROVE  IInv'
<1>1. Types /\ At(t, "registerRecv") /\ "registerRecv" \in Labels /\ "wsaRecv" \in Labels
  BY DEF IInv, RegisterRecv, Labels
<1>2. /\ "registerRecv" \in On(t) /\ On(t) \subseteq {"registerRecv"} \cup Under("registerRecv")
      /\ Rest(t) \in Below("registerRecv")
  BY <1>1, AtCall
<1>3. PICK come : /\ Moves(t, {"registerRecv"}, come)
                  /\ \/ connected /\ come = {"wsaRecv"} /\ owned' = owned \cup {"recv"}
                     \/ ~connected /\ come = {} /\ owned' = owned
  <2>1. CASE connected
    <3>1. Rest(t) \in Below("wsaRecv")
      BY <1>2 DEF Below
    <3> QED BY <1>1, <2>1, <3>1, GoesOn DEF RegisterRecv
  <2>2. CASE ~connected
    BY <1>1, <2>2, Returns DEF RegisterRecv
  <2> QED BY <2>1, <2>2
<1>4. UNCHANGED <<connected, service, sendState, lock, pending, met, pushed, wire>>
  BY DEF RegisterRecv
<1>5. /\ Types' /\ SendHand' /\ Sent' /\ AcceptHand' /\ ConnectHand'
      /\ Opened' /\ Added' /\ EndsOnce' /\ Managing' /\ Room' /\ Lengths'
      /\ SendStays
  <2>1. come \subseteq {"wsaRecv", "recvFailed"} /\ owned' \subseteq Events /\ connected' \in BOOLEAN
    BY <1>1, <1>3, <1>4 DEF Types, Events
  <2> QED BY <1>1, <1>3, <1>4, <2>1, ReaderKeeps
<1>6. Busy(t, RecvLabels) /\ ~Busy(t, Reader)
  <2>1. \A b \in Reader : b \notin {"registerRecv"} \cup Under("registerRecv")
    BY DEF Under, Reader
  <2> QED BY <1>2, <2>1 DEF Busy, RecvLabels
<1>7. "recv" \notin pending /\ \A u \in Threads \ {t} : ~Busy(u, RecvLabels) /\ ~Busy(u, Reader)
  BY <1>6, ReadingAlone
<1>8. \A labels \in {RecvLabels, Reader} : \A u \in Threads \ {t} : Busy(u, labels)' <=> Busy(u, labels)
  BY <1>3 DEF Moves, Busy
<1>9. Busy(t, Reader)' <=> connected
  <2>1. connected => \E b \in Reader : b \in (On(t) \ {"registerRecv"}) \cup come
    BY <1>3 DEF Reader
  <2>2. ~connected => \A b \in Reader : b \notin (On(t) \ {"registerRecv"}) \cup come
    BY <1>3, <1>6 DEF Busy
  <2> QED BY <1>3, <2>1, <2>2, Entering, Leaving
<1>10. RecvHand'
  <2>1. connected => Busy(t, RecvLabels)'
    BY <1>9 DEF Busy, Reader, RecvLabels
  <2> QED BY <1>4, <1>7, <1>8, <2>1 DEF RecvHand, OneHand, SomeHand
<1>11. Failed'
  <2>1. Same(Broken)
    <3>1. Broken \cap ({"registerRecv"} \cup come) = {}
      BY <1>3 DEF Broken
    <3> QED BY <1>3, <3>1, Elsewhere
  <2> QED BY <1>4, <2>1, FailedFrame DEF IInv
<1>12. Owned'
  <2>1. "recv" \notin owned
    BY <1>6, <1>7 DEF IInv, Owned, SomeHand
  <2>2. "recv" \in owned' <=> SomeHand("recv", Reader)'
    BY <1>3, <1>4, <1>7, <1>8, <1>9, <2>1 DEF SomeHand
  <2>3. \A event \in {"send", "connect", "disconnect"} : event \in owned' <=> event \in owned
    BY <1>3
  <2> QED BY <1>4, <1>5, <2>2, <2>3 DEF IInv, Owned, SomeHand, Same, SendStays
<1> QED BY <1>5, <1>10, <1>11, <1>12 DEF IInv

(* WSARecv: the kernel has the event.                                       *)
LEMMA WsaRecvKept ==
  ASSUME IInv, NEW t \in Threads, WsaRecv(t)
  PROVE  IInv'
<1>1. Types /\ At(t, "wsaRecv") /\ "wsaRecv" \in Labels
  BY DEF IInv, WsaRecv, Labels
<1>2. "wsaRecv" \in On(t) /\ On(t) \subseteq {"wsaRecv"} \cup Under("wsaRecv")
  BY <1>1, AtCall
<1>3. Moves(t, {"wsaRecv"}, {})
  BY <1>1, Returns DEF WsaRecv
<1>4. /\ UNCHANGED <<connected, service, sendState, lock, owned, met, pushed, wire>>
      /\ pending' = pending \cup {"recv"}
  BY DEF WsaRecv
<1>5. /\ Types' /\ SendHand' /\ Sent' /\ AcceptHand' /\ ConnectHand'
      /\ Opened' /\ Added' /\ EndsOnce' /\ Managing' /\ Room' /\ Lengths'
      /\ SendStays
  <2>1. {} \subseteq {"wsaRecv", "recvFailed"} /\ owned' \subseteq Events /\ connected' \in BOOLEAN
    BY <1>1, <1>4 DEF Types
  <2> QED BY <1>1, <1>3, <1>4, <2>1, ReaderKeeps
<1>6. Busy(t, RecvLabels) /\ Busy(t, Reader)
  BY <1>2 DEF Busy, RecvLabels, Reader
<1>7. "recv" \notin pending /\ \A u \in Threads \ {t} : ~Busy(u, RecvLabels) /\ ~Busy(u, Reader)
  BY <1>6, ReadingAlone
<1>8. \A u \in Threads : ~Busy(u, RecvLabels)'
  <2>1. \A b \in RecvLabels : b \notin (On(t) \ {"wsaRecv"}) \cup {}
    <3>1. \A b \in RecvLabels : b \notin Under("wsaRecv")
      BY DEF Under, RecvLabels
    <3> QED BY <1>2, <3>1
  <2>2. /\ ~Busy(t, RecvLabels)'
        /\ \A u \in Threads \ {t} : Busy(u, RecvLabels)' <=> Busy(u, RecvLabels)
    BY <1>3, <2>1, Leaving
  <2> QED BY <1>7, <2>2
<1>9. RecvHand'
  BY <1>4, <1>8 DEF RecvHand, OneHand, SomeHand
<1>10. Failed'
  <2>1. Same(Broken)
    <3>1. Broken \cap ({"wsaRecv"} \cup {}) = {}
      BY DEF Broken
    <3> QED BY <1>3, <3>1, Elsewhere
  <2> QED BY <1>4, <2>1, FailedFrame DEF IInv
<1>11. Owned'
  <2>1. "recv" \in owned
    BY <1>6 DEF IInv, Owned, SomeHand
  <2> QED BY <1>4, <1>5, <2>1 DEF IInv, Owned, SomeHand, Same, SendStays
<1> QED BY <1>5, <1>9, <1>10, <1>11 DEF IInv

(* The reader cleans up after an error; the session has ended, or the error *)
(* was ignored.                                                             *)
LEMMA RecvFailedKept ==
  ASSUME IInv, NEW t \in Threads, RecvFailed(t)
  PROVE  IInv'
<1>1. Types /\ At(t, "recvFailed") /\ "recvFailed" \in Labels
  BY DEF IInv, RecvFailed, Labels
<1>2. "recvFailed" \in On(t) /\ On(t) \subseteq {"recvFailed"} \cup Under("recvFailed")
  BY <1>1, AtCall
<1>3. Moves(t, {"recvFailed"}, {})
  BY <1>1, Returns DEF RecvFailed
<1>4. /\ UNCHANGED <<connected, service, sendState, lock, pending, met, pushed, wire>>
      /\ owned' = owned \ {"recv"}
  BY DEF RecvFailed
<1>5. /\ Types' /\ SendHand' /\ Sent' /\ AcceptHand' /\ ConnectHand'
      /\ Opened' /\ Added' /\ EndsOnce' /\ Managing' /\ Room' /\ Lengths'
      /\ SendStays
  <2>1. {} \subseteq {"wsaRecv", "recvFailed"} /\ owned' \subseteq Events /\ connected' \in BOOLEAN
    BY <1>1, <1>4 DEF Types
  <2> QED BY <1>1, <1>3, <1>4, <2>1, ReaderKeeps
<1>6. Busy(t, RecvLabels) /\ Busy(t, Broken)
  BY <1>2 DEF Busy, RecvLabels, Broken
<1>7. "recv" \notin pending /\ \A u \in Threads \ {t} : ~Busy(u, RecvLabels) /\ ~Busy(u, Reader)
  BY <1>6, ReadingAlone
<1>8. \A u \in Threads : ~Busy(u, RecvLabels)' /\ ~Busy(u, Reader)'
  <2>1. \A b \in RecvLabels : b \notin (On(t) \ {"recvFailed"}) \cup {}
    <3>1. \A b \in RecvLabels : b \notin Under("recvFailed")
      BY DEF Under, RecvLabels
    <3> QED BY <1>2, <3>1
  <2>2. /\ ~Busy(t, RecvLabels)'
        /\ \A u \in Threads \ {t} : Busy(u, RecvLabels)' <=> Busy(u, RecvLabels)
    BY <1>3, <2>1, Leaving
  <2>3. \A b \in Reader : b \notin (On(t) \ {"recvFailed"}) \cup {}
    BY <2>1 DEF Reader, RecvLabels
  <2>4. /\ ~Busy(t, Reader)'
        /\ \A u \in Threads \ {t} : Busy(u, Reader)' <=> Busy(u, Reader)
    BY <1>3, <2>3, Leaving
  <2> QED BY <1>7, <2>2, <2>4
<1>9. ~connected' \/ "ignored" \in met'
  BY <1>4, <1>6 DEF IInv, Failed
<1>10. RecvHand'
  BY <1>4, <1>8, <1>9 DEF RecvHand, OneHand, SomeHand
<1>11. Failed'
  BY <1>9 DEF Failed
<1>12. Owned'
  <2>1. "recv" \notin owned' /\ ~SomeHand("recv", Reader)'
    BY <1>4, <1>7, <1>8 DEF SomeHand
  <2> QED BY <1>4, <1>5, <2>1 DEF IInv, Owned, SomeHand, Same, SendStays
<1> QED BY <1>5, <1>10, <1>11, <1>12 DEF IInv
(* WSARecv fails: HandleError disconnects, or the error is ignored; then    *)
(* the reader cleans up.                                                    *)
LEMMA WsaRecvFailsKept ==
  ASSUME IInv, NEW t \in Threads, NEW error \in Errors, WsaRecvFails(t, error)
  PROVE  IInv'
<1>1. Types /\ At(t, "wsaRecv") /\ "wsaRecv" \in Labels /\ "recvFailed" \in Labels
  BY DEF IInv, WsaRecvFails, Labels
<1>2. /\ "wsaRecv" \in On(t) /\ On(t) \subseteq {"wsaRecv"} \cup Under("wsaRecv")
      /\ Rest(t) \in Accepting /\ Rest(t) \in Stacks /\ On(t) \ {"wsaRecv"} = Elems(Rest(t))
  BY <1>1, AtCall DEF Below
<1>3. PICK come : Breaks(t, "wsaRecv", "recvFailed", come)
  <2>1. PICK q : q = <<"recvFailed">> \o Rest(t)
    OBVIOUS
  <2>2. q \in Below("disconnect") /\ Elems(q) = (On(t) \ {"wsaRecv"}) \cup {"recvFailed"}
    <3>1. Rest(t) \in Below("recvFailed")
      BY <1>2 DEF Below
    <3>2. Elems(q) = {"recvFailed"} \cup Elems(Rest(t))
      BY <1>1, <1>2, <2>1, <3>1, OnStack
    <3> QED BY <1>2, <2>1, <3>2, FailingTop
  <2>3. HandleError(t, error, q)
    BY <2>1 DEF WsaRecvFails
  <2> QED BY <1>1, <2>2, <2>3, HandleErrorMoves
<1> USE DEF Breaks
<1>4. UNCHANGED <<service, sendState, lock, io, pushed, wire>> /\ met \subseteq met'
  BY <1>3 DEF WsaRecvFails
<1>5. ~Opening /\ ~Adding /\ ~Connecting
  <2>1. "wsaRecv" \in RecvLabels \ {"addSession"}
    BY DEF RecvLabels
  <2> QED BY <1>1, <2>1, Reading
<1>6. SendStays /\ OpenStays /\ Same({"addSession"}) /\ Same({"onConnected"})
  <2>1. (SendLabels \cup {"push"}) \cap ({"wsaRecv"} \cup come) = {}
    BY <1>3 DEF SendLabels
  <2>2. Opener \cap ({"wsaRecv"} \cup come) = {}
    BY <1>3 DEF Opener
  <2>3. {"addSession"} \cap ({"wsaRecv"} \cup come) = {}
    BY <1>3
  <2>4. {"onConnected"} \cap ({"wsaRecv"} \cup come) = {}
    BY <1>3
  <2> QED BY <1>3, <2>1, <2>2, <2>3, <2>4, Stays, Elsewhere
<1>7. Busy(t, RecvLabels) /\ Busy(t, Reader)
  BY <1>2 DEF Busy, RecvLabels, Reader
<1>8. Same(RecvLabels) /\ Same(Reader)
  <2>1. \A labels \in {RecvLabels, Reader} : \E b \in labels : b \in (On(t) \ {"wsaRecv"}) \cup come
    BY <1>3 DEF RecvLabels, Reader
  <2> QED BY <1>3, <1>7, <2>1, Within
<1>9. Types'
  <2>1. connected' \in BOOLEAN /\ met' \subseteq met \cup {"ignored"} /\ stack' \in [Threads -> Stacks]
    <3>1. connected' \in BOOLEAN
      BY <1>1, <1>3 DEF Types
    <3>2. met' \subseteq met \cup {"ignored"}
      BY <1>3
    <3> QED BY <1>3, <3>1, <3>2 DEF Moves
  <2> QED BY <1>1, <1>4, <2>1 DEF Types, service, sendState, io
<1>10. ~connected' \/ "ignored" \in met'
  BY <1>3
<1>11. SendHand' /\ Sent' /\ Room' /\ Lengths'
  <2>1. SendUntold
    BY <1>3, <1>4, <1>6 DEF SendUntold, io
  <2> QED BY <2>1, SendFrame
<1>12. RecvHand'
  BY <1>3, <1>4, <1>8, RecvHandFrame DEF IInv, io
<1>13. Failed'
  BY <1>10 DEF Failed
<1>14. Owned'
  BY <1>4, <1>6, <1>8, OwnedFrame DEF IInv, SendStays
<1>15. AcceptHand' /\ ConnectHand'
  <2>1. OpenUntold
    BY <1>3, <1>4, <1>6 DEF OpenUntold, service, io
  <2> QED BY <2>1, OpenFrame
<1>16. Opened' /\ Added' /\ EndsOnce' /\ Managing'
  <2>1. "crashed" \notin met' /\ ("released" \in met' <=> "released" \in met)
    BY <1>3 DEF IInv, EndsOnce
  <2>2. ~Connecting'
    BY <1>4, <1>5, <1>6, ConnectingFrame DEF service
  <2>3. CASE connected /\ ~connected' /\ come = {"recvFailed", "disconnect"}
    <3>1. /\ {"wsaRecv"} \cap (Ends \cup Opener \cup {"addSession"}) = {}
          /\ come \cap ({"release", "addSession"} \cup Opener) = {}
      BY <2>3 DEF Ends, Opener
    <3> QED BY <1>3, <1>4, <1>5, <2>1, <2>2, <2>3, <3>1, DisconnectFrame DEF service, io
  <2>4. CASE come = {"recvFailed"} /\ (connected' => connected)
    <3>1. Same(Ends) /\ Same({"release"})
      <4>1. Ends \cap ({"wsaRecv"} \cup come) = {}
        BY <2>4 DEF Ends
      <4> QED BY <1>3, <4>1, Stays DEF EndsStay
    <3>2. LifeUntold
      BY <1>4, <1>5, <1>6, <2>1, <2>2, <2>4, <3>1 DEF LifeUntold, service, io
    <3> QED BY <3>2, LifeFrame
  <2> QED BY <1>3, <2>3, <2>4
<1> QED BY <1>9, <1>11, <1>12, <1>13, <1>14, <1>15, <1>16 DEF IInv

-----------------------------------------------------------------------------
(* The completions *)

(* A session with a receive, a send or a disconnect at the kernel has been  *)
(* welcomed.                                                                *)
LEMMA Running ==
  ASSUME IInv, NEW event \in {"recv", "send", "disconnect"}, event \in pending
  PROVE  ~Opening /\ ~Adding /\ ~Connecting
BY DEF IInv, Opened, Added, Managing, Untouched

(* A thread that takes an empty completion disconnects or does nothing.     *)
LEMMA NoBytes ==
  ASSUME Types, NEW t \in Threads, Idle(t), Disconnect(t, <<>>)
  PROVE  /\ connected' = FALSE
         /\ connected => Moves(t, {}, {"disconnect"})
         /\ ~connected => Moves(t, {}, {})
<1>1. <<>> \in Below("disconnect") /\ Elems(<<>>) = (On(t) \ {}) \cup {}
  <2>1. On(t) = {} /\ Elems(<<>>) = {}
    BY IdleCalls, OneCall
  <2> QED BY <2>1 DEF Below, Content
<1>2. /\ connected' = FALSE
      /\ connected => Moves(t, {}, {} \cup {"disconnect"})
      /\ ~connected => Moves(t, {}, {})
  BY <1>1, DisconnectMoves
<1>3. {} \cup {"disconnect"} = {"disconnect"}
  OBVIOUS
<1> QED BY <1>2, <1>3

(* A completion of a receive or a send keeps what is not about it.          *)
LEMMA CompletionKeeps ==
  ASSUME IInv, NEW t \in Threads, NEW event \in {"recv", "send"}, event \in pending,
         NEW come, Moves(t, {}, come),
         \/ connected' = FALSE /\ connected /\ come = {"disconnect"}
         \/ connected' = FALSE /\ ~connected /\ come = {}
         \/ connected' = connected /\ come \cap (Ends \cup Opener \cup {"addSession", "onConnected"}) = {},
         UNCHANGED <<service, met>>,
         pending' = pending \ {event}
  PROVE  AcceptHand' /\ ConnectHand' /\ Opened' /\ Added' /\ EndsOnce' /\ Managing'
<1>1. ~Opening /\ ~Adding /\ ~Connecting
  BY Running
<1>2. \A e \in {"accept", "connect", "disconnect"} : e \in pending' <=> e \in pending
  OBVIOUS
<1>3. OpenStays /\ Same({"onConnected"}) /\ Same({"addSession"})
  <2>1. Opener \cap ({} \cup come) = {}
    BY DEF Opener
  <2>2. {"onConnected"} \cap ({} \cup come) = {} /\ {"addSession"} \cap ({} \cup come) = {}
    OBVIOUS
  <2> QED BY <2>1, <2>2, Stays, Elsewhere
<1>4. ~Connecting'
  BY <1>1, <1>3, ConnectingFrame DEF service
<1>5. "crashed" \notin met'
  BY DEF IInv, EndsOnce
<1>6. AcceptHand' /\ ConnectHand'
  <2>1. OpenUntold
    BY <1>2, <1>3 DEF OpenUntold, service
  <2> QED BY <2>1, OpenFrame
<1>7. CASE connected' = FALSE /\ connected /\ come = {"disconnect"}
  <2>1. /\ {} \cap (Ends \cup Opener \cup {"addSession"}) = {}
        /\ come \cap ({"release", "addSession"} \cup Opener) = {}
    BY <1>7 DEF Opener
  <2> QED BY <1>1, <1>2, <1>4, <1>5, <1>6, <1>7, <2>1, DisconnectFrame DEF service
<1>8. CASE Ends \cap ({} \cup come) = {} /\ (connected' => connected)
  <2>1. EndsStay
    BY <1>8, Stays
  <2>2. LifeUntold
    BY <1>1, <1>2, <1>3, <1>4, <1>5, <1>8, <2>1 DEF LifeUntold, EndsStay, service
  <2> QED BY <1>6, <2>2, LifeFrame
<1>9. come = {} => Ends \cap ({} \cup come) = {}
  OBVIOUS
<1>10. come \cap (Ends \cup Opener \cup {"addSession", "onConnected"}) = {}
         => Ends \cap ({} \cup come) = {}
  OBVIOUS
<1>11. \/ connected' = FALSE /\ connected /\ come = {"disconnect"}
       \/ Ends \cap ({} \cup come) = {}
  BY <1>9, <1>10
<1>12. connected' => connected
  OBVIOUS
<1> QED BY <1>7, <1>8, <1>11, <1>12
(* ProcessRecv: the reference is given up; 0 bytes disconnect, and data go  *)
(* to OnRecv, after which the next receive is registered.                   *)
LEMMA ProcessRecvKept ==
  ASSUME IInv, NEW t \in Threads, NEW n \in {0, 1}, ProcessRecv(t, n)
  PROVE  IInv'
<1>1. /\ Types /\ Idle(t) /\ "recv" \in pending
      /\ pending' = pending \ {"recv"} /\ owned' = owned \ {"recv"}
      /\ UNCHANGED <<service, sendState, lock, met, pushed, wire>>
  BY DEF IInv, ProcessRecv, Completes
<1>2. PICK come : /\ Moves(t, {}, come)
                  /\ \/ connected' = FALSE /\ connected /\ come = {"disconnect"}
                     \/ connected' = FALSE /\ ~connected /\ come = {}
                     \/ connected' = connected /\ come = {"onRecv", "registerRecv"}
  <2>1. CASE n = 0
    <3>1. Disconnect(t, <<>>)
      BY <2>1 DEF ProcessRecv
    <3> QED BY <1>1, <3>1, NoBytes
  <2>2. CASE n # 0
    <3>1. PICK q : q = <<"onRecv", "registerRecv">>
      OBVIOUS
    <3>2. q \in Stacks /\ Elems(q) = {"onRecv", "registerRecv"}
      BY <3>1, MoreCalls
    <3>3. Then(t, q, <<>>) /\ connected' = connected
      BY <2>2, <3>1 DEF ProcessRecv
    <3>4. Moves(t, {}, Elems(q))
      BY <1>1, <3>2, <3>3, Begins
    <3> QED BY <3>2, <3>3, <3>4
  <2> QED BY <2>1, <2>2
<1>3. AcceptHand' /\ ConnectHand' /\ Opened' /\ Added' /\ EndsOnce' /\ Managing'
  <2>1. {"onRecv", "registerRecv"} \cap (Ends \cup Opener \cup {"addSession", "onConnected"}) = {}
    BY DEF Ends, Opener
  <2> QED BY <1>1, <1>2, <2>1, CompletionKeeps
<1>4. SendStays /\ Same(Broken) /\ Same(Reader)
  <2>1. (SendLabels \cup {"push"}) \cap ({} \cup come) = {}
    BY <1>2 DEF SendLabels
  <2>2. Broken \cap ({} \cup come) = {}
    BY <1>2 DEF Broken
  <2>3. Reader \cap ({} \cup come) = {}
    BY <1>2 DEF Reader
  <2> QED BY <1>2, <2>1, <2>2, <2>3, Stays, Elsewhere
<1>5. connected' => connected
  BY <1>2
<1>6. Types'
  <2>1. connected' \in BOOLEAN
    BY <1>1, <1>2 DEF Types
  <2> QED BY <1>1, <1>2, <2>1 DEF Types, Moves, service, sendState
<1>7. SendHand' /\ Sent' /\ Room' /\ Lengths'
  <2>1. SendUntold
    BY <1>1, <1>4, <1>5 DEF SendUntold
  <2> QED BY <2>1, SendFrame
<1>8. \A u \in Threads : ~Busy(u, RecvLabels) /\ ~Busy(u, Reader)
  <2>1. \A u \in Threads : ~Busy(u, RecvLabels)
    BY <1>1 DEF IInv, RecvHand, OneHand
  <2> QED BY <2>1 DEF Busy, Reader, RecvLabels
<1>9. RecvHand'
  <2>1. \A u \in Threads \ {t} : Busy(u, RecvLabels)' <=> Busy(u, RecvLabels)
    BY <1>2 DEF Moves, Busy
  <2>2. connected' => Busy(t, RecvLabels)'
    <3>1. CASE come = {"onRecv", "registerRecv"}
      <4>1. \E b \in RecvLabels : b \in (On(t) \ {}) \cup come
        BY <3>1 DEF RecvLabels
      <4> QED BY <1>2, <4>1, Entering
    <3> QED BY <1>2, <3>1
  <2> QED BY <1>1, <1>8, <2>1, <2>2 DEF RecvHand, OneHand, SomeHand
<1>10. Failed'
  BY <1>1, <1>4, <1>5, FailedFrame DEF IInv
<1>11. Owned'
  <2>1. "recv" \notin owned' /\ ~SomeHand("recv", Reader)'
    BY <1>1, <1>4, <1>8 DEF SomeHand, Same
  <2> QED BY <1>1, <1>4, <2>1 DEF IInv, Owned, SomeHand, Same, SendStays
<1> QED BY <1>3, <1>6, <1>7, <1>9, <1>10, <1>11 DEF IInv

(* ProcessSend: what was in the event is freed; 0 bytes disconnect, and     *)
(* otherwise this thread has the turn.                                      *)
LEMMA ProcessSendKept ==
  ASSUME IInv, NEW t \in Threads, NEW n \in {0, 1}, ProcessSend(t, n)
  PROVE  IInv'
<1>1. /\ Types /\ Idle(t) /\ "send" \in pending
      /\ pending' = pending \ {"send"} /\ owned' = owned \ {"send"} /\ sendBuffers' = <<>>
      /\ UNCHANGED <<service, sendQueue, sendRegistered, lock, met, pushed, wire>>
  BY DEF IInv, ProcessSend, Completes
<1>2. PICK come : /\ Moves(t, {}, come)
                  /\ \/ connected' = FALSE /\ connected /\ come = {"disconnect"}
                     \/ connected' = FALSE /\ ~connected /\ come = {}
                     \/ connected' = connected /\ come = {"sendNext"}
  <2>1. CASE n = 0
    <3>1. Disconnect(t, <<>>)
      BY <2>1 DEF ProcessSend
    <3> QED BY <1>1, <3>1, NoBytes
  <2>2. CASE n # 0
    <3>1. PICK q : q = <<"sendNext">>
      OBVIOUS
    <3>2. q \in Stacks /\ Elems(q) = {"sendNext"}
      <4>1. "sendNext" \in Labels \ {"addSession", "onConnected", "onRecv"}
        BY DEF Labels
      <4> QED BY <3>1, <4>1, OneCall
    <3>3. Then(t, q, <<>>) /\ connected' = connected
      BY <2>2, <3>1 DEF ProcessSend
    <3>4. Moves(t, {}, Elems(q))
      BY <1>1, <3>2, <3>3, Begins
    <3> QED BY <3>2, <3>3, <3>4
  <2> QED BY <2>1, <2>2
<1>3. AcceptHand' /\ ConnectHand' /\ Opened' /\ Added' /\ EndsOnce' /\ Managing'
  <2>1. {"sendNext"} \cap (Ends \cup Opener \cup {"addSession", "onConnected"}) = {}
    BY DEF Ends, Opener
  <2> QED BY <1>1, <1>2, <2>1, CompletionKeeps
<1>4. /\ RecvStays /\ Same(Broken) /\ Same(Sender) /\ Same(Writing) /\ Same({"wsaSend"}) /\ Same({"push"})
  <2>1. RecvLabels \cap ({} \cup come) = {}
    BY <1>2 DEF RecvLabels
  <2>2. \A labels \in {Broken, Sender, Writing, {"wsaSend"}, {"push"}} : labels \cap ({} \cup come) = {}
    BY <1>2 DEF Broken, Sender, Writing
  <2> QED BY <1>2, <2>1, <2>2, Stays, Elsewhere
<1>5. connected' => connected
  BY <1>2
<1>6. Types'
  <2>1. connected' \in BOOLEAN
    BY <1>1, <1>2 DEF Types
  <2> QED BY <1>1, <1>2, <2>1, Literals DEF Types, Moves, service
<1>7. /\ sendRegistered
      /\ \A u \in Threads : ~Busy(u, SendLabels) /\ ~Busy(u, Sender) /\ ~Busy(u, {"wsaSend"})
  <2>1. sendRegistered /\ \A u \in Threads : ~Busy(u, SendLabels)
    BY <1>1 DEF IInv, SendHand, OneHand, SomeHand
  <2> QED BY <2>1 DEF Busy, SendLabels, Sender
<1>8. SendHand'
  <2>1. \A u \in Threads \ {t} : Busy(u, SendLabels)' <=> Busy(u, SendLabels)
    BY <1>2 DEF Moves, Busy
  <2>2. connected' => Busy(t, SendLabels)'
    <3>1. CASE come = {"sendNext"}
      <4>1. \E b \in SendLabels : b \in (On(t) \ {}) \cup come
        BY <3>1 DEF SendLabels
      <4> QED BY <1>2, <4>1, Entering
    <3> QED BY <1>2, <3>1
  <2> QED BY <1>1, <1>5, <1>7, <2>1, <2>2 DEF SendHand, OneHand, SomeHand
<1>9. RecvHand'
  BY <1>1, <1>4, <1>5, RecvHandFrame DEF IInv, RecvStays
<1>10. Failed'
  BY <1>1, <1>4, <1>5, FailedFrame DEF IInv
<1>11. Sent'
  BY <1>1, <1>4, <1>5, <1>7 DEF IInv, Sent, Same
<1>12. Owned'
  <2>1. "send" \notin owned' /\ ~SomeHand("send", Sender)'
    BY <1>1, <1>4, <1>7 DEF SomeHand, Same
  <2> QED BY <1>1, <1>4, <2>1 DEF IInv, Owned, SomeHand, Same, RecvStays
<1>13. Room'
  BY <1>1, <1>4, RoomFrame DEF IInv
<1>14. Lengths'
  <2>1. Len(sendBuffers') = 0 /\ Len(sendQueue) \in Nat /\ Len(wire) \in Nat /\ Len(pushed) \in Nat
    BY <1>1 DEF Types
  <2> QED BY <1>1, <2>1 DEF IInv, Lengths
<1> QED BY <1>3, <1>6, <1>8, <1>9, <1>10, <1>11, <1>12, <1>13, <1>14 DEF IInv
-----------------------------------------------------------------------------
(* The end of the session *)

(* OnRecv finds more than the buffer holds and disconnects; no receive is   *)
(* registered any more.                                                     *)
LEMMA RecvOverflowKept ==
  ASSUME IInv, NEW t \in Threads, RecvOverflow(t)
  PROVE  IInv'
<1>1. Types /\ At(t, "onRecv") /\ "onRecv" \in Labels /\ "crashed" \notin met
  BY DEF IInv, RecvOverflow, Labels, EndsOnce
<1>2. UNCHANGED <<service, sendState, lock, io, met, pushed, wire>>
  BY DEF RecvOverflow
<1>3. "onRecv" \in On(t) /\ On(t) \ {"onRecv"} = {"registerRecv"} /\ Tail(Rest(t)) = <<>>
  <2>1. "onRecv" \in On(t) /\ Rest(t) \in Below("onRecv") /\ On(t) \ {"onRecv"} = Elems(Rest(t))
    BY <1>1, AtCall
  <2>2. Rest(t) = <<"registerRecv">>
    BY <2>1 DEF Below
  <2>3. "registerRecv" \in Labels \ {"addSession", "onConnected", "onRecv"}
    BY DEF Labels
  <2>4. Elems(<<"registerRecv">>) = {"registerRecv"}
    BY <2>3, OneCall
  <2>5. Tail(<<"registerRecv">>) = <<>>
    BY SMT
  <2> QED BY <2>1, <2>2, <2>4, <2>5
<1> DEFINE gone == {"onRecv", "registerRecv"}
<1>4. /\ connected' = FALSE
      /\ connected => Moves(t, gone, {"disconnect"})
      /\ ~connected => Moves(t, gone, {})
  <2>1. <<>> \in Below("disconnect") /\ Disconnect(t, <<>>)
    BY <1>3 DEF RecvOverflow, Below, Content
  <2>2. Elems(<<>>) = (On(t) \ gone) \cup {}
    <3>1. Elems(<<>>) = {}
      BY OneCall
    <3> QED BY <1>3, <3>1
  <2>3. /\ connected' = FALSE
        /\ connected => Moves(t, gone, {} \cup {"disconnect"})
        /\ ~connected => Moves(t, gone, {})
    BY <1>1, <2>1, <2>2, DisconnectMoves
  <2>4. {} \cup {"disconnect"} = {"disconnect"}
    OBVIOUS
  <2> QED BY <2>3, <2>4
<1>5. PICK come : /\ Moves(t, gone, come)
                  /\ (connected /\ come = {"disconnect"}) \/ (~connected /\ come = {})
  BY <1>4
<1>6. ~Opening /\ ~Adding /\ ~Connecting
  <2>1. "onRecv" \in RecvLabels \ {"addSession"}
    BY DEF RecvLabels
  <2> QED BY <1>1, <2>1, Reading
<1>7. SendStays /\ OpenStays /\ Same(Broken) /\ Same(Reader) /\ Same({"onConnected"})
  <2>1. (SendLabels \cup {"push"}) \cap (gone \cup come) = {}
    BY <1>5 DEF SendLabels
  <2>2. Opener \cap (gone \cup come) = {}
    BY <1>5 DEF Opener
  <2>3. \A labels \in {Broken, Reader, {"onConnected"}} : labels \cap (gone \cup come) = {}
    BY <1>5 DEF Broken, Reader
  <2> QED BY <1>5, <2>1, <2>2, <2>3, Stays, Elsewhere
<1>8. Types'
  BY <1>1, <1>2, <1>4, <1>5 DEF Types, Moves, service, sendState, io
<1>9. SendHand' /\ Sent' /\ Room' /\ Lengths'
  <2>1. SendUntold
    BY <1>2, <1>4, <1>7 DEF SendUntold, io
  <2> QED BY <2>1, SendFrame
<1>10. RecvHand'
  <2>1. Busy(t, RecvLabels)
    BY <1>3 DEF Busy, RecvLabels
  <2>2. "recv" \notin pending /\ \A u \in Threads \ {t} : ~Busy(u, RecvLabels)
    BY <2>1, ReadingAlone
  <2>3. ~Busy(t, RecvLabels)' /\ \A u \in Threads \ {t} : Busy(u, RecvLabels)' <=> Busy(u, RecvLabels)
    <3>1. \A b \in RecvLabels : b \notin (On(t) \ gone) \cup come
      BY <1>3, <1>5 DEF RecvLabels
    <3> QED BY <1>5, <3>1, Leaving
  <2> QED BY <1>2, <1>4, <2>2, <2>3 DEF RecvHand, OneHand, SomeHand, io
<1>11. Failed'
  BY <1>4 DEF Failed
<1>12. Owned'
  BY <1>2, <1>7, OwnedFrame DEF IInv, SendStays
<1>13. AcceptHand' /\ ConnectHand'
  <2>1. OpenUntold
    BY <1>2, <1>7 DEF OpenUntold, service, io
  <2> QED BY <2>1, OpenFrame
<1>14. Opened' /\ Added' /\ EndsOnce' /\ Managing'
  <2>1. ~Connecting'
    BY <1>2, <1>6, <1>7, ConnectingFrame DEF service
  <2>2. /\ gone \cap (Ends \cup Opener \cup {"addSession"}) = {}
        /\ come \cap ({"release", "addSession"} \cup Opener) = {}
    BY <1>5 DEF Opener, Ends
  <2> HIDE DEF gone
  <2> QED BY <1>1, <1>2, <1>4, <1>5, <1>6, <2>1, <2>2, DisconnectFrame DEF service, io
<1> QED BY <1>8, <1>9, <1>10, <1>11, <1>12, <1>13, <1>14 DEF IInv

(* A step of the session's end keeps all that is not about it.              *)
LEMMA EndKeeps ==
  ASSUME IInv, NEW t \in Threads, NEW gone, NEW come, Moves(t, gone, come),
         gone \cup come \subseteq Ends, ~Opening, ~Adding, ~Connecting,
         UNCHANGED <<role, connected, sendState, lock, pushed, wire>>,
         met \subseteq met', "started" \in met' => "started" \in met,
         \A event \in Events \ {"disconnect"} :
           /\ event \in pending' <=> event \in pending
           /\ event \in owned' <=> event \in owned
  PROVE  /\ SendHand' /\ Sent' /\ Room' /\ Lengths' /\ RecvHand' /\ Failed'
         /\ AcceptHand' /\ ConnectHand' /\ Opened' /\ Added' /\ ~Connecting' /\ ~Adding'
         /\ ("disconnect" \in owned' <=> "disconnect" \in pending') => Owned'
<1>1. SendStays /\ RecvStays /\ OpenStays /\ Same(Broken)
  <2>1. /\ (SendLabels \cup {"push"}) \cap Ends = {} /\ RecvLabels \cap Ends = {}
        /\ Opener \cap Ends = {} /\ Broken \cap Ends = {}
    BY DEF SendLabels, RecvLabels, Opener, Broken, Ends
  <2>2. /\ (SendLabels \cup {"push"}) \cap (gone \cup come) = {} /\ RecvLabels \cap (gone \cup come) = {}
        /\ Opener \cap (gone \cup come) = {} /\ Broken \cap (gone \cup come) = {}
    BY <2>1
  <2> QED BY <2>2, Stays
<1>2. \A event \in {"send", "recv", "accept", "connect"} :
           /\ event \in pending' <=> event \in pending
           /\ event \in owned' <=> event \in owned
  BY DEF Events
<1>3. SendHand' /\ Sent' /\ Room' /\ Lengths'
  <2>1. SendUntold
    BY <1>1, <1>2 DEF SendUntold
  <2> QED BY <2>1, SendFrame
<1>4. RecvHand'
  BY <1>1, <1>2, RecvHandFrame DEF IInv, RecvStays
<1>5. Failed'
  BY <1>1, FailedFrame DEF IInv
<1>6. AcceptHand' /\ ConnectHand'
  <2>1. OpenUntold
    BY <1>1, <1>2 DEF OpenUntold
  <2> QED BY <2>1, OpenFrame
<1>7. Opened' /\ Added' /\ ~Connecting' /\ ~Adding'
  BY <1>1, <1>2, OpenedFrame, AddedFrame, ConnectingFrame DEF OpenStays, RecvStays
<1>8. ("disconnect" \in owned' <=> "disconnect" \in pending') => Owned'
  BY <1>1, <1>2 DEF IInv, Owned, SomeHand, Same, SendStays, RecvStays
<1> QED BY <1>3, <1>4, <1>5, <1>6, <1>7, <1>8

(* Only one thread ends the session, and the kernel does not while it does. *)
LEMMA EndingAlone ==
  ASSUME IInv, SomeHand("disconnect", Ends)
  PROVE  /\ ~connected /\ "released" \notin met /\ inService
         /\ \A t \in Threads : Busy(t, Ends) =>
              "disconnect" \notin pending /\ \A u \in Threads \ {t} : ~Busy(u, Ends)
BY DEF IInv, EndsOnce, OneHand

(* DisconnectEx: the kernel has the event, or it failed and nobody looks.   *)
LEMMA RegisterDisconnectKept ==
  ASSUME IInv, NEW t \in Threads, RegisterDisconnect(t)
  PROVE  IInv'
<1>1. Types /\ At(t, "disconnect") /\ "disconnect" \in Labels /\ "crashed" \notin met
  BY DEF IInv, RegisterDisconnect, Labels, EndsOnce
<1>2. "disconnect" \in On(t) /\ On(t) \subseteq {"disconnect"} \cup Under("disconnect")
  BY <1>1, AtCall
<1>3. Moves(t, {"disconnect"}, {})
  BY <1>1, Returns DEF RegisterDisconnect
<1>4. UNCHANGED <<connected, service, sendState, lock, pushed, wire>>
  BY DEF RegisterDisconnect
<1>5. \/ /\ pending' = pending \cup {"disconnect"} /\ owned' = owned \cup {"disconnect"} /\ met' = met
      \/ pending' = pending /\ owned' = owned /\ met' = met \cup {"notDisconnected"}
  BY DEF RegisterDisconnect, io
<1>6. ~Opening /\ ~Adding /\ ~Connecting
  <2>1. "disconnect" \in Labels \ Opener /\ "disconnect" \notin Welcoming
    BY DEF Labels, Opener, Welcoming
  <2> QED BY <1>2, <2>1, InUse
<1>7. /\ SendHand' /\ Sent' /\ Room' /\ Lengths' /\ RecvHand' /\ Failed'
      /\ AcceptHand' /\ ConnectHand' /\ Opened' /\ Added' /\ ~Connecting' /\ ~Adding'
      /\ ("disconnect" \in owned' <=> "disconnect" \in pending') => Owned'
  <2>1. {"disconnect"} \cup {} \subseteq Ends
    BY DEF Ends
  <2>2. met \subseteq met' /\ ("started" \in met' => "started" \in met)
    BY <1>5
  <2>3. \A event \in Events \ {"disconnect"} :
           /\ event \in pending' <=> event \in pending
           /\ event \in owned' <=> event \in owned
    BY <1>5
  <2> QED BY <1>3, <1>4, <1>6, <2>1, <2>2, <2>3, EndKeeps DEF service
<1>8. Owned'
  <2>1. "disconnect" \in owned <=> "disconnect" \in pending
    BY DEF IInv, Owned
  <2>2. "disconnect" \in owned' <=> "disconnect" \in pending'
    BY <1>5, <2>1
  <2> QED BY <1>7, <2>2
<1>9. Types'
  <2>1. pending' \subseteq Events /\ owned' \subseteq Events /\ met' \subseteq met \cup {"notDisconnected"}
    BY <1>1, <1>5 DEF Types, Events
  <2> QED BY <1>1, <1>3, <1>4, <2>1 DEF Types, Moves, service, sendState
<1>10. Busy(t, Ends) /\ SomeHand("disconnect", Ends)
  BY <1>2 DEF Busy, Ends, SomeHand
<1>11. /\ ~connected /\ "released" \notin met /\ inService /\ "disconnect" \notin pending
       /\ \A u \in Threads \ {t} : ~Busy(u, Ends)
  BY <1>10, EndingAlone
<1>12. \A u \in Threads : ~Busy(u, Ends)'
  <2>1. \A b \in Ends : b \notin (On(t) \ {"disconnect"}) \cup {}
    <3>1. "release" \notin {"disconnect"} \cup Under("disconnect")
      BY DEF Under
    <3> QED BY <1>2, <3>1 DEF Ends
  <2>2. ~Busy(t, Ends)' /\ \A u \in Threads \ {t} : Busy(u, Ends)' <=> Busy(u, Ends)
    BY <1>3, <2>1, Leaving
  <2> QED BY <1>11, <2>2
<1>13. "released" \notin met' /\ "crashed" \notin met' /\ met \subseteq met'
  BY <1>1, <1>5, <1>11
<1>14. EndsOnce'
  BY <1>4, <1>11, <1>12, <1>13 DEF EndsOnce, OneHand, SomeHand, service
<1>15. Managing'
  <2>1. Same({"release"})
    <3>1. {"release"} \cap ({"disconnect"} \cup {}) = {}
      OBVIOUS
    <3> QED BY <1>3, <3>1, Elsewhere
  <2> QED BY <1>4, <1>7, <1>11, <1>13, <2>1, ManagingFrame DEF IInv, service
<1> QED BY <1>7, <1>8, <1>9, <1>14, <1>15 DEF IInv
(* ProcessDisconnect: the manager forgets the session, which is released    *)
(* next.                                                                    *)
LEMMA ProcessDisconnectKept ==
  ASSUME IInv, NEW t \in Threads, ProcessDisconnect(t)
  PROVE  IInv'
<1>1. /\ Types /\ Idle(t) /\ "disconnect" \in pending /\ "crashed" \notin met
      /\ pending' = pending \ {"disconnect"} /\ owned' = owned \ {"disconnect"} /\ managed' = FALSE
      /\ UNCHANGED <<role, inService, connected, sendState, lock, met, pushed, wire>>
  BY DEF IInv, ProcessDisconnect, Completes, EndsOnce
<1>2. Moves(t, {}, {"release"})
  <2>1. PICK q : q = <<"release">>
    OBVIOUS
  <2>2. q \in Stacks /\ Elems(q) = {"release"}
    <3>1. "release" \in Labels \ {"addSession", "onConnected", "onRecv"}
      BY DEF Labels
    <3> QED BY <2>1, <3>1, OneCall
  <2>3. Then(t, q, <<>>)
    BY <2>1 DEF ProcessDisconnect
  <2>4. Moves(t, {}, Elems(q))
    BY <1>1, <2>2, <2>3, Begins
  <2> QED BY <2>2, <2>4
<1>3. ~Opening /\ ~Adding /\ ~Connecting
  BY <1>1, Running
<1>4. /\ SendHand' /\ Sent' /\ Room' /\ Lengths' /\ RecvHand' /\ Failed'
      /\ AcceptHand' /\ ConnectHand' /\ Opened' /\ Added' /\ ~Connecting' /\ ~Adding'
      /\ ("disconnect" \in owned' <=> "disconnect" \in pending') => Owned'
  <2>1. {} \cup {"release"} \subseteq Ends
    BY DEF Ends
  <2>2. \A event \in Events \ {"disconnect"} :
           /\ event \in pending' <=> event \in pending
           /\ event \in owned' <=> event \in owned
    BY <1>1
  <2> QED BY <1>1, <1>2, <1>3, <2>1, <2>2, EndKeeps
<1>5. Owned'
  BY <1>1, <1>4
<1>6. Types'
  BY <1>1, <1>2 DEF Types, Moves, sendState
<1>7. /\ ~connected /\ "released" \notin met /\ inService /\ \A u \in Threads : ~Busy(u, Ends)
  <2>1. SomeHand("disconnect", Ends) /\ \A u \in Threads : ~Busy(u, Ends)
    BY <1>1 DEF IInv, EndsOnce, OneHand, SomeHand
  <2> QED BY <2>1, EndingAlone
<1>8. \A u \in Threads \ {t} : ~Busy(u, Ends)'
  BY <1>2, <1>7 DEF Moves, Busy
<1>9. EndsOnce'
  BY <1>1, <1>7, <1>8 DEF EndsOnce, OneHand, SomeHand
<1>10. Managing'
  BY <1>1, <1>4 DEF Managing
<1> QED BY <1>4, <1>5, <1>6, <1>9, <1>10 DEF IInv

(* Service::ReleaseSession finds its session.                               *)
LEMMA ReleaseSessionKept ==
  ASSUME IInv, NEW t \in Threads, ReleaseSession(t)
  PROVE  IInv'
<1>1. Types /\ At(t, "release") /\ "release" \in Labels /\ "crashed" \notin met
  BY DEF IInv, ReleaseSession, Labels, EndsOnce
<1>2. "release" \in On(t) /\ On(t) \subseteq {"release"} \cup Under("release")
  BY <1>1, AtCall
<1>3. Moves(t, {"release"}, {})
  BY <1>1, Returns DEF ReleaseSession
<1>4. Busy(t, Ends) /\ Busy(t, {"release"}) /\ SomeHand("disconnect", Ends)
  BY <1>2 DEF Busy, Ends, SomeHand
<1>5. /\ ~connected /\ "released" \notin met /\ inService /\ "disconnect" \notin pending
      /\ \A u \in Threads \ {t} : ~Busy(u, Ends)
  BY <1>4, EndingAlone
<1>6. /\ UNCHANGED <<role, managed, connected, sendState, lock, io, pushed, wire>>
      /\ inService' = FALSE /\ met' = met \cup {"released"}
  BY <1>5 DEF ReleaseSession
<1>7. ~Opening /\ ~Adding /\ ~Connecting
  <2>1. "release" \in Labels \ Opener /\ "release" \notin Welcoming
    BY DEF Labels, Opener, Welcoming
  <2> QED BY <1>2, <2>1, InUse
<1>8. /\ SendHand' /\ Sent' /\ Room' /\ Lengths' /\ RecvHand' /\ Failed'
      /\ AcceptHand' /\ ConnectHand' /\ Opened' /\ Added' /\ ~Connecting' /\ ~Adding'
      /\ ("disconnect" \in owned' <=> "disconnect" \in pending') => Owned'
  <2>1. {"release"} \cup {} \subseteq Ends
    BY DEF Ends
  <2>2. \A event \in Events \ {"disconnect"} :
           /\ event \in pending' <=> event \in pending
           /\ event \in owned' <=> event \in owned
    BY <1>6 DEF io
  <2>3. met \subseteq met' /\ ("started" \in met' => "started" \in met)
    BY <1>6
  <2> QED BY <1>3, <1>6, <1>7, <2>1, <2>2, <2>3, EndKeeps
<1>9. Owned'
  <2>1. "disconnect" \in owned' <=> "disconnect" \in pending'
    BY <1>6 DEF IInv, Owned, io
  <2> QED BY <1>8, <2>1
<1>10. Types'
  BY <1>1, <1>3, <1>6 DEF Types, Moves, sendState, io
<1>11. \A u \in Threads : ~Busy(u, Ends)'
  <2>1. \A b \in Ends : b \notin (On(t) \ {"release"}) \cup {}
    <3>1. "disconnect" \notin {"release"} \cup Under("release")
      BY DEF Under
    <3> QED BY <1>2, <3>1 DEF Ends
  <2>2. ~Busy(t, Ends)' /\ \A u \in Threads \ {t} : Busy(u, Ends)' <=> Busy(u, Ends)
    BY <1>3, <2>1, Leaving
  <2> QED BY <1>5, <2>2
<1>12. EndsOnce'
  <2>1. "crashed" \notin met'
    BY <1>1, <1>6
  <2> QED BY <1>5, <1>6, <1>11, <2>1 DEF EndsOnce, OneHand, SomeHand, io
<1>13. Managing'
  <2>1. "early" \notin met => ~managed
    BY <1>4 DEF IInv, Managing
  <2>2. role = "client" => ~managed
    BY DEF IInv, Managing
  <2> QED BY <1>6, <1>8, <2>1, <2>2 DEF Managing
<1> QED BY <1>8, <1>9, <1>10, <1>12, <1>13 DEF IInv

-----------------------------------------------------------------------------
(* The welcome *)

(* A step of the welcome keeps what is not about it.                        *)
LEMMA WelcomeKeeps ==
  ASSUME IInv, NEW t \in Threads, NEW a \in {"addSession", "onConnected"}, At(t, a),
         Then(t, <<>>, Rest(t)), UNCHANGED <<role, connected, sendState, lock, io, pushed, wire>>,
         met \subseteq met', met' \subseteq met \cup {"added"},
         inService' \in BOOLEAN, managed' \in BOOLEAN
  PROVE  /\ Types' /\ SendHand' /\ Sent' /\ Room' /\ Lengths' /\ RecvHand' /\ Failed' /\ Owned'
         /\ AcceptHand' /\ ConnectHand' /\ Opened'
         /\ Moves(t, {a}, {}) /\ a \in On(t) /\ a \notin On(t)' /\ EndsStay
         /\ "addSession" \in On(t) => a = "addSession"
<1>1. Types /\ a \in Labels \ Opener
  BY DEF IInv, Labels, Opener
<1>2. Moves(t, {a}, {})
  BY <1>1, Returns
<1>3. a \in On(t) /\ "registerRecv" \in On(t) /\ On(t) \subseteq {a} \cup Under(a)
  <2>1. Rest(t) \in Below(a) /\ a \in On(t) /\ On(t) \ {a} = Elems(Rest(t))
        /\ On(t) \subseteq {a} \cup Under(a)
    BY <1>1, AtCall
  <2> QED BY <2>1, ReceivingCalls
<1>4. "addSession" \in On(t) => a = "addSession"
  <2>1. "addSession" \notin Under("onConnected")
    BY DEF Under
  <2> QED BY <1>3, <2>1
<1>5. ~Opening
  BY <1>1, <1>3, InUse
<1>6. SendStays /\ OpenStays /\ EndsStay /\ Same(Broken) /\ Same(Reader)
  <2>1. /\ (SendLabels \cup {"push"}) \cap ({a} \cup {}) = {} /\ Opener \cap ({a} \cup {}) = {}
        /\ Ends \cap ({a} \cup {}) = {} /\ Broken \cap ({a} \cup {}) = {}
    BY DEF SendLabels, Opener, Ends, Broken
  <2>2. Reader \cap ({a} \cup {}) = {}
    BY DEF Reader
  <2> QED BY <1>2, <2>1, <2>2, Stays, Elsewhere
<1>7. Same(RecvLabels)
  <2>1. Busy(t, RecvLabels) /\ \E b \in RecvLabels : b \in (On(t) \ {a}) \cup {}
    BY <1>3 DEF Busy, RecvLabels
  <2> QED BY <1>2, <2>1, Within
<1>8. Types'
  BY <1>1, <1>2 DEF Types, Moves, sendState, io
<1>9. SendHand' /\ Sent' /\ Room' /\ Lengths'
  <2>1. SendUntold
    BY <1>6 DEF SendUntold, io
  <2> QED BY <2>1, SendFrame
<1>10. RecvHand' /\ Failed' /\ Owned'
  BY <1>6, <1>7, RecvHandFrame, FailedFrame, OwnedFrame DEF IInv, io, SendStays
<1>11. AcceptHand' /\ ConnectHand'
  <2>1. OpenUntold
    BY <1>6 DEF OpenUntold, io
  <2> QED BY <2>1, OpenFrame
<1>12. Opened'
  BY <1>5, <1>6, OpenedFrame DEF OpenStays, io
<1>13. a \notin On(t)'
  BY <1>2 DEF Moves
<1> QED BY <1>2, <1>3, <1>4, <1>6, <1>8, <1>9, <1>10, <1>11, <1>12, <1>13

(* Service::AddSession: nobody can have used the session before.            *)
LEMMA AddSessionKept ==
  ASSUME IInv, NEW t \in Threads, AddSession(t)
  PROVE  IInv'
<1>1. /\ Types /\ At(t, "addSession") /\ inService' = TRUE /\ met' = met \cup {"added"}
      /\ Then(t, <<>>, Rest(t))
      /\ UNCHANGED <<role, managed, connected, sendState, lock, io, pushed, wire>>
  BY DEF IInv, AddSession
<1>2. /\ Types' /\ SendHand' /\ Sent' /\ Room' /\ Lengths' /\ RecvHand' /\ Failed' /\ Owned'
      /\ AcceptHand' /\ ConnectHand' /\ Opened'
      /\ Moves(t, {"addSession"}, {}) /\ "addSession" \in On(t) /\ "addSession" \notin On(t)' /\ EndsStay
  <2>1. inService' \in BOOLEAN /\ managed' \in BOOLEAN
    BY <1>1 DEF Types
  <2> QED BY <1>1, <2>1, WelcomeKeeps
<1>3. Adding /\ Untouched /\ \A u \in Threads : On(u) \subseteq Welcoming
  <2>1. Adding
    BY <1>2 DEF Adding, Busy
  <2> QED BY <2>1 DEF IInv, Added
<1>4. ~Adding'
  <2>1. Busy(t, RecvLabels)
    BY <1>2 DEF Busy, RecvLabels
  <2>2. \A u \in Threads \ {t} : ~Busy(u, RecvLabels)
    BY <2>1, ReadingAlone
  <2>3. \A u \in Threads \ {t} : "addSession" \notin On(u)
    BY <2>2 DEF Busy, RecvLabels
  <2> QED BY <1>2, <2>3 DEF Adding, Busy, Moves
<1>5. Added'
  BY <1>4 DEF Added
<1>6. "released" \notin met' /\ "crashed" \notin met'
  BY <1>1, <1>3 DEF Untouched
<1>7. EndsOnce'
  BY <1>1, <1>2, <1>6 DEF IInv, EndsOnce, OneHand, SomeHand, EndsStay, Same, io
<1>8. Managing'
  <2>1. \A u \in Threads : On(u)' \subseteq On(u)
    BY <1>2 DEF Moves
  <2>2. Connecting' => Connecting
    BY <1>1, <2>1 DEF Connecting, Busy
  <2>3. ~managed'
    BY <1>1, <1>3 DEF Untouched
  <2> QED BY <1>1, <2>1, <2>2, <2>3 DEF IInv, Managing, io
<1> QED BY <1>2, <1>5, <1>7, <1>8 DEF IInv

(* ClientSession::OnConnected adds the session to the manager.              *)
LEMMA AddToManagerKept ==
  ASSUME IInv, NEW t \in Threads, AddToManager(t)
  PROVE  IInv'
<1>1. /\ Types /\ At(t, "onConnected") /\ managed' = TRUE /\ role = "server"
      /\ Then(t, <<>>, Rest(t))
      /\ UNCHANGED <<role, inService, connected, sendState, lock, io, met, pushed, wire>>
  BY DEF IInv, AddToManager
<1>2. /\ Types' /\ SendHand' /\ Sent' /\ Room' /\ Lengths' /\ RecvHand' /\ Failed' /\ Owned'
      /\ AcceptHand' /\ ConnectHand' /\ Opened'
      /\ Moves(t, {"onConnected"}, {}) /\ "onConnected" \in On(t) /\ "onConnected" \notin On(t)' /\ EndsStay
  <2>1. inService' \in BOOLEAN /\ managed' \in BOOLEAN
    BY <1>1 DEF Types
  <2> QED BY <1>1, <2>1, WelcomeKeeps
<1>3. ~Adding
  <2>1. "onConnected" \in RecvLabels \ {"addSession"}
    BY DEF RecvLabels
  <2> QED BY <1>1, <2>1, Reading
<1>4. Same({"addSession"})
  <2>1. {"addSession"} \cap ({"onConnected"} \cup {}) = {}
    OBVIOUS
  <2> QED BY <1>2, <2>1, Elsewhere
<1>5. Added'
  BY <1>3, <1>4, AddedFrame
<1>6. EndsOnce'
  <2>1. "crashed" \notin met'
    BY <1>1 DEF IInv, EndsOnce
  <2> QED BY <1>1, <1>2, <1>4, <2>1, EndsOnceFrame DEF IInv, EndsStay, io
<1>7. ~Connecting'
  <2>1. Busy(t, RecvLabels)
    BY <1>2 DEF Busy, RecvLabels
  <2>2. \A u \in Threads \ {t} : ~Busy(u, RecvLabels)
    BY <2>1, ReadingAlone
  <2>3. \A u \in Threads \ {t} : "onConnected" \notin On(u)
    BY <2>2 DEF Busy, RecvLabels
  <2> QED BY <1>2, <2>3 DEF Connecting, Busy, Moves
<1>8. "early" \notin met => "released" \notin met /\ \A u \in Threads : ~Busy(u, {"release"})
  <2>1. ASSUME "early" \notin met
        PROVE  connected /\ \A u \in Threads : On(u) \subseteq Welcoming
    <3>1. Connecting
      BY <1>1, <1>2, <2>1 DEF Connecting, Busy
    <3> QED BY <3>1 DEF IInv, Managing
  <2>2. "release" \notin Welcoming
    BY DEF Welcoming
  <2> QED BY <2>1, <2>2 DEF IInv, EndsOnce, Busy
<1>9. Managing'
  BY <1>1, <1>2, <1>7, <1>8 DEF Managing, EndsStay, Same
<1> QED BY <1>2, <1>5, <1>6, <1>9 DEF IInv
-----------------------------------------------------------------------------
(* The connect and the accept *)

(* Before a session is open its threads only connect it or accept it.       *)
LEMMA Fresh ==
  ASSUME IInv, Opening
  PROVE  /\ Untouched /\ ~connected /\ ~Adding /\ ~Connecting
         /\ \A u \in Threads : On(u) \subseteq Opener
         /\ \A u \in Threads : /\ ~Busy(u, SendLabels) /\ ~Busy(u, Writing) /\ ~Busy(u, Sender)
                               /\ ~Busy(u, {"wsaSend"}) /\ ~Busy(u, {"push"})
                               /\ ~Busy(u, RecvLabels) /\ ~Busy(u, Reader) /\ ~Busy(u, Ends)
                               /\ ~Busy(u, {"release"}) /\ ~Busy(u, Broken)
<1>1. Untouched /\ ~connected /\ \A u \in Threads : On(u) \subseteq Opener
  BY DEF IInv, Opened
<1>2. ASSUME NEW u \in Threads, NEW labels, labels \cap Opener = {}
      PROVE  ~Busy(u, labels)
  BY <1>1, <1>2 DEF Busy
<1>3. ~Adding
  <2>1. {"addSession"} \cap Opener = {}
    BY DEF Opener
  <2> QED BY <1>2, <2>1 DEF Adding
<1>4. ~Connecting
  <2>1. {"onConnected"} \cap Opener = {}
    BY DEF Opener
  <2> QED BY <1>2, <2>1 DEF Connecting
<1>5. ASSUME NEW u \in Threads
      PROVE  ~Busy(u, SendLabels) /\ ~Busy(u, {"wsaSend"}) /\ ~Busy(u, {"push"})
             /\ ~Busy(u, Writing) /\ ~Busy(u, Sender)
  <2>1. /\ SendLabels \cap Opener = {} /\ {"wsaSend"} \cap Opener = {} /\ {"push"} \cap Opener = {}
        /\ Writing \cap Opener = {} /\ Sender \cap Opener = {}
    BY DEF SendLabels, Writing, Sender, Opener
  <2> QED BY <1>2, <2>1
<1>6. ASSUME NEW u \in Threads
      PROVE  ~Busy(u, RecvLabels) /\ ~Busy(u, Reader) /\ ~Busy(u, Ends)
             /\ ~Busy(u, {"release"}) /\ ~Busy(u, Broken)
  <2>1. /\ RecvLabels \cap Opener = {} /\ Reader \cap Opener = {} /\ Ends \cap Opener = {}
        /\ {"release"} \cap Opener = {} /\ Broken \cap Opener = {}
    BY DEF RecvLabels, Reader, Ends, Broken, Opener
  <2> QED BY <1>2, <2>1
<1> QED BY <1>1, <1>3, <1>4, <1>5, <1>6

(* A step that only connects or accepts keeps what is not about that.       *)
LEMMA OpeningKeeps ==
  ASSUME IInv, NEW t \in Threads, NEW gone, NEW come, Moves(t, gone, come),
         gone \cup come \subseteq Opener,
         UNCHANGED <<connected, service, sendState, lock, pushed, wire>>,
         pending' \subseteq pending \cup {"connect", "accept"}, pending \subseteq pending',
         owned' \subseteq owned \cup {"connect"}, owned \subseteq owned',
         "connect" \in owned' <=> "connect" \in pending',
         met \subseteq met', met' \subseteq met \cup {"started"}
  PROVE  /\ Types' /\ SendHand' /\ Sent' /\ Room' /\ Lengths' /\ RecvHand' /\ Failed' /\ Owned'
         /\ EndsOnce' /\ SendStays /\ RecvStays /\ EndsStay
         /\ Opening => Opened' /\ Added' /\ Managing'
<1>1. Types /\ "crashed" \notin met
  BY DEF IInv, EndsOnce
<1>2. SendStays /\ RecvStays /\ EndsStay /\ Same(Broken)
  <2>1. /\ (SendLabels \cup {"push"}) \cap Opener = {} /\ RecvLabels \cap Opener = {}
        /\ Ends \cap Opener = {} /\ Broken \cap Opener = {}
    BY DEF SendLabels, RecvLabels, Opener, Broken, Ends
  <2>2. /\ (SendLabels \cup {"push"}) \cap (gone \cup come) = {} /\ RecvLabels \cap (gone \cup come) = {}
        /\ Ends \cap (gone \cup come) = {} /\ Broken \cap (gone \cup come) = {}
    BY <2>1
  <2> QED BY <2>2, Stays
<1>3. \A event \in {"send", "recv", "disconnect"} :
           /\ event \in pending' <=> event \in pending
           /\ event \in owned' <=> event \in owned
  OBVIOUS
<1>4. SendHand' /\ Sent' /\ Room' /\ Lengths'
  <2>1. SendUntold
    BY <1>2, <1>3 DEF SendUntold
  <2> QED BY <2>1, SendFrame
<1>5. RecvHand'
  BY <1>2, <1>3, RecvHandFrame DEF IInv, RecvStays
<1>6. Failed'
  BY <1>2, FailedFrame DEF IInv
<1>7. Owned'
  BY <1>2, <1>3 DEF IInv, Owned, SomeHand, Same, SendStays, RecvStays
<1>8. EndsOnce'
  <2>1. "crashed" \notin met' /\ ("released" \in met' <=> "released" \in met)
    BY <1>1
  <2> QED BY <1>2, <1>3, <2>1, EndsOnceFrame DEF IInv, EndsStay, RecvStays, service
<1>9. Types'
  <2>1. pending' \subseteq Events /\ owned' \subseteq Events
    BY <1>1 DEF Types, Events
  <2> QED BY <1>1, <2>1 DEF Types, Moves, service, sendState
<1>10. ASSUME Opening
       PROVE  Opened' /\ Added' /\ Managing'
  <2>1. /\ Untouched /\ ~connected /\ ~Adding /\ ~Connecting
        /\ \A u \in Threads : On(u) \subseteq Opener
    BY <1>10, Fresh
  <2>2. Untouched'
    BY <2>1 DEF Untouched, sendState, service
  <2>3. \A u \in Threads : On(u)' \subseteq Opener
    BY <2>1 DEF Moves
  <2>4. Opened'
    BY <2>1, <2>2, <2>3 DEF Opened
  <2>5. Added'
    BY <1>2, <2>1, AddedFrame DEF RecvStays
  <2>6. Managing'
    <3>1. ~Connecting' /\ ("released" \in met' <=> "released" \in met)
      BY <1>2, <2>1, ConnectingFrame DEF RecvStays, service
    <3> QED BY <1>2, <3>1, ManagingFrame DEF IInv, EndsStay, service
  <2> QED BY <2>4, <2>5, <2>6
<1> QED BY <1>2, <1>4, <1>5, <1>6, <1>7, <1>8, <1>9, <1>10

(* Service::Start, of a client or a server.                                 *)
LEMMA StartKept ==
  ASSUME IInv, NEW t \in Threads, StartClient(t) \/ StartAccept(t)
  PROVE  IInv'
<1>1. PICK a \in Opener : /\ Start(t, a)
                          /\ \/ role = "client" /\ a = "registerConnect"
                             \/ role = "server" /\ a = "registerAccept"
  BY DEF StartClient, StartAccept, Opener
<1>2. /\ Types /\ Idle(t) /\ "started" \notin met /\ met' = met \cup {"started"}
      /\ UNCHANGED <<connected, service, sendState, lock, io, pushed, wire>>
  BY <1>1 DEF IInv, Start
<1>3. Moves(t, {}, {a})
  <2>1. PICK q : q = <<a>>
    OBVIOUS
  <2>2. q \in Stacks /\ Elems(q) = {a}
    <3>1. a \in Labels \ {"addSession", "onConnected", "onRecv"}
      BY DEF Labels, Opener
    <3> QED BY <2>1, <3>1, OneCall
  <2>3. Then(t, q, <<>>)
    BY <1>1, <2>1 DEF Start
  <2>4. Moves(t, {}, Elems(q))
    BY <1>2, <2>2, <2>3, Begins
  <2> QED BY <2>2, <2>4
<1>4. Opening
  BY <1>2 DEF Opening
<1>5. /\ Types' /\ SendHand' /\ Sent' /\ Room' /\ Lengths' /\ RecvHand' /\ Failed' /\ Owned'
      /\ EndsOnce' /\ Opened' /\ Added' /\ Managing'
  <2>1. {} \cup {a} \subseteq Opener
    OBVIOUS
  <2>2. /\ pending' \subseteq pending \cup {"connect", "accept"} /\ pending \subseteq pending'
        /\ owned' \subseteq owned \cup {"connect"} /\ owned \subseteq owned'
        /\ "connect" \in owned' <=> "connect" \in pending'
    BY <1>2 DEF io, IInv, Owned
  <2> QED BY <1>2, <1>3, <1>4, <2>1, <2>2, OpeningKeeps
<1>6. ~SomeHand("accept", {"registerAccept"}) /\ ~SomeHand("connect", {"registerConnect"})
  BY <1>2 DEF IInv, AcceptHand, ConnectHand
<1>7. \A b \in {"registerAccept", "registerConnect"} : \A u \in Threads :
        Busy(u, {b})' <=> Busy(u, {b}) \/ (u = t /\ a = b)
  BY <1>3 DEF Moves, Busy
<1>8. AcceptHand'
  BY <1>1, <1>2, <1>6, <1>7 DEF AcceptHand, OneHand, SomeHand, service, io
<1>9. ConnectHand'
  BY <1>1, <1>2, <1>6, <1>7 DEF ConnectHand, OneHand, SomeHand, service, io
<1> QED BY <1>5, <1>8, <1>9 DEF IInv

(* RegisterConnect: the kernel has the event, or the session is given up.   *)
LEMMA RegisterConnectKept ==
  ASSUME IInv, NEW t \in Threads, RegisterConnect(t)
  PROVE  IInv'
<1>1. /\ Types /\ At(t, "registerConnect") /\ "registerConnect" \in Labels
      /\ UNCHANGED <<connected, service, sendState, lock, met, pushed, wire>>
  BY DEF IInv, RegisterConnect, Labels
<1>2. \/ pending' = pending \cup {"connect"} /\ owned' = owned \cup {"connect"}
      \/ pending' = pending /\ owned' = owned
  BY DEF RegisterConnect, io
<1>3. "registerConnect" \in On(t)
  BY <1>1, AtCall
<1>4. Moves(t, {"registerConnect"}, {})
  BY <1>1, Returns DEF RegisterConnect
<1>5. Busy(t, {"registerConnect"}) /\ Opening
  BY <1>3 DEF Busy, Opening, SomeHand
<1>6. /\ Types' /\ SendHand' /\ Sent' /\ Room' /\ Lengths' /\ RecvHand' /\ Failed' /\ Owned'
      /\ EndsOnce' /\ Opened' /\ Added' /\ Managing'
  <2>1. {"registerConnect"} \cup {} \subseteq Opener
    BY DEF Opener
  <2>2. /\ pending' \subseteq pending \cup {"connect", "accept"} /\ pending \subseteq pending'
        /\ owned' \subseteq owned \cup {"connect"} /\ owned \subseteq owned'
    BY <1>2
  <2>3. "connect" \in owned' <=> "connect" \in pending'
    BY <1>2 DEF IInv, Owned
  <2>4. met \subseteq met' /\ met' \subseteq met \cup {"started"}
    BY <1>1
  <2> QED BY <1>1, <1>4, <1>5, <2>1, <2>2, <2>3, <2>4, OpeningKeeps
<1>7. ConnectHand'
  <2>1. "connect" \notin pending /\ \A u \in Threads \ {t} : ~Busy(u, {"registerConnect"})
    BY <1>5 DEF IInv, ConnectHand, OneHand
  <2>2. role = "client" /\ "started" \in met
    BY <1>5 DEF IInv, ConnectHand, SomeHand
  <2>3. \A u \in Threads : ~Busy(u, {"registerConnect"})'
    BY <1>4, <2>1 DEF Moves, Busy
  <2> QED BY <1>1, <2>2, <2>3 DEF ConnectHand, OneHand, SomeHand, service
<1>8. AcceptHand'
  <2>1. Same({"registerAccept"})
    <3>1. {"registerAccept"} \cap ({"registerConnect"} \cup {}) = {}
      OBVIOUS
    <3> QED BY <1>4, <3>1, Elsewhere
  <2>2. "accept" \in pending' <=> "accept" \in pending
    BY <1>2
  <2> QED BY <1>1, <2>1, <2>2, AcceptHandFrame DEF IInv, service
<1> QED BY <1>6, <1>7, <1>8 DEF IInv

(* RegisterAccept: the kernel has the listener's event again.               *)
LEMMA RegisterAcceptKept ==
  ASSUME IInv, NEW t \in Threads, RegisterAccept(t)
  PROVE  IInv'
<1>1. /\ Types /\ At(t, "registerAccept") /\ "registerAccept" \in Labels
      /\ pending' = pending \cup {"accept"}
      /\ UNCHANGED <<connected, service, sendState, lock, owned, met, pushed, wire>>
  BY DEF IInv, RegisterAccept, Labels
<1>2. "registerAccept" \in On(t)
  BY <1>1, AtCall
<1>3. Moves(t, {"registerAccept"}, {})
  BY <1>1, Returns DEF RegisterAccept
<1>4. Busy(t, {"registerAccept"})
  BY <1>2 DEF Busy
<1>5. /\ Types' /\ SendHand' /\ Sent' /\ Room' /\ Lengths' /\ RecvHand' /\ Failed' /\ Owned'
      /\ EndsOnce' /\ SendStays /\ RecvStays /\ EndsStay
      /\ Opening => Opened' /\ Added' /\ Managing'
  <2>1. {"registerAccept"} \cup {} \subseteq Opener
    BY DEF Opener
  <2>2. "connect" \in owned' <=> "connect" \in pending'
    BY <1>1 DEF IInv, Owned
  <2>3. /\ met \subseteq met' /\ met' \subseteq met \cup {"started"}
        /\ pending' \subseteq pending \cup {"connect", "accept"} /\ pending \subseteq pending'
        /\ owned' \subseteq owned \cup {"connect"} /\ owned \subseteq owned'
    BY <1>1
  <2> QED BY <1>1, <1>3, <2>1, <2>2, <2>3, OpeningKeeps
<1>6. AcceptHand'
  <2>1. "accept" \notin pending /\ \A u \in Threads \ {t} : ~Busy(u, {"registerAccept"})
    BY <1>4 DEF IInv, AcceptHand, OneHand
  <2>2. role = "server" /\ "started" \in met
    BY <1>4 DEF IInv, AcceptHand, SomeHand
  <2>3. \A u \in Threads : ~Busy(u, {"registerAccept"})'
    BY <1>3, <2>1 DEF Moves, Busy
  <2> QED BY <1>1, <2>2, <2>3 DEF AcceptHand, OneHand, SomeHand, service
<1>7. Same({"registerConnect"})
  <2>1. {"registerConnect"} \cap ({"registerAccept"} \cup {}) = {}
    OBVIOUS
  <2> QED BY <1>3, <2>1, Elsewhere
<1>8. ConnectHand'
  <2>1. "connect" \in pending' <=> "connect" \in pending
    BY <1>1
  <2> QED BY <1>1, <1>7, <2>1, ConnectHandFrame DEF IInv, service
<1>9. ASSUME ~Opening
      PROVE  Opened' /\ Added' /\ Managing'
  <2>1. Opened'
    BY <1>1, <1>7, <1>9, OpenedFrame DEF service
  <2>2. \A u \in Threads : On(u)' \subseteq On(u)
    BY <1>3 DEF Moves
  <2>3. Added'
    BY <1>1, <1>5, <2>2 DEF IInv, Added, Adding, RecvStays, Same, Untouched, sendState, service
  <2>4. Managing'
    <3>1. Connecting' => Connecting
      BY <1>1, <1>5 DEF Connecting, RecvStays, Same, service
    <3> QED BY <1>1, <1>5, <2>2, <3>1 DEF IInv, Managing, EndsStay, Same, service
  <2> QED BY <2>1, <2>3, <2>4
<1> QED BY <1>5, <1>6, <1>8, <1>9 DEF IInv
(* Session::ProcessConnect: the session is connected, and this thread       *)
(* welcomes it.                                                             *)
LEMMA Welcomed ==
  ASSUME IInv, Opening, NEW t \in Threads, NEW come, Moves(t, {}, come), On(t) = {},
         come \in {{"addSession", "onConnected", "registerRecv"}, Welcoming},
         connected' = TRUE, UNCHANGED <<service, sendState, lock, pushed, wire>>,
         pending' \subseteq pending, owned' \subseteq owned,
         "connect" \in owned' <=> "connect" \in pending',
         role = "server" => "connect" \notin pending',
         met \subseteq met', met' \subseteq met \cup {"refused", "accepted"},
         ~Opening', \A u \in Threads : "registerConnect" \notin On(u)
  PROVE  /\ Types' /\ SendHand' /\ RecvHand' /\ Failed' /\ Sent' /\ Owned' /\ Opened' /\ Added'
         /\ EndsOnce' /\ Managing' /\ Room' /\ Lengths'
<1>1. /\ Types /\ Untouched /\ ~connected /\ ~Adding /\ ~Connecting
      /\ \A u \in Threads : On(u) \subseteq {"registerAccept"}
      /\ \A u \in Threads : /\ ~Busy(u, SendLabels) /\ ~Busy(u, Writing) /\ ~Busy(u, Sender)
                            /\ ~Busy(u, {"wsaSend"}) /\ ~Busy(u, {"push"})
                            /\ ~Busy(u, RecvLabels) /\ ~Busy(u, Reader) /\ ~Busy(u, Ends)
                            /\ ~Busy(u, {"release"}) /\ ~Busy(u, Broken)
  BY Fresh DEF IInv, Opener
<1>2. SendStays /\ EndsStay /\ Same(Broken) /\ Same(Reader)
  <2>1. come \subseteq Welcoming
    BY DEF Welcoming
  <2>2. /\ (SendLabels \cup {"push"}) \cap Welcoming = {} /\ Ends \cap Welcoming = {}
        /\ Broken \cap Welcoming = {} /\ Reader \cap Welcoming = {}
    BY DEF SendLabels, Ends, Broken, Reader, Welcoming
  <2>3. /\ (SendLabels \cup {"push"}) \cap ({} \cup come) = {} /\ Ends \cap ({} \cup come) = {}
        /\ Broken \cap ({} \cup come) = {} /\ Reader \cap ({} \cup come) = {}
    BY <2>1, <2>2
  <2> QED BY <2>3, Stays, Elsewhere
<1>3. \A u \in Threads : /\ ~Busy(u, SendLabels)' /\ ~Busy(u, Writing)' /\ ~Busy(u, Sender)'
                         /\ ~Busy(u, {"wsaSend"})' /\ ~Busy(u, {"push"})'
                         /\ ~Busy(u, Ends)' /\ ~Busy(u, {"release"})' /\ ~Busy(u, Broken)'
                         /\ ~Busy(u, Reader)'
  BY <1>1, <1>2 DEF SendStays, EndsStay, Same
<1>4. /\ ~sendRegistered' /\ ~inService' /\ ~managed' /\ sendQueue' = <<>> /\ sendBuffers' = <<>>
      /\ pushed' = <<>> /\ wire' = <<>>
      /\ pending' \subseteq {"connect", "accept"} /\ met' \subseteq {"started", "refused", "accepted"}
      /\ role' = role
  BY <1>1 DEF Untouched, sendState, service
<1>5. Types'
  BY <1>1 DEF Types, Moves, sendState, service
<1>6. SendHand'
  BY <1>3, <1>4 DEF SendHand, OneHand, SomeHand
<1>7. "addSession" \in On(t)' /\ come \subseteq Welcoming
  BY DEF Moves, Welcoming
<1>8. RecvHand'
  <2>1. Busy(t, RecvLabels)'
    BY <1>7 DEF Busy, RecvLabels
  <2>2. \A u \in Threads \ {t} : ~Busy(u, RecvLabels)'
    BY <1>1 DEF Moves, Busy
  <2> QED BY <1>4, <2>1, <2>2 DEF RecvHand, OneHand, SomeHand
<1>9. Failed'
  BY <1>3 DEF Failed
<1>10. Sent'
  <2>1. <<>> \o <<>> \o <<>> = <<>>
    BY SMT
  <2> QED BY <1>3, <1>4, <2>1 DEF Sent
<1>11. Owned'
  <2>1. "send" \notin owned /\ "recv" \notin owned /\ "disconnect" \notin owned
    BY <1>1 DEF IInv, Owned, SomeHand, Untouched
  <2> QED BY <1>3, <1>4, <2>1 DEF Owned, SomeHand
<1>12. Opened'
  BY DEF Opened
<1>13. \A u \in Threads : On(u)' \subseteq Welcoming
  BY <1>1, <1>7 DEF Moves, Welcoming
<1>14. Adding'
  BY <1>7 DEF Adding, Busy
<1>15. Added'
  BY <1>4, <1>13 DEF Added, Untouched
<1>16. EndsOnce'
  BY <1>3, <1>4, <1>14 DEF EndsOnce, OneHand, SomeHand
<1>17. Managing'
  BY <1>4, <1>13 DEF Managing, Connecting
<1>18. Room'
  BY <1>2, RoomFrame DEF IInv, SendStays
<1>19. Lengths'
  <2>1. Len(wire') + Len(sendBuffers') + Len(sendQueue') <= Len(pushed')
    BY <1>4
  <2> QED BY <1>4, <2>1 DEF Lengths
<1> QED BY <1>5, <1>6, <1>8, <1>9, <1>10, <1>11, <1>12, <1>15, <1>16, <1>17, <1>18, <1>19

(* What a welcome puts on an empty stack.                                   *)
LEMMA WelcomeCalls ==
  /\ Welcome \in Stacks /\ Elems(Welcome) = {"addSession", "onConnected", "registerRecv"}
  /\ Welcome \o <<"registerAccept">> \in Stacks
  /\ Elems(Welcome \o <<"registerAccept">>) = Welcoming
<1>1. \A a, b, c : <<a, b, c>> = <<a>> \o <<b, c>>
  BY Literals
<1>2. Welcome = <<"addSession">> \o <<"onConnected", "registerRecv">>
  BY <1>1, Zenon DEF Welcome
<1>3. /\ <<"onConnected", "registerRecv">> \in Stacks
      /\ Elems(<<"onConnected", "registerRecv">>) = {"onConnected", "registerRecv"}
      /\ <<"onConnected", "registerRecv">> \in Below("addSession") /\ "addSession" \in Labels
  <2>1. <<"onConnected", "registerRecv">> \in Below("addSession") /\ "addSession" \in Labels
    BY DEF Below, Labels
  <2> QED BY <2>1, MoreCalls
<1>4. /\ Welcome \in Stacks
      /\ Elems(Welcome) = {"addSession"} \cup {"onConnected", "registerRecv"}
  BY <1>2, <1>3, OnStack
<1> DEFINE c == <<"onConnected", "registerRecv", "registerAccept">>
<1>5. Welcome \o <<"registerAccept">> = <<"addSession">> \o c
  <2>1. \A a, b, d, e : <<a, b, d>> \o <<e>> = <<a>> \o <<b, d, e>>
    <3> SUFFICES ASSUME NEW a, NEW b, NEW d, NEW e
                 PROVE  <<a, b, d>> \o <<e>> = <<a>> \o <<b, d, e>>
      OBVIOUS
    <3> DEFINE L == {a, b, d, e}
    <3>1. <<a>> \in Seq(L) /\ <<b>> \in Seq(L) /\ <<d>> \in Seq(L) /\ <<e>> \in Seq(L)
      BY SMT
    <3>2. <<b, d>> \in Seq(L)
      BY SMT
    <3>3. (<<b>> \o <<d>>) \o <<e>> = <<b>> \o (<<d>> \o <<e>>)
      BY <3>1, ConcatAssociative
    <3>4. (<<a>> \o <<b, d>>) \o <<e>> = <<a>> \o (<<b, d>> \o <<e>>)
      BY <3>1, <3>2, ConcatAssociative
    <3> HIDE DEF L
    <3>5. /\ \A x, y : <<x, y>> = <<x>> \o <<y>>
          /\ \A x, y, z : <<x, y, z>> = <<x>> \o <<y, z>>
      BY Literals
    <3>6. <<b, d>> = <<b>> \o <<d>>
      BY <3>5, Zenon
    <3>7. <<d, e>> = <<d>> \o <<e>>
      BY <3>5, Zenon
    <3>8. <<a, b, d>> = <<a>> \o <<b, d>>
      BY <3>5, Zenon
    <3>9. <<b, d, e>> = <<b>> \o <<d, e>>
      BY <3>5, Zenon
    <3>10. <<b, d>> \o <<e>> = <<b, d, e>>
      BY <3>3, <3>6, <3>7, <3>9, Zenon
    <3> QED BY <3>4, <3>8, <3>10, Zenon
  <2> QED BY <2>1, Zenon DEF Welcome
<1>6. c \in Stacks /\ Elems(c) = {"onConnected", "registerRecv", "registerAccept"}
  BY MoreCalls
<1>7. c \in Below("addSession") /\ "addSession" \in Labels
  BY DEF Below, Labels
<1> HIDE DEF c
<1>8. /\ <<"addSession">> \o c \in Stacks
      /\ Elems(<<"addSession">> \o c) = {"addSession"} \cup Elems(c)
  BY <1>6, <1>7, OnStack
<1>9. Elems(<<"addSession">> \o c) = Welcoming
  BY <1>6, <1>8 DEF Welcoming
<1>10. Elems(Welcome) = {"addSession", "onConnected", "registerRecv"}
  BY <1>4
<1> QED BY <1>4, <1>5, <1>8, <1>9, <1>10

(* ProcessConnect, of a client.                                             *)
LEMMA ProcessConnectKept ==
  ASSUME IInv, NEW t \in Threads, NEW result \in {{}, {"refused"}}, ProcessConnect(t, result)
  PROVE  IInv'
<1>1. /\ Types /\ Idle(t) /\ "connect" \in pending
      /\ pending' = pending \ {"connect"} /\ owned' = owned \ {"connect"}
      /\ connected' = TRUE /\ met' = met \cup result /\ Then(t, Welcome, <<>>)
      /\ UNCHANGED <<service, sendState, lock, pushed, wire>>
  BY DEF IInv, ProcessConnect, Completes
<1>2. On(t) = {}
  BY <1>1, IdleCalls
<1>3. /\ SomeHand("connect", {"registerConnect"}) /\ role = "client" /\ "started" \in met /\ Opening
      /\ \A u \in Threads : ~Busy(u, {"registerConnect"})
  BY <1>1 DEF IInv, ConnectHand, OneHand, SomeHand, Opening
<1>4. PICK come : come = {"addSession", "onConnected", "registerRecv"} /\ Moves(t, {}, come)
  <2>1. PICK q \in Stacks : q = Welcome /\ Elems(q) = {"addSession", "onConnected", "registerRecv"}
    BY WelcomeCalls
  <2> QED BY <1>1, <2>1, Begins
<1>5. Same({"registerConnect"}) /\ Same({"registerAccept"})
  <2>1. {"registerConnect"} \cap ({} \cup come) = {} /\ {"registerAccept"} \cap ({} \cup come) = {}
    BY <1>4
  <2> QED BY <1>4, <2>1, Elsewhere
<1>6. ~Opening'
  BY <1>1, <1>3, <1>5 DEF Opening, SomeHand, Same, service
<1>7. /\ Types' /\ SendHand' /\ RecvHand' /\ Failed' /\ Sent' /\ Owned' /\ Opened' /\ Added'
      /\ EndsOnce' /\ Managing' /\ Room' /\ Lengths'
  <2>1. \A u \in Threads : "registerConnect" \notin On(u)
    BY <1>3 DEF Busy
  <2>2. /\ pending' \subseteq pending /\ owned' \subseteq owned
        /\ "connect" \in owned' <=> "connect" \in pending'
    BY <1>1
  <2>3. met \subseteq met' /\ met' \subseteq met \cup {"refused", "accepted"}
    BY <1>1
  <2>4. role = "server" => "connect" \notin pending'
    BY <1>1
  <2>5. come \in {{"addSession", "onConnected", "registerRecv"}, Welcoming}
    BY <1>4
  <2> QED BY <1>1, <1>2, <1>3, <1>4, <1>6, <2>1, <2>2, <2>3, <2>4, <2>5, Welcomed
<1>8. AcceptHand'
  <2>1. "accept" \in pending' <=> "accept" \in pending
    BY <1>1
  <2>2. "started" \in met' <=> "started" \in met
    BY <1>1
  <2> QED BY <1>1, <1>5, <2>1, <2>2, AcceptHandFrame DEF IInv, service
<1>9. ConnectHand'
  BY <1>1, <1>3, <1>5 DEF ConnectHand, OneHand, SomeHand, Same
<1> QED BY <1>7, <1>8, <1>9 DEF IInv

(* ProcessAccept, of a server: this thread welcomes the session, unless its *)
(* peer has gone, and then gives the listener's event back.                 *)
LEMMA ProcessAcceptKept ==
  ASSUME IInv, NEW t \in Threads, NEW outcome \in {"accepted", "gone"}, ProcessAccept(t, outcome)
  PROVE  IInv'
<1>1. /\ Types /\ Idle(t) /\ "accept" \in pending /\ "accepted" \notin met
      /\ pending' = pending \ {"accept"} /\ owned' = owned \ {"accept"}
      /\ connected' = (outcome = "accepted") /\ met' = met \cup {"accepted"}
      /\ Then(t, (IF outcome = "accepted" THEN Welcome ELSE <<>>) \o <<"registerAccept">>, <<>>)
      /\ UNCHANGED <<service, sendState, lock, pushed, wire>>
  BY DEF IInv, ProcessAccept, Completes
<1>2. On(t) = {}
  BY <1>1, IdleCalls
<1>3. /\ role = "server" /\ "started" \in met /\ Opening
      /\ \A u \in Threads : ~Busy(u, {"registerAccept"})
  BY <1>1 DEF IInv, AcceptHand, OneHand, SomeHand, Opening
<1>4. /\ ~SomeHand("connect", {"registerConnect"})
      /\ "connect" \notin pending /\ \A u \in Threads : "registerConnect" \notin On(u)
  BY <1>3 DEF IInv, ConnectHand, SomeHand, Busy
<1>5. PICK come : /\ Moves(t, {}, come)
                  /\ come = IF outcome = "accepted" THEN Welcoming ELSE {"registerAccept"}
  <2>1. CASE outcome = "accepted"
    <3>1. PICK q \in Stacks : q = Welcome \o <<"registerAccept">> /\ Elems(q) = Welcoming
      BY WelcomeCalls
    <3>2. Then(t, q, <<>>)
      BY <1>1, <2>1, <3>1
    <3> QED BY <1>1, <2>1, <3>1, <3>2, Begins
  <2>2. CASE outcome # "accepted"
    <3>1. "registerAccept" \in Labels \ {"addSession", "onConnected", "onRecv"}
      BY DEF Labels
    <3>2. PICK q \in Stacks : q = <<"registerAccept">> /\ Elems(q) = {"registerAccept"}
      BY <3>1, OneCall
    <3>3. <<>> \o <<"registerAccept">> = <<"registerAccept">>
      BY SMT
    <3>4. Then(t, q, <<>>)
      BY <1>1, <2>2, <3>2, <3>3
    <3> QED BY <1>1, <2>2, <3>2, <3>4, Begins
  <2> QED BY <2>1, <2>2
<1>6. Same({"registerConnect"})
  <2>1. {"registerConnect"} \cap ({} \cup come) = {}
    BY <1>5 DEF Welcoming
  <2> QED BY <1>5, <2>1, Elsewhere
<1>7. "connect" \in pending' <=> "connect" \in pending
  BY <1>1
<1>8. ~Opening'
  BY <1>1, <1>3, <1>4, <1>6, <1>7 DEF Opening, SomeHand, Same, service
<1>9. AcceptHand'
  <2>1. Busy(t, {"registerAccept"})'
    BY <1>5 DEF Busy, Moves, Welcoming
  <2>2. \A u \in Threads \ {t} : Busy(u, {"registerAccept"})' <=> Busy(u, {"registerAccept"})
    BY <1>5 DEF Moves, Busy
  <2> QED BY <1>1, <1>3, <2>1, <2>2 DEF AcceptHand, OneHand, SomeHand, service
<1>10. ConnectHand'
  <2>1. "started" \in met' <=> "started" \in met
    BY <1>1
  <2> QED BY <1>1, <1>6, <1>7, <2>1, ConnectHandFrame DEF IInv, service
<1>11. CASE outcome = "accepted"
  <2>1. /\ pending' \subseteq pending /\ owned' \subseteq owned
        /\ role = "server" => "connect" \notin pending'
        /\ met \subseteq met' /\ met' \subseteq met \cup {"refused", "accepted"}
    BY <1>1, <1>4
  <2>2. "connect" \in owned' <=> "connect" \in pending'
    BY <1>1 DEF IInv, Owned
  <2>3. come \in {{"addSession", "onConnected", "registerRecv"}, Welcoming} /\ connected' = TRUE
    BY <1>1, <1>5, <1>11
  <2> QED BY <1>1, <1>2, <1>3, <1>4, <1>5, <1>8, <1>9, <1>10, <2>1, <2>2, <2>3, Welcomed DEF IInv
<1>12. CASE outcome # "accepted"
  <2>1. /\ Untouched /\ ~connected /\ ~Adding /\ ~Connecting /\ "crashed" \notin met
    BY <1>3, Fresh DEF IInv, EndsOnce
  <2>2. connected' = FALSE /\ come = {"registerAccept"}
    BY <1>1, <1>5, <1>12
  <2>3. SendStays /\ RecvStays /\ EndsStay /\ Same(Broken)
    <3>1. /\ (SendLabels \cup {"push"}) \cap ({} \cup come) = {} /\ RecvLabels \cap ({} \cup come) = {}
          /\ Ends \cap ({} \cup come) = {} /\ Broken \cap ({} \cup come) = {}
      BY <2>2 DEF SendLabels, RecvLabels, Ends, Broken
    <3> QED BY <1>5, <3>1, Stays
  <2>4. \A event \in {"send", "recv", "disconnect", "connect"} :
           /\ event \in pending' <=> event \in pending
           /\ event \in owned' <=> event \in owned
    BY <1>1
  <2>5. Types'
    BY <1>1, <1>5, <2>2 DEF Types, Moves, sendState, service
  <2>6. SendHand' /\ Sent' /\ Room' /\ Lengths'
    <3>1. SendUntold
      BY <1>1, <2>2, <2>3, <2>4 DEF SendUntold
    <3> QED BY <3>1, SendFrame
  <2>7. RecvHand' /\ Failed'
    BY <2>2 , <2>3, <2>4, <1>1, RecvHandFrame DEF IInv, RecvStays, Failed
  <2>8. Owned'
    BY <2>3, <2>4 DEF IInv, Owned, SomeHand, Same, SendStays, RecvStays
  <2>9. Opened' /\ Added' /\ EndsOnce' /\ Managing'
    <3>1. /\ ~Connecting' /\ ("released" \in met' <=> "released" \in met)
          /\ "crashed" \notin met' /\ met \subseteq met'
      BY <1>1, <2>1, <2>3, ConnectingFrame DEF RecvStays, service
    <3> QED BY <1>1, <1>8, <2>1, <2>2, <2>3, <2>4, <3>1, AddedFrame, EndsOnceFrame, ManagingFrame
          DEF IInv, Opened, RecvStays, EndsStay, service
  <2> QED BY <1>9, <1>10, <2>5, <2>6, <2>7, <2>8, <2>9 DEF IInv
<1> QED BY <1>11, <1>12
-----------------------------------------------------------------------------
(* The invariant *)

(* In the beginning nobody is in any call.                                  *)
LEMMA InitKept == Init => IInv
<1> SUFFICES ASSUME Init PROVE IInv
  OBVIOUS
<1>1. \A t \in Threads : On(t) = {}
  BY Literals DEF Init, On
<1>2. \A t \in Threads : \A labels : ~Busy(t, labels)
  BY <1>1 DEF Busy
<1>3. \A event, labels : ~SomeHand(event, labels) /\ OneHand(event, labels)
  BY <1>2 DEF SomeHand, OneHand, Init
<1>4. Types
  <2>1. stack \in [Threads -> Stacks]
    BY OneCall DEF Init
  <2>2. <<>> \in Seq(Messages)
    BY Literals
  <2>3. {connected, inService, managed, sendRegistered} \subseteq BOOLEAN
    BY DEF Init
  <2> QED BY <2>1, <2>2, <2>3 DEF Init, Types
<1>5. SendHand /\ RecvHand
  BY <1>3 DEF Init, SendHand, RecvHand
<1>6. Failed /\ Owned
  BY <1>2, <1>3 DEF Init, Failed, Owned
<1>7. Sent
  BY DEF Init, Sent
<1>8. AcceptHand /\ ConnectHand
  BY <1>3 DEF Init, AcceptHand, ConnectHand
<1>9. Opened /\ Added
  BY <1>1, <1>2 DEF Init, Opened, Added, Adding, Untouched
<1>10. EndsOnce
  BY <1>3 DEF Init, EndsOnce
<1>11. Managing
  BY <1>2 DEF Init, Managing, Connecting
<1>12. Len(<<>>) = 0
  BY SMT
<1>13. Room
  <2>1. Pushing = {}
    BY <1>2 DEF Pushing
  <2>2. Cardinality(Pushing) = 0
    BY <2>1, FS_EmptySet
  <2>3. Cardinality(Messages) \in Nat
    BY MessagesFinite, FS_CardinalityType
  <2> QED BY <2>2, <2>3, <1>12 DEF Init, Room
<1>14. Lengths
  BY <1>12 DEF Init, Lengths
<1> QED BY <1>4, <1>5, <1>6, <1>7, <1>8, <1>9, <1>10, <1>11, <1>13, <1>14 DEF IInv

(* A step that changes nothing.                                             *)
LEMMA StutterKept ==
  ASSUME IInv, UNCHANGED vars
  PROVE  IInv'
<1>1. UNCHANGED <<role, connected, inService, managed, sendQueue, sendRegistered, sendBuffers,
                  lock, pending, owned, stack, met, pushed, wire>>
  BY DEF vars, service, sendState, io
<1>2. \A t \in Threads : On(t)' = On(t)
  BY <1>1 DEF On, Elems
<1>3. \A labels : Same(labels)
  BY <1>2 DEF Same, Busy
<1>4. Types'
  BY <1>1 DEF IInv, Types
<1>5. SendStays /\ RecvStays /\ OpenStays /\ EndsStay /\ Same(Broken)
  BY <1>3 DEF SendStays, RecvStays, OpenStays, EndsStay
<1>6. SendHand' /\ Sent' /\ Room' /\ Lengths'
  <2>1. SendUntold
    BY <1>1, <1>5 DEF SendUntold, sendState
  <2> QED BY <2>1, SendFrame
<1>13. AcceptHand' /\ ConnectHand'
  <2>1. OpenUntold
    BY <1>1, <1>5 DEF OpenUntold
  <2> QED BY <2>1, OpenFrame
<1>14. RecvHand' /\ Failed' /\ Owned'
  <2>1. RecvHand'
    BY <1>1, <1>5, RecvHandFrame DEF IInv, RecvStays
  <2>2. Failed'
    BY <1>1, <1>5, FailedFrame DEF IInv
  <2>3. UNCHANGED io
    BY <1>1 DEF io
  <2>4. Owned'
    BY <1>5, <2>3, OwnedFrame DEF IInv, RecvStays, SendStays
  <2> QED BY <2>1, <2>2, <2>4
<1>7. Untouched' <=> Untouched
  BY <1>1 DEF Untouched
<1>8. \A event, labels : SomeHand(event, labels)' <=> SomeHand(event, labels)
  BY <1>1, <1>3 DEF SomeHand, Same
<1>9. Opened'
  <2>1. Opening' <=> Opening
    BY <1>1, <1>8 DEF Opening
  <2> QED BY <1>1, <1>2, <1>7, <2>1 DEF IInv, Opened
<1>10. Added'
  <2>1. Adding' <=> Adding
    BY <1>3 DEF Adding, Same
  <2> QED BY <1>1, <1>2, <1>7, <2>1 DEF IInv, Added
<1>11. EndsOnce'
  <2>1. EndsOnce /\ "crashed" \notin met
    BY DEF IInv, EndsOnce
  <2> QED BY <1>1, <1>5, <2>1, EndsOnceFrame DEF EndsStay, RecvStays
<1>12. Managing'
  BY <1>1, <1>2, <1>3 DEF IInv, Managing, Connecting, Same
<1> QED BY <1>4, <1>6, <1>9, <1>10, <1>11, <1>12, <1>13, <1>14 DEF IInv
(* While fewer messages were pushed than there are, there is one that was   *)
(* not.                                                                     *)
LEMMA FreshMessage ==
  ASSUME NEW s \in Seq(Messages), Len(s) < Cardinality(Messages)
  PROVE  \E m \in Messages : \A i \in 1..Len(s) : s[i] # m
<1> SUFFICES ASSUME \A m \in Messages : \E i \in 1..Len(s) : s[i] = m
             PROVE  FALSE
  OBVIOUS
<1>1. Len(s) \in Nat /\ s \in [1..Len(s) -> Messages]
  BY SMT
<1>2. IsFiniteSet(1..Len(s)) /\ Cardinality(1..Len(s)) = Len(s)
  <2>1. IsFiniteSet(1..Len(s)) /\ Cardinality(1..Len(s)) = IF 1 > Len(s) THEN 0 ELSE Len(s) - 1 + 1
    BY <1>1, FS_Interval
  <2> QED BY <1>1, <2>1
<1>3. s \in Surjection(1..Len(s), Messages)
  BY <1>1, Zenon DEF Surjection
<1>4. Cardinality(Messages) <= Cardinality(1..Len(s))
  BY <1>2, <1>3, FS_Surjection
<1>5. Cardinality(Messages) \in Nat
  BY MessagesFinite, FS_CardinalityType
<1> QED BY <1>1, <1>2, <1>4, <1>5

(* A thread that pushes has a message to push, which was not pushed yet.    *)
LEMMA NextIsMessage ==
  ASSUME IInv, NEW t \in Threads, At(t, "push")
  PROVE  NextMessage \in Messages
<1>1. Types /\ Room /\ "push" \in Labels
  BY DEF IInv, Labels
<1>2. t \in Pushing
  BY <1>1, AtCall DEF Pushing, Busy
<1>3. IsFiniteSet(Pushing)
  BY ThreadsFinite, FS_Subset DEF Pushing
<1>4. Cardinality(Pushing) \in Nat /\ Cardinality(Pushing) # 0
  BY <1>2, <1>3, FS_CardinalityType, FS_EmptySet
<1>5. pushed \in Seq(Messages) /\ Len(pushed) \in Nat /\ Cardinality(Messages) \in Nat
  BY <1>1, MessagesFinite, FS_CardinalityType DEF Types
<1>6. Len(pushed) < Cardinality(Messages)
  BY <1>1, <1>4, <1>5 DEF Room
<1>7. \E m \in Messages : \A i \in 1..Len(pushed) : pushed[i] # m
  BY <1>5, <1>6, FreshMessage
<1> QED BY <1>7 DEF NextMessage

(* Every step of the send keeps the invariant.                              *)
LEMMA SendStepKept ==
  ASSUME IInv, NEW t \in Threads, SendStep(t)
  PROVE  IInv'
<1>1. CASE PushMessage(t, NextMessage)
  <2>1. NextMessage \in Messages
    BY <1>1, NextIsMessage DEF PushMessage
  <2>2. PICK m \in Messages : m = NextMessage
    BY <2>1
  <2>3. PushMessage(t, m)
    BY <1>1, <2>2
  <2> QED BY <2>3, PushMessageKept
<1>2. CASE RegisterSend(t)
  BY <1>2, RegisterSendKept
<1>3. CASE Drain(t)
  BY <1>3, DrainKept
<1>4. CASE WsaSend(t)
  BY <1>4, WsaSendKept
<1>5. CASE \E error \in Errors : WsaSendFails(t, error)
  BY <1>5, WsaSendFailsKept
<1>6. CASE SendFailed(t)
  BY <1>6, SendFailedKept
<1>7. CASE SendNext(t)
  BY <1>7, SendNextKept
<1>8. CASE Unlock(t)
  BY <1>8, UnlockKept
<1> QED BY <1>1, <1>2, <1>3, <1>4, <1>5, <1>6, <1>7, <1>8 DEF SendStep

(* Every other call that goes on keeps it.                                  *)
LEMMA OtherStepKept ==
  ASSUME IInv, NEW t \in Threads, OtherStep(t)
  PROVE  IInv'
<1>1. CASE AddSession(t) \/ AddToManager(t) \/ ReleaseSession(t)
  BY <1>1, AddSessionKept, AddToManagerKept, ReleaseSessionKept
<1>2. CASE RegisterConnect(t) \/ RegisterAccept(t)
  BY <1>2, RegisterConnectKept, RegisterAcceptKept
<1>3. CASE ReturnFromContent(t) \/ RecvOverflow(t)
  BY <1>3, ReturnFromContentKept, RecvOverflowKept
<1>4. CASE RegisterDisconnect(t) \/ RegisterRecv(t) \/ WsaRecv(t)
  BY <1>4, RegisterDisconnectKept, RegisterRecvKept, WsaRecvKept
<1>5. CASE \E error \in Errors : WsaRecvFails(t, error)
  BY <1>5, WsaRecvFailsKept
<1>6. CASE RecvFailed(t)
  BY <1>6, RecvFailedKept
<1> QED BY <1>1, <1>2, <1>3, <1>4, <1>5, <1>6 DEF OtherStep

(* Every completion keeps it.                                               *)
LEMMA CompletionKept ==
  ASSUME IInv, NEW t \in Threads, Completion(t)
  PROVE  IInv'
<1>1. CASE \E result \in {{}, {"refused"}} : ProcessConnect(t, result)
  BY <1>1, ProcessConnectKept
<1>2. CASE \E outcome \in {"accepted", "gone"} : ProcessAccept(t, outcome)
  BY <1>2, ProcessAcceptKept
<1>3. CASE ProcessDisconnect(t)
  BY <1>3, ProcessDisconnectKept
<1>4. CASE \E n \in {0, 1} : ProcessSend(t, n)
  BY <1>4, ProcessSendKept
<1>5. CASE \E n \in {0, 1} : ProcessRecv(t, n)
  BY <1>5, ProcessRecvKept
<1> QED BY <1>1, <1>2, <1>3, <1>4, <1>5 DEF Completion

(* Every step keeps the invariant.                                          *)
LEMMA StepKept ==
  ASSUME IInv, [Next]_vars
  PROVE  IInv'
<1>1. CASE Next
  <2>1. PICK t \in Threads : \/ StartClient(t) \/ StartAccept(t)
                             \/ SendStep(t) \/ OtherStep(t) \/ Completion(t)
                             \/ BeginSend(t) \/ DisconnectFromContent(t)
    BY <1>1 DEF Next
  <2>2. CASE StartClient(t) \/ StartAccept(t)
    BY <2>2, StartKept
  <2>3. CASE SendStep(t) \/ OtherStep(t) \/ Completion(t)
    BY <2>3, SendStepKept, OtherStepKept, CompletionKept
  <2>4. CASE BeginSend(t) \/ DisconnectFromContent(t)
    BY <2>4, BeginSendKept, DisconnectFromContentKept
  <2> QED BY <2>1, <2>2, <2>3, <2>4
<1>2. CASE UNCHANGED vars
  BY <1>2, StutterKept
<1> QED BY <1>1, <1>2

(* The invariant holds in every state of the session.                       *)
THEOREM Invariance == Spec => []IInv
<1>1. Init => IInv
  BY InitKept
<1>2. IInv /\ [Next]_vars => IInv'
  BY StepKept
<1> QED BY <1>1, <1>2, PTL DEF Spec
-----------------------------------------------------------------------------
(* What the invariant says of the session's properties *)

(* Being in a call is having it on the stack.                               *)
LEMMA InCallBusy ==
  ASSUME NEW t \in Threads, NEW labels
  PROVE  InCall(t, labels) <=> Busy(t, labels)
BY DEF InCall, Busy, On, Elems

(* One hand is one turn, or none.                                           *)
LEMMA HandTurns ==
  ASSUME NEW event, NEW labels, OneHand(event, labels)
  PROVE  /\ Turns(event, labels) \in {0, 1}
         /\ Turns(event, labels) = 1 <=> SomeHand(event, labels)
<1> DEFINE H == {t \in Threads : Busy(t, labels)}
<1>1. {t \in Threads : InCall(t, labels)} = H
  BY InCallBusy
<1>2. Turns(event, labels) = Cardinality(H) + (IF event \in pending THEN 1 ELSE 0)
  BY <1>1 DEF Turns
<1>3. CASE H = {}
  <2>1. Cardinality(H) = 0
    BY <1>3, FS_EmptySet
  <2>2. SomeHand(event, labels) <=> event \in pending
    BY <1>3 DEF SomeHand
  <2> QED BY <1>2, <2>1, <2>2
<1>4. CASE H # {}
  <2>1. PICK t \in Threads : Busy(t, labels)
    BY <1>4
  <2>2. H = {t}
    BY <2>1 DEF OneHand
  <2>3. Cardinality(H) = 1
    BY <2>2, FS_Singleton
  <2>4. event \notin pending /\ SomeHand(event, labels)
    BY <2>1 DEF OneHand, SomeHand
  <2> QED BY <1>2, <2>3, <2>4
<1> QED BY <1>3, <1>4

(* No list of messages is longer than there are messages.                   *)
LEMMA ListsFit ==
  ASSUME IInv
  PROVE  \A q \in {sendQueue, sendBuffers, pushed, wire} :
           q \in Seq(Messages) /\ Len(q) <= Cardinality(Messages)
<1>1. /\ sendQueue \in Seq(Messages) /\ sendBuffers \in Seq(Messages)
      /\ pushed \in Seq(Messages) /\ wire \in Seq(Messages)
  BY DEF IInv, Types
<1>2. /\ Len(sendQueue) \in Nat /\ Len(sendBuffers) \in Nat
      /\ Len(pushed) \in Nat /\ Len(wire) \in Nat /\ Cardinality(Messages) \in Nat
  BY <1>1, MessagesFinite, FS_CardinalityType
<1>3. IsFiniteSet(Pushing) /\ Cardinality(Pushing) \in Nat
  BY ThreadsFinite, FS_Subset, FS_CardinalityType DEF Pushing
<1>4. Len(pushed) <= Cardinality(Messages)
  BY <1>2, <1>3 DEF IInv, Room
<1>5. /\ Len(wire) <= Len(pushed) /\ Len(sendQueue) <= Len(pushed)
      /\ Len(sendBuffers) <= Len(pushed)
  BY <1>2 DEF IInv, Lengths
<1> QED BY <1>1, <1>2, <1>4, <1>5

(* The variables have their types, and no list grows longer than there are  *)
(* messages (Session.cpp:200-210 and 292).                                  *)
THEOREM TypeCorrect == Spec => []TypeOK
<1>1. IInv => TypeOK
  <2> SUFFICES ASSUME IInv PROVE TypeOK
    OBVIOUS
  <2>1. stack \in [Threads -> Seq(Labels)]
    BY DEF IInv, Types, Stacks
  <2> QED BY <2>1, ListsFit DEF IInv, Types, TypeOK
<1> QED BY <1>1, Invariance, PTL

(* The one _sendEvent is in one hand, a live connection whose               *)
(* _sendRegistered is set has somebody who sends, and no message waits with *)
(* nobody to send it (Session.cpp:33-47 and 302-310).                       *)
THEOREM SendTurnHolds == Spec => []SendTurn
<1>1. IInv => SendTurn
  <2> SUFFICES ASSUME IInv PROVE SendTurn
    OBVIOUS
  <2>1. SendHand
    BY DEF IInv
  <2>2. OneHand("send", SendLabels)
    BY <2>1 DEF SendHand
  <2>3. /\ Turns("send", SendLabels) \in {0, 1}
        /\ Turns("send", SendLabels) = 1 <=> SomeHand("send", SendLabels)
    BY <2>2, HandTurns
  <2>4. Turns("send", SendLabels) <= 1
    BY <2>3
  <2> QED BY <2>1, <2>3, <2>4 DEF SendHand, SendTurn
<1> QED BY <1>1, Invariance, PTL

(* The one _recvEvent is in one hand, so that OnRecv never runs twice at a  *)
(* time, and a live connection is always being read unless HandleError      *)
(* ignored an error (Session.cpp:158-184, 260-287 and 313-326).             *)
THEOREM RecvTurnHolds == Spec => []RecvTurn
<1>1. IInv => RecvTurn
  <2> SUFFICES ASSUME IInv PROVE RecvTurn
    OBVIOUS
  <2>1. RecvHand
    BY DEF IInv
  <2>2. OneHand("recv", RecvLabels)
    BY <2>1 DEF RecvHand
  <2>3. /\ Turns("recv", RecvLabels) \in {0, 1}
        /\ Turns("recv", RecvLabels) = 1 <=> SomeHand("recv", RecvLabels)
    BY <2>2, HandTurns
  <2>4. Turns("recv", RecvLabels) <= 1
    BY <2>3
  <2> QED BY <2>1, <2>3, <2>4 DEF RecvHand, RecvTurn
<1> QED BY <1>1, Invariance, PTL

(* An event keeps the session alive while it is with the kernel or in a     *)
(* Register call, and no longer, and a server that was started never loses  *)
(* the listener's event (the ADD_REF and RELEASE_REF comments of            *)
(* Session.cpp, Listener.cpp:94-143).                                       *)
THEOREM EventsOwnedHolds == Spec => []EventsOwned
<1>1. IInv => EventsOwned
  <2> SUFFICES ASSUME IInv PROVE EventsOwned
    OBVIOUS
  <2>1. Owned /\ AcceptHand
    BY DEF IInv
  <2>2. /\ Registering("recv") <=> \E t \in Threads : Busy(t, Reader)
        /\ Registering("send") <=> \E t \in Threads : Busy(t, Sender)
        /\ ~Registering("connect") /\ ~Registering("disconnect")
    <3>1. Registering("recv") <=> \E t \in Threads : InCall(t, Reader)
      BY DEF Registering, Reader
    <3>2. Registering("send") <=> \E t \in Threads : InCall(t, Sender)
      BY DEF Registering, Sender
    <3>3. ~Registering("connect") /\ ~Registering("disconnect")
      BY DEF Registering, InCall
    <3> QED BY <3>1, <3>2, <3>3, InCallBusy
  <2>3. Events \ {"accept"} = {"connect", "disconnect", "recv", "send"}
    BY DEF Events
  <2>4. \A event \in Events \ {"accept"} :
          event \in owned <=> event \in pending \/ Registering(event)
    BY <2>1, <2>2, <2>3 DEF Owned, SomeHand
  <2>5. OneHand("accept", {"registerAccept"})
    BY <2>1 DEF AcceptHand
  <2>6. Turns("accept", {"registerAccept"}) = 1 <=> SomeHand("accept", {"registerAccept"})
    BY <2>5, HandTurns
  <2> QED BY <2>1, <2>4, <2>6 DEF AcceptHand, EventsOwned
<1> QED BY <1>1, Invariance, PTL

(* Messages reach WSASend in the order of _sendQueue.push, none skipped and *)
(* none twice, as long as HandleError ignored no error (Session.cpp:205-231 *)
(* and 289-310).                                                            *)
THEOREM SentInOrderHolds == Spec => []SentInOrder
<1>1. IInv => SentInOrder
  <2> SUFFICES ASSUME IInv PROVE SentInOrder
    OBVIOUS
  <2>1. Types /\ Sent /\ "wsaSend" \in Labels /\ "wsaSend" \in Leaves
    BY DEF IInv, Labels, Leaves
  <2>2. \A t \in Threads : At(t, "wsaSend") <=> Busy(t, {"wsaSend"})
    <3> TAKE t \in Threads
    <3>1. At(t, "wsaSend") => Busy(t, {"wsaSend"})
      BY <2>1, AtCall DEF Busy
    <3>2. ASSUME Busy(t, {"wsaSend"}) PROVE At(t, "wsaSend")
      <4>1. stack[t] \in Stacks /\ "wsaSend" \in Elems(stack[t])
        BY <2>1, <3>2 DEF Types, Busy, On
      <4> QED BY <2>1, <4>1, LeafOnTop DEF At
    <3> QED BY <3>1, <3>2
  <2>3. Drained = IF \E t \in Threads : Busy(t, {"wsaSend"}) THEN sendBuffers ELSE <<>>
    BY <2>2 DEF Drained
  <2> QED BY <2>1, <2>3 DEF Sent, SentInOrder
<1> QED BY <1>1, Invariance, PTL

(* ReleaseSession finds its session (the ASSERT_CRASH of Service.cpp:62),   *)
(* and a session that left the service has left the ClientSessionManager    *)
(* too, unless somebody used it before OnConnected returned.                *)
THEOREM ReleaseFindsSessionHolds == Spec => []ReleaseFindsSession
<1>1. IInv => ReleaseFindsSession
  BY DEF IInv, EndsOnce, Managing, ReleaseFindsSession
<1> QED BY <1>1, Invariance, PTL
(* Only Drain, SendFailed and ProcessSend touch what the event holds.       *)
LEMMA BuffersTouched ==
  ASSUME NEW t \in Threads,
         \/ StartClient(t) \/ StartAccept(t) \/ SendStep(t) \/ OtherStep(t)
         \/ Completion(t) \/ BeginSend(t) \/ DisconnectFromContent(t)
  PROVE  \/ sendBuffers' = sendBuffers
         \/ Drain(t) \/ SendFailed(t) \/ \E n \in {0, 1} : ProcessSend(t, n)
<1>1. CASE StartClient(t) \/ StartAccept(t) \/ BeginSend(t) \/ DisconnectFromContent(t)
  BY <1>1 DEF StartClient, StartAccept, Start, BeginSend, DisconnectFromContent, sendState
<1>2. CASE SendStep(t)
  <2>1. CASE PushMessage(t, NextMessage)
    BY <2>1 DEF PushMessage
  <2>2. CASE RegisterSend(t)
    BY <2>2 DEF RegisterSend, sendState
  <2>3. CASE WsaSend(t)
    BY <2>3 DEF WsaSend, sendState
  <2>4. CASE \E error \in Errors : WsaSendFails(t, error)
    BY <2>4 DEF WsaSendFails, sendState
  <2>5. CASE SendNext(t)
    BY <2>5 DEF SendNext
  <2>6. CASE Unlock(t)
    BY <2>6 DEF Unlock, sendState
  <2> QED BY <1>2, <2>1, <2>2, <2>3, <2>4, <2>5, <2>6 DEF SendStep
<1>3. CASE OtherStep(t)
  <2>1. CASE AddSession(t) \/ AddToManager(t) \/ ReleaseSession(t)
    BY <2>1 DEF AddSession, AddToManager, ReleaseSession, sendState
  <2>2. CASE RegisterConnect(t) \/ RegisterAccept(t)
    BY <2>2 DEF RegisterConnect, RegisterAccept, sendState
  <2>3. CASE ReturnFromContent(t) \/ RecvOverflow(t)
    BY <2>3 DEF ReturnFromContent, RecvOverflow, sendState
  <2>4. CASE RegisterDisconnect(t) \/ RegisterRecv(t) \/ WsaRecv(t)
    BY <2>4 DEF RegisterDisconnect, RegisterRecv, WsaRecv, sendState
  <2>5. CASE (\E error \in Errors : WsaRecvFails(t, error)) \/ RecvFailed(t)
    BY <2>5 DEF WsaRecvFails, RecvFailed, sendState
  <2> QED BY <1>3, <2>1, <2>2, <2>3, <2>4, <2>5 DEF OtherStep
<1>4. CASE Completion(t)
  <2>1. CASE \E result \in {{}, {"refused"}} : ProcessConnect(t, result)
    BY <2>1 DEF ProcessConnect, sendState
  <2>2. CASE \E outcome \in {"accepted", "gone"} : ProcessAccept(t, outcome)
    BY <2>2 DEF ProcessAccept, sendState
  <2>3. CASE ProcessDisconnect(t)
    BY <2>3 DEF ProcessDisconnect, sendState
  <2>4. CASE \E n \in {0, 1} : ProcessRecv(t, n)
    BY <2>4 DEF ProcessRecv, sendState
  <2> QED BY <1>4, <2>1, <2>2, <2>3, <2>4 DEF Completion
<1> QED BY <1>1, <1>2, <1>3, <1>4

(* The buffers the kernel was given are neither freed nor added to before   *)
(* ProcessSend: whoever touches the event has it in hand (Session.cpp:      *)
(* 205-231 and 289-310).                                                    *)
THEOREM KernelBuffersKeptHolds == Spec => KernelBuffersKept
<1> DEFINE Kept == "send" \in pending /\ "send" \in pending' => sendBuffers' = sendBuffers
<1>1. IInv /\ [Next]_vars => [Kept]_vars
  <2> SUFFICES ASSUME IInv, Next, "send" \in pending, "send" \in pending'
               PROVE  sendBuffers' = sendBuffers
    OBVIOUS
  <2>1. PICK t \in Threads : \/ StartClient(t) \/ StartAccept(t)
                             \/ SendStep(t) \/ OtherStep(t) \/ Completion(t)
                             \/ BeginSend(t) \/ DisconnectFromContent(t)
    BY DEF Next
  <2>2. \A a \in {"drain", "sendFailed"} : ~At(t, a)
    <3> SUFFICES ASSUME NEW a \in {"drain", "sendFailed"}, At(t, a)
                 PROVE  FALSE
      OBVIOUS
    <3>1. Types /\ a \in Labels /\ a \in SendLabels
      BY DEF IInv, Labels, SendLabels
    <3>2. Busy(t, SendLabels)
      BY <3>1, AtCall DEF Busy
    <3> QED BY <3>2, SendingAlone
  <2>3. ~Drain(t) /\ ~SendFailed(t)
    BY <2>2 DEF Drain, SendFailed
  <2>4. \A n : ~ProcessSend(t, n)
    BY DEF ProcessSend, Completes
  <2> QED BY <2>1, <2>3, <2>4, BuffersTouched
<1>2. Spec => [][Kept]_vars
  BY <1>1, Invariance, PTL DEF Spec
<1> QED BY <1>2, PTL DEF KernelBuffersKept

-----------------------------------------------------------------------------
(* Session implements SessionLife                                          *)

Endings == met \cap {"released", "crashed"}

\* Steps that do nothing to the session's life.
Quiet == connected' = connected /\ inService' = inService /\ Endings' = Endings

\* The calls of Disconnect: of a failed send or receive, an empty completion,
\* an overflow, and content code.
Dropping(t) ==
  /\ connected' = FALSE /\ inService' = inService /\ Endings' = Endings
  /\ \/ \E a \in {"wsaSend", "wsaRecv", "onRecv"} : At(t, a)
     \/ \E event \in {"send", "recv"} : event \in pending
     \/ InContent(t) /\ Notice(t) /\ UNCHANGED role

Connects(t) == \/ \E result \in {{}, {"refused"}} : ProcessConnect(t, result)
               \/ \E outcome \in {"accepted", "gone"} : ProcessAccept(t, outcome)

(* A step of the session connects it, lists it, releases it, drops it, or   *)
(* does nothing to its life.                                                *)
LEMMA LifeTouched ==
  ASSUME NEW t \in Threads,
         \/ StartClient(t) \/ StartAccept(t) \/ SendStep(t) \/ OtherStep(t)
         \/ Completion(t) \/ BeginSend(t) \/ DisconnectFromContent(t)
  PROVE  Quiet \/ Dropping(t) \/ Connects(t) \/ AddSession(t) \/ ReleaseSession(t)
<1> USE DEF Quiet, Endings
<1>1. CASE StartClient(t) \/ StartAccept(t) \/ BeginSend(t)
  BY <1>1 DEF StartClient, StartAccept, Start, BeginSend, Notice, service
<1>2. CASE DisconnectFromContent(t)
  <2>1. connected' = FALSE /\ inService' = inService /\ UNCHANGED role
    BY <1>2 DEF DisconnectFromContent, Disconnect, service
  <2>2. InContent(t) /\ Notice(t) /\ Endings' = Endings
    BY <1>2 DEF DisconnectFromContent, Notice
  <2> QED BY <2>1, <2>2 DEF Dropping
<1>3. ASSUME NEW error, NEW rest, HandleError(t, error, rest), inService' = inService,
             \E a \in {"wsaSend", "wsaRecv"} : At(t, a)
      PROVE  Quiet \/ Dropping(t)
  <2>1. CASE error = "reset"
    <3>1. connected' = FALSE /\ Endings' = Endings
      BY <1>3, <2>1 DEF HandleError, Disconnect
    <3> QED BY <1>3, <3>1 DEF Dropping
  <2>2. CASE error # "reset"
    BY <1>3, <2>2 DEF HandleError
  <2> QED BY <2>1, <2>2
<1>4. CASE SendStep(t)
  <2>1. CASE PushMessage(t, NextMessage)
    BY <2>1 DEF PushMessage, service
  <2>2. CASE RegisterSend(t) \/ Drain(t) \/ WsaSend(t)
    BY <2>2 DEF RegisterSend, Drain, WsaSend, service
  <2>3. CASE \E error \in Errors : WsaSendFails(t, error)
    <3>1. PICK error \in Errors : WsaSendFails(t, error)
      BY <2>3
    <3>2. HandleError(t, error, <<"sendFailed">> \o Rest(t)) /\ inService' = inService
          /\ At(t, "wsaSend")
      BY <3>1 DEF WsaSendFails, service
    <3> QED BY <1>3, <3>2
  <2>4. CASE SendFailed(t) \/ SendNext(t) \/ Unlock(t)
    BY <2>4 DEF SendFailed, SendNext, Unlock, service
  <2> QED BY <1>4, <2>1, <2>2, <2>3, <2>4 DEF SendStep
<1>5. CASE OtherStep(t)
  <2>1. CASE AddToManager(t) \/ RegisterConnect(t) \/ RegisterAccept(t) \/ ReturnFromContent(t)
    BY <2>1 DEF AddToManager, RegisterConnect, RegisterAccept, ReturnFromContent, service
  <2>2. CASE RecvOverflow(t)
    <3>1. connected' = FALSE /\ inService' = inService /\ Endings' = Endings /\ At(t, "onRecv")
      BY <2>2 DEF RecvOverflow, Disconnect, service
    <3> QED BY <3>1 DEF Dropping
  <2>3. CASE RegisterDisconnect(t)
    BY <2>3 DEF RegisterDisconnect, service
  <2>4. CASE RegisterRecv(t) \/ WsaRecv(t) \/ RecvFailed(t)
    BY <2>4 DEF RegisterRecv, WsaRecv, RecvFailed, service
  <2>5. CASE \E error \in Errors : WsaRecvFails(t, error)
    <3>1. PICK error \in Errors : WsaRecvFails(t, error)
      BY <2>5
    <3>2. HandleError(t, error, <<"recvFailed">> \o Rest(t)) /\ inService' = inService
          /\ At(t, "wsaRecv")
      BY <3>1 DEF WsaRecvFails, service
    <3> QED BY <1>3, <3>2
  <2> QED BY <1>5, <2>1, <2>2, <2>3, <2>4, <2>5 DEF OtherStep
<1>6. CASE Completion(t)
  <2>1. CASE ProcessDisconnect(t)
    BY <2>1 DEF ProcessDisconnect
  <2>2. CASE \E n \in {0, 1} : ProcessSend(t, n)
    <3>1. inService' = inService /\ Endings' = Endings /\ "send" \in pending
      BY <2>2 DEF ProcessSend, Completes, service
    <3>2. connected' = connected \/ connected' = FALSE
      BY <2>2 DEF ProcessSend, Disconnect
    <3> QED BY <3>1, <3>2 DEF Dropping
  <2>3. CASE \E n \in {0, 1} : ProcessRecv(t, n)
    <3>1. inService' = inService /\ Endings' = Endings /\ "recv" \in pending
      BY <2>3 DEF ProcessRecv, Completes, service
    <3>2. connected' = connected \/ connected' = FALSE
      BY <2>3 DEF ProcessRecv, Disconnect
    <3> QED BY <3>1, <3>2 DEF Dropping
  <2> QED BY <1>6, <2>1, <2>2, <2>3 DEF Completion, Connects
<1> QED BY <1>1, <1>2, <1>4, <1>5, <1>6

(* Whoever calls Disconnect has a session that was added.                   *)
LEMMA DroppingAdded ==
  ASSUME IInv, NEW t \in Threads, Dropping(t)
  PROVE  ~Adding
<1>1. CASE \E a \in {"wsaSend", "wsaRecv", "onRecv"} : At(t, a)
  <2>1. PICK a \in {"wsaSend", "wsaRecv", "onRecv"} : At(t, a)
    BY <1>1
  <2>2. a \in Labels \ Opener /\ a \notin Welcoming
    BY DEF Labels, Opener, Welcoming
  <2>3. a \in On(t)
    BY <2>1, <2>2, AtCall DEF IInv
  <2> QED BY <2>2, <2>3, InUse
<1>2. CASE \E event \in {"send", "recv"} : event \in pending
  BY <1>2, Running
<1>3. CASE InContent(t) /\ Notice(t) /\ UNCHANGED role
  BY <1>3, ContentWelcomed
<1> QED BY <1>1, <1>2, <1>3 DEF Dropping

(* A session that is not open yet is new.                                   *)
LEMMA OpeningIsNew ==
  ASSUME IInv, Opening
  PROVE  ~connected /\ ~inService /\ Endings = {} /\ Phase = "new"
BY DEF IInv, Opened, Untouched, Endings, Phase

(* Whoever disconnects a session and whenever, its life is the one of       *)
(* SessionLife: each step opens it, lists it, closes it, releases it, in    *)
(* that order and each once, or does none of these.                         *)
THEOREM LifeImplemented == Spec => ImplementsLife
<1>1. Init => Life!LifeInit
  BY DEF Init, Life!LifeInit, Phase
<1>2. IInv /\ IInv' /\ [Next]_vars => [Life!LifeNext]_(Life!life)
  <2> SUFFICES ASSUME IInv, IInv', [Next]_vars
               PROVE  Life!LifeNext \/ (Phase' = Phase /\ inService' = inService)
    BY DEF Life!life
  <2>1. /\ EndsOnce /\ Added /\ Types /\ EndsOnce'
        /\ "crashed" \notin met /\ "crashed" \notin met'
    BY DEF IInv, EndsOnce
  <2>2. CASE UNCHANGED vars
    BY <2>2 DEF vars, service, Phase
  <2>3. ASSUME NEW t \in Threads,
               \/ StartClient(t) \/ StartAccept(t) \/ SendStep(t) \/ OtherStep(t)
               \/ Completion(t) \/ BeginSend(t) \/ DisconnectFromContent(t)
        PROVE  Life!LifeNext \/ (Phase' = Phase /\ inService' = inService)
    <3>1. CASE Quiet
      BY <3>1 DEF Quiet, Endings, Phase
    <3>2. CASE Dropping(t)
      <4>1. "released" \in met' <=> "released" \in met
        BY <3>2 DEF Dropping, Endings
      <4>2. CASE connected
        <5>1. inService /\ "released" \notin met
          BY <2>1, <3>2, <4>2, DroppingAdded DEF EndsOnce
        <5>2. Phase = "open" /\ Phase' = "closed" /\ inService' = inService
          BY <2>1, <3>2, <4>1, <4>2, <5>1 DEF Phase, Dropping
        <5> QED BY <5>1, <5>2 DEF Life!LifeNext, Life!Close
      <4>3. CASE ~connected
        BY <2>1, <3>2, <4>1, <4>3 DEF Phase, Dropping
      <4> QED BY <4>2, <4>3
    <3>3. CASE Connects(t)
      <4>1. Opening
        <5>1. CASE \E result \in {{}, {"refused"}} : ProcessConnect(t, result)
          BY <5>1 DEF ProcessConnect, Completes, Opening, SomeHand
        <5>2. CASE \E outcome \in {"accepted", "gone"} : ProcessAccept(t, outcome)
          BY <5>2 DEF ProcessAccept, Completes, Opening, IInv, AcceptHand, SomeHand
        <5> QED BY <3>3, <5>1, <5>2 DEF Connects
      <4>2. ~connected /\ ~inService /\ Endings = {} /\ Phase = "new"
        BY <4>1, OpeningIsNew
      <4>3. inService' = inService /\ Endings' = Endings /\ connected' \in BOOLEAN
        BY <3>3 DEF Connects, ProcessConnect, ProcessAccept, Endings, service
      <4>4. Phase' = IF connected' THEN "open" ELSE "new"
        BY <4>2, <4>3 DEF Phase, Endings
      <4> QED BY <4>2, <4>3, <4>4 DEF Life!LifeNext, Life!Open
    <3>4. CASE AddSession(t)
      <4>1. Adding
        <5>1. "addSession" \in Labels /\ At(t, "addSession")
          BY <3>4 DEF Labels, AddSession
        <5>2. "addSession" \in On(t)
          BY <2>1, <5>1, AtCall
        <5> QED BY <5>2 DEF Adding, Busy
      <4>2. connected /\ ~inService /\ "released" \notin met
        BY <2>1, <4>1 DEF Added, Untouched
      <4>3. inService' = TRUE /\ connected' = connected /\ met' = met \cup {"added"}
        BY <3>4 DEF AddSession
      <4>4. Phase = "open" /\ Phase' = "open"
        BY <2>1, <4>2, <4>3 DEF Phase
      <4> QED BY <4>2, <4>3, <4>4 DEF Life!LifeNext, Life!List
    <3>5. CASE ReleaseSession(t)
      <4>1. SomeHand("disconnect", Ends)
        <5>1. "release" \in Labels /\ At(t, "release")
          BY <3>5 DEF Labels, ReleaseSession
        <5>2. "release" \in On(t)
          BY <2>1, <5>1, AtCall
        <5> QED BY <5>2 DEF SomeHand, Busy, Ends
      <4>2. ~connected /\ inService /\ "released" \notin met
        BY <2>1, <4>1 DEF EndsOnce
      <4>3. inService' = FALSE /\ "released" \in met'
        BY <3>5, <4>2 DEF ReleaseSession
      <4>4. Phase = "closed" /\ Phase' = "released"
        BY <2>1, <4>2, <4>3 DEF Phase
      <4> QED BY <4>2, <4>3, <4>4 DEF Life!LifeNext, Life!Release
    <3> QED BY <2>3, <3>1, <3>2, <3>3, <3>4, <3>5, LifeTouched
  <2> QED BY <2>2, <2>3 DEF Next
<1> QED
  BY <1>1, <1>2, Invariance, PTL DEF Spec, ImplementsLife, Life!LifeSpec
=============================================================================
