-------------------------- MODULE KcpStreamProofs --------------------------
(***************************************************************************)
(* Proof that the streams drive the control blocks as module Kcb allows,   *)
(* and that, even if the server replaces its control block again and       *)
(* again, a fragment always stands for its number in the stream of its     *)
(* sender; so reads are in order, and in lockstep no message that recv has *)
(* taken out is dropped and every answer is that of its request.           *)
(***************************************************************************)
EXTENDS KcpStream, KcbDeliveryProofs

(***************************************************************************)
(* The steps of the streams, as calls of the control blocks                *)
(***************************************************************************)

\* flush is called, or its future dropped.
FlushCall(e) ==
  \/ \E resend \in SUBSET DOMAIN snd_buf[e], expired \in BOOLEAN :
       Flush(e, resend, expired)
  \/ FlushDroppedAtAck(e)
  \/ \E expired \in BOOLEAN : FlushDroppedAtProbe(e, expired)

InputCall(e) == InputLoop(e) \/ \E d \in net[e] : Input(e, d)

\* What the streams do to the control blocks, but for the one they replace:
\* they send single fragments.
Call ==
  \/ UNCHANGED vars
  \/ \E e \in Endpoint : Send(e, 1) \/ Recv(e) \/ InputCall(e) \/ FlushCall(e)

LEMMA CallIsKcb == Call => [Next]_vars
BY OneFragmentAssumption DEF Call, FlushCall, InputCall, InputLoop, Next

LEMMA UpdateIsCall ==
  ASSUME NEW e \in Endpoint, Update(e) \/ FlushDropped(e)
  PROVE  (UNCHANGED vars \/ FlushCall(e)) /\ sent' = sent /\ got' = got
<1>1. UNCHANGED vars \/ FlushCall(e)
  BY DEF Update, FlushEnds, FlushDropped, FlushCall
<1>2. CASE UNCHANGED vars
  BY <1>1, <1>2 DEF vars, histVars
<1>3. CASE FlushCall(e)
  BY <1>3 DEF FlushCall, Flush, FlushDroppedAtAck, FlushDroppedAtProbe, histVars
<1> QED BY <1>1, <1>2, <1>3

LEMMA InputKeepsHistories ==
  ASSUME NEW e \in Endpoint, InputCall(e)
  PROVE  sent' = sent /\ got' = got
BY DEF InputCall, InputLoop, Input, InputAckOrWins, InputWask, InputPush, InputStalePush,
       histVars

\* Where the tasks can be: the server has no application of its own, the
\* client drops no stream.
Tasks ==
  /\ task \in [Endpoint -> Place]
  /\ task[A] # "failed"
  /\ task[B] \notin {"app", "ended"}

\* A step that reads and delivers nothing, drops no stream, and sends nothing
\* but one fragment: nobody gets to kcp_check, and the server leaves it for a
\* read that has failed.
Quiet ==
  /\ Call
  /\ UNCHANGED <<got, read>>
  /\ \A x \in Endpoint : task'[x] = "check" => task[x] = "check"
  /\ task'[B] # "failed" =>
       task[B] # "failed" /\ (task[B] = "check" => task'[B] = "check")

LEMMA Ends == A \in Endpoint /\ B \in Endpoint /\ A # B /\ Peer(A) = B /\ Peer(B) = A
              /\ \A e \in Endpoint : e = A \/ e = B
BY EndpointAssumption DEF Endpoint, Peer

LEMMA WriteIsQuiet ==
  ASSUME Tasks, NEW e \in Endpoint,
         WriteBegin(e) \/ WriteSend(e) \/ WriteUpdate(e) \/ WriteFlush(e) \/ WritePending(e)
  PROVE  Quiet
<1>1. CASE WriteBegin(e)
  BY <1>1, Ends DEF WriteBegin, Quiet, Call, Go, Tasks, vars, histVars
<1>2. CASE WriteSend(e)
  BY <1>2, Ends DEF WriteSend, Send, Quiet, Call, Go, Tasks
<1>3. CASE WriteUpdate(e) \/ WriteFlush(e) \/ WritePending(e)
  <2>1. Update(e) \/ FlushDropped(e)
    BY <1>3 DEF WriteUpdate, WriteFlush, WritePending, Update
  <2>2. Call /\ got' = got
    BY <2>1, UpdateIsCall DEF Call
  <2> QED BY <1>3, <2>2, Ends
          DEF WriteUpdate, WriteFlush, WritePending, Quiet, Go, Tasks
<1> QED BY <1>1, <1>2, <1>3

LEMMA ReadIsQuiet ==
  ASSUME Tasks, NEW e \in Endpoint,
         \/ ReadBegin(e) \/ Receive(e) \/ ReceiveSegment(e) \/ ReceiveUpdate(e)
         \/ ReceivePending(e) \/ TakeNothing(e) \/ ReadPending(e)
  PROVE  Quiet
<1>1. CASE ReadBegin(e) \/ TakeNothing(e)
  BY <1>1, Ends DEF ReadBegin, TakeNothing, Quiet, Call, Go, Tasks, vars, histVars
<1>2. CASE Receive(e) \/ ReceiveSegment(e)
  <2>1. InputCall(e)
    BY <1>2 DEF Receive, ReceiveSegment, InputCall
  <2>2. Call /\ got' = got
    BY <2>1, InputKeepsHistories DEF Call
  <2> QED BY <1>2, <2>2, Ends
          DEF Receive, ReceiveSegment, Quiet, Go, Tasks, streamVars, tableVars
<1>3. CASE ReceiveUpdate(e) \/ ReceivePending(e) \/ ReadPending(e)
  <2>1. Update(e) \/ FlushDropped(e)
    BY <1>3 DEF ReceiveUpdate, ReceivePending, ReadPending
  <2>2. Call /\ got' = got
    BY <2>1, UpdateIsCall DEF Call
  <2> QED BY <1>3, <2>2, Ends
          DEF ReceiveUpdate, ReceivePending, ReadPending, Quiet, Go, Tasks
<1> QED BY <1>1, <1>2, <1>3

\* The actions of the streams.
Act(e) == Step(e) \/ WriteBegin(e) \/ ReadBegin(e)

\* Four kinds of steps.
LEMMA ActKinds ==
  ASSUME Tasks, NEW e \in Endpoint, Act(e)
  PROVE  Quiet \/ Take(e) \/ ReadReturns(e) \/ (e = B /\ DropStream(e))
<1>1. DropStream(e) => e = B
  BY Ends DEF DropStream, Tasks
<1> QED BY <1>1, WriteIsQuiet, ReadIsQuiet DEF Act, Step

\* Every step of the streams is a call, or the server's new control block.
LEMMA StreamStepCalls ==
  ASSUME Tasks, [StreamNext]_allVars
  PROVE  (Call \/ NewBlock(B)) /\ Tasks'
<1>1. CASE UNCHANGED allVars
  BY <1>1 DEF allVars, streamVars, Call, Tasks
<1>2. ASSUME NEW e \in Endpoint, Act(e)
      PROVE  Call \/ NewBlock(B)
  <2>1. Take(e) => Call
    BY DEF Take, Call
  <2>2. ReadReturns(e) => Call
    BY UpdateIsCall DEF ReadReturns, Call
  <2> QED BY <1>2, <2>1, <2>2, ActKinds DEF Quiet, DropStream
<1>3. ASSUME NEW e \in Endpoint, Act(e)
      PROVE  Tasks'
  <2>1. task' = task \/ \E place \in Place : task' = [task EXCEPT ![e] = place]
    BY <1>3 DEF Act, Step, WriteBegin, ReadBegin, WriteSend, WriteUpdate, WriteFlush,
              WritePending, Receive, ReceiveSegment, ReceiveUpdate, ReceivePending,
              Take, TakeNothing, ReadReturns, ReadPending, DropStream, Go, Place, streamVars
  <2>2. task'[A] # "failed" /\ task'[B] \notin {"app", "ended"}
    BY <1>3, Ends DEF Act, Step, WriteBegin, ReadBegin, WriteSend, WriteUpdate, WriteFlush,
              WritePending, Receive, ReceiveSegment, ReceiveUpdate, ReceivePending,
              Take, TakeNothing, ReadReturns, ReadPending, DropStream, Go, Tasks, streamVars
  <2> QED BY <2>1, <2>2 DEF Tasks
<1> QED BY <1>1, <1>2, <1>3 DEF StreamNext, Act

LEMMA TasksInit == StreamInit => Tasks
BY Ends DEF StreamInit, Tasks, Place

\* The streams use the control blocks as module Kcb says that callers may,
\* with one exception: drop_stream, and the next datagram, give the server a
\* new one (mod.rs:86, 150) while datagrams of the old one are under way.
THEOREM UsesKcb == StreamSpec => Init /\ [][Next \/ NewBlock(B)]_vars
<1>1. StreamInit => Init
  BY DEF StreamInit
<1>2. Tasks /\ [StreamNext]_allVars => [Next \/ NewBlock(B)]_vars /\ Tasks'
  BY StreamStepCalls, CallIsKcb
<1> QED BY <1>1, <1>2, TasksInit, PTL DEF StreamSpec

LEMMA NewBlockKeeps ==
  ASSUME TypeOK, NEW e \in Endpoint, NewBlock(e)
  PROVE  TypeOK' /\ (ReceiveWindow => ReceiveWindow')
<1>1. TypeOK'
  <2> DEFINE none == <<>>
  <2>1. none \in Seq(Payload) /\ DOMAIN none = {} /\ none \in [{} -> Payload]
    OBVIOUS
  <2>2. /\ snd_queue' = [snd_queue EXCEPT ![e] = none]
        /\ snd_buf' = [snd_buf EXCEPT ![e] = none]
        /\ rcv_buf' = [rcv_buf EXCEPT ![e] = none]
        /\ rcv_queue' = [rcv_queue EXCEPT ![e] = none]
        /\ sent' = [sent EXCEPT ![e] = none]
        /\ got' = [got EXCEPT ![e] = none]
    BY DEF NewBlock
  <2> HIDE DEF none
  <2>3. /\ snd_queue' \in [Endpoint -> Seq(Payload)]
        /\ rcv_queue' \in [Endpoint -> Seq(Payload)]
        /\ sent' \in [Endpoint -> Seq(Payload)]
        /\ got' \in [Endpoint -> Seq(Payload)]
    BY <2>1, <2>2 DEF TypeOK
  <2>4. DOMAIN snd_buf' = Endpoint /\ DOMAIN rcv_buf' = Endpoint
    BY <2>2 DEF TypeOK
  <2>5. ASSUME NEW x \in Endpoint
        PROVE  /\ DOMAIN snd_buf'[x] \subseteq Nat
               /\ snd_buf'[x] \in [DOMAIN snd_buf'[x] -> Payload]
               /\ DOMAIN rcv_buf'[x] \subseteq Nat
               /\ rcv_buf'[x] \in [DOMAIN rcv_buf'[x] -> Payload]
    <3>1. CASE x = e
      BY <2>1, <2>2, <3>1 DEF TypeOK
    <3>2. CASE x # e
      BY <2>2, <3>2 DEF TypeOK
    <3> QED BY <3>1, <3>2
  <2>6. /\ snd_una' \in [Endpoint -> Nat] /\ snd_nxt' \in [Endpoint -> Nat]
        /\ rmt_wnd' \in [Endpoint -> Nat] /\ rcv_nxt' \in [Endpoint -> Nat]
        /\ acklist' \in [Endpoint -> SUBSET Nat]
        /\ probe' \in [Endpoint -> SUBSET {"SEND", "TELL"}]
        /\ probe_wait' \in [Endpoint -> BOOLEAN]
        /\ cursor' = cursor /\ net' = net
    BY WindowAssumption DEF NewBlock, TypeOK
  <2> QED BY <2>3, <2>4, <2>5, <2>6 DEF TypeOK
<1>2. ASSUME ReceiveWindow PROVE ReceiveWindow'
  <2>1. ASSUME NEW x \in Endpoint
        PROVE  \/ /\ rcv_queue'[x] = rcv_queue[x] /\ rcv_buf'[x] = rcv_buf[x]
                  /\ rcv_nxt'[x] = rcv_nxt[x]
               \/ rcv_queue'[x] = <<>> /\ DOMAIN rcv_buf'[x] = {}
    BY DEF NewBlock, TypeOK
  <2> QED BY <1>2, <2>1, WindowAssumption DEF ReceiveWindow
<1> QED BY <1>1, <1>2

\* Whatever the streams do, the control blocks keep their types and their
\* receive windows (parse_data, kcb.rs).
THEOREM BlocksKeepWindow == StreamSpec => [](TypeOK /\ ReceiveWindow)
<1> DEFINE Inv == TypeOK /\ ReceiveWindow
<1>1. StreamInit => Tasks /\ Inv
  BY TasksInit, InitType, ReceiveWindowInit DEF StreamInit
<1>2. Tasks /\ Inv /\ [StreamNext]_allVars => (Tasks /\ Inv)'
  <2> SUFFICES ASSUME Tasks, TypeOK, ReceiveWindow, [StreamNext]_allVars
               PROVE  Tasks' /\ TypeOK' /\ ReceiveWindow'
    OBVIOUS
  <2>1. Tasks' /\ ([Next]_vars \/ NewBlock(B))
    BY StreamStepCalls, CallIsKcb
  <2>2. CASE UNCHANGED vars
    BY <2>1, <2>2 DEF vars, sndVars, rcvVars, probeVars, histVars, TypeOK, ReceiveWindow
  <2>3. CASE Next
    BY <2>1, <2>3, StepType, ReceiveWindowStep
  <2>4. CASE NewBlock(B)
    BY <2>1, <2>4, Ends, NewBlockKeeps
  <2> QED BY <2>1, <2>2, <2>3, <2>4
<1> HIDE DEF Inv
<1>3. StreamSpec => []Inv
  BY <1>1, <1>2, PTL DEF StreamSpec
<1> QED BY <1>3 DEF Inv
(***************************************************************************)
(* A fragment stands for its number                                        *)
(***************************************************************************)

\* The k-th fragment of a stream of an application, in every life of it.
Labels == [k \in Nat |-> [msg |-> k, frg |-> 0]]

\* What e sends, and what of it is in snd_queue and snd_buf.
Sends(e) == SendStream(e) /\ Holds(sent[e], Labels, 0)

\* A PUSH with a number below l carries the fragment of this number.
Labelled(s, l) == s.cmd = "PUSH" => s.sn < l /\ s.data = Labels[s.sn + 1]

\* What has come to e, or is under way, of l fragments sent.
Arrives(e, l) ==
  /\ rcv_nxt[e] = Len(got[e]) + Len(rcv_queue[e])
  /\ rcv_nxt[e] <= l
  /\ Holds(got[e], Labels, 0)
  /\ Holds(rcv_queue[e], Labels, Len(got[e]))
  /\ Placed(rcv_buf[e], Labels, l)
  /\ \A s \in cursor[e] : Labelled(s, l)
  /\ \A d \in net[e] : \A s \in d : Labelled(s, l)

LEMMA LabelAt ==
  ASSUME NEW k \in Nat
  PROVE  Labels[k] \in Payload /\ Labels[k].msg = k /\ Labels[k].frg = 0
BY DEF Labels, Payload

\* Of more fragments there can only be as many.
LEMMA ArrivesMore ==
  ASSUME TypeOK, NEW e \in Endpoint, NEW l \in Nat, NEW m \in Nat, l <= m, Arrives(e, l)
  PROVE  Arrives(e, m)
<1>1. /\ rcv_nxt[e] \in Nat /\ DOMAIN rcv_buf[e] \in SUBSET Nat
      /\ cursor[e] \in SUBSET Segment /\ net[e] \in SUBSET SUBSET Segment
  BY TypesAt
<1>2. \A s \in Segment : Labelled(s, l) => Labelled(s, m)
  BY DEF Labelled, Segment
<1>3. rcv_nxt[e] <= m
  <2>1. rcv_nxt[e] <= l
    BY DEF Arrives
  <2> QED BY <1>1, <2>1
<1>4. Placed(rcv_buf[e], Labels, m)
  BY <1>1 DEF Arrives, Placed
<1>5. (\A s \in cursor[e] : Labelled(s, m)) /\ \A d \in net[e] : \A s \in d : Labelled(s, m)
  BY <1>1, <1>2 DEF Arrives
<1> QED BY <1>3, <1>4, <1>5 DEF Arrives

LEMMA ConcatFirst ==
  ASSUME NEW a \in Seq(Payload), NEW b \in Seq(Payload)
  PROVE  /\ Len(a \o b) = Len(a) + Len(b)
         /\ \A k \in 1..Len(a) : (a \o b)[k] = a[k]
         /\ Len(b) > 0 => (a \o b)[Len(a) + 1] = b[1]
<1> DEFINE la == Len(a)
           lb == Len(b)
<1>1. la \in Nat /\ lb \in Nat
  BY LenProperties
<1>2. /\ Len(a \o b) = la + lb
      /\ \A i \in 1..(la + lb) : (a \o b)[i] = IF i <= la THEN a[i] ELSE b[i - la]
  BY ConcatAt
<1> HIDE DEF la, lb
<1>3. \A k \in 1..la : (a \o b)[k] = a[k]
  BY <1>1, <1>2
<1>4. lb > 0 => (a \o b)[la + 1] = b[1]
  <2>1. lb > 0 => la + 1 \in 1..(la + lb) /\ ~ (la + 1 <= la) /\ (la + 1) - la = 1
    BY <1>1
  <2> QED BY <1>2, <2>1
<1> QED BY <1>2, <1>3, <1>4 DEF la, lb

\* One fragment more, with the next label.
LEMMA HoldsMore ==
  ASSUME NEW h \in Seq(Payload), NEW f \in Seq(Payload), Len(f) = 1,
         Holds(h, Labels, 0), f[1] = Labels[Len(h) + 1]
  PROVE  Holds(h \o f, Labels, 0) /\ Len(h \o f) = Len(h) + 1
<1> DEFINE last == Len(h)
<1>1. last \in Nat
  BY LenProperties
<1>2. /\ Len(h \o f) = last + 1
      /\ \A k \in 1..last : (h \o f)[k] = h[k]
      /\ (h \o f)[last + 1] = f[1]
  <2> HIDE DEF last
  <2>1. /\ Len(h \o f) = Len(h) + Len(f)
        /\ \A k \in 1..Len(h) : (h \o f)[k] = h[k]
        /\ Len(f) > 0 => (h \o f)[Len(h) + 1] = f[1]
    BY ConcatFirst
  <2> QED BY <2>1 DEF last
<1>3. \A k \in 1..last : h[k] = Labels[0 + k]
  BY DEF Holds
<1>4. f[1] = Labels[last + 1]
  OBVIOUS
<1> HIDE DEF last
<1>5. ASSUME NEW k \in 1..(last + 1) PROVE (h \o f)[k] = Labels[0 + k]
  <2>1. CASE k \in 1..last
    BY <1>2, <1>3, <2>1
  <2>2. CASE k = last + 1
    <3>1. 0 + k = last + 1
      BY <1>1, <2>2
    <3>2. (h \o f)[k] = f[1]
      BY <1>2, <2>2
    <3> QED BY <1>4, <3>1, <3>2
  <2>3. k \in 1..last \/ k = last + 1
    BY <1>1
  <2> QED BY <2>1, <2>2, <2>3
<1> QED BY <1>2, <1>5 DEF Holds, last

\* send appends the next fragment of the stream.
LEMMA SendOne ==
  ASSUME TypeOK, NEW e \in Endpoint, Sends(e), Send(e, 1)
  PROVE  /\ Sends(e)'
         /\ Len(sent'[e]) = Len(sent[e]) + 1
         /\ snd_nxt' = snd_nxt
         /\ \A x \in Endpoint \ {e} : sent'[x] = sent[x] /\ snd_queue'[x] = snd_queue[x]
         /\ UNCHANGED <<snd_buf, rcv_buf, rcv_queue, rcv_nxt, got, cursor, net>>
<1> DEFINE msg == IF sent[e] = <<>> THEN 1 ELSE sent[e][Len(sent[e])].msg + 1
           one == [k \in 1..1 |-> [msg |-> msg, frg |-> 1 - k]]
           h == sent[e]
           last == Len(h)
           q == snd_queue[e]
           nxt == snd_nxt[e]
<1>1. /\ sent' = [sent EXCEPT ![e] = h \o one]
      /\ snd_queue' = [snd_queue EXCEPT ![e] = q \o one]
      /\ UNCHANGED <<snd_buf, snd_nxt, rcv_buf, rcv_queue, rcv_nxt, got, cursor, net>>
  BY DEF Send, rcvVars
<1>2. /\ h \in Seq(Payload) /\ q \in Seq(Payload) /\ nxt \in Nat /\ last \in Nat
      /\ DOMAIN snd_buf[e] \in SUBSET Nat
  BY TypesAt
<1>3. msg = last + 1
  <2>1. CASE sent[e] = <<>>
    BY <2>1
  <2>2. CASE sent[e] # <<>>
    <3>1. last \in 1..last
      BY <1>2, <2>2, EmptySeq
    <3>2. sent[e][last] = Labels[0 + last]
      BY <3>1 DEF Sends, Holds
    <3> HIDE DEF last
    <3>3. Labels[0 + last].msg = last
      BY <1>2, LabelAt
    <3> QED BY <2>2, <3>2, <3>3 DEF last
  <2> QED BY <2>1, <2>2
<1>4. one \in Seq(Payload) /\ Len(one) = 1 /\ one[1] = Labels[last + 1]
  <2>1. msg \in Nat
    BY <1>2, <1>3
  <2> HIDE DEF last
  <2>2. Labels[last + 1] = [msg |-> last + 1, frg |-> 0]
    BY <1>2 DEF Labels
  <2>3. msg = last + 1
    BY <1>3
  <2> HIDE DEF msg
  <2>4. \A k \in 1..1 : [msg |-> msg, frg |-> 1 - k] \in Payload
    BY <2>1 DEF Payload
  <2>5. one \in Seq(Payload) /\ Len(one) = 1 /\ one[1] = [msg |-> msg, frg |-> 0]
    BY <2>4
  <2> QED BY <2>2, <2>3, <2>5
<1> HIDE DEF one
<1>5. /\ sent'[e] = h \o one /\ snd_queue'[e] = q \o one
      /\ \A x \in Endpoint \ {e} : sent'[x] = sent[x] /\ snd_queue'[x] = snd_queue[x]
  BY <1>1 DEF TypeOK
<1>6. Holds(h \o one, Labels, 0) /\ Len(h \o one) = last + 1
  <2> HIDE DEF h
  <2> QED BY <1>2, <1>4, HoldsMore DEF last, Sends, h
<1>7. /\ nxt + Len(q) = Len(h)
      /\ \A i \in 1..Len(q) : q[i] = h[nxt + i]
      /\ \A n \in DOMAIN snd_buf[e] : n < nxt /\ snd_buf[e][n] = h[n + 1]
  BY DEF Sends, SendStream
<1>8. /\ nxt + Len(q \o one) = Len(h \o one)
      /\ \A i \in 1..Len(q \o one) : (q \o one)[i] = (h \o one)[nxt + i]
  <2> HIDE DEF q, h, nxt
  <2> QED BY <1>2, <1>4, <1>7, AppendStream
<1>9. \A n \in DOMAIN snd_buf[e] : n + 1 \in 1..last
  <2>1. Len(q) \in Nat /\ nxt + Len(q) = last
    BY <1>2, <1>7, LenProperties
  <2> HIDE DEF q, last, nxt
  <2> QED BY <1>2, <1>7, <2>1
<1>10. \A n \in DOMAIN snd_buf[e] : n < nxt /\ snd_buf[e][n] = (h \o one)[n + 1]
  <2>1. \A k \in 1..last : (h \o one)[k] = h[k]
    <3> HIDE DEF h
    <3> QED BY <1>2, <1>4, ConcatFirst DEF last
  <2> HIDE DEF h, last
  <2> QED BY <1>7, <1>9, <2>1
<1>11. Sends(e)'
  BY <1>1, <1>5, <1>6, <1>8, <1>10 DEF Sends, SendStream
<1> QED BY <1>1, <1>5, <1>6, <1>11

\* No call takes back what was sent, or numbers what was not.
LEMMA SendsStep ==
  ASSUME TypeOK, \A e \in Endpoint : Sends(e), Call
  PROVE  \A x \in Endpoint : Sends(x)' /\ Len(sent[x]) <= Len(sent'[x])
<1>0. \A x \in Endpoint : Len(sent[x]) \in Nat
  BY TypesAt
<1>1. CASE UNCHANGED vars
  BY <1>0, <1>1 DEF vars, sndVars, histVars, Sends, SendStream
<1>2. ASSUME NEW e \in Endpoint, Send(e, 1)
      PROVE  \A x \in Endpoint : Sends(x)' /\ Len(sent[x]) <= Len(sent'[x])
  <2>1. ASSUME NEW x \in Endpoint, x # e PROVE Sends(x)' /\ Len(sent[x]) <= Len(sent'[x])
    BY <1>0, <1>2, <2>1, SendOne DEF Sends, SendStream
  <2>2. Sends(e)' /\ Len(sent[e]) <= Len(sent'[e])
    BY <1>0, <1>2, SendOne
  <2> QED BY <2>1, <2>2
<1>3. ASSUME NEW e \in Endpoint, Recv(e) \/ \E d \in net[e] : Input(e, d)
      PROVE  \A x \in Endpoint : Sends(x)' /\ Len(sent[x]) <= Len(sent'[x])
  BY <1>0, <1>3 DEF Recv, Input, sndVars, histVars, Sends, SendStream
<1>4. ASSUME NEW e \in Endpoint, InputLoop(e)
      PROVE  \A x \in Endpoint : Sends(x)' /\ Len(sent[x]) <= Len(sent'[x])
  <2>1. PICK s \in Segment : InputSegment(e, s)
    BY <1>4, InputFacts DEF InputLoop
  <2>2. PICK left \in SUBSET DOMAIN snd_buf[e] :
          /\ snd_buf' = [snd_buf EXCEPT ![e] = [n \in left |-> snd_buf[e][n]]]
          /\ UNCHANGED <<snd_queue, snd_nxt>>
    BY <2>1, ParseAcksFacts DEF InputSegment
  <2>3. \A x \in Endpoint :
          /\ DOMAIN snd_buf'[x] \subseteq DOMAIN snd_buf[x]
          /\ \A n \in DOMAIN snd_buf'[x] : snd_buf'[x][n] = snd_buf[x][n]
    BY <2>2 DEF TypeOK
  <2>4. sent' = sent
    BY <2>1 DEF InputSegment, histVars
  <2> QED BY <1>0, <2>2, <2>3, <2>4 DEF Sends, SendStream
<1>5. ASSUME NEW e \in Endpoint, FlushDroppedAtAck(e) \/ \E expired \in BOOLEAN :
               FlushDroppedAtProbe(e, expired)
      PROVE  \A x \in Endpoint : Sends(x)' /\ Len(sent[x]) <= Len(sent'[x])
  BY <1>0, <1>5, FlushDroppedFacts DEF sndVars, histVars, Sends, SendStream
<1>6. ASSUME NEW e \in Endpoint, NEW resend \in SUBSET DOMAIN snd_buf[e],
             NEW expired \in BOOLEAN, Flush(e, resend, expired)
      PROVE  \A x \in Endpoint : Sends(x)' /\ Len(sent[x]) <= Len(sent'[x])
  <2>1. PICK count \in 0..Len(snd_queue[e]) :
          /\ snd_buf' = [snd_buf EXCEPT ![e] = Numbered(e, count)]
          /\ snd_nxt' = [snd_nxt EXCEPT ![e] = snd_nxt[e] + count]
          /\ snd_queue' = [snd_queue EXCEPT ![e] =
               SubSeq(snd_queue[e], count + 1, Len(snd_queue[e]))]
          /\ sent' = sent
    <3>1. \A cwnd \in 0..SndWnd : Admitted(e, cwnd) \in 0..Len(snd_queue[e])
      BY AdmittedFacts, WindowAssumption
    <3> QED BY <1>6, <3>1, FlushFacts DEF histVars
  <2> DEFINE rest == SubSeq(snd_queue[e], count + 1, Len(snd_queue[e]))
  <2>2. SendStream(e)'
    <3>1. /\ snd_nxt[e] + count + Len(rest) = Len(sent[e])
          /\ Holds(rest, sent[e], snd_nxt[e] + count)
          /\ Placed(Numbered(e, count), sent[e], snd_nxt[e] + count)
      BY NumberedStream DEF Sends
    <3>2. /\ snd_buf'[e] = Numbered(e, count) /\ snd_nxt'[e] = snd_nxt[e] + count
          /\ snd_queue'[e] = rest
      BY <2>1 DEF TypeOK
    <3> HIDE DEF rest
    <3> QED BY <2>1, <3>1, <3>2 DEF SendStream, Holds, Placed
  <2>3. ASSUME NEW x \in Endpoint, x # e PROVE SendStream(x)'
    <3>1. snd_buf'[x] = snd_buf[x] /\ snd_nxt'[x] = snd_nxt[x] /\ snd_queue'[x] = snd_queue[x]
      BY <2>1, <2>3 DEF TypeOK
    <3> QED BY <2>1, <3>1 DEF Sends, SendStream
  <2> QED BY <1>0, <2>1, <2>2, <2>3 DEF Sends
<1> QED BY <1>1, <1>2, <1>3, <1>4, <1>5, <1>6 DEF Call, InputCall, FlushCall
\* What comes to an endpoint that receives nothing new.
LEMMA ArrivesStable ==
  ASSUME NEW x \in Endpoint, NEW l \in Nat, Arrives(x, l),
         rcv_nxt'[x] = rcv_nxt[x], rcv_queue'[x] = rcv_queue[x],
         rcv_buf'[x] = rcv_buf[x], got'[x] = got[x],
         \A s \in cursor'[x] : s \in cursor[x] \/ \E d \in net[x] : s \in d,
         \A d \in net'[x] \ net[x] : \A s \in d : Labelled(s, l)
  PROVE  Arrives(x, l)'
<1>1. \A s \in cursor'[x] : Labelled(s, l)
  BY DEF Arrives
<1>2. \A d \in net'[x] : \A s \in d : Labelled(s, l)
  BY DEF Arrives
<1> QED BY <1>1, <1>2 DEF Arrives, Labelled

\* recv hands one fragment over: each is a message.
LEMMA RecvArrives ==
  ASSUME TypeOK, NEW e \in Endpoint, NEW l \in Nat, Arrives(e, l), Recv(e)
  PROVE  /\ Arrives(e, l)'
         /\ Len(got'[e]) = Len(got[e]) + 1
         /\ rcv_queue[e] # <<>>
         /\ \A x \in Endpoint \ {e} : got'[x] = got[x]
<1> DEFINE queue == rcv_queue[e]
           rest(n) == SubSeq(queue, n + 1, Len(queue))
           now(n) == got[e] \o SubSeq(queue, 1, n)
           g == Len(got[e])
<1>1. PICK n \in 1..Len(queue) :
        /\ \A i \in 1..(n - 1) : queue[i].frg # 0
        /\ got' = [got EXCEPT ![e] = now(n)]
        /\ MoveToQueue(e, rcv_buf[e], rest(n))
  BY DEF Recv
<1>2. UNCHANGED <<cursor, net>> /\ queue # <<>>
  BY DEF Recv, MessageReady
<1>3. /\ queue \in Seq(Payload) /\ got[e] \in Seq(Payload)
      /\ DOMAIN rcv_buf[e] \in SUBSET Nat /\ rcv_buf[e] \in [DOMAIN rcv_buf[e] -> Payload]
      /\ Len(queue) \in Nat /\ g \in Nat
      /\ rcv_nxt[e] \in Nat
  BY TypesAt
<1>4. /\ rcv_nxt[e] = g + Len(queue)
      /\ rcv_nxt[e] <= l
      /\ Holds(got[e], Labels, 0)
      /\ Holds(queue, Labels, g)
      /\ Placed(rcv_buf[e], Labels, l)
  BY DEF Arrives
<1>5. n = 1
  <2>1. ASSUME NEW i \in 1..Len(queue) PROVE queue[i].frg = 0
    <3>1. queue[i] = Labels[g + i] /\ g + i \in Nat
      BY <1>3, <1>4 DEF Holds
    <3> QED BY <3>1, LabelAt
  <2>2. n > 1 => 1 \in 1..(n - 1) /\ 1 \in 1..Len(queue)
    BY <1>3
  <2> HIDE DEF queue, now, rest
  <2> QED BY <1>1, <1>3, <2>1, <2>2
<1>6. /\ rest(1) \in Seq(Payload) /\ Len(rest(1)) = Len(queue) - 1
  <2>1. 1 \in 0..Len(queue)
    BY <1>3, <1>5
  <2> HIDE DEF queue
  <2> QED BY <1>3, <2>1, SubSeqFacts
<1>7. /\ Len(now(1)) = g + 1
      /\ Holds(now(1), Labels, 0)
      /\ Holds(rest(1), Labels, g + 1)
  <2>1. 1 \in 1..Len(queue)
    BY <1>5
  <2> HIDE DEF queue
  <2> QED BY <1>3, <1>4, <2>1, HandOver
<1>8. got'[e] = now(1) /\ \A x \in Endpoint : x # e => got'[x] = got[x]
  BY <1>1, <1>5 DEF TypeOK
<1>9. PICK k \in Nat : Moved(e, rcv_buf[e], rest(1), k)
  BY <1>1, <1>3, <1>5, <1>6, MoveToQueueFacts
<1> HIDE DEF rest, now
<1>10. /\ rcv_nxt'[e] = g + 1 + Len(rcv_queue'[e])
       /\ rcv_nxt'[e] <= l
       /\ Holds(rcv_queue'[e], Labels, g + 1)
       /\ Placed(rcv_buf'[e], Labels, l)
  <2>1. rcv_nxt[e] = g + 1 + Len(rest(1))
    <3> DEFINE lq == Len(queue)
               lr == Len(rest(1))
    <3>1. lq \in Nat /\ g \in Nat /\ lr = lq - 1 /\ rcv_nxt[e] = g + lq
      BY <1>3, <1>4, <1>6
    <3> HIDE DEF lq, lr, g
    <3> QED BY <3>1 DEF lr
  <2> DEFINE g1 == g + 1
             q1 == rest(1)
             b1 == rcv_buf[e]
  <2>2. /\ g1 \in Nat /\ q1 \in Seq(Payload) /\ DOMAIN b1 \in SUBSET Nat
        /\ Moved(e, b1, q1, k) /\ rcv_nxt[e] = g1 + Len(q1) /\ rcv_nxt[e] <= l
        /\ Holds(q1, Labels, g1) /\ Placed(b1, Labels, l)
    <3>1. g1 \in Nat
      BY <1>3
    <3>2. DOMAIN b1 \in SUBSET Nat /\ rcv_nxt[e] <= l /\ Placed(b1, Labels, l)
      BY <1>3, <1>4
    <3>3. q1 \in Seq(Payload) /\ Moved(e, b1, q1, k) /\ Holds(q1, Labels, g1)
      BY <1>6, <1>7, <1>9
    <3> QED BY <2>1, <3>1, <3>2, <3>3
  <2> HIDE DEF g1, q1, b1
  <2>3. /\ rcv_nxt'[e] = g1 + Len(rcv_queue'[e])
        /\ rcv_nxt'[e] <= l
        /\ Holds(rcv_queue'[e], Labels, g1) /\ Placed(rcv_buf'[e], Labels, l)
    BY <2>2, MoveStream
  <2> QED BY <2>3 DEF g1
<1>11. Arrives(e, l)'
  <2>1. Len(got'[e]) = g + 1 /\ Holds(got'[e], Labels, 0)
    BY <1>7, <1>8
  <2>2. (\A s \in cursor[e] : Labelled(s, l)) /\ \A d \in net[e] : \A s \in d : Labelled(s, l)
    BY DEF Arrives
  <2> HIDE DEF g
  <2> QED BY <1>2, <1>10, <2>1, <2>2 DEF Arrives, Labelled
<1> QED BY <1>2, <1>7, <1>8, <1>11

\* recv leaves the other endpoint alone.
LEMMA RecvOthers ==
  ASSUME TypeOK, NEW e \in Endpoint, Recv(e), NEW x \in Endpoint \ {e}
  PROVE  /\ rcv_nxt'[x] = rcv_nxt[x] /\ rcv_queue'[x] = rcv_queue[x]
         /\ rcv_buf'[x] = rcv_buf[x] /\ got'[x] = got[x]
         /\ cursor' = cursor /\ net' = net /\ sent' = sent
BY DEF Recv, MoveToQueue, TypeOK

\* A segment of input is stored where its number says.
LEMMA SegmentArrives ==
  ASSUME TypeOK, NEW e \in Endpoint, NEW l \in Nat, Arrives(e, l), InputLoop(e)
  PROVE  Arrives(e, l)'
<1>1. PICK s \in Segment :
        /\ InputSegment(e, s)
        /\ UNCHANGED rcvVars \/ (s.cmd = "PUSH" /\ MoveToQueue(e, Stored(e, s), rcv_queue[e]))
  BY InputFacts DEF InputLoop
<1>2. /\ s \in cursor[e] /\ cursor'[e] \subseteq cursor[e]
      /\ UNCHANGED <<got, net>>
  BY <1>1 DEF InputSegment, histVars
<1>3. CASE UNCHANGED rcvVars
  BY <1>2, <1>3, ArrivesStable DEF rcvVars
<1>4. CASE s.cmd = "PUSH" /\ MoveToQueue(e, Stored(e, s), rcv_queue[e])
  <2> DEFINE q1 == rcv_queue[e]
             b1 == Stored(e, s)
             g1 == Len(got[e])
  <2>1. g1 \in Nat /\ q1 \in Seq(Payload)
    BY TypesAt
  <2>2. /\ DOMAIN b1 \in SUBSET Nat /\ b1 \in [DOMAIN b1 -> Payload]
        /\ DOMAIN b1 = DOMAIN rcv_buf[e] \cup {s.sn}
    BY StoredType
  <2>3. PICK k \in Nat : Moved(e, b1, q1, k)
    <3> HIDE DEF b1, q1
    <3>1. MoveToQueue(e, b1, q1)
      BY <1>4 DEF b1, q1
    <3> QED BY <2>1, <2>2, <3>1, MoveToQueueFacts
  <2>4. /\ rcv_nxt[e] = g1 + Len(q1) /\ rcv_nxt[e] <= l
        /\ Holds(q1, Labels, g1) /\ Placed(rcv_buf[e], Labels, l)
    BY DEF Arrives
  <2>5. Placed(b1, Labels, l)
    <3>1. s.sn < l /\ s.data = Labels[s.sn + 1]
      BY <1>2, <1>4 DEF Arrives, Labelled
    <3>2. \A n \in DOMAIN b1 : b1[n] = IF n \in DOMAIN rcv_buf[e] THEN rcv_buf[e][n] ELSE s.data
      BY DEF Stored
    <3>3. \A n \in DOMAIN rcv_buf[e] : n < l /\ rcv_buf[e][n] = Labels[n + 1]
      BY <2>4 DEF Placed
    <3> HIDE DEF b1
    <3> QED BY <2>2, <3>1, <3>2, <3>3 DEF Placed
  <2> HIDE DEF q1, b1, g1
  <2>6. /\ rcv_nxt'[e] = g1 + Len(rcv_queue'[e]) /\ rcv_nxt'[e] <= l
        /\ Holds(rcv_queue'[e], Labels, g1) /\ Placed(rcv_buf'[e], Labels, l)
    BY <2>1, <2>2, <2>3, <2>4, <2>5, MoveStream
  <2>7. (\A t \in cursor[e] : Labelled(t, l)) /\ \A d \in net[e] : \A t \in d : Labelled(t, l)
    BY DEF Arrives
  <2> QED BY <1>2, <2>6, <2>7 DEF Arrives, Labelled, g1
<1> QED BY <1>1, <1>3, <1>4

\* A segment leaves the other endpoint alone.
LEMMA SegmentOthers ==
  ASSUME TypeOK, NEW e \in Endpoint, InputLoop(e), NEW x \in Endpoint \ {e}
  PROVE  /\ rcv_nxt'[x] = rcv_nxt[x] /\ rcv_queue'[x] = rcv_queue[x]
         /\ rcv_buf'[x] = rcv_buf[x] /\ got' = got
         /\ cursor'[x] = cursor[x] /\ net' = net
<1>1. PICK s \in Segment :
        /\ InputSegment(e, s)
        /\ UNCHANGED rcvVars \/ MoveToQueue(e, Stored(e, s), rcv_queue[e])
  BY InputFacts DEF InputLoop
<1>2. got' = got /\ net' = net /\ cursor'[x] = cursor[x]
  <2> DEFINE rest == cursor'[e]
  <2>1. cursor' = [cursor EXCEPT ![e] = rest]
    BY <1>1 DEF InputSegment
  <2> HIDE DEF rest
  <2> QED BY <1>1, <2>1 DEF InputSegment, histVars, TypeOK
<1>3. /\ rcv_nxt'[x] = rcv_nxt[x] /\ rcv_queue'[x] = rcv_queue[x]
      /\ rcv_buf'[x] = rcv_buf[x]
  BY <1>1 DEF rcvVars, MoveToQueue, TypeOK
<1> QED BY <1>2, <1>3
\* What e sends is what its peer has not got yet, or the same again.
LEMMA FlushLabelled ==
  ASSUME TypeOK, NEW e \in Endpoint, Sends(e), Sends(e)', sent' = sent,
         NEW l \in Nat, snd_nxt'[e] <= l, SendsOnly(e, Outgoing(e, snd_buf'[e])),
         snd_nxt'[e] \in Nat, DOMAIN snd_buf'[e] \in SUBSET Nat,
         Len(snd_queue'[e]) \in Nat
  PROVE  /\ \A d \in net'[Peer(e)] \ net[Peer(e)] : \A s \in d : Labelled(s, l)
         /\ net'[e] = net[e]
<1> DEFINE buf == snd_buf'[e]
<1>1. PICK kept \in SUBSET SUBSET Outgoing(e, buf) :
        net' = [net EXCEPT ![Peer(e)] = net[Peer(e)] \cup kept]
  BY DEF SendsOnly
<1>2. net'[Peer(e)] = net[Peer(e)] \cup kept /\ net'[e] = net[e]
  BY <1>1, EndpointFacts DEF TypeOK
<1>3. ASSUME NEW n \in DOMAIN buf PROVE n < l /\ buf[n] = Labels[n + 1]
  <2>1. n < snd_nxt'[e] /\ buf[n] = sent[e][n + 1] /\ n \in Nat
    BY DEF Sends, SendStream
  <2>2. snd_nxt'[e] + Len(snd_queue'[e]) = Len(sent[e])
    BY DEF Sends, SendStream
  <2>3. n + 1 \in 1..Len(sent[e]) /\ n < l
    BY <2>1, <2>2
  <2>4. sent[e][n + 1] = Labels[0 + (n + 1)]
    BY <2>3 DEF Sends, Holds
  <2>5. 0 + (n + 1) = n + 1
    BY <2>1
  <2> QED BY <2>1, <2>3, <2>4, <2>5
<1> HIDE DEF buf
<1>4. ASSUME NEW s \in Outgoing(e, buf) PROVE Labelled(s, l)
  <2>1. PICK cmd, sn, data :
          /\ s = Seg(e, cmd, sn, data)
          /\ cmd = "PUSH" => sn \in DOMAIN buf /\ data = buf[sn]
    BY DEF Outgoing, Acks, Probes
  <2>2. s.cmd = cmd /\ s.sn = sn /\ s.data = data
    BY <2>1 DEF Seg
  <2> QED BY <1>3, <2>1, <2>2 DEF Labelled
<1> QED BY <1>2, <1>4

LEMMA FlushSends ==
  ASSUME TypeOK, NEW e \in Endpoint, FlushCall(e)
  PROVE  /\ SendsOnly(e, Outgoing(e, snd_buf'[e]))
         /\ UNCHANGED <<rcv_nxt, rcv_queue, rcv_buf, got, sent, cursor>>
         /\ \A x \in Endpoint \ {e} : snd_nxt'[x] = snd_nxt[x]
<1>1. CASE \E resend \in SUBSET DOMAIN snd_buf[e], expired \in BOOLEAN :
             Flush(e, resend, expired)
  <2>1. PICK cwnd \in 0..SndWnd :
           /\ snd_buf' = [snd_buf EXCEPT ![e] = Numbered(e, Admitted(e, cwnd))]
           /\ snd_nxt' = [snd_nxt EXCEPT ![e] = snd_nxt[e] + Admitted(e, cwnd)]
           /\ SendsOnly(e, Outgoing(e, Numbered(e, Admitted(e, cwnd))))
           /\ UNCHANGED <<snd_una, rcvVars, histVars, rmt_wnd, cursor>>
    BY <1>1, FlushFacts
  <2>2. snd_buf'[e] = Numbered(e, Admitted(e, cwnd))
    BY <2>1 DEF TypeOK
  <2>3. \A x \in Endpoint \ {e} : snd_nxt'[x] = snd_nxt[x]
    BY <2>1 DEF TypeOK
  <2> QED BY <2>1, <2>2, <2>3 DEF rcvVars, histVars
<1>2. CASE FlushDroppedAtAck(e) \/ \E expired \in BOOLEAN : FlushDroppedAtProbe(e, expired)
  BY <1>2, FlushDroppedFacts DEF sndVars, rcvVars, histVars
<1> QED BY <1>1, <1>2 DEF FlushCall

\* A call keeps what comes to x, if the sender numbers no more than l.
LEMMA ArrivesStep ==
  ASSUME TypeOK, TypeOK', \A e \in Endpoint : Sends(e), Call,
         NEW x \in Endpoint, NEW l \in Nat, Arrives(x, l), snd_nxt'[Peer(x)] <= l
  PROVE  Arrives(x, l)'
<1>0. \A e \in Endpoint : net[e] \in SUBSET SUBSET Segment
  BY TypesAt
<1>1. CASE UNCHANGED vars
  BY <1>1, ArrivesStable DEF vars, rcvVars, histVars
<1>2. ASSUME NEW e \in Endpoint, Send(e, 1) PROVE Arrives(x, l)'
  BY <1>2, SendOne, ArrivesStable
<1>3. ASSUME NEW e \in Endpoint, Recv(e) PROVE Arrives(x, l)'
  <2>1. CASE x = e
    BY <1>3, <2>1, RecvArrives
  <2>2. CASE x # e
    BY <1>3, <2>2, RecvOthers, ArrivesStable
  <2> QED BY <2>1, <2>2
<1>4. ASSUME NEW e \in Endpoint, NEW d \in net[e], Input(e, d) PROVE Arrives(x, l)'
  <2>1. /\ cursor' = [cursor EXCEPT ![e] = d]
        /\ net' = [net EXCEPT ![e] = net[e] \ {d}] \/ net' = net
        /\ UNCHANGED <<rcv_nxt, rcv_queue, rcv_buf, got>>
    BY <1>4 DEF Input, rcvVars, histVars
  <2>2. net'[x] \subseteq net[x]
    <3>1. net'[x] = net[x] \/ net'[x] = net[x] \ {d}
      BY <2>1 DEF TypeOK
    <3> QED BY <3>1
  <2>3. \A s \in cursor'[x] : s \in cursor[x] \/ \E c \in net[x] : s \in c
    BY <2>1 DEF TypeOK
  <2> QED BY <2>1, <2>2, <2>3, ArrivesStable
<1>5. ASSUME NEW e \in Endpoint, InputLoop(e) PROVE Arrives(x, l)'
  <2>1. CASE x = e
    BY <1>5, <2>1, SegmentArrives
  <2>2. CASE x # e
    BY <1>5, <2>2, SegmentOthers, ArrivesStable
  <2> QED BY <2>1, <2>2
<1>6. ASSUME NEW e \in Endpoint, FlushCall(e) PROVE Arrives(x, l)'
  <2>1. /\ SendsOnly(e, Outgoing(e, snd_buf'[e]))
        /\ UNCHANGED <<rcv_nxt, rcv_queue, rcv_buf, got, sent, cursor>>
    BY <1>6, FlushSends
  <2>2. CASE x = e
    <3>1. net'[x] = net[x]
      <4>1. PICK kept : net' = [net EXCEPT ![Peer(e)] = net[Peer(e)] \cup kept]
        BY <2>1 DEF SendsOnly
      <4> QED BY <2>2, <4>1, EndpointFacts DEF TypeOK
    <3> QED BY <2>1, <3>1, ArrivesStable
  <2>3. CASE x # e
    <3>1. Peer(x) = e /\ Peer(e) = x
      BY <2>3, EndpointFacts
    <3>2. Sends(e)'
      BY <1>6, SendsStep DEF Call
    <3>3. snd_nxt'[e] \in Nat /\ DOMAIN snd_buf'[e] \in SUBSET Nat /\ Len(snd_queue'[e]) \in Nat
      <4>1. snd_queue'[e] \in Seq(Payload)
        BY DEF TypeOK
      <4> QED BY <4>1, LenProperties DEF TypeOK
    <3>4. \A d \in net'[x] \ net[x] : \A s \in d : Labelled(s, l)
      BY <2>1, <3>1, <3>2, <3>3, FlushLabelled
    <3> QED BY <2>1, <3>4, ArrivesStable
  <2> QED BY <2>2, <2>3
<1> QED BY <1>1, <1>2, <1>3, <1>4, <1>5, <1>6 DEF Call, InputCall

\* A new control block has sent and received nothing; the datagrams under
\* way carry the fragments of their numbers all the same.
LEMMA NewBlockArrives ==
  ASSUME TypeOK, NEW e \in Endpoint, NewBlock(e), \A x \in Endpoint : Sends(x),
         NEW x \in Endpoint, NEW l \in Nat, Arrives(x, l)
  PROVE  Sends(x)' /\ Arrives(x, l)'
<1>1. CASE x = e
  <2> DEFINE none == <<>>
  <2>1. /\ sent'[x] = none /\ snd_queue'[x] = none /\ DOMAIN snd_buf'[x] = {}
        /\ snd_nxt'[x] = 0 /\ rcv_nxt'[x] = 0 /\ got'[x] = none /\ rcv_queue'[x] = none
        /\ DOMAIN rcv_buf'[x] = {} /\ cursor' = cursor /\ net' = net
    BY <1>1 DEF NewBlock, TypeOK
  <2>2. Len(none) = 0
    OBVIOUS
  <2> HIDE DEF none
  <2>3. \A h, g : Holds(none, h, g)
    BY <2>2 DEF Holds
  <2>4. Sends(x)'
    BY <2>1, <2>2, <2>3 DEF Sends, SendStream
  <2>5. (\A s \in cursor[x] : Labelled(s, l)) /\ \A d \in net[x] : \A s \in d : Labelled(s, l)
    BY DEF Arrives
  <2>6. 0 = 0 + 0 /\ 0 <= l
    OBVIOUS
  <2> QED BY <2>1, <2>2, <2>3, <2>4, <2>5, <2>6 DEF Arrives, Labelled, Placed
<1>2. CASE x # e
  <2>1. /\ sent'[x] = sent[x] /\ snd_queue'[x] = snd_queue[x] /\ snd_buf'[x] = snd_buf[x]
        /\ snd_nxt'[x] = snd_nxt[x] /\ rcv_nxt'[x] = rcv_nxt[x] /\ got'[x] = got[x]
        /\ rcv_queue'[x] = rcv_queue[x] /\ rcv_buf'[x] = rcv_buf[x]
        /\ cursor' = cursor /\ net' = net
    BY <1>2 DEF NewBlock, TypeOK
  <2> QED BY <2>1, ArrivesStable DEF Sends, SendStream
<1> QED BY <1>1, <1>2

(***************************************************************************)
(* The invariant: what the streams send and what has come                  *)
(***************************************************************************)

\* What comes to the server is of what the client has sent; what comes to the
\* client may be of a stream that the server has dropped.
LabelInv ==
  /\ \A e \in Endpoint : Sends(e)
  /\ Arrives(B, Len(sent[A]))
  /\ \E l \in Nat : Arrives(A, l)

LEMMA SendsBounds ==
  ASSUME TypeOK, NEW e \in Endpoint, Sends(e)
  PROVE  Len(sent[e]) \in Nat /\ snd_nxt[e] \in Nat /\ snd_nxt[e] <= Len(sent[e])
<1>1. /\ Len(sent[e]) \in Nat /\ snd_nxt[e] \in Nat /\ Len(snd_queue[e]) \in Nat
      /\ snd_nxt[e] + Len(snd_queue[e]) = Len(sent[e])
  BY TypesAt DEF Sends, SendStream
<1> QED BY <1>1

LEMMA SendsBoundsNext ==
  ASSUME TypeOK', NEW e \in Endpoint, Sends(e)'
  PROVE  Len(sent'[e]) \in Nat /\ snd_nxt'[e] \in Nat /\ snd_nxt'[e] <= Len(sent'[e])
<1>1. /\ snd_queue'[e] \in Seq(Payload) /\ sent'[e] \in Seq(Payload) /\ snd_nxt'[e] \in Nat
  BY DEF TypeOK
<1>2. /\ Len(sent'[e]) \in Nat /\ Len(snd_queue'[e]) \in Nat
      /\ snd_nxt'[e] + Len(snd_queue'[e]) = Len(sent'[e])
  BY <1>1, LenProperties DEF Sends, SendStream
<1> QED BY <1>1, <1>2

LEMMA LabelInit == StreamInit => LabelInv
<1> SUFFICES ASSUME StreamInit PROVE LabelInv
  OBVIOUS
<1> DEFINE none == <<>>
<1>1. \A x \in Endpoint :
        /\ sent[x] = none /\ snd_queue[x] = none /\ DOMAIN snd_buf[x] = {}
        /\ snd_nxt[x] = 0 /\ rcv_nxt[x] = 0 /\ got[x] = none /\ rcv_queue[x] = none
        /\ DOMAIN rcv_buf[x] = {} /\ cursor[x] = {} /\ net[x] = {}
  BY DEF StreamInit, Init
<1>2. Len(none) = 0
  OBVIOUS
<1> HIDE DEF none
<1>3. \A h, g : Holds(none, h, g)
  BY <1>2 DEF Holds
<1>4. \A x \in Endpoint : Sends(x)
  BY <1>1, <1>2, <1>3 DEF Sends, SendStream
<1>5. 0 = 0 + 0 /\ 0 <= 0
  OBVIOUS
<1>6. \A x \in Endpoint : Arrives(x, 0)
  BY <1>1, <1>2, <1>3, <1>5 DEF Arrives, Placed
<1>7. Len(sent[A]) = 0
  BY <1>1, <1>2, Ends
<1> QED BY <1>4, <1>6, <1>7, Ends DEF LabelInv

LEMMA LabelStep ==
  ASSUME TypeOK, TypeOK', LabelInv, Call \/ NewBlock(B)
  PROVE  LabelInv'
<1>1. /\ \A x \in Endpoint : Sends(x)
      /\ Arrives(B, Len(sent[A])) /\ Len(sent[A]) \in Nat
  BY SendsBounds, Ends DEF LabelInv
<1>2. PICK l \in Nat : Arrives(A, l)
  BY DEF LabelInv
<1>3. CASE Call
  <2>1. \A x \in Endpoint : Sends(x)' /\ Len(sent[x]) <= Len(sent'[x])
    BY <1>1, <1>3, SendsStep
  <2>2. /\ Len(sent'[A]) \in Nat /\ snd_nxt'[A] <= Len(sent'[A])
        /\ snd_nxt'[B] \in Nat
    BY <2>1, Ends, SendsBoundsNext
  <2>3. PICK m \in Nat : m = Len(sent'[A])
    BY <2>2
  <2>4. Arrives(B, m)
    BY <1>1, <2>1, <2>3, Ends, ArrivesMore
  <2>5. Arrives(B, m)'
    BY <1>1, <1>3, <2>2, <2>3, <2>4, Ends, ArrivesStep
  <2>6. PICK k \in Nat : l <= k /\ snd_nxt'[B] <= k
    <3>1. l <= l + snd_nxt'[B] /\ snd_nxt'[B] <= l + snd_nxt'[B] /\ l + snd_nxt'[B] \in Nat
      BY <2>2
    <3> QED BY <3>1
  <2>7. Arrives(A, k)
    BY <1>2, <2>6, Ends, ArrivesMore
  <2>8. Arrives(A, k)'
    BY <1>1, <1>3, <2>6, <2>7, Ends, ArrivesStep
  <2>9. Arrives(B, Len(sent[A]))'
    BY <2>3, <2>5 DEF Arrives
  <2> QED BY <2>1, <2>8, <2>9 DEF LabelInv
<1>4. CASE NewBlock(B)
  <2>1. sent'[A] = sent[A]
    BY <1>4, Ends DEF NewBlock, TypeOK
  <2>2. PICK m \in Nat : m = Len(sent[A])
    BY <1>1
  <2>3. Sends(A)' /\ Arrives(A, l)'
    BY <1>1, <1>2, <1>4, Ends, NewBlockArrives
  <2>4. Arrives(B, m)
    BY <1>1, <2>2
  <2>5. Sends(B)' /\ Arrives(B, m)'
    BY <1>1, <1>4, <2>4, Ends, NewBlockArrives
  <2>6. Arrives(B, Len(sent[A]))'
    BY <2>1, <2>2, <2>5 DEF Arrives
  <2> QED BY <2>3, <2>5, <2>6, Ends DEF LabelInv
<1> QED BY <1>3, <1>4
(***************************************************************************)
(* What the applications have read                                         *)
(***************************************************************************)

\* What the application can have read of what recv has returned.
Done(e) == IF task[e] = "check" THEN Len(got[e]) - 1 ELSE Len(got[e])

\* Some of the first n messages, in their order.
InOrder(r, n) ==
  /\ Len(r) <= n
  /\ \A i \in 1..Len(r) : r[i].msg \in 1..n
  /\ \A i, j \in 1..Len(r) : i < j => r[i].msg < r[j].msg

\* The server has read all of it, until a read fails.
ReadInv ==
  /\ \A e \in Endpoint : Done(e) \in Nat /\ InOrder(read[e], Done(e))
  /\ Holds(read[B], Labels, 0)
  /\ task[B] # "failed" => Len(read[B]) = Done(B)

\* The messages whose write has got past send.
Accepted(e) == wrote[e] + (IF task[e] \in {"update", "flush"} THEN 1 ELSE 0)

\* StreamTypeOK is not inductive: a write succeeds after the send.
StreamTypes ==
  /\ Tasks
  /\ large \in [Endpoint -> BOOLEAN]
  /\ wrote \in [Endpoint -> Nat]
  /\ read \in [Endpoint -> Seq(Payload)]
  /\ known \in BOOLEAN
  /\ dropped \in BOOLEAN
  /\ \A e \in Endpoint : Accepted(e) <= Len(sent[e])

LEMMA InOrderMore ==
  ASSUME NEW r \in Seq(Payload), NEW n \in Nat, NEW m \in Nat, n <= m, InOrder(r, n)
  PROVE  InOrder(r, m)
<1>1. Len(r) \in Nat
  BY LenProperties
<1>2. Len(r) <= m
  BY <1>1 DEF InOrder
<1>3. \A i \in 1..Len(r) : r[i].msg \in 1..m
  BY DEF InOrder
<1> QED BY <1>2, <1>3 DEF InOrder

\* One read more, of the message that comes after those.
LEMMA AppendRead ==
  ASSUME NEW r \in Seq(Payload), NEW n \in Nat, InOrder(r, n)
  PROVE  /\ Append(r, Labels[n + 1]) \in Seq(Payload)
         /\ Len(Append(r, Labels[n + 1])) = Len(r) + 1
         /\ InOrder(Append(r, Labels[n + 1]), n + 1)
         /\ Len(r) = n /\ Holds(r, Labels, 0) => Holds(Append(r, Labels[n + 1]), Labels, 0)
<1> DEFINE x == Labels[n + 1]
           r1 == Append(r, x)
           k == Len(r)
<1>1. k \in Nat /\ k <= n
  BY LenProperties DEF InOrder
<1>2. x \in Payload /\ x.msg = n + 1
  BY LabelAt
<1>3. /\ r1 \in Seq(Payload) /\ Len(r1) = k + 1
      /\ \A i \in 1..k : r1[i] = r[i]
      /\ r1[k + 1] = x
  BY <1>2, AppendProperties
<1>4. /\ \A i \in 1..k : r[i].msg \in 1..n
      /\ \A i, j \in 1..k : i < j => r[i].msg < r[j].msg
  BY DEF InOrder
<1>5. Holds(r, Labels, 0) => \A i \in 1..k : r[i] = Labels[0 + i]
  BY DEF Holds
<1>6. x = Labels[n + 1]
  OBVIOUS
<1> HIDE DEF k, r1, x
<1>7. \A i \in 1..(k + 1) : i \in 1..k \/ i = k + 1
  BY <1>1
<1>8. \A i \in 1..(k + 1) : r1[i].msg \in 1..(n + 1)
  <2>1. \A i \in 1..k : r1[i].msg \in 1..(n + 1)
    BY <1>3, <1>4
  <2>2. n + 1 \in 1..(n + 1)
    OBVIOUS
  <2> QED BY <1>2, <1>3, <1>7, <2>1, <2>2
<1>9. ASSUME NEW i \in 1..(k + 1), NEW j \in 1..(k + 1), i < j
      PROVE  r1[i].msg < r1[j].msg
  <2>1. i \in 1..k
    BY <1>1, <1>9
  <2>2. CASE j \in 1..k
    BY <1>3, <1>4, <1>9, <2>1, <2>2
  <2>3. CASE j = k + 1
    <3>1. r1[i].msg \in 1..n
      BY <1>3, <1>4, <2>1
    <3> QED BY <1>2, <1>3, <2>3, <3>1
  <2> QED BY <1>7, <2>2, <2>3
<1>10. InOrder(r1, n + 1)
  <2>1. k + 1 <= n + 1
    BY <1>1
  <2> QED BY <1>3, <1>8, <1>9, <2>1 DEF InOrder
<1>11. k = n /\ Holds(r, Labels, 0) => Holds(r1, Labels, 0)
  <2> SUFFICES ASSUME k = n, Holds(r, Labels, 0), NEW i \in 1..(k + 1)
               PROVE  r1[i] = Labels[0 + i]
    BY <1>3 DEF Holds
  <2>1. CASE i \in 1..k
    BY <1>3, <1>5, <2>1
  <2>2. CASE i = k + 1
    <3>1. 0 + i = n + 1
      BY <1>1, <2>2
    <3> QED BY <1>3, <1>6, <2>2, <3>1
  <2> QED BY <1>7, <2>1, <2>2
<1> QED BY <1>3, <1>10, <1>11 DEF k, r1, x

\* recv takes one message.
LEMMA TakesOne ==
  ASSUME TypeOK, LabelInv, NEW e \in Endpoint, Recv(e)
  PROVE  /\ Len(got'[e]) = Len(got[e]) + 1
         /\ \A x \in Endpoint \ {e} : got'[x] = got[x]
         /\ sent' = sent /\ rcv_queue[e] # <<>>
<1>1. PICK l \in Nat : Arrives(e, l)
  BY Ends, SendsBounds DEF LabelInv
<1>2. Len(got'[e]) = Len(got[e]) + 1
  BY <1>1, RecvArrives
<1> QED BY <1>2, RecvOthers DEF Recv, MessageReady

\* The histories of e when nothing is read.
LEMMA DoneMore ==
  ASSUME ReadInv, read' = read, read \in [Endpoint -> Seq(Payload)],
         \A x \in Endpoint : Done(x)' \in Nat /\ Done(x) <= Done(x)',
         task'[B] # "failed" => task[B] # "failed" /\ Done(B)' = Done(B)
  PROVE  ReadInv'
<1>1. ASSUME NEW x \in Endpoint PROVE InOrder(read[x], Done(x)')
  <2>1. PICK n \in Nat, m \in Nat : n = Done(x) /\ m = Done(x)'
    BY DEF ReadInv
  <2>2. n <= m /\ InOrder(read[x], n)
    BY <2>1 DEF ReadInv
  <2> QED BY <2>1, <2>2, InOrderMore
<1>2. \A x \in Endpoint : InOrder(read'[x], Done(x)')
  BY <1>1
<1>3. Holds(read'[B], Labels, 0)
  BY DEF ReadInv
<1>4. task'[B] # "failed" => Len(read'[B]) = Done(B)'
  BY DEF ReadInv
<1> QED BY <1>2, <1>3, <1>4 DEF ReadInv, InOrder, Holds

LEMMA ReadStep ==
  ASSUME TypeOK, TypeOK', LabelInv, StreamTypes, ReadInv, NEW e \in Endpoint, Act(e)
  PROVE  ReadInv' /\ read' \in [Endpoint -> Seq(Payload)]
<1>0. /\ \A x \in Endpoint : Len(got[x]) \in Nat /\ Len(got'[x]) \in Nat /\ Done(x) \in Nat
      /\ read \in [Endpoint -> Seq(Payload)] /\ task \in [Endpoint -> Place]
  <2>1. \A x \in Endpoint : got[x] \in Seq(Payload) /\ got'[x] \in Seq(Payload)
    BY DEF TypeOK
  <2> QED BY <2>1, LenProperties DEF StreamTypes, Tasks, ReadInv
<1>1. CASE Quiet
  <2>1. ASSUME NEW x \in Endpoint
        PROVE  Done(x)' \in Nat /\ Done(x) <= Done(x)'
    <3>1. got'[x] = got[x] /\ (task'[x] = "check" => task[x] = "check")
      BY <1>1 DEF Quiet
    <3> QED BY <1>0, <3>1 DEF Done
  <2>2. task'[B] # "failed" => task[B] # "failed" /\ Done(B)' = Done(B)
    BY <1>1, Ends DEF Quiet, Done
  <2> QED BY <1>0, <1>1, <2>1, <2>2, DoneMore DEF Quiet
<1>2. CASE Take(e)
  <2>1. /\ Recv(e) /\ task[e] = "take" /\ task' = [task EXCEPT ![e] = "check"]
        /\ read' = read
    BY <1>2 DEF Take, Go
  <2>2. /\ Len(got'[e]) = Len(got[e]) + 1
        /\ \A x \in Endpoint \ {e} : got'[x] = got[x]
    BY <2>1, TakesOne
  <2>3. ASSUME NEW x \in Endpoint PROVE Done(x)' = Done(x)
    <3>1. CASE x = e
      <4>1. task'[e] = "check" /\ Done(e)' = Len(got'[e]) - 1 /\ Done(e) = Len(got[e])
        BY <1>0, <2>1 DEF Done
      <4> QED BY <1>0, <2>2, <3>1, <4>1
    <3>2. CASE x # e
      BY <1>0, <2>1, <2>2, <3>2 DEF Done
    <3> QED BY <3>1, <3>2
  <2>4. \A x \in Endpoint : Done(x)' \in Nat /\ Done(x) <= Done(x)'
    BY <1>0, <2>3
  <2>5. task'[B] # "failed" => task[B] # "failed"
    BY <1>0, <2>1, Ends
  <2> QED BY <1>0, <2>1, <2>3, <2>4, <2>5, Ends, DoneMore
<1>3. CASE ReadReturns(e)
  <2> DEFINE n == Done(e)
             r == read[e]
  <2>1. /\ got' = got /\ task[e] = "check"
        /\ \E place \in Place \ {"check", "failed"} : task' = [task EXCEPT ![e] = place]
        /\ \/ e # B /\ read' = read
           \/ read' = [read EXCEPT ![e] = Append(r, got[e][Len(got[e])])]
    BY <1>3, UpdateIsCall, Ends DEF ReadReturns, Go, Place
  <2>2. n \in Nat /\ Len(got[e]) = n + 1 /\ Done(e)' = n + 1
    BY <1>0, <2>1 DEF Done
  <2>3. \A x \in Endpoint \ {e} : Done(x)' = Done(x) /\ task'[x] = task[x]
    BY <1>0, <2>1 DEF Done
  <2>4. got[e][Len(got[e])] = Labels[n + 1]
    <3>1. Holds(got[e], Labels, 0)
      BY Ends DEF LabelInv, Arrives
    <3>2. n + 1 \in 1..(n + 1) /\ 0 + (n + 1) = n + 1
      BY <2>2
    <3> HIDE DEF n
    <3> QED BY <2>2, <3>1, <3>2 DEF Holds
  <2>5. r \in Seq(Payload) /\ InOrder(r, n)
    BY <1>0 DEF ReadInv
  <2> HIDE DEF n
  <2>6. CASE e # B /\ read' = read
    <3>1. \A x \in Endpoint : Done(x)' \in Nat /\ Done(x) <= Done(x)'
      BY <1>0, <2>2, <2>3 DEF n
    <3> QED BY <1>0, <2>3, <2>6, <3>1, Ends, DoneMore
  <2>7. CASE read' = [read EXCEPT ![e] = Append(r, Labels[n + 1])]
    <3>1. /\ Append(r, Labels[n + 1]) \in Seq(Payload)
          /\ Len(Append(r, Labels[n + 1])) = Len(r) + 1
          /\ InOrder(Append(r, Labels[n + 1]), n + 1)
          /\ Len(r) = n /\ Holds(r, Labels, 0) => Holds(Append(r, Labels[n + 1]), Labels, 0)
      BY <2>2, <2>5, AppendRead
    <3>2. /\ read'[e] = Append(r, Labels[n + 1])
          /\ \A x \in Endpoint \ {e} : read'[x] = read[x]
          /\ read' \in [Endpoint -> Seq(Payload)]
      BY <1>0, <2>7, <3>1
    <3>3. ASSUME NEW x \in Endpoint PROVE Done(x)' \in Nat /\ InOrder(read'[x], Done(x)')
      <4>1. CASE x = e
        <5>1. Done(e)' = n + 1 /\ n + 1 \in Nat /\ InOrder(read'[e], n + 1)
          BY <2>2, <3>1, <3>2
        <5> QED BY <4>1, <5>1
      <4>2. CASE x # e
        BY <1>0, <2>3, <3>2, <4>2 DEF ReadInv
      <4> QED BY <4>1, <4>2
    <3>4. Holds(read'[B], Labels, 0) /\ (task'[B] # "failed" => Len(read'[B]) = Done(B)')
      <4>1. CASE e = B
        <5>1. Holds(r, Labels, 0) /\ Len(r) = n
          BY <2>1, <4>1 DEF ReadInv, n
        <5> QED BY <2>2, <3>1, <3>2, <4>1, <5>1
      <4>2. CASE e # B
        BY <2>3, <3>2, <4>2, Ends DEF ReadInv
      <4> QED BY <4>1, <4>2
    <3> QED BY <3>2, <3>3, <3>4 DEF ReadInv, InOrder, Holds
  <2> QED BY <2>1, <2>4, <2>6, <2>7
<1>4. CASE e = B /\ DropStream(e)
  <2> DEFINE none == <<>>
  <2>1. /\ got' = [got EXCEPT ![B] = none] /\ read' = [read EXCEPT ![B] = none]
        /\ task' = [task EXCEPT ![B] = "receive"]
    BY <1>4 DEF DropStream, NewBlock, Go
  <2>2. /\ none \in Seq(Payload) /\ Len(none) = 0 /\ InOrder(none, 0)
        /\ Holds(none, Labels, 0)
    BY DEF InOrder, Holds
  <2> HIDE DEF none
  <2>3. /\ read'[B] = none /\ got'[B] = none /\ task'[B] = "receive"
        /\ read'[A] = read[A] /\ got'[A] = got[A] /\ task'[A] = task[A]
        /\ read' \in [Endpoint -> Seq(Payload)]
    BY <1>0, <2>1, <2>2, Ends DEF TypeOK
  <2>4. Done(B)' = 0 /\ Done(A)' = Done(A)
    BY <2>2, <2>3 DEF Done
  <2>5. \A x \in Endpoint : Done(x)' \in Nat /\ InOrder(read'[x], Done(x)')
    BY <1>0, <2>2, <2>3, <2>4, Ends DEF ReadInv
  <2>6. Holds(read'[B], Labels, 0) /\ Len(read'[B]) = Done(B)'
    BY <2>2, <2>3, <2>4
  <2> QED BY <2>3, <2>5, <2>6 DEF ReadInv, InOrder, Holds
<1> QED BY <1>1, <1>2, <1>3, <1>4, ActKinds DEF StreamTypes
LEMMA PartBelow ==
  ASSUME NEW a \in Nat, NEW b \in Nat, NEW c, c = a + b
  PROVE  a <= c
OBVIOUS

\* The server has read no more than the client has sent.
LEMMA ReadLengths ==
  ASSUME TypeOK, LabelInv, StreamTypes, ReadInv
  PROVE  /\ Len(read[B]) \in Nat /\ Len(got[B]) \in Nat /\ Len(sent[A]) \in Nat
         /\ rcv_nxt[B] \in Nat
         /\ Len(read[B]) <= Len(got[B]) /\ Len(got[B]) <= rcv_nxt[B]
         /\ rcv_nxt[B] <= Len(sent[A])
<1>1. /\ Len(got[B]) \in Nat /\ Len(rcv_queue[B]) \in Nat /\ Len(sent[A]) \in Nat
      /\ rcv_nxt[B] \in Nat
  BY Ends, TypesAt
<1>2. Len(read[B]) \in Nat
  <2>1. read[B] \in Seq(Payload)
    BY Ends DEF StreamTypes
  <2> QED BY <2>1, LenProperties
<1>3. Len(read[B]) <= Len(got[B])
  <2>1. Len(read[B]) <= Done(B) /\ Done(B) \in Nat
    BY Ends DEF ReadInv, InOrder
  <2>2. Done(B) <= Len(got[B])
    BY <1>1 DEF Done
  <2> QED BY <1>1, <1>2, <2>1, <2>2
<1>4. rcv_nxt[B] = Len(got[B]) + Len(rcv_queue[B]) /\ rcv_nxt[B] <= Len(sent[A])
  BY DEF LabelInv, Arrives
<1>5. Len(got[B]) <= rcv_nxt[B]
  BY <1>1, <1>4, PartBelow
<1> QED BY <1>1, <1>2, <1>3, <1>4, <1>5

LEMMA ReadInvOrders ==
  ASSUME TypeOK, LabelInv, StreamTypes, ReadInv
  PROVE  ReadsInOrder
<1>1. Len(read[B]) \in Nat /\ Len(sent[A]) \in Nat /\ Len(read[B]) <= Len(sent[A])
  <2>1. PICK r \in Nat, g \in Nat, x \in Nat, l \in Nat :
          /\ r = Len(read[B]) /\ g = Len(got[B]) /\ x = rcv_nxt[B] /\ l = Len(sent[A])
          /\ r <= g /\ g <= x /\ x <= l
    BY ReadLengths
  <2>2. r <= l
    BY <2>1
  <2> QED BY <2>1, <2>2
<1>2. ASSUME NEW i \in 1..Len(read[B]) PROVE read[B][i] = sent[A][i]
  <2>1. i \in 1..Len(sent[A])
    BY <1>1
  <2>2. read[B][i] = Labels[0 + i]
    BY DEF ReadInv, Holds
  <2>3. sent[A][i] = Labels[0 + i]
    BY <2>1, Ends DEF LabelInv, Sends, Holds
  <2> QED BY <2>2, <2>3
<1>3. \A i, j \in 1..Len(read[A]) : i < j => read[A][i].msg < read[A][j].msg
  BY Ends DEF ReadInv, InOrder
<1> QED BY <1>1, <1>2, <1>3 DEF ReadsInOrder

LEMMA LargeWroteTypes ==
  ASSUME StreamTypes, NEW e \in Endpoint, Act(e)
  PROVE  /\ large' \in [Endpoint -> BOOLEAN] /\ wrote' \in [Endpoint -> Nat]
         /\ known' \in BOOLEAN /\ dropped' \in BOOLEAN
<1>1. CASE WriteFlush(e)
  BY <1>1 DEF WriteFlush, StreamTypes, tableVars
<1>2. CASE Receive(e)
  BY <1>2 DEF Receive, StreamTypes, tableVars
<1>3. CASE DropStream(e)
  BY <1>3 DEF DropStream, StreamTypes
<1>4. CASE ReceiveUpdate(e)
  BY <1>4 DEF ReceiveUpdate, StreamTypes
<1> QED
  BY <1>1, <1>2, <1>3, <1>4
  DEF Act, Step, WriteBegin, ReadBegin, WriteSend, WriteUpdate, WritePending, ReceiveSegment,
      ReceivePending, Take, TakeNothing, ReadReturns, ReadPending,
      StreamTypes, streamVars, tableVars

\* An action of e moves no other task.
LEMMA OthersStay ==
  ASSUME StreamTypes, NEW e \in Endpoint, Act(e), NEW x \in Endpoint \ {e}
  PROVE  task'[x] = task[x] /\ wrote'[x] = wrote[x] /\ read'[x] = read[x]
         /\ large'[x] = large[x]
BY DEF Act, Step, WriteBegin, ReadBegin, WriteSend, WriteUpdate, WriteFlush, WritePending,
       Receive, ReceiveSegment, ReceiveUpdate, ReceivePending, Take, TakeNothing,
       ReadReturns, ReadPending, DropStream, Go, StreamTypes, Tasks, streamVars

\* Every write that has got past send has its message in sent.
LEMMA AcceptedGrows ==
  ASSUME TypeOK, StreamTypes, NEW e \in Endpoint, Act(e), NEW x \in Endpoint
  PROVE  /\ WriteSend(e) /\ x = e => Accepted(x)' <= Accepted(x) + 1
         /\ ~ (WriteSend(e) /\ x = e) => Accepted(x)' <= Accepted(x)
         /\ Accepted(x) \in Nat /\ Accepted(x)' \in Nat
         /\ DropStream(e) /\ x = e => Accepted(x)' = 0
<1>1. wrote[x] \in Nat /\ wrote \in [Endpoint -> Nat] /\ task \in [Endpoint -> Place]
  BY DEF StreamTypes, Tasks
<1>2. CASE x # e
  BY <1>1, <1>2, OthersStay DEF Accepted
<1>3. CASE x = e /\ WriteSend(e)
  BY <1>1, <1>3 DEF WriteSend, DropStream, Go, Accepted
<1>4. CASE x = e /\ (WriteUpdate(e) \/ WriteFlush(e) \/ WritePending(e))
  BY <1>1, <1>4 DEF WriteUpdate, WriteFlush, WritePending, DropStream, Go, Accepted
<1>5. CASE x = e /\ DropStream(e)
  BY <1>1, <1>5 DEF DropStream, Go, Accepted
<1>6. CASE x = e /\ ~ (\/ WriteSend(e) \/ WriteUpdate(e) \/ WriteFlush(e) \/ WritePending(e)
                       \/ DropStream(e))
  <2>1. wrote' = wrote /\ task'[e] \notin {"update", "flush"}
    BY <1>1, <1>6 DEF Act, Step, WriteBegin, ReadBegin, Receive, ReceiveSegment, ReceiveUpdate,
         ReceivePending, Take, TakeNothing, ReadReturns, ReadPending, Go, streamVars
  <2> QED BY <1>1, <1>6, <2>1 DEF Accepted
<1> QED BY <1>2, <1>3, <1>4, <1>5, <1>6

LEMMA SentKept ==
  ASSUME TypeOK, StreamTypes, LabelInv, NEW e \in Endpoint, Act(e),
         ~ WriteSend(e), ~ DropStream(e)
  PROVE  sent' = sent
<1>1. CASE Take(e)
  BY <1>1, TakesOne DEF Take
<1>2. CASE ReadReturns(e)
  BY <1>2, UpdateIsCall DEF ReadReturns
<1>3. CASE WriteUpdate(e) \/ WriteFlush(e) \/ WritePending(e) \/ ReceiveUpdate(e)
           \/ ReceivePending(e) \/ ReadPending(e)
  <2>1. Update(e) \/ FlushDropped(e)
    BY <1>3 DEF WriteUpdate, WriteFlush, WritePending, ReceiveUpdate, ReceivePending,
                ReadPending, Update
  <2> QED BY <2>1, UpdateIsCall
<1>4. CASE Receive(e) \/ ReceiveSegment(e)
  BY <1>4, InputKeepsHistories DEF Receive, ReceiveSegment, InputCall
<1>5. CASE WriteBegin(e) \/ ReadBegin(e) \/ TakeNothing(e)
  BY <1>5 DEF WriteBegin, ReadBegin, TakeNothing, vars, histVars
<1> QED BY <1>1, <1>2, <1>3, <1>4, <1>5 DEF Act, Step

LEMMA StreamTypesStep ==
  ASSUME TypeOK, LabelInv, StreamTypes, NEW e \in Endpoint, Act(e),
         read' \in [Endpoint -> Seq(Payload)], Tasks'
  PROVE  StreamTypes'
<1>1. ASSUME NEW x \in Endpoint PROVE Accepted(x)' <= Len(sent'[x])
  <2>1. /\ Accepted(x) <= Len(sent[x]) /\ Len(sent[x]) \in Nat
        /\ Accepted(x) \in Nat /\ Accepted(x)' \in Nat
    BY AcceptedGrows, TypesAt DEF StreamTypes
  <2>2. CASE WriteSend(e)
    <3>1. /\ Len(sent'[e]) = Len(sent[e]) + 1
          /\ x # e => sent'[x] = sent[x]
      BY <2>2, SendOne DEF WriteSend, LabelInv
    <3>2. /\ x = e => Accepted(x)' <= Accepted(x) + 1
          /\ x # e => Accepted(x)' <= Accepted(x)
      BY <2>2, AcceptedGrows
    <3> QED BY <2>1, <3>1, <3>2
  <2>3. CASE DropStream(e)
    <3>1. CASE x = e
      <4>1. Accepted(x)' = 0
        BY <2>3, <3>1, AcceptedGrows
      <4>2. sent'[x] = <<>>
        BY <2>3, <3>1 DEF DropStream, NewBlock, TypeOK
      <4> QED BY <4>1, <4>2
    <3>2. CASE x # e
      <4>1. sent'[x] = sent[x]
        BY <2>3, <3>2 DEF DropStream, NewBlock, TypeOK
      <4>2. Accepted(x)' <= Accepted(x)
        BY <3>2, AcceptedGrows
      <4> QED BY <2>1, <4>1, <4>2
    <3> QED BY <3>1, <3>2
  <2>4. CASE ~ WriteSend(e) /\ ~ DropStream(e)
    <3>1. Accepted(x)' <= Accepted(x) /\ sent' = sent
      BY <2>4, AcceptedGrows, SentKept
    <3> QED BY <2>1, <3>1
  <2> QED BY <2>2, <2>3, <2>4
<1> QED BY <1>1, LargeWroteTypes DEF StreamTypes

LEMMA StreamTypesInit == StreamInit => StreamTypes /\ ReadInv
<1> SUFFICES ASSUME StreamInit PROVE StreamTypes /\ ReadInv
  OBVIOUS
<1> DEFINE none == <<>>
<1>1. \A e \in Endpoint : task[e] \in {"app", "receive"}
  BY DEF StreamInit
<1>2. \A e \in Endpoint : read[e] = none /\ wrote[e] = 0 /\ got[e] = none /\ sent[e] = none
  BY DEF StreamInit, Init
<1>3. Len(none) = 0
  OBVIOUS
<1> HIDE DEF none
<1>4. \A e \in Endpoint : Done(e) = 0 /\ Accepted(e) = 0
  BY <1>1, <1>2, <1>3 DEF Done, Accepted
<1>5. InOrder(none, 0) /\ Holds(none, Labels, 0)
  BY <1>3 DEF InOrder, Holds
<1>6. ReadInv
  BY <1>2, <1>3, <1>4, <1>5, Ends DEF ReadInv
<1>7. \A e \in Endpoint : Accepted(e) <= Len(sent[e])
  BY <1>2, <1>3, <1>4
<1>8. /\ large \in [Endpoint -> BOOLEAN] /\ wrote \in [Endpoint -> Nat]
      /\ known \in BOOLEAN /\ dropped \in BOOLEAN
  BY DEF StreamInit
<1>9. read \in [Endpoint -> Seq(Payload)]
  <2>1. none \in Seq(Payload) /\ read = [e \in Endpoint |-> none]
    BY DEF StreamInit, none
  <2> QED BY <2>1
<1> QED BY <1>6, <1>7, <1>8, <1>9, TasksInit DEF StreamTypes

LEMMA StreamTypesImply ==
  ASSUME TypeOK, StreamTypes, ReadInv
  PROVE  StreamTypeOK
<1>1. ASSUME NEW e \in Endpoint
      PROVE  Len(read[e]) <= Len(got[e]) /\ wrote[e] <= Len(sent[e])
  <2>1. /\ Len(got[e]) \in Nat /\ Len(sent[e]) \in Nat /\ wrote[e] \in Nat
        /\ read[e] \in Seq(Payload)
        /\ Len(read[e]) <= Done(e) /\ Accepted(e) <= Len(sent[e])
    BY TypesAt DEF StreamTypes, ReadInv, InOrder
  <2>2. Len(read[e]) \in Nat
    BY <2>1, LenProperties
  <2> QED BY <2>1, <2>2 DEF Done, Accepted
<1> QED BY <1>1 DEF StreamTypes, StreamTypeOK, Tasks

\* The invariant of the streams.
StreamsInv == TypeOK /\ LabelInv /\ StreamTypes /\ ReadInv

LEMMA StreamsInvStep ==
  ASSUME StreamsInv, TypeOK', [StreamNext]_allVars
  PROVE  StreamsInv'
<1>0. TypeOK /\ LabelInv /\ StreamTypes /\ ReadInv
  BY DEF StreamsInv
<1>1. (Call \/ NewBlock(B)) /\ Tasks'
  BY <1>0, StreamStepCalls DEF StreamTypes
<1>2. LabelInv'
  BY <1>0, <1>1, LabelStep
<1>3. CASE UNCHANGED allVars
  <2>1. \A x \in Endpoint : Done(x)' = Done(x) /\ Accepted(x)' = Accepted(x)
    BY <1>3 DEF allVars, streamVars, tableVars, vars, histVars, Done, Accepted
  <2>2. UNCHANGED <<task, large, wrote, read, known, dropped, sent>>
    BY <1>3 DEF allVars, streamVars, tableVars, vars, histVars
  <2>3. StreamTypes'
    BY <1>0, <1>1, <2>1, <2>2 DEF StreamTypes
  <2>4. ReadInv'
    <3>1. \A x \in Endpoint : Done(x)' \in Nat /\ Done(x) <= Done(x)'
      BY <1>0, <2>1 DEF ReadInv
    <3> QED BY <1>0, <2>1, <2>2, <3>1, Ends, DoneMore DEF StreamTypes
  <2> QED BY <1>2, <2>3, <2>4 DEF StreamsInv
<1>4. ASSUME NEW e \in Endpoint, Act(e) PROVE StreamsInv'
  <2>1. ReadInv' /\ read' \in [Endpoint -> Seq(Payload)]
    BY <1>0, <1>4, ReadStep
  <2>2. StreamTypes'
    BY <1>0, <1>1, <1>4, <2>1, StreamTypesStep
  <2> QED BY <1>2, <2>1, <2>2 DEF StreamsInv
<1> QED BY <1>3, <1>4 DEF StreamNext, Act

LEMMA StreamsKeep == StreamSpec => []StreamsInv
<1>1. StreamInit => StreamsInv
  BY InitType, LabelInit, StreamTypesInit DEF StreamInit, StreamsInv
<1>2. StreamsInv /\ TypeOK' /\ [StreamNext]_allVars => StreamsInv'
  BY StreamsInvStep
<1> QED BY <1>1, <1>2, BlocksKeepWindow, PTL DEF StreamSpec

\* Whatever is lost, repeated or done twice on the way, and however often the
\* server drops the stream: it reads from every stream the client's messages
\* in the order of their sends from the first on, and the client's reads are
\* in the order of the replies, none of them twice.
THEOREM ReadInOrder == StreamSpec => []ReadsInOrder
<1>1. StreamsInv => ReadsInOrder
  BY ReadInvOrders DEF StreamsInv
<1> QED BY <1>1, StreamsKeep, PTL

\* The types of the streams; a read never gets ahead of recv, nor a write's
\* success ahead of send, however often a poll is dropped and started over.
THEOREM StreamTypeCorrect == StreamSpec => []StreamTypeOK
<1>1. StreamsInv => StreamTypeOK
  BY StreamTypesImply DEF StreamsInv
<1> QED BY <1>1, StreamsKeep, PTL
(***************************************************************************)
(* In lockstep, while no socket is busy                                    *)
(***************************************************************************)

\* The client is at most one message ahead of what it has read, and waits
\* only for a message it may expect.
ClientInStep ==
  /\ Len(sent[A]) = Accepted(A)
  /\ wrote[A] <= Len(read[A]) + 1
  /\ task[A] \in {"write", "update", "flush"} => wrote[A] = Len(read[A])
  /\ task[A] \in {"receive", "input", "take", "check"} => wrote[A] = Len(read[A]) + 1

\* Nothing waits in rcv_queue of the client but the message of the datagram
\* it works on, which is then a large one.
ClientTakesAll ==
  /\ task[A] \notin {"input", "take"} => rcv_queue[A] = <<>>
  /\ ~ large[A] => rcv_queue[A] = <<>> /\ \A s \in cursor[A] : s.cmd # "PUSH"
  /\ task[A] = "check" => large[A]

\* The server answers what it reads.
ServerInStep ==
  Len(sent[B]) = IF task[B] = "write" THEN Len(read[B]) - 1 ELSE Len(read[B])

\* No stream of the server sends more than the client has asked for.
LockstepInv ==
  /\ NoMessageDropped
  /\ ClientInStep
  /\ ServerInStep
  /\ ClientTakesAll
  /\ Holds(read[A], Labels, 0)
  /\ Arrives(A, Len(sent[A]))

\* flush and update leave the receiving side alone.
LEMMA UpdateReceivesNone ==
  ASSUME NEW e \in Endpoint, Update(e)
  PROVE  rcv_queue' = rcv_queue /\ cursor' = cursor
<1>1. CASE \E resend \in SUBSET DOMAIN snd_buf[e], expired \in BOOLEAN :
             Flush(e, resend, expired)
  BY <1>1 DEF Flush, rcvVars
<1>2. CASE UNCHANGED vars
  BY <1>2 DEF vars, rcvVars
<1> QED BY <1>1, <1>2 DEF Update, FlushEnds

LEMMA NonePending ==
  ASSUME ~ Busy, NEW e \in Endpoint
  PROVE  ~ WritePending(e) /\ ~ ReceivePending(e) /\ ~ ReadPending(e)
BY DEF WritePending, ReceivePending, ReadPending, FlushDropped

\* Only an action of the client changes what the client receives.
LEMMA OthersReceive ==
  ASSUME TypeOK, LabelInv, NEW e \in Endpoint, Act(e), ~ Busy,
         NEW x \in Endpoint \ {e}
  PROVE  rcv_queue'[x] = rcv_queue[x] /\ cursor'[x] = cursor[x]
<1>0. cursor \in [Endpoint -> SUBSET Segment] /\ rcv_queue \in [Endpoint -> Seq(Payload)]
  BY DEF TypeOK
<1>1. CASE WriteBegin(e) \/ ReadBegin(e) \/ TakeNothing(e)
  BY <1>1 DEF WriteBegin, ReadBegin, TakeNothing, vars, rcvVars
<1>2. CASE WriteUpdate(e) \/ WriteFlush(e) \/ ReceiveUpdate(e) \/ ReadReturns(e)
  BY <1>2, UpdateReceivesNone DEF WriteUpdate, WriteFlush, ReceiveUpdate, ReadReturns, Update
<1>3. CASE WriteSend(e)
  BY <1>3, SendOne DEF WriteSend, LabelInv
<1>4. CASE Receive(e)
  BY <1>0, <1>4 DEF Receive, Input, rcvVars
<1>5. CASE ReceiveSegment(e)
  BY <1>5, SegmentOthers DEF ReceiveSegment
<1>6. CASE Take(e)
  BY <1>6, RecvOthers DEF Take
<1>7. CASE DropStream(e)
  BY <1>0, <1>7 DEF DropStream, NewBlock
<1> QED BY <1>1, <1>2, <1>3, <1>4, <1>5, <1>6, <1>7, NonePending DEF Step, Act

\* The lengths, as numbers.
LEMMA Lengths ==
  ASSUME TypeOK, StreamTypes, NEW e \in Endpoint
  PROVE  /\ Len(read[e]) \in Nat /\ Len(got[e]) \in Nat /\ Len(sent[e]) \in Nat
         /\ Len(rcv_queue[e]) \in Nat /\ wrote[e] \in Nat
<1>1. read[e] \in Seq(Payload) /\ wrote[e] \in Nat
  BY DEF StreamTypes
<1> QED BY <1>1, TypesAt, LenProperties

\* A read that is done is a read returned.
LEMMA LockstepRead ==
  ASSUME StreamsInv, LockstepInv, NEW e \in Endpoint, ReadReturns(e)
  PROVE  /\ Len(read'[e]) = Len(read[e]) + 1
         /\ Holds(read'[e], Labels, 0)
         /\ \A x \in Endpoint \ {e} : read'[x] = read[x]
         /\ task' = [task EXCEPT ![e] = IF e = A THEN "app" ELSE "write"]
         /\ got' = got /\ sent' = sent /\ task[e] = "check"
<1>0. TypeOK /\ LabelInv /\ StreamTypes /\ ReadInv
  BY DEF StreamsInv
<1>1. ~ (e = A /\ ~ large[e]) /\ task[e] = "check"
  BY DEF ReadReturns, LockstepInv, ClientTakesAll
<1>2. /\ read' = [read EXCEPT ![e] = Append(read[e], got[e][Len(got[e])])]
      /\ task' = [task EXCEPT ![e] = IF e = A THEN "app" ELSE "write"]
      /\ got' = got /\ sent' = sent
  BY <1>1, UpdateIsCall DEF ReadReturns, Go
<1>3. PICK n \in Nat : n = Done(e)
  BY <1>0 DEF ReadInv
<1>4. Len(got[e]) = n + 1
  BY <1>0, <1>1, <1>3, TypesAt DEF Done
<1>5. Len(read[e]) = n
  <2>1. Len(got[e]) - Len(read[e]) = 1
    BY <1>1 DEF LockstepInv, NoMessageDropped
  <2> QED BY <1>0, <1>3, <1>4, <2>1, Lengths
<1>6. got[e][Len(got[e])] = Labels[n + 1]
  <2>1. Holds(got[e], Labels, 0)
    BY <1>0, Ends DEF LabelInv, Arrives
  <2>2. n + 1 \in 1..(n + 1) /\ 0 + (n + 1) = n + 1
    BY <1>3
  <2> QED BY <1>4, <2>1, <2>2 DEF Holds
<1>7. read[e] \in Seq(Payload) /\ InOrder(read[e], n) /\ Holds(read[e], Labels, 0)
  BY <1>0, <1>3, Ends DEF StreamTypes, ReadInv, LockstepInv
<1>8. /\ Len(Append(read[e], Labels[n + 1])) = Len(read[e]) + 1
      /\ Holds(Append(read[e], Labels[n + 1]), Labels, 0)
  BY <1>3, <1>5, <1>7, AppendRead
<1>9. /\ read'[e] = Append(read[e], Labels[n + 1])
      /\ \A x \in Endpoint \ {e} : read'[x] = read[x]
  BY <1>0, <1>2, <1>6 DEF StreamTypes
<1> QED BY <1>1, <1>2, <1>8, <1>9

\* What a take changes.
LEMMA LockstepTake ==
  ASSUME StreamsInv, NEW e \in Endpoint, Take(e)
  PROVE  /\ Len(got'[e]) = Len(got[e]) + 1
         /\ \A x \in Endpoint \ {e} : got'[x] = got[x]
         /\ sent' = sent /\ read' = read /\ task' = [task EXCEPT ![e] = "check"]
         /\ wrote' = wrote /\ large' = large /\ cursor' = cursor
         /\ rcv_queue[e] # <<>> /\ task[e] = "take"
<1>1. Recv(e)
  BY DEF Take
<1>2. cursor' = cursor
  BY <1>1 DEF Recv
<1> QED BY <1>1, <1>2, TakesOne DEF Take, Go, StreamsInv

\* What drop_stream leaves.
LEMMA LockstepDrop ==
  ASSUME StreamsInv, DropStream(B)
  PROVE  /\ got'[B] = <<>> /\ read'[B] = <<>> /\ sent'[B] = <<>> /\ task'[B] = "receive"
         /\ got'[A] = got[A] /\ read'[A] = read[A] /\ sent'[A] = sent[A] /\ task'[A] = task[A]
BY Ends DEF StreamsInv, TypeOK, StreamTypes, Tasks, DropStream, NewBlock, Go

\* NoMessageDropped: recv, then the read, count one each.
LEMMA NoneDroppedStep ==
  ASSUME ~ Busy, StreamsInv, LockstepInv, NEW e \in Endpoint, Act(e), NEW x \in Endpoint
  PROVE  Len(got'[x]) - Len(read'[x]) = IF task'[x] = "check" THEN 1 ELSE 0
<1>1. /\ Len(got[x]) - Len(read[x]) = IF task[x] = "check" THEN 1 ELSE 0
      /\ Len(got[x]) \in Nat /\ Len(read[x]) \in Nat /\ task \in [Endpoint -> Place]
      /\ Tasks
  BY Lengths DEF LockstepInv, NoMessageDropped, StreamTypes, Tasks, StreamsInv
<1>2. CASE Take(e)
  <2>1. /\ Len(got'[e]) = Len(got[e]) + 1
        /\ \A y \in Endpoint \ {e} : got'[y] = got[y]
        /\ read' = read /\ task' = [task EXCEPT ![e] = "check"] /\ task[e] = "take"
    BY <1>2, LockstepTake
  <2>2. CASE x = e
    BY <1>1, <2>1, <2>2
  <2>3. CASE x # e
    BY <1>1, <2>1, <2>3
  <2> QED BY <2>2, <2>3
<1>3. CASE ReadReturns(e)
  <2>1. /\ Len(read'[e]) = Len(read[e]) + 1
        /\ task' = [task EXCEPT ![e] = IF e = A THEN "app" ELSE "write"]
        /\ got' = got /\ task[e] = "check"
        /\ \A y \in Endpoint \ {e} : read'[y] = read[y]
    BY <1>3, LockstepRead
  <2>2. CASE x = e
    BY <1>1, <2>1, <2>2
  <2>3. CASE x # e
    BY <1>1, <2>1, <2>3
  <2> QED BY <2>2, <2>3
<1>4. CASE e = B /\ DropStream(e)
  <2>1. /\ got'[B] = <<>> /\ read'[B] = <<>> /\ task'[B] = "receive"
        /\ got'[A] = got[A] /\ read'[A] = read[A] /\ task'[A] = task[A]
    BY <1>4, LockstepDrop
  <2>2. CASE x = B
    <3>1. Len(got'[B]) = 0 /\ Len(read'[B]) = 0 /\ 0 - 0 = 0
      BY <2>1
    <3> QED BY <2>1, <2>2, <3>1
  <2>3. CASE x = A
    BY <1>1, <2>1, <2>3
  <2> QED BY <2>2, <2>3, Ends
<1>5. CASE ~ (Take(e) \/ ReadReturns(e) \/ (e = B /\ DropStream(e)))
  <2>1. got' = got /\ read' = read
    BY <1>1, <1>5, ActKinds DEF Quiet
  <2>2. ~ DropStream(e)
    BY <1>1, <1>5, Ends DEF DropStream, Tasks
  <2>3. task'[x] = "check" <=> task[x] = "check"
    BY <1>1, <1>5, <2>2, NonePending
    DEF Act, Step, WriteBegin, ReadBegin, WriteSend, WriteUpdate, WriteFlush, Receive,
        ReceiveSegment, ReceiveUpdate, TakeNothing, Go, streamVars
  <2> QED BY <1>1, <2>1, <2>3
<1> QED BY <1>2, <1>3, <1>4, <1>5

\* The client, by its own actions.
LEMMA ClientStep ==
  ASSUME Lockstep, ~ Busy, StreamsInv, LockstepInv, NEW e \in Endpoint, Act(e)
  PROVE  ClientInStep'
<1>0. TypeOK /\ LabelInv /\ StreamTypes /\ Tasks
  BY DEF StreamsInv, StreamTypes
<1>1. /\ A \in Endpoint /\ ClientInStep
      /\ Len(sent[A]) \in Nat /\ Len(read[A]) \in Nat /\ wrote[A] \in Nat
      /\ task \in [Endpoint -> Place] /\ wrote \in [Endpoint -> Nat]
  BY <1>0, Lengths, Ends DEF LockstepInv, StreamTypes, Tasks
<1>2. CASE e # A
  <2>1. task'[A] = task[A] /\ wrote'[A] = wrote[A] /\ read'[A] = read[A]
    BY <1>0, <1>1, <1>2, OthersStay
  <2>2. sent'[A] = sent[A]
    <3>1. CASE WriteSend(e)
      BY <1>0, <1>1, <1>2, <3>1, SendOne DEF WriteSend, LabelInv
    <3>2. CASE DropStream(e)
      BY <1>0, <1>2, <3>2, Ends, LockstepDrop
    <3>3. CASE ~ WriteSend(e) /\ ~ DropStream(e)
      BY <1>0, <3>3, SentKept
    <3> QED BY <3>1, <3>2, <3>3
  <2> QED BY <1>1, <2>1, <2>2 DEF ClientInStep, Accepted
<1>3. CASE e = A /\ WriteBegin(e)
  <2>1. /\ Len(read[A]) = wrote[A] /\ task' = [task EXCEPT ![A] = "write"]
        /\ wrote' = wrote /\ read' = read /\ sent' = sent /\ task[A] = "app"
    BY <1>3 DEF WriteBegin, Go, vars, histVars
  <2> QED BY <1>1, <2>1 DEF ClientInStep, Accepted
<1>4. CASE e = A /\ WriteSend(e)
  <2>1. /\ task' = [task EXCEPT ![A] = "update"] /\ task[A] = "write"
        /\ wrote' = wrote /\ read' = read /\ Len(sent'[A]) = Len(sent[A]) + 1
    BY <1>0, <1>1, <1>4, SendOne DEF WriteSend, Go, LabelInv
  <2> QED BY <1>1, <2>1 DEF ClientInStep, Accepted
<1>5. CASE e = A /\ WriteUpdate(e)
  <2>1. /\ task' = [task EXCEPT ![A] = "flush"] /\ task[A] = "update"
        /\ wrote' = wrote /\ read' = read /\ sent' = sent
    BY <1>1, <1>5, UpdateIsCall DEF WriteUpdate, Go
  <2> QED BY <1>1, <2>1 DEF ClientInStep, Accepted
<1>6. CASE e = A /\ WriteFlush(e)
  <2>1. /\ task' = [task EXCEPT ![A] = "app"] /\ task[A] = "flush"
        /\ wrote' = [wrote EXCEPT ![A] = wrote[A] + 1] /\ read' = read /\ sent' = sent
    BY <1>1, <1>6, UpdateIsCall DEF WriteFlush, Go, Update
  <2> QED BY <1>1, <2>1 DEF ClientInStep, Accepted
<1>7. CASE e = A /\ ReadBegin(e)
  <2>1. /\ task' = [task EXCEPT ![A] = "receive"] /\ task[A] = "app"
        /\ Len(read[A]) < wrote[A] /\ wrote' = wrote /\ read' = read /\ sent' = sent
    BY <1>1, <1>7 DEF ReadBegin, Go, vars, histVars
  <2> QED BY <1>1, <2>1 DEF ClientInStep, Accepted
<1>8. CASE e = A /\ (Receive(e) \/ ReceiveSegment(e) \/ ReceiveUpdate(e) \/ TakeNothing(e))
  <2>1. /\ task[A] \in {"receive", "input", "take"}
        /\ task'[A] \in {"receive", "input", "take", "ended"}
        /\ wrote' = wrote /\ read' = read
    BY <1>1, <1>8, Ends DEF Receive, ReceiveSegment, ReceiveUpdate, TakeNothing, Go, streamVars
  <2>2. sent' = sent
    <3>1. CASE WriteSend(e) \/ DropStream(e)
      BY <1>8, <2>1, <3>1 DEF WriteSend, DropStream
    <3> QED BY <1>0, <3>1, SentKept
  <2> QED BY <1>1, <2>1, <2>2 DEF ClientInStep, Accepted
<1>9. CASE e = A /\ Take(e)
  <2>1. /\ task' = [task EXCEPT ![A] = "check"] /\ task[A] = "take"
        /\ wrote' = wrote /\ read' = read /\ sent' = sent
    BY <1>9, LockstepTake
  <2> QED BY <1>1, <2>1 DEF ClientInStep, Accepted
<1>10. CASE e = A /\ ReadReturns(e)
  <2>1. /\ task' = [task EXCEPT ![A] = "app"] /\ task[A] = "check"
        /\ wrote' = wrote /\ Len(read'[A]) = Len(read[A]) + 1 /\ sent' = sent
    BY <1>10, LockstepRead DEF ReadReturns
  <2> QED BY <1>1, <2>1 DEF ClientInStep, Accepted
<1>11. CASE e = A /\ DropStream(e)
  BY <1>0, <1>11 DEF DropStream, Tasks
<1> QED BY <1>2, <1>3, <1>4, <1>5, <1>6, <1>7, <1>8, <1>9, <1>10, <1>11, NonePending
        DEF Act, Step
\* The server, by its own actions: it answers what it has read.
LEMMA ServerStep ==
  ASSUME ~ Busy, StreamsInv, LockstepInv, NEW e \in Endpoint, Act(e)
  PROVE  ServerInStep'
<1>0. TypeOK /\ LabelInv /\ StreamTypes /\ Tasks
  BY DEF StreamsInv, StreamTypes
<1>1. /\ B \in Endpoint /\ B # A /\ ServerInStep
      /\ Len(sent[B]) \in Nat /\ Len(read[B]) \in Nat
      /\ task \in [Endpoint -> Place]
  BY <1>0, Lengths, Ends DEF LockstepInv, Tasks
<1>2. CASE e # B
  <2>1. task'[B] = task[B] /\ read'[B] = read[B]
    BY <1>0, <1>1, <1>2, OthersStay
  <2>2. ~ DropStream(e)
    BY <1>0, <1>2, Ends DEF DropStream, Tasks
  <2>3. sent'[B] = sent[B]
    <3>1. CASE WriteSend(e)
      BY <1>0, <1>1, <1>2, <3>1, SendOne DEF WriteSend, LabelInv
    <3>2. CASE ~ WriteSend(e)
      BY <1>0, <2>2, <3>2, SentKept
    <3> QED BY <3>1, <3>2
  <2> QED BY <1>1, <2>1, <2>3 DEF ServerInStep
<1>3. CASE e = B /\ WriteSend(e)
  <2>1. /\ task' = [task EXCEPT ![B] = "update"] /\ task[B] = "write"
        /\ read' = read /\ Len(sent'[B]) = Len(sent[B]) + 1
    BY <1>0, <1>1, <1>3, SendOne DEF WriteSend, Go, LabelInv
  <2> QED BY <1>1, <2>1 DEF ServerInStep
<1>4. CASE e = B /\ Take(e)
  <2>1. /\ task' = [task EXCEPT ![B] = "check"] /\ task[B] = "take"
        /\ read' = read /\ sent' = sent
    BY <1>4, LockstepTake
  <2> QED BY <1>1, <2>1 DEF ServerInStep
<1>5. CASE e = B /\ ReadReturns(e)
  <2>1. /\ task' = [task EXCEPT ![B] = "write"] /\ task[B] = "check"
        /\ Len(read'[B]) = Len(read[B]) + 1 /\ sent' = sent
    BY <1>1, <1>5, LockstepRead
  <2> QED BY <1>1, <2>1 DEF ServerInStep
<1>6. CASE e = B /\ DropStream(e)
  <2>1. /\ read'[B] = <<>> /\ sent'[B] = <<>> /\ task'[B] = "receive"
    BY <1>6, LockstepDrop
  <2> QED BY <2>1 DEF ServerInStep
<1>7. CASE e = B /\ ~ (WriteSend(e) \/ Take(e) \/ ReadReturns(e) \/ DropStream(e))
  <2>1. sent' = sent
    BY <1>0, <1>7, SentKept
  <2>2. read' = read
    BY <1>0, <1>7, ActKinds DEF Quiet
  <2>3. task[B] # "write" /\ task'[B] # "write"
    BY <1>0, <1>1, <1>7, NonePending
    DEF Act, Step, WriteBegin, ReadBegin, WriteUpdate, WriteFlush, Receive,
        ReceiveSegment, ReceiveUpdate, TakeNothing, Go, Tasks, streamVars
  <2> QED BY <1>1, <2>1, <2>2, <2>3 DEF ServerInStep
<1> QED BY <1>2, <1>3, <1>4, <1>5, <1>6, <1>7

\* Every fragment in rcv_queue is a message.
LEMMA QueueOfMessages ==
  ASSUME TypeOK, NEW e \in Endpoint, NEW l \in Nat, Arrives(e, l),
         NEW i \in 1..Len(rcv_queue[e])
  PROVE  rcv_queue[e][i].frg = 0
<1>1. rcv_queue[e][i] = Labels[Len(got[e]) + i]
  BY DEF Arrives, Holds
<1>2. Len(got[e]) + i \in Nat
  BY TypesAt
<1> QED BY <1>1, <1>2, LabelAt

LEMMA NoRoom ==
  ASSUME NEW q \in Nat, NEW g \in Nat, NEW x \in Nat, NEW s \in Nat,
         x = g + q, x <= s, s = g
  PROVE  q = 0
OBVIOUS

\* When the client's recv has returned a message, no other one waits: no
\* stream of the server has sent more than one that the client has not read.
LEMMA TakenWasLast ==
  ASSUME TypeOK', StreamsInv, LockstepInv, Take(A)
  PROVE  rcv_queue'[A] = <<>>
<1>0. TypeOK /\ StreamTypes /\ A \in Endpoint
  BY Ends DEF StreamsInv
<1>1. PICK s \in Nat : s = Len(sent[A])
  BY <1>0, Lengths
<1>2. Arrives(A, s) /\ Recv(A)
  BY <1>1 DEF LockstepInv, Take
<1>3. Arrives(A, s)' /\ Len(got'[A]) = Len(got[A]) + 1
  BY <1>0, <1>2, RecvArrives
<1>4. Len(got[A]) = Len(read[A]) /\ Len(read[A]) \in Nat
  <2>1. Len(got[A]) - Len(read[A]) = 0
    BY <1>0 DEF LockstepInv, NoMessageDropped, Take
  <2> QED BY <1>0, <2>1, Lengths
<1>5. s = Len(read[A]) + 1
  BY <1>1 DEF LockstepInv, ClientInStep, Accepted, Take
<1>6. /\ rcv_nxt'[A] = Len(got'[A]) + Len(rcv_queue'[A]) /\ rcv_nxt'[A] <= s
      /\ rcv_nxt'[A] \in Nat /\ rcv_queue'[A] \in Seq(Payload)
  BY <1>0, <1>3 DEF Arrives, TypeOK
<1>7. Len(rcv_queue'[A]) \in Nat /\ Len(got'[A]) \in Nat /\ s = Len(got'[A])
  BY <1>3, <1>4, <1>5, <1>6, LenProperties
<1>8. Len(rcv_queue'[A]) = 0
  BY <1>1, <1>6, <1>7, NoRoom
<1> QED BY <1>6, <1>8, EmptySeq

\* A segment changes rcv_queue only if it is a PUSH.
LEMMA SegmentReceived ==
  ASSUME TypeOK, NEW e \in Endpoint, InputLoop(e)
  PROVE  /\ cursor'[e] \subseteq cursor[e]
         /\ (\A s \in cursor[e] : s.cmd # "PUSH") => rcv_queue' = rcv_queue
<1>1. cursor \in [Endpoint -> SUBSET Segment]
  BY DEF TypeOK
<1>2. CASE InputAckOrWins(e) \/ InputWask(e)
  BY <1>1, <1>2 DEF InputAckOrWins, InputWask, rcvVars
<1>3. CASE InputPush(e)
  BY <1>1, <1>3 DEF InputPush
<1>4. CASE InputStalePush(e)
  BY <1>1, <1>4 DEF InputStalePush, rcvVars
<1> QED BY <1>2, <1>3, <1>4 DEF InputLoop

LEMMA ClientTakesStep ==
  ASSUME ~ Busy, TypeOK', StreamsInv, LockstepInv, NEW e \in Endpoint, Act(e)
  PROVE  ClientTakesAll'
<1>0. TypeOK /\ LabelInv /\ StreamTypes /\ Tasks
  BY DEF StreamsInv, StreamTypes
<1>1. /\ A \in Endpoint /\ ClientTakesAll
      /\ task \in [Endpoint -> Place] /\ large \in [Endpoint -> BOOLEAN]
      /\ cursor \in [Endpoint -> SUBSET Segment]
  BY <1>0, Ends DEF LockstepInv, StreamTypes, Tasks, TypeOK
<1>2. CASE e # A
  <2>1. task'[A] = task[A] /\ large'[A] = large[A]
    BY <1>0, <1>1, <1>2, OthersStay
  <2>2. rcv_queue'[A] = rcv_queue[A] /\ cursor'[A] = cursor[A]
    BY <1>0, <1>1, <1>2, OthersReceive
  <2> QED BY <1>1, <2>1, <2>2 DEF ClientTakesAll
<1>3. CASE e = A /\ (WriteBegin(e) \/ ReadBegin(e))
  <2>1. /\ task'[A] \in {"write", "receive"} /\ task[A] = "app"
        /\ large' = large /\ rcv_queue' = rcv_queue /\ cursor' = cursor
    BY <1>1, <1>3 DEF WriteBegin, ReadBegin, Go, vars, rcvVars
  <2> QED BY <1>1, <2>1 DEF ClientTakesAll
<1>4. CASE e = A /\ WriteSend(e)
  <2>1. /\ task'[A] = "update" /\ task[A] = "write"
        /\ large' = large /\ rcv_queue' = rcv_queue /\ cursor' = cursor
    BY <1>0, <1>1, <1>4, SendOne DEF WriteSend, Go, LabelInv
  <2> QED BY <1>1, <2>1 DEF ClientTakesAll
<1>5. CASE e = A /\ (WriteUpdate(e) \/ WriteFlush(e))
  <2>1. /\ task'[A] \in {"flush", "app"} /\ task[A] \in {"update", "flush"}
        /\ large' = large /\ rcv_queue' = rcv_queue /\ cursor' = cursor
    BY <1>1, <1>5, UpdateReceivesNone DEF WriteUpdate, WriteFlush, Go, Update
  <2> QED BY <1>1, <2>1 DEF ClientTakesAll
<1>6. CASE e = A /\ Receive(e)
  <2>1. PICK d \in net[A] :
          /\ Input(A, d)
          /\ large' = [large EXCEPT ![A] = \E s \in d : s.cmd = "PUSH"]
    BY <1>6 DEF Receive
  <2>2. /\ task'[A] = "input" /\ task[A] = "receive"
        /\ rcv_queue' = rcv_queue /\ cursor'[A] = d
        /\ large'[A] = (\E s \in d : s.cmd = "PUSH")
    BY <1>1, <1>6, <2>1 DEF Receive, Input, Go, rcvVars
  <2> QED BY <1>1, <2>2 DEF ClientTakesAll
<1>7. CASE e = A /\ ReceiveSegment(e)
  <2>1. /\ cursor'[A] \subseteq cursor[A]
        /\ (\A s \in cursor[A] : s.cmd # "PUSH") => rcv_queue' = rcv_queue
    BY <1>0, <1>1, <1>7, SegmentReceived DEF ReceiveSegment
  <2>2. task' = task /\ task[A] = "input" /\ large' = large
    BY <1>7 DEF ReceiveSegment, streamVars
  <2> QED BY <1>1, <2>1, <2>2 DEF ClientTakesAll
<1>8. CASE e = A /\ ReceiveUpdate(e)
  <2>1. /\ task'[A] = "take" /\ task[A] = "input"
        /\ large' = large /\ rcv_queue' = rcv_queue /\ cursor' = cursor
    BY <1>1, <1>8, UpdateReceivesNone DEF ReceiveUpdate, Go
  <2> QED BY <1>1, <2>1 DEF ClientTakesAll
<1>9. CASE e = A /\ Take(e)
  <2>1. /\ task'[A] = "check" /\ large' = large /\ cursor' = cursor
        /\ rcv_queue[A] # <<>>
    BY <1>1, <1>9, LockstepTake
  <2>2. rcv_queue'[A] = <<>>
    BY <1>9, TakenWasLast
  <2> QED BY <1>1, <2>1, <2>2 DEF ClientTakesAll
<1>10. CASE e = A /\ TakeNothing(e)
  <2>1. rcv_queue[A] = <<>>
    <3>1. ~ MessageReady(rcv_queue[A])
      BY <1>10 DEF TakeNothing
    <3>2. PICK l \in Nat : Arrives(A, l)
      BY <1>0 DEF LabelInv
    <3>3. rcv_queue[A] # <<>> => Len(rcv_queue[A]) >= 1 /\ rcv_queue[A][1].frg = 0
      <4>1. rcv_queue[A] # <<>> => Len(rcv_queue[A]) >= 1 /\ 1 \in 1..Len(rcv_queue[A])
        BY <1>0, <1>1, TypesAt, EmptySeq
      <4> QED BY <1>0, <1>1, <3>2, <4>1, QueueOfMessages
    <3> QED BY <3>1, <3>3 DEF MessageReady
  <2>2. /\ large' = large /\ rcv_queue' = rcv_queue /\ cursor' = cursor
        /\ task'[A] \in {"ended", "receive"}
    BY <1>1, <1>10, Ends DEF TakeNothing, Go, vars, rcvVars
  <2> QED BY <1>1, <2>1, <2>2 DEF ClientTakesAll
<1>11. CASE e = A /\ ReadReturns(e)
  <2>1. /\ task'[A] = "app" /\ task[A] = "check"
    BY <1>1, <1>11, LockstepRead
  <2>2. large' = large /\ rcv_queue' = rcv_queue /\ cursor' = cursor
    BY <1>11, UpdateReceivesNone DEF ReadReturns
  <2> QED BY <1>1, <2>1, <2>2 DEF ClientTakesAll
<1>12. CASE e = A /\ DropStream(e)
  BY <1>0, <1>12 DEF DropStream, Tasks
<1> QED BY <1>2, <1>3, <1>4, <1>5, <1>6, <1>7, <1>8, <1>9, <1>10, <1>11, <1>12, NonePending
        DEF Act, Step

\* What the server has numbered in one stream, the client has asked for.
LEMMA AnswersBounded ==
  ASSUME TypeOK, LabelInv, StreamTypes, ReadInv, ServerInStep
  PROVE  snd_nxt[B] \in Nat /\ Len(sent[A]) \in Nat /\ snd_nxt[B] <= Len(sent[A])
<1>1. /\ snd_nxt[B] \in Nat /\ Len(sent[B]) \in Nat /\ snd_nxt[B] <= Len(sent[B])
  BY Ends, SendsBounds DEF LabelInv
<1>2. PICK n \in Nat, s \in Nat, r \in Nat, g \in Nat, x \in Nat, l \in Nat :
        /\ n = snd_nxt[B] /\ s = Len(sent[B])
        /\ r = Len(read[B]) /\ g = Len(got[B]) /\ x = rcv_nxt[B] /\ l = Len(sent[A])
        /\ n <= s /\ r <= g /\ g <= x /\ x <= l
  BY <1>1, ReadLengths
<1>3. s = r - 1 \/ s = r
  BY <1>2 DEF ServerInStep
<1>4. n <= l
  BY <1>2, <1>3
<1> QED BY <1>2, <1>4

\* The same of the next state.
LEMMA AnswersBoundedNext ==
  StreamsInv' /\ ServerInStep' =>
    snd_nxt'[B] \in Nat /\ Len(sent'[A]) \in Nat /\ snd_nxt'[B] <= Len(sent'[A])
<1> DEFINE Bounded == snd_nxt[B] \in Nat /\ Len(sent[A]) \in Nat /\ snd_nxt[B] <= Len(sent[A])
<1>1. StreamsInv /\ ServerInStep => Bounded
  BY AnswersBounded DEF StreamsInv
<1> HIDE DEF Bounded
<1>2. (StreamsInv /\ ServerInStep => Bounded)'
  BY <1>1, PTL
<1> QED BY <1>2 DEF Bounded

LEMMA ClientArrives ==
  ASSUME StreamsInv, StreamsInv', LockstepInv, ServerInStep', Call \/ NewBlock(B)
  PROVE  Arrives(A, Len(sent[A]))'
<1>1. TypeOK /\ TypeOK' /\ LabelInv /\ \A x \in Endpoint : Sends(x)
  BY DEF StreamsInv, LabelInv
<1>2. PICK l \in Nat : l = Len(sent[A]) /\ Arrives(A, l)
  BY <1>1, Ends, TypesAt DEF LockstepInv
<1>3. PICK m \in Nat : m = Len(sent'[A]) /\ snd_nxt'[B] <= m
  BY AnswersBoundedNext
<1>4. CASE Call
  <2>1. l <= m
    BY <1>1, <1>2, <1>3, <1>4, Ends, SendsStep
  <2>2. Arrives(A, m)
    BY <1>1, <1>2, <2>1, Ends, ArrivesMore
  <2>3. Arrives(A, m)'
    BY <1>1, <1>3, <1>4, <2>2, Ends, ArrivesStep
  <2> QED BY <1>3, <2>3 DEF Arrives
<1>5. CASE NewBlock(B)
  <2>1. sent'[A] = sent[A]
    BY <1>1, <1>5, Ends DEF NewBlock, TypeOK
  <2>2. Arrives(A, l)'
    BY <1>1, <1>2, <1>5, Ends, NewBlockArrives
  <2> QED BY <1>2, <2>1, <2>2 DEF Arrives
<1> QED BY <1>4, <1>5

LEMMA LockstepStep ==
  ASSUME Lockstep, ~ Busy, StreamsInv, StreamsInv', LockstepInv, [StreamNext]_allVars
  PROVE  LockstepInv'
<1>0. (Call \/ NewBlock(B)) /\ TypeOK'
  BY StreamStepCalls DEF StreamsInv, StreamTypes
<1>1. CASE UNCHANGED allVars
  <2>1. /\ task' = task /\ large' = large /\ wrote' = wrote /\ read' = read
        /\ sent' = sent /\ got' = got /\ rcv_queue' = rcv_queue /\ cursor' = cursor
        /\ rcv_nxt' = rcv_nxt /\ rcv_buf' = rcv_buf /\ net' = net
    BY <1>1 DEF allVars, streamVars, vars, histVars, rcvVars
  <2>2. /\ NoMessageDropped' /\ ClientInStep' /\ ServerInStep' /\ ClientTakesAll'
        /\ Holds(read[A], Labels, 0)'
    BY <2>1 DEF LockstepInv, NoMessageDropped, ClientInStep, ServerInStep,
                ClientTakesAll, Accepted, Holds
  <2> QED BY <1>0, <2>2, ClientArrives DEF LockstepInv
<1>2. ASSUME NEW e \in Endpoint, Act(e)
      PROVE  LockstepInv'
  <2>1. NoMessageDropped'
    BY <1>2, NoneDroppedStep DEF NoMessageDropped
  <2>2. ServerInStep'
    BY <1>2, ServerStep
  <2>3. Holds(read[A], Labels, 0)'
    <3>1. CASE ReadReturns(e)
      <4>1. Holds(read'[e], Labels, 0) /\ \A x \in Endpoint \ {e} : read'[x] = read[x]
        BY <1>2, <3>1, LockstepRead
      <4>2. Holds(read'[A], Labels, 0)
        BY <4>1, Ends DEF LockstepInv
      <4> QED BY <4>2 DEF Holds
    <3>2. CASE ~ ReadReturns(e)
      <4>1. read'[A] = read[A]
        <5>1. Tasks
          BY DEF StreamsInv, StreamTypes
        <5>2. CASE e = B /\ DropStream(e)
          BY <5>2, LockstepDrop
        <5>3. CASE Take(e)
          BY <5>3 DEF Take
        <5> QED BY <1>2, <3>2, <5>1, <5>2, <5>3, ActKinds DEF Quiet
      <4> QED BY <4>1 DEF LockstepInv, Holds
    <3> QED BY <3>1, <3>2
  <2>4. Arrives(A, Len(sent[A]))'
    BY <1>0, <2>2, ClientArrives
  <2> QED BY <1>0, <1>2, <2>1, <2>2, <2>3, <2>4, ClientStep, ClientTakesStep DEF LockstepInv
<1> QED BY <1>1, <1>2 DEF StreamNext, Act

LEMMA LockstepStart == StreamInit => LockstepInv
<1> SUFFICES ASSUME StreamInit PROVE LockstepInv
  OBVIOUS
<1> DEFINE none == <<>>
<1>1. \A e \in Endpoint : /\ sent[e] = none /\ got[e] = none /\ read[e] = none
                          /\ rcv_queue[e] = none /\ cursor[e] = {} /\ wrote[e] = 0
                          /\ rcv_nxt[e] = 0 /\ DOMAIN rcv_buf[e] = {} /\ net[e] = {}
  BY DEF StreamInit, Init
<1>2. task[A] = "app" /\ task[B] = "receive"
  BY Ends DEF StreamInit
<1>3. Len(none) = 0 /\ none = <<>>
  OBVIOUS
<1> HIDE DEF none
<1>4. \A e \in Endpoint : Len(sent[e]) = 0 /\ Len(got[e]) = 0 /\ Len(read[e]) = 0
  BY <1>1, <1>3
<1>5. \A h, g : Holds(none, h, g)
  BY <1>3 DEF Holds
<1>6. NoMessageDropped
  <2>1. 0 - 0 = 0
    OBVIOUS
  <2>2. \A e \in Endpoint : task[e] # "check"
    BY <1>2, Ends
  <2> QED BY <1>4, <2>1, <2>2 DEF NoMessageDropped
<1>7. ClientInStep /\ ServerInStep
  BY <1>1, <1>2, <1>4, Ends DEF ClientInStep, ServerInStep, Accepted
<1>8. ClientTakesAll
  BY <1>1, <1>2, <1>3, Ends DEF ClientTakesAll
<1>9. Arrives(A, 0)
  <2>1. 0 = 0 + 0 /\ 0 <= 0
    OBVIOUS
  <2> QED BY <1>1, <1>3, <1>5, <2>1, Ends DEF Arrives, Placed
<1>10. Holds(read[A], Labels, 0) /\ Arrives(A, Len(sent[A]))
  BY <1>1, <1>4, <1>5, <1>9, Ends
<1> QED BY <1>6, <1>7, <1>8, <1>10 DEF LockstepInv

LEMMA LockstepKeeps ==
  ASSUME Lockstep, ~ Busy
  PROVE  StreamSpec => [](StreamsInv /\ LockstepInv)
<1>1. StreamInit => LockstepInv
  BY LockstepStart
<1>2. StreamsInv /\ StreamsInv' /\ LockstepInv /\ [StreamNext]_allVars => LockstepInv'
  BY LockstepStep
<1> QED BY <1>1, <1>2, StreamsKeep, PTL DEF StreamSpec

\* In lockstep, and while no socket is busy, everything that recv takes out
\* of a control block reaches the application, whatever the network loses,
\* repeats or reorders, and however often the server drops the stream.
THEOREM NoneDropped ==
  ASSUME Lockstep, ~ Busy
  PROVE  StreamSpec => []NoMessageDropped
<1>1. LockstepInv => NoMessageDropped
  BY DEF LockstepInv
<1> QED BY <1>1, LockstepKeeps, PTL

\* Then the client's n-th read is the answer to its n-th message, and every
\* stream of the server answers each message it has read once.
THEOREM AnsweredInTurn ==
  ASSUME Lockstep, ~ Busy
  PROVE  StreamSpec => []AnswersMatch
<1>1. ASSUME StreamsInv, LockstepInv PROVE AnswersMatch
  <2>1. ASSUME NEW e \in Endpoint, NEW i \in 1..Len(read[e]) PROVE read[e][i].msg = i
    <3>1. Holds(read[e], Labels, 0)
      BY <1>1, Ends DEF StreamsInv, ReadInv, LockstepInv
    <3>2. read[e][i] = Labels[0 + i] /\ 0 + i = i /\ i \in Nat
      BY <3>1 DEF Holds
    <3> QED BY <3>2, LabelAt
  <2> QED BY <1>1, <2>1 DEF AnswersMatch, LockstepInv, ServerInStep
<1>2. StreamsInv /\ LockstepInv => AnswersMatch
  BY <1>1
<1> QED BY <1>2, LockstepKeeps, PTL
=============================================================================
