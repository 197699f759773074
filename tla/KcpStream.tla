----------------------------- MODULE KcpStream -----------------------------
(***************************************************************************)
(* How KcpStream and KcpListener (src/kcp/mod.rs) drive the control blocks *)
(* of module Kcb: a client A, connected by KcpStream::connect, and a       *)
(* server B, whose loop accepts, reads a message and writes it back        *)
(* (examples/kcp_c.rs and kcp_l.rs).  A read that fails ends the client's  *)
(* program; the server drops the stream, and the next datagram of the same *)
(* client makes a new one with a new control block.                        *)
(*                                                                         *)
(* Each end is one task.  Nothing calls `update' but the poll functions    *)
(* and accept: the timer that they put into `token' is polled by nobody.   *)
(* A poll function that awaits a busy socket drops its future and starts   *)
(* over when it is polled again.                                           *)
(*                                                                         *)
(* Abstractions: messages have one non-empty fragment each and all the     *)
(* same size, so that a datagram is larger than a bare header exactly if   *)
(* it holds a PUSH, and no write is refused; the new control block is made *)
(* when the old one is dropped, and not when the next datagram comes.      *)
(***************************************************************************)
EXTENDS Kcb

CONSTANTS
  Reliable,  \* the network loses and repeats nothing
  Lockstep,  \* the client reads the reply before it writes again
  Busy       \* the socket may not be ready when it is written to

\* The applications' messages fit into one fragment.
ASSUME OneFragmentAssumption == 1 \in FragCounts

VARIABLES
  task,      \* where the task of each end is
  large,     \* is the datagram the task works on more than a header?
  wrote,     \* history: messages write has returned Ok for
  read,      \* history: messages read has returned
  known,     \* is the client's address in `connections' of the server?
  dropped    \* history: the server has dropped a stream of the client

tableVars == <<known, dropped>>
streamVars == <<task, large, wrote, read, tableVars>>
allVars == <<vars, streamVars>>

\* Where a task can be.  "app" is the application; "write", "update", "flush"
\* are poll_write, "receive", "input", "take", "check" are poll_read and
\* accept, which wait for a datagram in "receive".  "failed" is the server's
\* loop after a read that fails, "ended" the end of the client's program.
Place == {"app", "write", "update", "flush", "receive", "input", "take", "check",
          "failed", "ended"}

\* Nothing is read that recv has not returned, and no write has succeeded
\* whose message send has not accepted.
StreamTypeOK ==
  /\ task \in [Endpoint -> Place]
  /\ large \in [Endpoint -> BOOLEAN]
  /\ wrote \in [Endpoint -> Nat]
  /\ read \in [Endpoint -> Seq(Payload)]
  /\ known \in BOOLEAN
  /\ dropped \in BOOLEAN
  /\ \A e \in Endpoint :
       Len(read[e]) <= Len(got[e]) /\ wrote[e] <= Len(sent[e])

StreamInit ==
  /\ Init
  /\ task = [e \in Endpoint |-> IF e = A THEN "app" ELSE "receive"]
  /\ large = [e \in Endpoint |-> FALSE]
  /\ wrote = [e \in Endpoint |-> 0]
  /\ read = [e \in Endpoint |-> <<>>]
  /\ known = FALSE
  /\ dropped = FALSE

Go(e, place) == task' = [task EXCEPT ![e] = place]
----------------------------------------------------------------------------
(* The calls of the control block, as the streams make them *)

\* All that flush had to send is in the network.
AllSent(e) ==
  \A sn \in snd_nxt[e] .. snd_nxt'[e] - 1 :
    \E d \in net'[Peer(e)] : \E s \in d : s.cmd = "PUSH" /\ s.sn = sn

AllAcked(e) ==
  \A sn \in acklist[e] :
    \E d \in net'[Peer(e)] : \E s \in d : s.cmd = "ACK" /\ s.sn = sn

\* flush runs to its end.
FlushEnds(e) ==
  /\ \E resend \in SUBSET DOMAIN snd_buf[e], expired \in BOOLEAN :
       Flush(e, resend, expired)
  /\ Reliable => AllSent(e) /\ AllAcked(e)

\* update: flush, unless the flush timer has not expired.
Update(e) ==
  \/ FlushEnds(e)
  \/ cursor[e] = {} /\ UNCHANGED vars

\* flush awaits the socket and is dropped: among the acknowledgements, at a
\* probe, or among the data segments, which are in snd_buf by then.
FlushDropped(e) ==
  /\ Busy
  /\ \/ FlushDroppedAtAck(e)
     \/ \E expired \in BOOLEAN : FlushDroppedAtProbe(e, expired)
     \/ \E resend \in SUBSET DOMAIN snd_buf[e], expired \in BOOLEAN :
          Flush(e, resend, expired)

InputLoop(e) ==
  InputAckOrWins(e) \/ InputWask(e) \/ InputPush(e) \/ InputStalePush(e)
----------------------------------------------------------------------------
(* poll_write *)

\* The application decides to write.
WriteBegin(e) ==
  /\ task[e] = "app"
  /\ Lockstep /\ e = A => Len(read[e]) = wrote[e]
  /\ Len(sent[e]) < MaxSegs[e]
  /\ Go(e, "write")
  /\ UNCHANGED <<vars, large, wrote, read, tableVars>>

\* A poll hands the message to send, whether or not an earlier poll of the
\* same write has done so.
WriteSend(e) ==
  /\ task[e] = "write"
  /\ Send(e, 1)
  /\ Go(e, "update")
  /\ UNCHANGED <<large, wrote, read, tableVars>>

WriteUpdate(e) ==
  /\ task[e] = "update"
  /\ Update(e)
  /\ Go(e, "flush")
  /\ UNCHANGED <<large, wrote, read, tableVars>>

\* Mutant: poll_write leaves the flush to update.
WriteFlushNone(e) ==
  /\ task[e] = "flush"
  /\ UNCHANGED vars
  /\ Go(e, IF e = A THEN "app" ELSE "receive")
  /\ wrote' = [wrote EXCEPT ![e] = @ + 1]
  /\ UNCHANGED <<large, read, tableVars>>

\* The write has succeeded; the server's next call is accept.
WriteFlush(e) ==
  /\ task[e] = "flush"
  /\ FlushEnds(e)
  /\ Go(e, IF e = A THEN "app" ELSE "receive")
  /\ wrote' = [wrote EXCEPT ![e] = @ + 1]
  /\ UNCHANGED <<large, read, tableVars>>

\* update or flush is pending: the task will poll the write again.
WritePending(e) ==
  /\ task[e] \in {"update", "flush"}
  /\ FlushDropped(e)
  /\ Go(e, "write")
  /\ UNCHANGED <<large, wrote, read, tableVars>>
----------------------------------------------------------------------------
(* poll_read of the client; accept and try_read of the server *)

\* The application decides to read.
ReadBegin(e) ==
  /\ task[e] = "app"
  /\ Lockstep => Len(read[e]) < wrote[e]
  /\ Go(e, "receive")
  /\ UNCHANGED <<vars, large, wrote, read, tableVars>>

\* Mutant: a datagram that begins with a bare header counts as one.
ReceiveFirst(e) ==
  /\ task[e] = "receive"
  /\ \E d \in net[e] :
       /\ Input(e, d)
       /\ large' = [large EXCEPT ![e] = \A s \in d : s.cmd = "PUSH"]
  /\ Reliable => net' # net
  /\ Go(e, "input")
  /\ UNCHANGED <<wrote, read, tableVars>>

\* recv_from is ready.
Receive(e) ==
  /\ task[e] = "receive"
  /\ \E d \in net[e] :
       /\ Input(e, d)
       /\ large' = [large EXCEPT ![e] = \E s \in d : s.cmd = "PUSH"]
  /\ Reliable => net' # net
  /\ Go(e, "input")
  /\ UNCHANGED <<wrote, read, tableVars>>

ReceiveSegment(e) ==
  /\ task[e] = "input"
  /\ InputLoop(e)
  /\ UNCHANGED streamVars

\* update follows input.  accept goes on waiting if the datagram is no more
\* than a header and from a known address; poll_read tries to read whatever
\* it was.
ReceiveUpdate(e) ==
  /\ task[e] = "input"
  /\ cursor[e] = {}
  /\ Update(e)
  /\ Go(e, IF e = A \/ large[e] \/ ~ known THEN "take" ELSE "receive")
  /\ known' = (known \/ e = B)
  /\ UNCHANGED <<large, wrote, read, dropped>>

\* That update is pending: poll_read starts over.
ReceivePending(e) ==
  /\ e = A
  /\ task[e] = "input"
  /\ cursor[e] = {}
  /\ FlushDropped(e)
  /\ Go(e, "receive")
  /\ UNCHANGED <<large, wrote, read, tableVars>>

\* try_read takes a message out of the control block.
Take(e) ==
  /\ task[e] = "take"
  /\ Recv(e)
  /\ Go(e, "check")
  /\ UNCHANGED <<large, wrote, read, tableVars>>

\* There is none.  After a bare header the client waits for the next
\* datagram, else read fails.
TakeNothing(e) ==
  /\ task[e] = "take"
  /\ ~ MessageReady(rcv_queue[e])
  /\ Go(e, IF e = B THEN "failed" ELSE IF large[e] THEN "ended" ELSE "receive")
  /\ UNCHANGED <<vars, large, wrote, read, tableVars>>

\* Mutant: read is not done with a message it has returned.
ReadReturnsTwice(e) ==
  /\ task[e] = "check"
  /\ Update(e)
  /\ read' = [read EXCEPT ![e] = Append(@, got[e][Len(got[e])])]
  /\ UNCHANGED <<task, large, wrote, tableVars>>

\* kcp_check, and read returns the message; the server writes it back.
\* After a bare header the client's loop goes on, and the message is lost.
ReadReturns(e) ==
  /\ task[e] = "check"
  /\ Update(e)
  /\ IF e = A /\ ~ large[e]
     THEN read' = read /\ Go(e, "receive")
     ELSE /\ read' = [read EXCEPT ![e] = Append(@, got[e][Len(got[e])])]
          /\ Go(e, IF e = A THEN "app" ELSE "write")
  /\ UNCHANGED <<large, wrote, tableVars>>

\* kcp_check is pending and dropped, and the message is lost.  When it is
\* polled again, poll_read of the client starts over; the server's try_read
\* has no buffer any more, so that recv fails.
ReadPending(e) ==
  /\ task[e] = "check"
  /\ FlushDropped(e)
  /\ Go(e, IF e = A THEN "receive" ELSE "failed")
  /\ UNCHANGED <<large, wrote, read, tableVars>>
----------------------------------------------------------------------------
(* drop_stream *)

\* Mutant: the sending half of the control block is kept.
NewBlockReceives(e) ==
  /\ rcv_buf' = [rcv_buf EXCEPT ![e] = <<>>]
  /\ rcv_queue' = [rcv_queue EXCEPT ![e] = <<>>]
  /\ rcv_nxt' = [rcv_nxt EXCEPT ![e] = 0]
  /\ acklist' = [acklist EXCEPT ![e] = {}]
  /\ got' = [got EXCEPT ![e] = <<>>]
  /\ UNCHANGED <<sndVars, rmt_wnd, probeVars, sent, cursor, net>>

\* Kcb::new, in the place of the control block of e.
NewBlock(e) ==
  /\ snd_queue' = [snd_queue EXCEPT ![e] = <<>>]
  /\ snd_buf' = [snd_buf EXCEPT ![e] = <<>>]
  /\ snd_una' = [snd_una EXCEPT ![e] = 0]
  /\ snd_nxt' = [snd_nxt EXCEPT ![e] = 0]
  /\ rmt_wnd' = [rmt_wnd EXCEPT ![e] = RmtWndInit]
  /\ rcv_buf' = [rcv_buf EXCEPT ![e] = <<>>]
  /\ rcv_queue' = [rcv_queue EXCEPT ![e] = <<>>]
  /\ rcv_nxt' = [rcv_nxt EXCEPT ![e] = 0]
  /\ acklist' = [acklist EXCEPT ![e] = {}]
  /\ probe' = [probe EXCEPT ![e] = {}]
  /\ probe_wait' = [probe_wait EXCEPT ![e] = FALSE]
  /\ sent' = [sent EXCEPT ![e] = <<>>]
  /\ got' = [got EXCEPT ![e] = <<>>]
  /\ UNCHANGED <<cursor, net>>

\* The server drops the stream whose read has failed: the histories of its
\* end are of the stream it has now.
DropStream(e) ==
  /\ task[e] = "failed"
  /\ NewBlock(e)
  /\ Go(e, "receive")
  /\ wrote' = [wrote EXCEPT ![e] = 0]
  /\ read' = [read EXCEPT ![e] = <<>>]
  /\ known' = FALSE
  /\ dropped' = TRUE
  /\ UNCHANGED large
----------------------------------------------------------------------------
Step(e) ==
  \/ WriteSend(e) \/ WriteUpdate(e) \/ WriteFlush(e) \/ WritePending(e)
  \/ Receive(e) \/ ReceiveSegment(e) \/ ReceiveUpdate(e) \/ ReceivePending(e)
  \/ Take(e) \/ TakeNothing(e) \/ ReadReturns(e) \/ ReadPending(e) \/ DropStream(e)

StreamNext == \E e \in Endpoint : Step(e) \/ WriteBegin(e) \/ ReadBegin(e)

StreamSpec == StreamInit /\ [][StreamNext]_allVars

\* The executor runs a task that can run; the client keeps reading and
\* writing.
StreamFairSpec ==
  /\ StreamSpec
  /\ \A e \in Endpoint : WF_allVars(Step(e))
  /\ WF_allVars(WriteBegin(A)) /\ WF_allVars(ReadBegin(A))
----------------------------------------------------------------------------
\* Whatever is lost, repeated, done twice or dropped on the way: what the
\* server reads from a stream are the client's messages from the first on,
\* each of them once; what the client reads is in the order of the replies,
\* and none of them twice.
ReadsInOrder ==
  /\ Len(read[B]) <= Len(sent[A])
  /\ \A i \in 1..Len(read[B]) : read[B][i] = sent[A][i]
  /\ \A i, j \in 1..Len(read[A]) : i < j => read[A][i].msg < read[A][j].msg

\* In lockstep, while no socket is busy, everything that recv takes out of a
\* control block reaches the application.
NoMessageDropped ==
  \A e \in Endpoint : Len(got[e]) - Len(read[e]) = IF task[e] = "check" THEN 1 ELSE 0

\* In lockstep, while no socket is busy, the n-th message that the client
\* reads is the answer to its n-th message, even if the server has dropped
\* the stream between the two: a stream of the server has read the messages
\* 1, 2, ... and has answered each of them once, the last one perhaps not yet.
AnswersMatch ==
  /\ \A e \in Endpoint : \A i \in 1..Len(read[e]) : read[e][i].msg = i
  /\ Len(sent[B]) = IF task[B] = "write" THEN Len(read[B]) - 1 ELSE Len(read[B])

\* On a reliable network, in lockstep, every write is answered, unless a read
\* has failed: of a request that was sent twice at the server, which drops the
\* stream, or of a reply that was sent twice at the client, which ends.
Answered ==
  Len(read[A]) < wrote[A] ~>
    Len(read[A]) = wrote[A] \/ dropped \/ task[A] = "ended"

\* As update's callers must: while the client has an unacknowledged segment,
\* update is called again.
UpdatedWhileUnacked ==
  snd_buf[A] # <<>> ~>
    (snd_buf[A] = <<>> \/ task[A] \in {"write", "update", "input", "check", "ended"})
=============================================================================
