-------------------------------- MODULE Tcp --------------------------------
(***************************************************************************)
(* One simulated TCP connection (src/phantom/src/main/host/descriptor/     *)
(* tcp.c) between a client "c" and the child "s" that a listening server   *)
(* makes for it.  Both ends run the same code; an end is a record, and the *)
(* functions of tcp.c are operators that take the record to its new value. *)
(*                                                                         *)
(* Every packet of data has the same length, the unit of the buffers and   *)
(* windows; sequence numbers count packets, 0 being every control packet   *)
(* but a FIN.  Timers and packets in flight hold the ticks that are left   *)
(* until they are due, and Tick waits for whatever is due: the delays of a *)
(* millisecond or less (delayed ACK, window update, a refill of the        *)
(* interface's token bucket) end within the tick.                          *)
(*                                                                         *)
(* The interface sends from inside _tcp_flush while its bucket has tokens  *)
(* (up), and after the next refill otherwise (NetSend).  A path has one    *)
(* latency, so packets are not reordered; only packets with a payload are  *)
(* lost on it (worker_sendPacket).  What a router's queue drops, which may *)
(* be a control packet, is the matter of NetworkInterface.                 *)
(*                                                                         *)
(* A packet takes at least a tick, so what one host does within a tick     *)
(* does not reach the other in it: as a worker does within a round, the    *)
(* two hosts take turns, in an order that does not matter.                 *)
(***************************************************************************)
EXTENDS TcpTally, Sequences, SequencesExt

CONSTANTS Writes,        \* packets of data the application of each end writes
          RecvBuf,       \* input buffer, in packets
          SendBuf,       \* output buffer, in packets
          InitialWindow, \* initial_window, 10 in the code
          RtoInit, RtoMin, RtoMax,
          Rtos,          \* what the round-trip estimator may set the timeout to
          Latencies,     \* of the path, one for the run
          CloseDelay,    \* ticks in TIMEWAIT, by end (60 s, 1 s for a child)
          MaxLosses,     \* bound on the packets the path loses
          MaxStalls      \* bound on the times the token bucket is found empty

Ends == {"c", "s"}
Peer(e) == IF e = "c" THEN "s" ELSE "c"
Off == -1

ASSUME TcpAssumption ==
    /\ Writes \in [Ends -> Nat] /\ CloseDelay \in [Ends -> Nat \ {0}]
    /\ {RecvBuf, SendBuf, InitialWindow} \subseteq Nat \ {0}
    /\ RtoMin \in Nat \ {0} /\ RtoInit \in RtoMin .. RtoMax /\ Rtos \subseteq RtoMin .. RtoMax
    /\ Latencies \subseteq Nat \ {0} /\ {MaxLosses, MaxStalls} \subseteq Nat

VARIABLES conn,     \* the two TCP records
          chan,     \* per destination: packets in flight, oldest first
          latency,
          turn,     \* the host that runs its events of this tick
          losses, stalls

vars == <<conn, chan, latency, turn, losses, stalls>>

-----------------------------------------------------------------------------
(* The record of one end: tcp_new.                                         *)

NewTcp ==
    [st |-> "none", child |-> "none",             \* TCPState, TCPChildState
     closedRd |-> FALSE, closedWr |-> FALSE, remoteClosed |-> FALSE,
     established |-> FALSE, shouldFin |-> FALSE,  \* TCPFlags
     sendEOF |-> FALSE, recvEOF |-> FALSE,        \* TCPError
     rnext |-> 1, rend |-> 1, rwin |-> InitialWindow,
     lastWin |-> InitialWindow,                   \* the window advertised to us
     sentWin |-> InitialWindow, sentAck |-> 1, winPending |-> FALSE,
     unacked |-> 1, next |-> 1, highest |-> 0, fin |-> 0,
     throttled |-> {}, retx |-> {}, unordered |-> <<>>,
     ctlOut |-> <<>>, datOut |-> <<>>,            \* the socket's output buffers
     input |-> <<>>, got |-> <<>>, eof |-> FALSE, \* unread; read; a 0 was read
     sacks |-> <<>>, tally |-> NewTally, cong |-> NewReno,
     rto |-> RtoInit, backoff |-> 0, desired |-> Off, sched |-> {},
     ackTask |-> FALSE, ackCount |-> 0, closeIn |-> Off,
     finFirst |-> FALSE,                          \* history: the FIN overtook data
     up |-> FALSE, echo |-> FALSE, wire |-> <<>>] \* within one event only

DataOf(t, S) == S \ {0, t.fin}

\* tcp_getOutputBufferLength
OutputLength(t) == Cardinality(DataOf(t, t.throttled)) + Cardinality(DataOf(t, t.retx))

SocketLength(t) == Len(SelectSeq(t.datOut, LAMBDA p : p.len > 0))

SpaceIn(t) == Max({0, RecvBuf - Len(t.input) - Len(t.unordered)})
SpaceOut(t) == Max({0, SendBuf - SocketLength(t) - OutputLength(t)})

UpdateReceiveWindow(t) == [t EXCEPT !.rwin = Max({0, RecvBuf - Len(t.input)})]

-----------------------------------------------------------------------------
(* The retransmission timer.  A scheduled event is never cancelled.        *)

\* _tcp_scheduleRetransmitTimerIfNeeded
ScheduleIfNeeded(t) ==
    IF \E x \in t.sched : x <= t.desired THEN t
    ELSE [t EXCEPT !.sched = @ \cup {t.desired}]

SetTimer(t) == ScheduleIfNeeded([t EXCEPT !.desired = t.rto])
StopTimer(t) == [t EXCEPT !.desired = Off]

\* _tcp_setRetransmitTimeout
SetTimeout(t, rto) == [t EXCEPT !.rto = Max({RtoMin, Min({rto, RtoMax})})]

-----------------------------------------------------------------------------
(* Sending.                                                                *)

\* _tcp_addRetransmit, and the timer is started if it is not running
AddRetransmit(t, seq) ==
    LET a == [t EXCEPT !.retx = @ \cup {seq}]
    IN  IF a.desired = Off THEN SetTimer(a) ELSE a


\* tcp_networkInterfaceIsAboutToSendPacket: acknowledgment, window and SACKs are
\* those of the moment it is sent; what must be resent is remembered.
AboutToSend(t, p) ==
    LET q == [flags |-> p.flags, seq |-> p.seq, len |-> p.len, ack |-> t.rnext,
              win |-> t.rwin, sacks |-> ToSet(t.sacks), echo |-> t.echo]
        a == [t EXCEPT !.wire = Append(@, q), !.sentWin = t.rwin, 
                       !.sentAck = IF "ACK" \in p.flags THEN t.rnext ELSE @,
                       !.ackCount = IF "ACK" \in p.flags THEN 0 ELSE @]
    IN  IF p.seq = 0 /\ "SYN" \notin p.flags THEN a ELSE AddRetransmit(a, p.seq)

\* _networkinterface_sendPackets on this socket: control packets first.
InterfaceSends(t) ==
    LET SendNext(x) ==
            IF x.ctlOut # <<>>
            THEN AboutToSend([x EXCEPT !.ctlOut = Tail(@)], Head(x.ctlOut))
            ELSE AboutToSend([x EXCEPT !.datOut = Tail(@)], Head(x.datOut))
    IN  Loop(SendNext, Len(t.ctlOut) + Len(t.datOut), t)

\* socket_addToOutputBuffer
AddToOutput(t, p, isControl) ==
    LET a == [t EXCEPT !.highest = Max({@, p.seq}),
                       !.finFirst = @ \/ (p.seq # 0 /\ isControl /\ t.datOut # <<>>),
                       !.ctlOut = IF isControl THEN Append(@, p) ELSE @,
                       !.datOut = IF isControl THEN @ ELSE Append(@, p)]
    IN  IF t.up THEN InterfaceSends(a) ELSE a

\* Faulty variant: a packet that is sent again stays in the retransmission queue.
RetransmitCopies(t) ==
    LET found == t.tally.lost \cap t.retx
        a == [t EXCEPT !.throttled = @ \cup found,
                       !.tally = IF t.tally.lost = {} THEN @ ELSE MarkRetransmitted(@)]
    IN  IF found = {} THEN a ELSE SetTimer(a)

\* _tcp_retransmitPacket for every packet of the lost ranges
RetransmitLost(t) ==
    LET found == t.tally.lost \cap t.retx
        a == [t EXCEPT !.retx = @ \ found, !.throttled = @ \cup found,
                       !.tally = IF t.tally.lost = {} THEN @ ELSE MarkRetransmitted(@)]
    IN  IF found = {} THEN a ELSE SetTimer(a)

\* The loop that moves throttled packets to the socket, while they fit; the send
\* window is fixed when the flush begins (_tcp_updateSendWindow).  Only a payload
\* gives a packet a priority, so the FIN too is a control packet to the socket:
\* it overtakes data that waits there for the token bucket.
SendThrottled(t) ==
    LET edge == t.unacked + Min({t.cong.cwnd, t.lastWin})
        SendNext(x) ==
            LET q == Min(x.throttled)
                isFin == q = x.fin
                fits == isFin \/ (q < edge /\ SocketLength(x) < SendBuf)
            IN  IF ~fits THEN x
                ELSE AddToOutput([x EXCEPT !.throttled = @ \ {q}],
                                 [flags |-> IF isFin THEN {"FIN"} ELSE {"ACK"},
                                  seq |-> q, len |-> IF isFin THEN 0 ELSE 1],
                                 isFin)
    IN  Loop(SendNext, Cardinality(t.throttled), t)

\* Faulty variant: a gap is skipped.
PullInputAcrossGaps(t) ==
    LET PullNext(x) ==
            IF x.unordered # <<>> /\ Head(x.unordered) >= x.rnext /\ Len(x.input) < RecvBuf
            THEN [x EXCEPT !.unordered = Tail(@), !.input = Append(@, Head(x.unordered)),
                           !.rnext = Head(x.unordered) + 1]
            ELSE x
    IN  Loop(PullNext, Len(t.unordered), t)

\* The loop that moves what is now in order to the user's input buffer.
PullInput(t) ==
    LET PullNext(x) ==
            IF x.unordered # <<>> /\ Head(x.unordered) = x.rnext /\ Len(x.input) < RecvBuf
            THEN [x EXCEPT !.unordered = Tail(@), !.input = Append(@, x.rnext), !.rnext = @ + 1]
            ELSE x
    IN  Loop(PullNext, Len(t.unordered), t)

\* The end of _tcp_flush: does the user need an EOF signal?
SignalEOF(t) ==
    [t EXCEPT !.sendEOF = @ \/ t.closedWr,
              !.recvEOF = @ \/ ((t.closedRd \/ t.remoteClosed) /\ t.rnext >= t.rend /\ ~t.eof)]

\* _tcp_flush up to the FIN; control packets are first in the throttled queue.
FlushPackets(t, controls) ==
    LET a == RetransmitLost(UpdateReceiveWindow(t))
        b == IF controls = {} THEN a
             ELSE AddToOutput(a, [flags |-> controls, seq |-> 0, len |-> 0], TRUE)
    IN  PullInput(SendThrottled(b))

\* _tcp_sendShutdownFin, but for the flush
ShutdownFin(t) ==
    LET to == IF t.st \in {"ESTABLISHED", "SYNRECEIVED"} THEN "FINWAIT1"
              ELSE IF t.st = "CLOSEWAIT" THEN "LASTACK" ELSE t.st
    IN  IF to = t.st THEN t
        ELSE UpdateReceiveWindow([t EXCEPT !.st = to, !.fin = t.next, !.next = @ + 1,
                                           !.throttled = @ \cup {t.next}])

FlushWith(t, controls) ==
    LET a == FlushPackets(t, controls)
        due == a.shouldFin /\ OutputLength(a) = 0
        b == ShutdownFin([a EXCEPT !.shouldFin = FALSE])
    IN  SignalEOF(IF ~due THEN a ELSE IF b.st = a.st THEN b ELSE FlushPackets(b, {}))

Flush(t) == FlushWith(t, {})

\* _tcp_sendControlPacket
SendControl(t, flags) == FlushWith(UpdateReceiveWindow(t), flags)

\* _tcp_sendShutdownFin
SendShutdownFin(t) ==
    LET a == ShutdownFin(t) IN IF a.st = t.st THEN t ELSE Flush(a)

-----------------------------------------------------------------------------
(* _tcp_setState: what the new state brings with it.                       *)

SetState(e, t, st) ==
    CASE st = "ESTABLISHED" -> [t EXCEPT !.st = st, !.established = TRUE]
      [] st = "CLOSED" -> [t EXCEPT !.st = st, !.retx = {}]
      [] st = "TIMEWAIT" -> [t EXCEPT !.st = st, !.closeIn = CloseDelay[e]]
      [] OTHER -> [t EXCEPT !.st = st]

-----------------------------------------------------------------------------
(* Receiving.  The state switch of _tcp_processPacket gives the new record,*)
(* whether the packet meant something to it, and the flags to answer with. *)

Switch(e, t, p) ==
    LET syn == "SYN" \in p.flags
        fin == "FIN" \in p.flags
        ack == "ACK" \in p.flags
        To(st, resp) == [t |-> SetState(e, t, st), processed |-> TRUE, resp |-> resp]
        RemoteCloses(st) ==
            [t |-> SetState(e, [t EXCEPT !.remoteClosed = TRUE, !.rend = p.seq], st),
             processed |-> TRUE, resp |-> {"FIN", "ACK"}]
        ignored == [t |-> t, processed |-> FALSE, resp |-> {}]
    IN  CASE t.st = "none" /\ e = "s" /\ syn ->    \* LISTEN: a child is made
                [t |-> [SetState(e, t, "SYNRECEIVED") EXCEPT
                            !.child = "incomplete", !.rnext = p.seq + 1],
                 processed |-> TRUE, resp |-> {"SYN", "ACK"}]
          [] t.st = "SYNSENT" /\ syn /\ ack ->
                [t |-> [SetState(e, t, "ESTABLISHED") EXCEPT
                            !.rnext = p.seq + 1, !.retx = @ \ {0}],
                 processed |-> TRUE, resp |-> {"ACK"}]
          [] t.st = "SYNSENT" /\ syn /\ ~ack ->    \* simultaneous open
                [t |-> [SetState(e, t, "SYNRECEIVED") EXCEPT !.rnext = p.seq + 1],
                 processed |-> TRUE, resp |-> {"ACK"}]
          [] t.st = "SYNRECEIVED" /\ ack ->
                [t |-> [SetState(e, t, "ESTABLISHED") EXCEPT
                            !.child = IF @ = "incomplete" THEN "pending" ELSE @,
                            !.retx = @ \ {0}],
                 processed |-> TRUE, resp |-> {}]
          [] t.st = "ESTABLISHED" /\ fin -> RemoteCloses("CLOSEWAIT")
          [] t.st = "FINWAIT1" /\ fin /\ ack -> To("FINWAIT2", {})
          [] t.st = "FINWAIT1" /\ fin /\ ~ack -> RemoteCloses("CLOSING")
          [] t.st = "FINWAIT2" /\ fin -> RemoteCloses("TIMEWAIT")
          [] t.st = "CLOSING" /\ fin /\ ack -> To("TIMEWAIT", {})
          [] t.st = "LASTACK" /\ fin /\ ack -> To("CLOSED", {})
          [] OTHER -> ignored

\* The selective ACKs that stay when packet seq fills, or does not fill, a gap.
RemoveSacks(s, seq) ==
    IF s = <<>> \/ Head(s) > seq + 1 THEN s
    ELSE LET gaps == {i \in DOMAIN s : i = Len(s) \/ (s[i] + 1 < s[i + 1] /\ s[i] > seq)}
         IN  SelectSeq(s, LAMBDA q : q > s[Min(gaps)])

InsertSorted(s, q) ==
    SelectSeq(s, LAMBDA x : x <= q) \o <<q>> \o SelectSeq(s, LAMBDA x : x > q)

\* _tcp_dataProcessing: whether the packet was kept, and the new record.
DataProcessing(t, p) ==
    LET isNext == p.seq = t.rnext
        fits == SpaceIn(t) >= 1
        kept == fits \/ (isNext /\ t.input = <<>>)
        a == [t EXCEPT !.sacks = IF ~isNext /\ fits THEN Append(@, p.seq)
                                 ELSE RemoveSacks(@, p.seq)]
    IN  CASE p.seq >= t.rnext + t.rwin -> [t |-> t, processed |-> TRUE, received |-> FALSE]
          [] p.seq < t.rnext -> [t |-> t, processed |-> FALSE, received |-> FALSE]
          [] OTHER -> [t |-> IF kept THEN [a EXCEPT !.unordered = InsertSorted(@, p.seq)] ELSE a,
                       processed |-> TRUE, received |-> kept]


\* _tcp_clearRetransmitRange of what ack acknowledges: the packets that stay
ClearRange(t, ack) == {q \in t.retx : q < t.unacked \/ q >= ack}

\* The timer after an acknowledgment (rfc 6298, 5.2 and 5.3)
TimerAfterAck(t, newAck) ==
    CASE DataOf(t, t.retx) = {} -> StopTimer(t)
      [] DataOf(t, t.retx) # {} /\ newAck -> SetTimer(t)
      [] OTHER -> t

\* _tcp_ackProcessing
AckProcessing(t, p) ==
    LET isDup == "DUP" \in p.flags
        validAck == p.ack > t.unacked /\ p.ack <= t.next
        validWin == \/ p.ack = t.unacked /\ p.win > t.lastWin
                    \/ p.ack > t.unacked /\ p.win # t.lastWin
        a == [t EXCEPT !.tally = TallyUpdate(@, p.ack, isDup),
                       !.cong = IF isDup THEN RenoDupAck(@) ELSE @,
                       !.lastWin = IF validWin THEN p.win ELSE @]
        b == [a EXCEPT !.retx = ClearRange(t, p.ack),
                       !.unacked = p.ack,
                       !.cong = RenoNewAck(@, p.ack - t.unacked), !.backoff = 0]
        c == IF ~validAck THEN a
             ELSE IF t.backoff > 2 THEN SetTimeout(b, RtoInit) ELSE b
    IN  TimerAfterAck(c, validAck)

\* The answer: at once, unless it is a plain ACK, which a task sends later.
Respond(t, resp) ==
    IF resp = {} \/ (t.recvEOF /\ "FIN" \notin resp) THEN t
    ELSE IF resp # {"ACK"} THEN SendControl(t, resp)
    ELSE [t EXCEPT !.ackTask = TRUE, !.ackCount = @ + 1]

\* _tcp_processPacket.  rto is what the round-trip estimate would give.
ProcessPacket(e, t, p, rto) ==
    LET s == Switch(e, t, p)
        d == IF p.len > 0 /\ ~s.t.recvEOF THEN DataProcessing(s.t, p)
             ELSE [t |-> s.t, processed |-> FALSE, received |-> FALSE]
        isAck == "ACK" \in p.flags
        a == IF isAck THEN AckProcessing(d.t, p) ELSE d.t
        b == [a EXCEPT !.tally = MarkSacked(@, p.sacks), !.echo = TRUE]
        c == IF p.echo /\ b.backoff = 0 THEN SetTimeout(b, rto) ELSE b
        outOfOrder == p.seq > c.rnext /\ p.seq < c.rnext + c.rwin
        resp == s.resp \cup (IF outOfOrder THEN {"ACK", "DUP"}
                             ELSE IF d.received THEN {"ACK"} ELSE {})
    IN  IF t.st \in {"none", "CLOSED"} /\ ~s.processed THEN t
        ELSE IF s.t.st = "CLOSED" THEN s.t
        ELSE IF ~(s.processed \/ d.processed \/ isAck) THEN a
        ELSE Flush(Respond(c, resp))

-----------------------------------------------------------------------------
(* Events.  Each runs on one end, finds the bucket with tokens or empty,   *)
(* and puts what the interface sent into flight.                           *)

Stalled(t) == t.ctlOut # <<>> \/ t.datOut # <<>>

Run(e, Handler(_), inFlight) ==
    /\ turn = e
    /\ \E up \in {TRUE} \cup {b \in {FALSE} : stalls < MaxStalls} :
       \E t \in {Handler([conn[e] EXCEPT !.up = up])} :
       /\ conn' = [conn EXCEPT ![e] = [t EXCEPT !.up = FALSE, !.echo = FALSE, !.wire = <<>>]]
       /\ chan' = [inFlight EXCEPT ![Peer(e)] =
                      @ \o [i \in DOMAIN t.wire |-> [pkt |-> t.wire[i], due |-> latency]]]
       /\ stalls' = IF ~up /\ Stalled(t) THEN stalls + 1 ELSE stalls
    /\ UNCHANGED <<latency, turn>>

Init ==
    /\ conn = [e \in Ends |-> NewTcp]
    /\ chan = [e \in Ends |-> <<>>]
    /\ latency \in Latencies /\ turn = "c"
    /\ losses = 0 /\ stalls = 0

\* _tcp_connectToPeer
Connect ==
    /\ conn["c"].st = "none"
    /\ Run("c", LAMBDA t : SetState("c", SendControl(t, {"SYN"}), "SYNSENT"), chan)
    /\ UNCHANGED losses

\* tcp_acceptServerPeer, by a server that waits in accept()
Accept ==
    /\ turn = "s" /\ conn["s"].child = "pending"
    /\ conn' = [conn EXCEPT !["s"].child = "accepted"]
    /\ UNCHANGED <<chan, latency, turn, losses, stalls>>

\* The application has the socket: it is connected, or accept returned it.
HasSocket(e) == conn[e].established /\ (e = "s" => conn[e].child = "accepted")

Written(t) == t.next - 1 - (IF t.fin = 0 THEN 0 ELSE 1)

\* _tcp_sendUserData of as much as fits of what is left
Write(e) ==
    /\ HasSocket(e) /\ ~conn[e].sendEOF
    /\ \E n \in {Min({SpaceOut(conn[e]), Writes[e] - Written(conn[e])})} :
          /\ n > 0
          /\ Run(e, LAMBDA t : Flush([t EXCEPT !.throttled = @ \cup (t.next .. (t.next + n - 1)),
                                               !.next = @ + n]),
                 chan)
    /\ UNCHANGED losses

\* The last part of _tcp_receiveUserData: an opened window is advertised.
AfterRead(t) ==
    LET a == UpdateReceiveWindow(t)
    IN  [a EXCEPT !.winPending = @ \/ a.rwin > a.sentWin]

\* _tcp_receiveUserData that returns data, into a buffer that takes all there is
Read(e) ==
    /\ HasSocket(e) /\ ~conn[e].closedRd /\ conn[e].input # <<>>
    /\ Run(e, LAMBDA t : LET a == Flush(t)
                         IN  AfterRead([a EXCEPT !.got = @ \o a.input, !.input = <<>>]),
           chan)
    /\ UNCHANGED losses

\* _tcp_receiveUserData that returns 0
ReadEOF(e) ==
    /\ HasSocket(e) /\ ~conn[e].closedRd /\ ~conn[e].eof
    /\ conn[e].input = <<>> /\ conn[e].unordered = <<>> /\ conn[e].recvEOF
    /\ conn[e].st # "CLOSED"
    /\ Run(e, LAMBDA t : [Flush(t) EXCEPT !.eof = TRUE], chan)
    /\ UNCHANGED losses

\* No end answers with a RST, so an application that drops data its peer still
\* sends would keep the peer sending for ever: readers close after the EOF.
PeerDone(e) == conn[e].eof \/ Writes[Peer(e)] = 0

\* Faulty variant: with data left there is no FIN.
FinIfNoData(t) == IF OutputLength(t) = 0 THEN SendShutdownFin(t) ELSE t

\* The FIN goes out after the data that is left.
FinAfterData(t) ==
    IF OutputLength(t) = 0 THEN SendShutdownFin(t) ELSE [t EXCEPT !.shouldFin = TRUE]

\* _tcp_close
Close(e) ==
    /\ HasSocket(e) /\ PeerDone(e) /\ ~conn[e].closedWr
    /\ Run(e, LAMBDA t : LET a == [t EXCEPT !.closedWr = TRUE, !.closedRd = TRUE]
                         IN  IF t.st \in {"ESTABLISHED", "CLOSEWAIT"} THEN FinAfterData(a) ELSE a,
           chan)
    /\ UNCHANGED losses

\* tcp_shutdown with SHUT_WR, or SHUT_RDWR by a reader that has seen the EOF
Shutdown(e) ==
    /\ HasSocket(e) /\ conn[e].st # "CLOSED" /\ ~conn[e].closedWr
    /\ \E rd \in BOOLEAN :
          /\ rd => conn[e].eof /\ ~conn[e].closedRd
          /\ Run(e, LAMBDA t : FinAfterData([t EXCEPT !.closedRd = @ \/ rd, !.recvEOF = @ \/ rd,
                                                     !.closedWr = TRUE, !.sendEOF = TRUE]),
                 chan)
    /\ UNCHANGED losses

\* The refill task of the interface, or another socket's packet, lets it send.
NetSend(e) ==
    /\ Stalled(conn[e])
    /\ Run(e, LAMBDA t : InterfaceSends(t), chan)
    /\ UNCHANGED losses

\* _tcp_sendACKTaskCallback
DelayedAck(e) ==
    /\ conn[e].ackTask
    /\ Run(e, LAMBDA t : LET a == [t EXCEPT !.ackTask = FALSE]
                         IN  IF t.ackCount = 0 THEN a
                             ELSE [SendControl(a, {"ACK"}) EXCEPT !.ackCount = 0],
           chan)
    /\ UNCHANGED losses

\* _tcp_sendWindowUpdate
WindowUpdate(e) ==
    /\ conn[e].winPending
    /\ Run(e, LAMBDA t : [SendControl(t, {"ACK"}) EXCEPT !.winPending = FALSE], chan)
    /\ UNCHANGED losses

\* A timeout: exponential backoff, and all that is not SACKed is lost.  (Only
\* whether backoffCount is 0, or above 2, matters.)
Timeout(t) ==
    LET a == SetTimer(SetTimeout([t EXCEPT !.backoff = Min({@ + 1, 3})], 2 * t.rto))
    IN  Flush([a EXCEPT !.cong = RenoTimeout(@),
                        !.tally = MarkLost(ClearRetransmitted(@), t.unacked, t.highest + 1)])

\* Faulty variant: an event that came too early schedules no other.
ExpiredEarlyIgnored(t) ==
    LET a == [t EXCEPT !.sched = @ \ {0}]
    IN  CASE t.st = "CLOSED" -> StopTimer([a EXCEPT !.retx = {}])
          [] t.st # "CLOSED" /\ t.retx = {} -> StopTimer(a)
          [] t.st # "CLOSED" /\ t.retx # {} /\ t.desired # 0 -> a
          [] OTHER -> Timeout(a)

\* _tcp_runRetransmitTimerExpiredTask: is this event still the one to act on?
TimerExpired(t) ==
    LET a == [t EXCEPT !.sched = @ \ {0}]
    IN  CASE t.st = "CLOSED" -> StopTimer([a EXCEPT !.retx = {}])
          [] t.st # "CLOSED" /\ t.retx = {} -> StopTimer(a)
          [] t.st # "CLOSED" /\ t.retx # {} /\ t.desired = Off -> a
          [] t.st # "CLOSED" /\ t.retx # {} /\ t.desired > 0 -> ScheduleIfNeeded(a)
          [] OTHER -> Timeout(a)

TimerExpires(e) ==
    /\ 0 \in conn[e].sched
    /\ Run(e, TimerExpired, chan)
    /\ UNCHANGED losses

\* _tcp_runCloseTimerExpiredTask
CloseTimer(e) ==
    /\ conn[e].closeIn = 0
    /\ Run(e, LAMBDA t : SetState(e, [t EXCEPT !.closeIn = Off], "CLOSED"), chan)
    /\ UNCHANGED losses

Due(e) == chan[e] # <<>> /\ Head(chan[e]).due = 0

\* A packet reaches the socket, which may set its timeout to a new estimate.
Deliver(e) ==
    /\ Due(e)
    /\ \E rto \in (IF Head(chan[e]).pkt.echo THEN Rtos ELSE {RtoInit}) :
          Run(e, LAMBDA t : ProcessPacket(e, t, Head(chan[e]).pkt, rto),
              [chan EXCEPT ![e] = Tail(@)])
    /\ UNCHANGED losses

\* worker_sendPacket drops a packet of data, never an empty one
Lose(e) ==
    /\ turn = e /\ Due(e) /\ Head(chan[e]).pkt.len > 0 /\ losses < MaxLosses
    /\ chan' = [chan EXCEPT ![e] = Tail(@)]
    /\ losses' = losses + 1
    /\ UNCHANGED <<conn, latency, turn, stalls>>

Urgent(e) == \/ Due(e) \/ Stalled(conn[e]) \/ conn[e].ackTask \/ conn[e].winPending
             \/ 0 \in conn[e].sched \/ conn[e].closeIn = 0 \/ conn[e].child = "pending"

Pass(t) == [t EXCEPT !.desired = IF @ = Off THEN Off ELSE Max({0, @ - 1}),
                     !.sched = {x - 1 : x \in @},
                     !.closeIn = IF @ = Off THEN Off ELSE @ - 1]

\* The client has done what it does in this tick.
NextHost ==
    /\ turn = "c" /\ ~Urgent("c")
    /\ turn' = "s"
    /\ UNCHANGED <<conn, chan, latency, losses, stalls>>

\* A tick of simulated time.
Tick ==
    /\ turn = "s" /\ ~Urgent("s")
    /\ turn' = "c"
    /\ conn' = [e \in Ends |-> Pass(conn[e])]
    /\ chan' = [e \in Ends |-> [i \in DOMAIN chan[e] |-> [chan[e][i] EXCEPT !.due = @ - 1]]]
    /\ UNCHANGED <<latency, losses, stalls>>

\* The events the simulator runs, and what the applications do.
Events(e) ==
    \/ NetSend(e) \/ DelayedAck(e) \/ WindowUpdate(e) \/ TimerExpires(e)
    \/ CloseTimer(e) \/ Deliver(e)

Next ==
    \/ Connect \/ Accept \/ NextHost \/ Tick
    \/ \E e \in Ends : \/ Write(e) \/ Read(e) \/ ReadEOF(e) \/ Close(e) \/ Shutdown(e)
                       \/ Events(e) \/ Lose(e)

Readable(e) ==
    /\ HasSocket(e) /\ ~conn[e].closedRd
    /\ \/ conn[e].input # <<>>
       \/ /\ conn[e].recvEOF /\ ~conn[e].eof
          /\ conn[e].unordered = <<>> /\ conn[e].st # "CLOSED"

\* The event queue runs every event whose time has come before time goes on, and
\* time does go on; a reader reads what there is.
Fairness ==
    /\ WF_vars(NextHost) /\ WF_vars(Tick) /\ \A e \in Ends : []<>(~Urgent(e))
    /\ \A e \in Ends : []<>(~Readable(e))

Spec == Init /\ [][Next]_vars /\ Fairness

-----------------------------------------------------------------------------

\* Type correctness: windows, buffers and timeouts stay within their limits.
TypeOK ==
    \A e \in Ends :
       LET t == conn[e] IN
       /\ t.st \in {"none", "SYNSENT", "SYNRECEIVED", "ESTABLISHED", "FINWAIT1", "FINWAIT2",
                    "CLOSING", "TIMEWAIT", "CLOSEWAIT", "LASTACK", "CLOSED"}
       /\ t.unacked \in 1 .. t.next /\ t.rnext \in 1 .. (conn[Peer(e)].next)
       /\ t.throttled \cup t.retx \subseteq 0 .. (t.next - 1)
       /\ Len(t.input) <= RecvBuf /\ t.rwin \in 0 .. Max({RecvBuf, InitialWindow})
       /\ t.rto \in RtoMin .. RtoMax /\ t.desired \in {Off} \cup 0 .. RtoMax
       /\ t.sched \subseteq 0 .. RtoMax /\ t.closeIn \in {Off} \cup 0 .. CloseDelay[e]
       /\ t.cong.cwnd > 0 /\ t.wire = <<>> /\ ~t.up /\ ~t.echo

\* The reader gets what the writer wrote, in order and once, and reads an EOF
\* only after all of it: recv() of a lossy stream with the close racing it.
InOrder ==
    \A e \in Ends :
       LET t == conn[e] IN
       /\ t.got \o t.input = [i \in 1 .. (t.rnext - 1) |-> i]
       /\ t.eof => Len(t.got) = Written(conn[Peer(e)])

\* Between write() and its acknowledgment a packet, the FIN too, is in exactly one
\* place: in the throttled queue, in one of the socket's buffers, or in the
\* retransmission queue.  (Once acknowledged it may still be in one: LeftBehind.)
InOnePlace ==
    \A e \in Ends :
       LET t == conn[e]
           buffered == {p.seq : p \in ToSet(t.ctlOut) \cup ToSet(t.datOut)}
           places(q) == {b \in 1..3 : q \in (<<t.throttled, buffered, t.retx>>)[b]}
       IN  t.st # "CLOSED" =>
              \A q \in t.unacked .. (t.next - 1) : Cardinality(places(q)) = 1


\* While data waits for its acknowledgment the timer is on, and an event is
\* scheduled that will look at it in time, though events are never cancelled.
TimerArmed ==
    \A e \in Ends :
       LET t == conn[e] IN
       t.st # "CLOSED" /\ DataOf(t, t.retx) # {} =>
          t.desired # Off /\ \E x \in t.sched : x <= t.desired

\* The queues hold every packet that is not acknowledged, and hold it once.
QueuesExact == TypeOK /\ InOnePlace

\* "if they sent us new data, we need to ack that we received it" (tcp.c): until
\* an acknowledgment of it is sent, the delayed one is scheduled and not cancelled.
\* Violated when both ends send: _tcp_flush sends data before it takes the new
\* input, and that packet, with the old acknowledgment, cancels the delayed one.
DataIsAcked ==
    \A e \in Ends :
       LET t == conn[e] IN
       t.sentAck < t.rnext => t.st = "CLOSED" \/ Stalled(t) \/ (t.ackTask /\ t.ackCount > 0)

\* A FIN has a sequence number "so we close after sending everything" (tcp.c): an
\* end is closed only when its peer has all that it wrote.  Violated when the FIN
\* overtakes data that waits for the token bucket and some of that data is lost:
\* the answer to the FIN closes the end, and closing forgets what was to be resent.
ClosesAfterSending ==
    \A e \in Ends : conn[e].st = "CLOSED" => conn[Peer(e)].rnext > Written(conn[e])

\* What is written is read in the end, though data is lost on the path, unless
\* the FIN overtook it in the socket's buffers (see ClosesAfterSending).
Unread(e) == Len(conn[Peer(e)].got) < Written(conn[e]) /\ ~conn[e].finFirst

AllRead == \A e \in Ends : Unread(e) ~> ~Unread(e)

\* Data was acknowledged while it waited to be sent again.  It is never released,
\* and _tcp_flush waits for ever for an empty output buffer to send the FIN.
LeftBehind(e) ==
    LET t == conn[e] IN DataOf(t, t.throttled \cup t.retx) \cap 1 .. (t.unacked - 1) # {}

\* Once both sides have said that they will write no more, both sockets close,
\* unless one of them holds its FIN back for data that was left behind.
BothClose ==
    (\A e \in Ends : conn[e].closedWr) ~>
        \/ \A e \in Ends : conn[e].st = "CLOSED"
        \/ \E e \in Ends : LeftBehind(e)
=============================================================================
