-------------------------- MODULE NetworkInterface --------------------------
(***************************************************************************)
(* The network interface of a simulated host (host/network_interface.c)    *)
(* with its queuing discipline (network_queuing_disciplines.c) and its     *)
(* upstream router (routing/router.c, RouterQueue).                        *)
(*                                                                         *)
(* Two token buckets limit the rates.  They are refilled by a task that is *)
(* scheduled only while a bucket is not full, so the state of an idle      *)
(* interface stops changing; every operation that spends tokens must see   *)
(* to it that the task is scheduled again.  A handler is one action: the   *)
(* C functions call each other synchronously on the host's thread, and are *)
(* operators on the record nic here.                                       *)
(*                                                                         *)
(* Packets of user data are those of datagram sockets (descriptor/udp.c,   *)
(* socket.c).  A packet's len is its length on the wire, Header bytes of   *)
(* it the header.  Its id is also its priority: the host numbers the       *)
(* packets it creates.                                                     *)
(***************************************************************************)
EXTENDS RouterQueue

CONSTANTS Sockets, Header,
          SendRefill, ReceiveRefill, \* bytes per refill
          RefillInterval,
          BootstrapEnd,              \* bandwidth is not counted before this time
          BufferSize,                \* a socket's output buffer, in payload bytes
          Receivers,                 \* the sockets that packets are addressed to
          Setups                     \* the hosts considered: discipline, manager, bounds

(***************************************************************************)
(* A setup names the queuing discipline and the router's queue manager,    *)
(* and bounds what happens: the packets in and out, their lengths on the   *)
(* wire, the last time at which one of them comes, and the sockets that    *)
(* may be closed.  A datagram is one packet, however far above the MTU.    *)
(***************************************************************************)
ASSUME InterfaceAssumption ==
    /\ SendRefill \in Nat \ {0} /\ ReceiveRefill \in Nat \ {0}
    /\ RefillInterval \in Nat \ {0}
    /\ Header \in Nat \ {0}
    /\ BootstrapEnd \in Nat /\ BufferSize \in Nat
    /\ Receivers \subseteq Sockets
    /\ Setups \subseteq [qdisc : {"rr", "fifo"}, manager : Managers, in : Nat, out : Nat,
                        lengths : SUBSET {len \in Nat : len >= Header},
                        until : Nat, close : SUBSET Sockets]

VARIABLES now,      \* the host's clock
          setup,    \* the host's setup, fixed
          nic,      \* the interface and its router
          open,     \* the sockets associated with the interface
          arrivals, \* number of packets that reached the router
          creations \* number of packets created by the host's processes

vars == <<now, setup, nic, open, arrivals, creations>>

SendCapacity == SendRefill + MTU
ReceiveCapacity == ReceiveRefill + MTU

Bootstrapping(t) == t < BootstrapEnd

(***************************************************************************)
(* The fields of nic: the buckets send and recv; pending and the times of  *)
(* the refill tasks in the event queue; the sendable sockets and their     *)
(* output buffers; the router's queue; own, the packets sent to the host   *)
(* itself with the time at which they arrive.  The rest is history: wire,  *)
(* the packets sent with the sockets left waiting at that time; got and    *)
(* refused, the packets handed to a socket and dropped on the way; spent,  *)
(* the bytes sent and received at limited bandwidth that count.            *)
(***************************************************************************)
NewInterface(k) ==
    [send |-> 0, recv |-> 0, pending |-> FALSE, refills |-> << >>,
     sendable |-> << >>, out |-> [s \in Sockets |-> << >>],
     router |-> NewQueue(k), own |-> {}, wire |-> << >>, got |-> << >>,
     refused |-> {}, spent |-> [send |-> 0, recv |-> 0]]

-----------------------------------------------------------------------------
(* The token buckets. *)

Least(a, b) == IF a < b THEN a ELSE b

RefillBuckets(n) ==
    [n EXCEPT !.send = Least(@ + SendRefill, SendCapacity),
              !.recv = Least(@ + ReceiveRefill, ReceiveCapacity)]

(* _networkinterface_consumeTokenBucket *)
Consume(tokens, len) == IF len >= tokens THEN 0 ELSE tokens - len

(* History: what counts of a packet against the rate.  One of at most an MTU
   counts in full, a longer one as far as the bucket goes. *)
Counted(tokens, len) == IF len <= MTU THEN len ELSE Least(len, tokens)

(* The next time at which a refill would happen if refills never stopped. *)
NextRefill(t) == t + (RefillInterval - (t % RefillInterval))

(* Mutant: only the receiving bucket is looked at. *)
IsReceiveRefillNeeded(n) == n.recv < ReceiveCapacity /\ ~n.pending

IsRefillNeeded(n) ==
    (n.send < SendCapacity \/ n.recv < ReceiveCapacity) /\ ~n.pending

ScheduleNextRefillIfNeeded(n, t) ==
    IF IsRefillNeeded(n)
    THEN [n EXCEPT !.refills = Append(@, NextRefill(t)), !.pending = TRUE]
    ELSE n

-----------------------------------------------------------------------------
(* Receiving. *)

(* _networkinterface_receivePacket: to the associated socket, if any. *)
ReceivePacket(n, p) ==
    IF p.to \in open THEN [n EXCEPT !.got = Append(@, p)]
    ELSE [n EXCEPT !.refused = @ \cup {p.id}]

ReceiveTurn(n, t) ==
    LET d == Dequeue(n.router, t)
        dequeued == [n EXCEPT !.router = d.q]
        received == ReceivePacket(dequeued, d.pkt)
        charged == [received EXCEPT !.recv = Consume(@, d.pkt.len),
                                    !.spent.recv = @ + Counted(n.recv, d.pkt.len)]
    IN  IF ~(Bootstrapping(t) \/ n.recv >= MTU) THEN n
        ELSE IF d.pkt = NoPacket THEN dequeued
        ELSE IF Bootstrapping(t) THEN received
        ELSE ScheduleNextRefillIfNeeded(charged, t)

(* networkinterface_receivePackets; every turn empties the queue a bit. *)
ReceivePackets(n, t) ==
    Loop(LAMBDA m : ReceiveTurn(m, t), Len(n.router.entries) + 1, n)

-----------------------------------------------------------------------------
(* Sending. *)

(* rrsocketqueue_pop and fifosocketqueue_pop: the position of the next socket. *)
NextSendable(n) ==
    IF setup.qdisc = "rr" THEN 1
    ELSE CHOOSE i \in DOMAIN n.sendable : \A j \in DOMAIN n.sendable :
            n.out[n.sendable[i]][1].id <= n.out[n.sendable[j]][1].id

(***************************************************************************)
(* _networkinterface_selectRoundRobin and _selectFirstInFirstOut: the      *)
(* socket is taken from the queue, its packet from the socket, and a       *)
(* socket that has more to send goes back to the end of the queue.         *)
(***************************************************************************)
Select(n) ==
    LET i == NextSendable(n)
        s == n.sendable[i]
        others == RemoveAt(n.sendable, i)
        left == Tail(n.out[s])
    IN  [pkt |-> Head(n.out[s]), sock |-> s,
         n |-> [n EXCEPT !.out[s] = left,
                         !.sendable = IF left = << >> THEN others ELSE Append(others, s)]]

(* Packets to the interface's own address come back after one tick. *)
Forward(n, s, p, t) ==
    LET logged == [n EXCEPT !.wire = Append(@,
                    [sock |-> s, id |-> p.id, waiting |-> Range(n.sendable) \ {s}])]
    IN  IF p.to = "remote" THEN logged
        ELSE [logged EXCEPT !.own = @ \cup {[at |-> t + 1, pkt |-> p]}]

SendTurn(n, t) ==
    LET c == Select(n)
        sent == Forward(c.n, c.sock, c.pkt, t)
        charged == [sent EXCEPT !.send = Consume(@, c.pkt.len),
                                !.spent.send = @ + Counted(n.send, c.pkt.len)]
    IN  IF n.send < MTU \/ n.sendable = << >> THEN n
        ELSE IF Bootstrapping(t) THEN sent
        ELSE ScheduleNextRefillIfNeeded(charged, t)

(* _networkinterface_sendPackets *)
SendPackets(n, t) ==
    LET packets == UNION {{<<s, i>> : i \in DOMAIN n.out[s]} : s \in Sockets}
    IN  Loop(LAMBDA m : SendTurn(m, t), Cardinality(packets), n)

(* networkinterface_wantsSend *)
WantsSend(n, s, t) ==
    LET tracked == IF s \in Range(n.sendable) THEN n
                   ELSE [n EXCEPT !.sendable = Append(@, s)]
    IN  SendPackets(tracked, t)

(* Mutant: the next refill is left to the packets that spend tokens. *)
RefillOnce(n, t) ==
    SendPackets(ReceivePackets(RefillBuckets([n EXCEPT !.pending = FALSE]), t), t)

(* _networkinterface_refillTokenBucketsCB *)
RefillTokenBuckets(n, t) ==
    LET refilled == RefillBuckets([n EXCEPT !.pending = FALSE])
        sent == SendPackets(ReceivePackets(refilled, t), t)
    IN  ScheduleNextRefillIfNeeded(sent, t)

-----------------------------------------------------------------------------
(* The host is booted at time 0: networkinterface_startRefillingTokenBuckets. *)
Init ==
    /\ now = 0
    /\ open = Sockets
    /\ arrivals = 0 /\ creations = 0
    /\ setup \in Setups
    /\ nic = RefillTokenBuckets(NewInterface(setup.manager), 0)

(* A socket is closed: networkinterface_disassociate. *)
Close(s) ==
    /\ s \in open \cap setup.close
    /\ open' = open \ {s}
    /\ UNCHANGED <<now, setup, nic, arrivals, creations>>

(* _udp_sendUserData with room in the buffer, and socket_addToOutputBuffer. *)
Buffered(s) == FoldLeft(LAMBDA n, p : n + p.len - Header, 0, nic.out[s])

SendUserData(s, len, to) ==
    /\ now <= setup.until
    /\ creations < setup.out
    /\ s \in open
    /\ Buffered(s) + len - Header <= BufferSize
    /\ creations' = creations + 1
    /\ LET p == [id |-> 100 + creations', len |-> len, to |-> to]
       IN  nic' = WantsSend([nic EXCEPT !.out[s] = Append(@, p)], s, now)
    /\ UNCHANGED <<now, setup, open, arrivals>>

(* A packet arrives at the upstream router: router_enqueue. *)
RouterEnqueue(len, to) ==
    /\ now <= setup.until
    /\ arrivals < setup.in
    /\ arrivals' = arrivals + 1
    /\ LET p == [id |-> arrivals', len |-> len, to |-> to]
           queued == [nic EXCEPT !.router = Enqueue(@, p, now)]
       IN  nic' = IF ~Accepts(nic.router, p) THEN [nic EXCEPT !.refused = @ \cup {p.id}]
                  ELSE IF nic.router.entries = << >> THEN ReceivePackets(queued, now)
                  ELSE queued
    /\ UNCHANGED <<now, setup, open, creations>>

(* A refill task is due. *)
Refill ==
    \E i \in DOMAIN nic.refills :
        /\ nic.refills[i] = now
        /\ nic' = RefillTokenBuckets([nic EXCEPT !.refills = RemoveAt(@, i)], now)
        /\ UNCHANGED <<now, setup, open, arrivals, creations>>

(* _networkinterface_receivePacketTask: a packet to the host itself arrives. *)
ReceiveOwn ==
    \E o \in nic.own :
        /\ o.at = now
        /\ nic' = ReceivePacket([nic EXCEPT !.own = @ \ {o}], o.pkt)
        /\ UNCHANGED <<now, setup, open, arrivals, creations>>

Due == Range(nic.refills) \cup {o.at : o \in nic.own}

(* The clock moves on once nothing is due, while anything is left to do. *)
Tick ==
    /\ now \notin Due
    /\ Due # {} \/ now <= setup.until
    /\ now' = now + 1
    /\ UNCHANGED <<setup, nic, open, arrivals, creations>>

Next ==
    \/ \E s \in Sockets : Close(s)
    \/ \E s \in Sockets, len \in setup.lengths, to \in Receivers \cup {"remote"} :
          SendUserData(s, len, to)
    \/ \E len \in setup.lengths, to \in Receivers : RouterEnqueue(len, to)
    \/ Refill
    \/ ReceiveOwn
    \/ Tick

(***************************************************************************)
(* The event loop runs the tasks that are due and lets time pass.  That no *)
(* due task waits for ever is what weak fairness of Refill and ReceiveOwn  *)
(* says, as the tasks they add are due later.                              *)
(***************************************************************************)
Spec == Init /\ [][Next]_vars /\ []<>(now \notin Due) /\ WF_vars(Tick)

-----------------------------------------------------------------------------
(* Properties *)

Packet == [id : Nat, len : setup.lengths, to : Sockets \cup {"remote"}]

(* Type correctness of the interface, its buckets within their capacities. *)
TypeOK ==
    /\ now \in Nat
    /\ setup \in Setups
    /\ open \subseteq Sockets
    /\ nic.send \in 0..SendCapacity /\ nic.recv \in 0..ReceiveCapacity
    /\ nic.pending \in BOOLEAN
    /\ nic.refills \in Seq(Nat) /\ nic.sendable \in Seq(Sockets)
    /\ \A s \in Sockets : nic.out[s] \in Seq(Packet) /\ Buffered(s) <= BufferSize
    /\ nic.router.mode \in {"STORE", "DROP"}
    /\ \A e \in Range(nic.router.entries) : e.pkt \in Packet /\ e.ts \in 0..now

(* No packet is left behind: a packet waits in the router, or in a socket,
   only for want of tokens and with a refill on its way.  The router tells
   the interface of a packet only when its queue was empty before, a socket
   is asked for packets only while it is in the sendable queue, and refills
   stop when the buckets are full. *)
NoStall ==
    /\ nic.router.entries # << >> => nic.recv < MTU /\ nic.pending
    /\ \A s \in Sockets : nic.out[s] # << >> =>
           /\ nic.send < MTU /\ nic.pending
           /\ s \in Range(nic.sendable)

(* Refill tasks: one in the event queue when isRefillPending says so and
   none otherwise, at the next multiple of the interval even after an idle
   period, and always one while a bucket is not full. *)
OneRefillTask ==
    /\ Len(nic.refills) = IF nic.pending THEN 1 ELSE 0
    /\ \A t \in Range(nic.refills) : t % RefillInterval = 0 /\ t - now \in 0..RefillInterval
    /\ (nic.send < SendCapacity \/ nic.recv < ReceiveCapacity) => nic.pending

(* The packets of at most an MTU sent, and those received, never exceed the
   configured rate since the host booted, whatever the idle periods and
   however the refill task was rescheduled; what is left in the bucket is part
   of it.  A longer datagram needs no more tokens than an MTU and takes those
   that are there, so its remaining bytes are free: it is not "delayed until
   [it conforms] with outgoing rate limits" (struct _NetworkInterface). *)
RateLimited ==
    LET rounds == now \div RefillInterval + 1
    IN  /\ nic.spent.send + nic.send <= rounds * SendRefill
        /\ nic.spent.recv + nic.recv <= rounds * ReceiveRefill

(* Every packet that arrived is in the router's queue, was handed to a
   socket, or was dropped, and only one of them; every packet that was
   created is in its socket or was sent once; packets to the host itself
   that were sent are on their way, received or dropped. *)
Accounted ==
    LET queued == {e.pkt.id : e \in Range(nic.router.entries)}
        dropped == {d.id : d \in nic.router.drops}
        got == {p.id : p \in Range(nic.got)}
        inside == UNION {{p.id : p \in Range(nic.out[s])} : s \in Sockets}
        sent == {w.id : w \in Range(nic.wire)}
        back == {o.pkt.id : o \in nic.own}
        places == <<queued, dropped, got, nic.refused, inside, back>>
    IN  /\ \A i, j \in DOMAIN places : i # j => places[i] \cap places[j] = {}
        /\ 1..arrivals \subseteq queued \cup dropped \cup got \cup nic.refused
        /\ 101..(100 + creations) = inside \cup sent /\ inside \cap sent = {}
        /\ Len(nic.wire) = Cardinality(sent) /\ Len(nic.got) = Cardinality(got)

Ascending(ids) == \A i, j \in DOMAIN ids : i < j => ids[i] < ids[j]

(* Order: packets from the router reach the sockets in the order they
   arrived, a socket's packets leave in the order they were created, and
   under the fifo discipline so do those of the whole host. *)
InOrder ==
    /\ Ascending([i \in 1..Len(SelectSeq(nic.got, LAMBDA p : p.id < 100)) |->
                    SelectSeq(nic.got, LAMBDA p : p.id < 100)[i].id])
    /\ \A i, j \in DOMAIN nic.wire :
          i < j /\ (setup.qdisc = "fifo" \/ nic.wire[i].sock = nic.wire[j].sock)
          => nic.wire[i].id < nic.wire[j].id

(* Fairness of the round robin discipline: between two packets of a socket,
   every other socket that was waiting all along has sent one. *)
RoundRobin ==
    setup.qdisc = "rr" =>
        \A i, j \in DOMAIN nic.wire : i < j /\ nic.wire[i].sock = nic.wire[j].sock =>
            \A t \in nic.wire[i].waiting : \E k \in (i + 1)..(j - 1) : nic.wire[k].sock = t

(* The token buckets: refilled by one task, in time for whoever waits, and
   never beyond the rate but for what a datagram above the MTU gets free. *)
RefillsExact == TypeOK /\ NoStall /\ OneRefillTask /\ RateLimited

(* Packets: none lost, doubled or overtaken, in any of the queues. *)
PacketsKept == Accounted /\ InOrder /\ RoundRobin

(* CoDel drops a packet only when every dequeue of at least an interval saw
   the delay above the target, and never the last MTU bytes of the queue. *)
CoDelPatience ==
    \A d \in nic.router.drops : d.at >= d.good + CoDelInterval /\ d.left >= MTU

(* Liveness: once no more packets come, the interface empties its queues,
   fills its buckets and stops scheduling refills. *)
BecomesIdle ==
    <>[](/\ nic.router.entries = << >> /\ \A s \in Sockets : nic.out[s] = << >>
         /\ nic.own = {} /\ nic.refills = << >>
         /\ nic.send = SendCapacity /\ nic.recv = ReceiveCapacity)

=============================================================================
