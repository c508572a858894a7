----------------------------- MODULE RouterQueue -----------------------------
(***************************************************************************)
(* The queue managers of an upstream router (routing/router_queue_*.c):    *)
(* "single" holds one packet, "static" holds a bounded number of bytes and *)
(* "codel" is the active queue management of RFC 8289.  A manager is a     *)
(* record; its operations are operators that return the new record.        *)
(*                                                                         *)
(* Times are natural numbers.                                              *)
(***************************************************************************)
EXTENDS Integers, Sequences, FiniteSets, SequencesExt, Loops

CONSTANTS MTU,          \* CONFIG_MTU
          StaticMax,    \* STATIC_PARAM_MAXSIZE
          Target,       \* CODEL_PARAM_TARGET_DELAY_SIMTIME
          CoDelInterval \* CODEL_PARAM_INTERVAL_SIMTIME

ASSUME RouterAssumption ==
    /\ MTU \in Nat \ {0}
    /\ StaticMax \in Nat
    /\ Target \in Nat
    /\ CoDelInterval \in Nat \ {0}

Managers == {"single", "static", "codel"}

NoPacket == [id |-> 0, len |-> 0, to |-> "none"]

(***************************************************************************)
(* A new manager of kind k.  "good" and "drops" are history: the last time *)
(* the delay was seen to be good, and for each packet that CoDel dropped,  *)
(* when, how long after that time, and how many bytes were left behind it. *)
(***************************************************************************)
NewQueue(k) ==
    [kind |-> k, entries |-> << >>, totalSize |-> 0, mode |-> "STORE", expire |-> 0,
     nextDrop |-> 0, count |-> 0, last |-> 0, good |-> 0, drops |-> {}]

(* routerqueue*_enqueue: does the manager have room for packet p? *)
Accepts(q, p) ==
    CASE q.kind = "single" -> q.entries = << >>
      [] q.kind = "static" -> q.totalSize + p.len < StaticMax
      [] q.kind = "codel" -> TRUE

Enqueue(q, p, now) ==
    [q EXCEPT !.entries = Append(@, [pkt |-> p, ts |-> now]),
              !.totalSize = @ + p.len]

(* Mutant: the packet is handed out and also stays in the queue. *)
PeekHead(q) == [q EXCEPT !.totalSize = @ - Head(q.entries).pkt.len]

(* The manager without its head entry. *)
PopHead(q) == [q EXCEPT !.entries = Tail(@), !.totalSize = @ - Head(q.entries).pkt.len]

(***************************************************************************)
(* _routerqueuecodel_dequeueHelper: the head entry, whether it may be      *)
(* dropped, and the manager without it.                                    *)
(***************************************************************************)
Good(q, now) == [q EXCEPT !.expire = 0, !.good = now]

(* Mutant: no exemption for a queue of less than an MTU. *)
DequeueHelperNoFloor(q, now) ==
    IF q.entries = << >>
    THEN [pkt |-> NoPacket, ok |-> FALSE, q |-> Good(q, now)]
    ELSE LET e == Head(q.entries)
             r == PopHead(q)
         IN  IF now - e.ts < Target
             THEN [pkt |-> e.pkt, ok |-> FALSE, q |-> Good(r, now)]
             ELSE IF r.expire = 0
             THEN [pkt |-> e.pkt, ok |-> FALSE,
                   q |-> [r EXCEPT !.expire = now + CoDelInterval]]
             ELSE [pkt |-> e.pkt, ok |-> now >= r.expire, q |-> r]

DequeueHelper(q, now) ==
    IF q.entries = << >>
    THEN [pkt |-> NoPacket, ok |-> FALSE, q |-> Good(q, now)]
    ELSE LET e == Head(q.entries)
             r == PopHead(q)
         IN  IF now - e.ts < Target \/ r.totalSize < MTU
             THEN [pkt |-> e.pkt, ok |-> FALSE, q |-> Good(r, now)]
             ELSE IF r.expire = 0
             THEN [pkt |-> e.pkt, ok |-> FALSE,
                   q |-> [r EXCEPT !.expire = now + CoDelInterval]]
             ELSE [pkt |-> e.pkt, ok |-> now >= r.expire, q |-> r]

(* round((ts + INTERVAL) / sqrt(count)), as the code computes it. *)
ControlLaw(count, ts) ==
    LET t == ts + CoDelInterval
    IN  CHOOSE r \in 0..t : /\ (2*r - 1) * (2*r - 1) * count <= 4*t*t \/ r = 0
                            /\ 4*t*t < (2*r + 1) * (2*r + 1) * count

(* _routerqueuecodel_drop of d's packet, when the rest of the queue is d.q. *)
Drop(d, now) ==
    [d.q EXCEPT !.drops = @ \cup {[id |-> d.pkt.id, at |-> now, good |-> d.q.good,
                                   left |-> d.q.totalSize]}]

(***************************************************************************)
(* One turn of the loop of drop mode: while it is time to drop and the     *)
(* mode is still DROP, drop the packet in hand and take the next one.      *)
(***************************************************************************)
DropTurn(d, now) ==
    IF ~(now >= d.q.nextDrop /\ d.q.mode = "DROP")
    THEN d
    ELSE LET n == DequeueHelper([Drop(d, now) EXCEPT !.count = @ + 1], now)
         IN  [n EXCEPT !.q =
                IF n.ok THEN [n.q EXCEPT !.nextDrop = ControlLaw(n.q.count, @)]
                ELSE [n.q EXCEPT !.mode = "STORE"]]

DropLoop(d, now) ==
    Loop(LAMBDA e : DropTurn(e, now), Len(d.q.entries) + 1, d)

(* The branch of _routerqueuecodel_dequeue that turns drop mode on. *)
EnterDropMode(d, now) ==
    LET n == DequeueHelper(Drop(d, now), now)
        delta == d.q.count - d.q.last
        recent == now < d.q.nextDrop + 16 * CoDelInterval
        c == IF recent /\ delta > 1 THEN delta ELSE 1
    IN  [n EXCEPT !.q = [n.q EXCEPT !.mode = "DROP", !.count = c, !.last = c,
                                    !.nextDrop = ControlLaw(c, now)]]

CoDelDequeue(q, now) ==
    LET d == DequeueHelper(q, now)
        stored == [d EXCEPT !.q.mode = "STORE"]
    IN  IF d.pkt = NoPacket THEN stored
        ELSE IF q.mode = "DROP"
             THEN (IF d.ok THEN DropLoop(d, now) ELSE stored)
             ELSE (IF d.ok THEN EnterDropMode(d, now) ELSE d)

(* router_dequeue through the hooks: the packet (or none) and the manager. *)
Dequeue(q, now) ==
    IF q.kind = "codel" THEN CoDelDequeue(q, now)
    ELSE IF q.entries = << >> THEN [pkt |-> NoPacket, ok |-> FALSE, q |-> q]
    ELSE [pkt |-> Head(q.entries).pkt, ok |-> FALSE,
          q |-> PopHead(q)]

=============================================================================
