------------------------------ MODULE TcpTally ------------------------------
(***************************************************************************)
(* The two bookkeepers a TCP sender consults, as operators on records: the *)
(* tally of what was lost, selectively acknowledged and retransmitted      *)
(* (tcp_retransmit_tally.cc) and Reno congestion control                   *)
(* (tcp_cong_reno.c), both in src/phantom/src/main/host/descriptor/.  The  *)
(* tally keeps sorted vectors of half-open ranges; a set of sequence       *)
(* numbers stands for the ranges that are its maximal runs.                *)
(***************************************************************************)
EXTENDS Integers, FiniteSetsExt, Loops

CONSTANTS DupThresh,     \* kDuplAckLostThresh, and Reno's "== 3"
          RestartWindow  \* cwnd after a timeout, 10 in the code

ASSUME TallyAssumption == {DupThresh, RestartWindow} \subseteq Nat \ {0}

NewTally == [ack |-> -1, dups |-> 0, marked |-> {}, sacked |-> {}, rexmt |-> {}, lost |-> {}]

ComputeLost(y) == [y EXCEPT !.lost = (y.marked \ y.sacked) \ y.rexmt]

\* tidy_ranges: a run that ends exactly at the acknowledged number is kept whole.
TidyRanges(S, a) ==
    LET inFront == \E q \in S : q = Min(S) /\ q <= a /\ (q .. (a + 1)) \subseteq S
    IN  IF inFront THEN {q \in S : q >= a}
        ELSE {q \in S : q >= a \/ (q .. a) \subseteq S}

\* retransmit_tally_update: count a duplicate, or forget what is acknowledged;
\* at the threshold the next expected packet is lost unless it was resent.
TallyUpdate(y, ack, isDup) ==
    LET u == CASE isDup /\ ack = y.ack -> [y EXCEPT !.dups = @ + 1]
               [] ack > y.ack -> [y EXCEPT !.ack = ack, !.dups = 0,
                                           !.marked = TidyRanges(@, ack),
                                           !.sacked = TidyRanges(@, ack),
                                           !.rexmt = TidyRanges(@, ack)]
               [] OTHER -> y
    IN  IF u.dups >= DupThresh /\ u.ack \notin u.rexmt
        THEN ComputeLost([u EXCEPT !.marked = @ \cup {u.ack}])
        ELSE u

MarkSacked(y, sacks) == [y EXCEPT !.sacked = @ \cup sacks]

\* Faulty variant: the last packet sent is left out.
MarkLostShort(y, begin, end) ==
    IF begin >= end - 1 THEN y
    ELSE ComputeLost([y EXCEPT !.marked = @ \cup (begin .. (end - 2))])

\* retransmit_tally_mark_lost of begin .. end-1
MarkLost(y, begin, end) ==
    CASE begin = end + 1 -> y
      [] begin = end -> ComputeLost([y EXCEPT !.marked = @ \cup {begin}])
      [] OTHER -> ComputeLost([y EXCEPT !.marked = @ \cup (begin .. (end - 1))])

MarkRetransmitted(y) == ComputeLost([y EXCEPT !.rexmt = @ \cup y.lost])

ClearRetransmitted(y) == [y EXCEPT !.rexmt = {}]

-----------------------------------------------------------------------------
\* ca_reno_init_ and tcp_cong_reno_init, which starts with a window of one
NewReno == [cwnd |-> 1, ssthresh |-> 2147483647, nacked |-> 0, dups |-> 0, mode |-> "slow"]

Halved(r) == (r.cwnd \div 2) + 1

\* ca_reno_cong_avoid_new_ack_ev_: one more packet for each window acknowledged
CongAvoidAck(r, n) ==
    LET grow[w \in [cwnd : Nat, nacked : Nat]] ==
            IF w.nacked < w.cwnd THEN w
            ELSE grow[[cwnd |-> w.cwnd + 1, nacked |-> w.nacked - w.cwnd]]
        done == grow[[cwnd |-> r.cwnd, nacked |-> r.nacked + n]]
    IN  [r EXCEPT !.cwnd = done.cwnd, !.nacked = done.nacked]

ToCongAvoid(r, n) == CongAvoidAck([r EXCEPT !.nacked = 0, !.mode = "avoid"], n)

RenoNewAck(r, n) ==
    CASE r.mode = "avoid" -> CongAvoidAck(r, n)
      [] r.mode = "fast" -> ToCongAvoid([r EXCEPT !.dups = 0, !.cwnd = r.ssthresh], n)
      [] r.mode = "slow" ->
            IF r.cwnd + n >= r.ssthresh
            THEN ToCongAvoid([r EXCEPT !.dups = 0, !.cwnd = r.ssthresh],
                             r.cwnd + n - r.ssthresh)
            ELSE [r EXCEPT !.dups = 0, !.cwnd = @ + n]

RenoDupAck(r) ==
    CASE r.mode = "fast" -> [r EXCEPT !.cwnd = @ + 1]
      [] r.mode # "fast" /\ r.dups + 1 = DupThresh ->
            [r EXCEPT !.dups = @ + 1, !.ssthresh = Halved(r), !.cwnd = Halved(r) + 3,
                      !.mode = "fast"]
      [] OTHER -> [r EXCEPT !.dups = @ + 1]

RenoTimeout(r) ==
    [r EXCEPT !.dups = 0, !.ssthresh = Halved(r), !.cwnd = RestartWindow, !.mode = "slow"]
=============================================================================
