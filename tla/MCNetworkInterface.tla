------------------------- MODULE MCNetworkInterface -------------------------
(* Bounds for NetworkInterface: a long queue under CoDel, traffic in both    *)
(* directions under each discipline, packets that come after the buckets are *)
(* full and the refills have stopped, and datagrams larger than a bucket.    *)
EXTENDS NetworkInterface

Short == {1, 3}
Long == {3, 6}

MCSetups ==
    {[qdisc |-> "rr", manager |-> "codel", in |-> 8, out |-> 0, lengths |-> Short,
      until |-> 2, close |-> {}],
     [qdisc |-> "rr", manager |-> "single", in |-> 1, out |-> 3, lengths |-> Short,
      until |-> 2, close |-> Receivers],
     [qdisc |-> "fifo", manager |-> "static", in |-> 2, out |-> 3, lengths |-> Short,
      until |-> 2, close |-> Receivers],
     [qdisc |-> "fifo", manager |-> "static", in |-> 1, out |-> 1, lengths |-> Short,
      until |-> 7, close |-> {}],
     [qdisc |-> "rr", manager |-> "codel", in |-> 2, out |-> 2, lengths |-> Long,
      until |-> 4, close |-> {}]}
=============================================================================
