---------------------------- MODULE Determinism -----------------------------
(***************************************************************************)
(* Shadow promises that a simulation is repeatable: event_compare orders   *)
(* events "in a way that preserves deterministic behavior" (event.c).      *)
(* Here HostSteal, whose hosts move between threads, keeps a log of what   *)
(* every host executes and sends, and the log is compared with the one of  *)
(* a plain sequential simulation in which every event sends the same.      *)
(***************************************************************************)
EXTENDS HostSteal

VARIABLES
    log,     \* log[h]: the events h has executed and what each sent, in order
    ends     \* the ends of the rounds so far

\* The event a step executes goes to its host's log with what it sends.
Record ==
    /\ log' = [h \in Hosts |->
          LET ran == {t \in Threads : cur[t] # {} /\ cur'[t] = {} /\ \E f \in cur[t] : f.dst = h}
          IN  IF ran = {} THEN log[h]
              ELSE LET t == CHOOSE x \in ran : TRUE
                   IN  Append(log[h], <<CHOOSE f \in cur[t] : TRUE, outbox'[t]>>)]
    /\ ends' = IF barrier' # barrier THEN Append(ends, barrier') ELSE ends

DetInit == Init /\ log = [h \in Hosts |-> <<>>] /\ ends = <<barrier>>

DetNext == Next /\ Record

DetSpec == DetInit /\ [][DetNext]_<<vars, log, ends>> /\ Fairness

-----------------------------------------------------------------------------
(***************************************************************************)
(* The reference: one thread, one host after the other in every window.    *)
(***************************************************************************)
SentBy(h, e) ==
    LET entries == {k \in DOMAIN log[h] : log[h][k][1] = e}
    IN  IF entries = {} THEN <<>> ELSE log[h][CHOOSE k \in entries : TRUE][2]

RECURSIVE RunFrom(_, _, _)
RunFrom(pending, n, done) ==
    LET busy == {h \in Hosts : LeastTime(pending[h]) < ends[n]}
        h == CHOOSE g \in busy : \A i \in busy : g <= i
        e == CHOOSE f \in pending[h] : IsFirst(f, pending[h])
        s == SentBy(h, e)
    IN  IF busy # {}
        THEN RunFrom([g \in Hosts |-> (pending[g] \ {e}) \cup
                         {Adjusted(f, ends[n]) :
                             f \in {s[k] : k \in {i \in DOMAIN s : s[i].dst = g /\ Kept(s[i])}}}],
                     n, [done EXCEPT ![h] = Append(@, <<e, s>>)])
        ELSE IF n < Len(ends) THEN RunFrom(pending, n + 1, done) ELSE done

Reference ==
    RunFrom([h \in Hosts |-> BootEvents(h)], 1, [h \in Hosts |-> <<>>])

\* Whatever threads the hosts were given to, whoever steals them and in
\* whatever order events are pushed to a host, every host has executed the
\* same events in the same order as in a sequential run when the simulation
\* ends.
Deterministic == over => log = Reference
=============================================================================
