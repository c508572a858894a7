------------------------ MODULE Descriptors_proofs ------------------------
(***************************************************************************)
(* Proofs about two kinds of descriptors, Epoll and TimerFd.               *)
(*                                                                         *)
(* Epoll, for any files, masks and threads.  A call that changes a         *)
(* descriptor runs through a chain of listeners; the invariant is          *)
(* therefore stated of a state in the middle of such a chain, with the     *)
(* watches that are still to be told of a change and the epolls whose own  *)
(* status is still to be adjusted, and every link of the chain is shown to *)
(* shorten these two lists.                                                *)
(*                                                                         *)
(* TimerFd, for every set of values and intervals and every length of the  *)
(* longest delay between two events.                                       *)
(***************************************************************************)
EXTENDS Epoll, TimerFd, FiniteSetTheorems, TLAPS

Flags == {"ACTIVE", "READABLE", "WRITABLE", "CLOSED", "READCHANGED", "WRITECHANGED",
          "ET_REPORTED", "ONESHOT_REPORTED"}
Directions == {"READABLE", "WRITABLE"}

FunctionOn(f, S) == f = [x \in S |-> f[x]]

IsState(s) == s = [status |-> s.status, watch |-> s.watch, ready |-> s.ready,
                   call |-> s.call, due |-> s.due]

\* The tables of one epoll.
TableType(s, e) ==
    /\ s.watch[e] = [o \in DOMAIN s.watch[e] |-> s.watch[e][o]]
    /\ s.due[e] = [o \in DOMAIN s.watch[e] |-> s.due[e][o]]
    /\ DOMAIN s.due[e] = DOMAIN s.watch[e]
    /\ DOMAIN s.watch[e] \subseteq Watchable[e]
    /\ \A o \in DOMAIN s.watch[e] :
          /\ s.watch[e][o] \in [events : Masks[o], id : 1 .. Cardinality(DOMAIN s.watch[e]),
                                age : 0 .. Never, flags : SUBSET Flags]
          /\ s.due[e][o] \subseteq {"READABLE", "WRITABLE", "ONCE"}
    /\ \A o, p \in DOMAIN s.watch[e] : s.watch[e][o].id = s.watch[e][p].id => o = p
    /\ s.ready[e] \subseteq DOMAIN s.watch[e]
    /\ Closed(s, e) => DOMAIN s.watch[e] = {}

\* The same of the tables themselves.
Tabled(W, D, R, e) ==
    /\ W = [o \in DOMAIN W |-> W[o]]
    /\ D = [o \in DOMAIN W |-> D[o]]
    /\ DOMAIN D = DOMAIN W
    /\ DOMAIN W \subseteq Watchable[e]
    /\ \A o \in DOMAIN W :
          /\ W[o] \in [events : Masks[o], id : 1 .. Cardinality(DOMAIN W),
                       age : 0 .. Never, flags : SUBSET Flags]
          /\ D[o] \subseteq {"READABLE", "WRITABLE", "ONCE"}
    /\ \A o, p \in DOMAIN W : W[o].id = W[p].id => o = p
    /\ R \subseteq DOMAIN W

StateType(s) ==
    /\ IsState(s)
    /\ s.status \in [Files \cup Epolls -> SUBSET Bits]
    /\ s.watch = [e \in Epolls |-> s.watch[e]]
    /\ s.due = [e \in Epolls |-> s.due[e]]
    /\ s.ready = [e \in Epolls |-> s.ready[e]]
    /\ s.call \in [Threads -> [max : MaxEvents \cup {0}, timed : BOOLEAN,
                               signal : {"none", "status", "timeout"}]]
    /\ \A e \in Epolls : TableType(s, e)

\* The flags of a watch and the ghost agree on what was switched on since the
\* last report; b \notin flags means that the watch does not know it yet.
Tracks(s, e, o) ==
    LET w == s.watch[e][o]
    IN  /\ "ET" \in w.events => \A b \in Directions :
              b \in s.due[e][o] <=>
                 /\ b \in s.status[o]
                 /\ "ET_REPORTED" \notin w.flags \/ ChangedFlag(b) \in w.flags \/ b \notin w.flags
        /\ "ONESHOT" \in w.events => ("ONCE" \in s.due[e][o] <=> "ONESHOT_REPORTED" \notin w.flags)

\* A watch that has been told: it knows the status of its descriptor, and is
\* in the table ready if it has an event.
Told(s, e, o) ==
    LET w == s.watch[e][o]
    IN  /\ w.flags \cap Bits = s.status[o]
        /\ IsReady(w) => o \in s.ready[e]
        /\ o \in s.ready[e] =>
              IsReady(w) \/ "ET_REPORTED" \in w.flags \/ "ONESHOT_REPORTED" \in w.flags

\* The watches; those in X are still to be told.
WatchesInv(s, X) ==
    \A e \in Epolls : \A o \in DOMAIN s.watch[e] :
        Tracks(s, e, o) /\ (<<e, o>> \notin X => Told(s, e, o))

\* The epolls' own status; those in Y are still to be adjusted.
OwnInv(s, Y) ==
    \A e \in Epolls \ Y : ~Closed(s, e) => ("READABLE" \in s.status[e] <=> s.ready[e] # {})

\* A thread that is blocked waits on an epoll that is not readable.
WaitersInv(s) ==
    \A t \in Threads :
        s.call[t] # NoCall /\ s.call[t].signal = "none" /\ ~Closed(s, Serves[t]) =>
            "READABLE" \notin s.status[Serves[t]]

StateInv(s, X, Y) == StateType(s) /\ WatchesInv(s, X) /\ OwnInv(s, Y) /\ WaitersInv(s)

\* The inductive invariant: between two calls nothing is left to be told or
\* adjusted.
IInv == StateInv(State, {}, {}) /\ nctl \in 0 .. MaxCtl

-----------------------------------------------------------------------------
(***************************************************************************)
(* The operators on states                                                 *)
(***************************************************************************)

\* The tables of an epoll, given one by one.
LEMMA TableOf ==
    ASSUME NEW s, NEW e, NEW W, NEW D, NEW R, Tabled(W, D, R, e),
           s.watch[e] = W, s.due[e] = D, s.ready[e] = R,
           Closed(s, e) => DOMAIN W = {}
    PROVE  TableType(s, e)
<1> QED BY DEF Tabled, TableType

\* What the constants say of epolls and what they watch.
LEMMA Descriptors ==
    /\ Inner \in Epolls /\ Outer \in Epolls /\ Inner # Outer
    /\ Outer \notin Objects /\ Inner \in Objects
    /\ \A f \in Files : f \in Objects /\ f # Inner /\ f # Outer /\ f \notin Epolls
    /\ \A e \in Epolls : Watchable[e] \subseteq Objects /\ Watchable[e] \subseteq Files \cup Epolls
    /\ Inner \notin Watchable[Inner] /\ Outer \notin Watchable[Inner] /\ Outer \notin Watchable[Outer]
    BY EpollAssumption DEF Epolls, Objects

\* The ghost of watch p of epoll e when descriptor o takes the status st.
NewDue(s, e, o, st, p) ==
    IF p = o THEN (s.due[e][p] \cap (st \cup {"ONCE"})) \cup NewlyOn(s, e, o, st)
             ELSE s.due[e][p]

\* u is s with the status st for descriptor o, and the ghost that goes with it.
IsSetStatus(s, o, st, u) ==
    /\ IsState(u) /\ u.watch = s.watch /\ u.ready = s.ready /\ u.call = s.call
    /\ u.status = [s.status EXCEPT ![o] = st]
    /\ u.status \in [Files \cup Epolls -> SUBSET Bits]
    /\ FunctionOn(u.due, Epolls)
    /\ \A e \in Epolls :
          /\ FunctionOn(u.due[e], DOMAIN s.watch[e]) /\ DOMAIN u.due[e] = DOMAIN s.watch[e]
          /\ \A p \in DOMAIN s.watch[e] : u.due[e][p] = NewDue(s, e, o, st, p)

\* SetStatus changes the status of one descriptor, and the ghost for it.
LEMMA SetStatusState ==
    ASSUME NEW s, StateType(s), NEW o \in Files \cup Epolls, NEW st \in SUBSET Bits,
           NEW u, u = SetStatus(s, o, st)
    PROVE  IsSetStatus(s, o, st, u)
<1> DEFINE d == [e \in Epolls |-> [p \in DOMAIN s.due[e] |-> NewDue(s, e, o, st, p)]]
<1>1. s = [status |-> s.status, watch |-> s.watch, ready |-> s.ready, call |-> s.call, due |-> s.due]
    BY DEF StateType, IsState
<1>2. u = [s EXCEPT !.status[o] = st, !.due = d]
    BY DEF SetStatus, NewDue
<1>3. \A e \in Epolls : DOMAIN s.due[e] = DOMAIN s.watch[e]
    BY DEF StateType, TableType
<1> HIDE DEF d
<1>4. u = [status |-> [s.status EXCEPT ![o] = st], watch |-> s.watch, ready |-> s.ready,
           call |-> s.call, due |-> d]
    BY <1>1, <1>2
<1>5. /\ IsState(u) /\ u.watch = s.watch /\ u.ready = s.ready /\ u.call = s.call
      /\ u.status = [s.status EXCEPT ![o] = st] /\ u.due = d
    BY <1>4 DEF IsState
<1>6. u.status \in [Files \cup Epolls -> SUBSET Bits]
    BY <1>5 DEF StateType
<1> QED BY <1>3, <1>5, <1>6 DEF d, FunctionOn, IsSetStatus

\* UpdateWatch brings one watch up to date and decides whether it is ready.
LEMMA UpdateWatchState ==
    ASSUME NEW s, StateType(s), NEW e \in Epolls, NEW o \in DOMAIN s.watch[e], ~Closed(s, e),
           NEW u, u = UpdateWatch(s, e, o),
           NEW w, w = UpdateStatus(s.watch[e][o], s.status[o])
    PROVE  /\ IsState(u) /\ u.status = s.status /\ u.call = s.call /\ u.due = s.due
           /\ u.watch = [s.watch EXCEPT ![e] = [s.watch[e] EXCEPT ![o] = w]]
           /\ u.ready = [s.ready EXCEPT ![e] = IF IsReady(w) THEN @ \cup {o} ELSE @ \ {o}]
<1>1. s = [status |-> s.status, watch |-> s.watch, ready |-> s.ready, call |-> s.call, due |-> s.due]
    BY DEF StateType, IsState
<1>2. u = [s EXCEPT !.watch[e][o] = w, !.ready[e] = IF IsReady(w) THEN @ \cup {o} ELSE @ \ {o}]
    BY DEF UpdateWatch
<1>3. u = [status |-> s.status, watch |-> [s.watch EXCEPT ![e] = [s.watch[e] EXCEPT ![o] = w]],
           ready |-> [s.ready EXCEPT ![e] = IF IsReady(w) THEN @ \cup {o} ELSE @ \ {o}],
           call |-> s.call, due |-> s.due]
    BY <1>1, <1>2
<1> QED BY <1>3 DEF IsState

\* AdjustOwn changes the status of the epoll and tells the threads that wait.
IsAdjusted(s, e, st, u) ==
    LET v == SetStatus(s, e, st)
        on == "READABLE" \in st \ s.status[e]
    IN  /\ IsState(u) /\ u.status = v.status /\ u.watch = v.watch /\ u.ready = v.ready
        /\ u.due = v.due /\ st \in SUBSET Bits
        /\ u.call = [t \in Threads |->
              IF on /\ Serves[t] = e /\ s.call[t] # NoCall /\ s.call[t].signal = "none"
              THEN [s.call[t] EXCEPT !.signal = "status"] ELSE s.call[t]]

LEMMA AdjustOwnState ==
    ASSUME NEW s, StateType(s), NEW e \in Epolls,
           NEW st, st = (s.status[e] \ {"READABLE"}) \cup (IF s.ready[e] # {} THEN {"READABLE"} ELSE {})
    PROVE  IsAdjusted(s, e, st, AdjustOwn(s, e))
<1> DEFINE u == AdjustOwn(s, e)
<1> DEFINE v == SetStatus(s, e, st)
           on == "READABLE" \in st \ s.status[e]
           c == [t \in Threads |->
                     IF on /\ Serves[t] = e /\ s.call[t] # NoCall /\ s.call[t].signal = "none"
                     THEN [s.call[t] EXCEPT !.signal = "status"] ELSE s.call[t]]
<1>1. st \in SUBSET Bits
    BY DEF StateType, Bits
<1>2. IsState(v)
    BY <1>1, SetStatusState DEF IsSetStatus
<1>3. u = [v EXCEPT !.call = c]
    BY DEF AdjustOwn
<1> HIDE DEF v, c, u
<1>4. u = [status |-> v.status, watch |-> v.watch, ready |-> v.ready, call |-> c, due |-> v.due]
    BY <1>2, <1>3 DEF IsState
<1>5. /\ IsState(u) /\ u.status = v.status /\ u.watch = v.watch /\ u.ready = v.ready
      /\ u.due = v.due /\ u.call = c
    BY <1>4 DEF IsState
<1>6. IsAdjusted(s, e, st, u)
    BY <1>1, <1>5 DEF v, c, IsAdjusted
<1> QED BY <1>6 DEF u

\* The flags of a watch after an update.
NewFlags(f, st) ==
    st \cup (f \cap Lazy) \cup
    {ChangedFlag(b) : b \in {x \in {"READABLE", "WRITABLE"} : (x \in f) # (x \in st)}}

\* An update takes over the status and keeps what was reported; a direction is
\* marked as changed if it was before, or is switched on now.
LEMMA NewFlagsOf ==
    ASSUME NEW f \in SUBSET Flags, NEW st \in SUBSET Bits, NEW g, g = NewFlags(f, st)
    PROVE  /\ g \in SUBSET Flags /\ g \cap Bits = st
           /\ "ET_REPORTED" \in g <=> "ET_REPORTED" \in f
           /\ "ONESHOT_REPORTED" \in g <=> "ONESHOT_REPORTED" \in f
           /\ \A b \in Directions \cap st :
                 ChangedFlag(b) \in g <=> ChangedFlag(b) \in f \/ b \notin f
<1> DEFINE c == {ChangedFlag(b) : b \in {x \in {"READABLE", "WRITABLE"} : (x \in f) # (x \in st)}}
<1>1. g = st \cup (f \cap Lazy) \cup c
    BY DEF NewFlags
<1>2. /\ "READCHANGED" \in c <=> ("READABLE" \in f) # ("READABLE" \in st)
      /\ "WRITECHANGED" \in c <=> ("WRITABLE" \in f) # ("WRITABLE" \in st)
      /\ c \subseteq {"READCHANGED", "WRITECHANGED"}
    BY DEF ChangedFlag
<1> HIDE DEF c
<1>3. g \subseteq Flags /\ g \cap Bits = st
    BY <1>1, <1>2 DEF Flags, Bits, Lazy
<1>4. /\ "ET_REPORTED" \in g <=> "ET_REPORTED" \in f
      /\ "ONESHOT_REPORTED" \in g <=> "ONESHOT_REPORTED" \in f
    BY <1>1, <1>2 DEF Bits, Lazy
<1>5. ASSUME NEW b \in Directions \cap st
      PROVE  ChangedFlag(b) \in g <=> ChangedFlag(b) \in f \/ b \notin f
  <2>1. CASE b = "READABLE"
      BY <1>1, <1>2, <2>1 DEF Bits, Lazy, ChangedFlag
  <2>2. CASE b = "WRITABLE"
      BY <1>1, <1>2, <2>2 DEF Bits, Lazy, ChangedFlag
  <2> QED BY <2>1, <2>2 DEF Directions
<1> QED BY <1>3, <1>4, <1>5

\* The number of watches of an epoll.
LEMMA WatchCount ==
    ASSUME NEW s, StateType(s), NEW e \in Epolls
    PROVE  /\ IsFiniteSet(DOMAIN s.watch[e]) /\ Cardinality(DOMAIN s.watch[e]) \in Nat
           /\ Cardinality(DOMAIN s.watch[e]) < Never /\ Never \in Nat
           /\ IsFiniteSet(Objects) /\ DOMAIN s.watch[e] \subseteq Objects
<1>1. IsFiniteSet(Objects)
    BY EpollAssumption, FS_AddElement DEF Objects
<1>2. DOMAIN s.watch[e] \subseteq Objects
    BY Descriptors DEF StateType, TableType
<1>3. /\ IsFiniteSet(DOMAIN s.watch[e]) /\ Cardinality(DOMAIN s.watch[e]) <= Cardinality(Objects)
    BY <1>1, <1>2, FS_Subset
<1>4. Cardinality(DOMAIN s.watch[e]) \in Nat /\ Cardinality(Objects) \in Nat
    BY <1>1, <1>3, FS_CardinalityType
<1> QED BY <1>1, <1>2, <1>3, <1>4 DEF Never

\* The tables of an epoll that a step leaves alone.
LEMMA SameTable ==
    ASSUME NEW s, NEW u, NEW e, TableType(s, e), u.watch[e] = s.watch[e], u.due[e] = s.due[e],
           u.ready[e] = s.ready[e], u.status[e] = s.status[e]
    PROVE  TableType(u, e)
    BY DEF TableType, Closed

\* The epoll updates one watch: it is told, and the epoll is to be adjusted.
LEMMA UpdateWatchInv ==
    ASSUME NEW s, NEW X, NEW Y, StateInv(s, X, Y), NEW e \in Epolls, NEW o,
           NEW u, u = UpdateWatch(s, e, o)
    PROVE  StateInv(u, X \ {<<e, o>>}, Y \cup {e}) /\ u.status = s.status
<1> USE DEF StateInv
<1>1. CASE o \notin DOMAIN s.watch[e] \/ Closed(s, e)
  <2>1. o \notin DOMAIN s.watch[e]
      BY <1>1 DEF StateType, TableType
  <2>2. u = s
      BY <1>1 DEF UpdateWatch
  <2>3. WatchesInv(s, X \ {<<e, o>>})
    <3>1. \A d \in Epolls : \A p \in DOMAIN s.watch[d] : <<d, p>> \notin X \ {<<e, o>>} => <<d, p>> \notin X
        BY <2>1
    <3> QED BY <3>1 DEF WatchesInv
  <2>4. OwnInv(s, Y \cup {e})
      BY DEF OwnInv
  <2> QED BY <2>2, <2>3, <2>4
<1>2. CASE o \in DOMAIN s.watch[e] /\ ~Closed(s, e)
  <2> DEFINE w == s.watch[e][o]
             v == UpdateStatus(w, s.status[o])
  <2>1. /\ IsState(u) /\ u.status = s.status /\ u.call = s.call /\ u.due = s.due
        /\ u.watch = [s.watch EXCEPT ![e] = [s.watch[e] EXCEPT ![o] = v]]
        /\ u.ready = [s.ready EXCEPT ![e] = IF IsReady(v) THEN @ \cup {o} ELSE @ \ {o}]
      BY <1>2, UpdateWatchState
  <2>2. /\ s.watch = [d \in Epolls |-> s.watch[d]] /\ s.ready = [d \in Epolls |-> s.ready[d]]
        /\ \A d \in Epolls : TableType(s, d)
      BY DEF StateType
  <2>3. o \in Watchable[e] /\ s.status[o] \in SUBSET Bits
      BY <1>2, <2>2, Descriptors DEF TableType, StateType
  <2>4. /\ v \in [events : Masks[o], id : 1 .. Cardinality(DOMAIN s.watch[e]), age : 0 .. Never,
                  flags : SUBSET Flags]
        /\ v.events = w.events /\ v.id = w.id /\ v.age = w.age
        /\ v.flags \cap Bits = s.status[o]
        /\ "ET_REPORTED" \in v.flags <=> "ET_REPORTED" \in w.flags
        /\ "ONESHOT_REPORTED" \in v.flags <=> "ONESHOT_REPORTED" \in w.flags
        /\ \A b \in Directions \cap s.status[o] :
              ChangedFlag(b) \in v.flags <=> ChangedFlag(b) \in w.flags \/ b \notin w.flags
    <3> DEFINE f == w.flags
               g == NewFlags(f, s.status[o])
    <3>1. w \in [events : Masks[o], id : 1 .. Cardinality(DOMAIN s.watch[e]), age : 0 .. Never,
                 flags : SUBSET Flags]
        BY <1>2, <2>2 DEF TableType
    <3>2. v = [w EXCEPT !.flags = g]
        BY DEF UpdateStatus, NewFlags
    <3> HIDE DEF w, v
    <3>3. f \in SUBSET Flags
        BY <3>1
    <3> HIDE DEF f, g
    <3>4. /\ g \in SUBSET Flags /\ g \cap Bits = s.status[o]
          /\ "ET_REPORTED" \in g <=> "ET_REPORTED" \in f
          /\ "ONESHOT_REPORTED" \in g <=> "ONESHOT_REPORTED" \in f
          /\ \A b \in Directions \cap s.status[o] :
                ChangedFlag(b) \in g <=> ChangedFlag(b) \in f \/ b \notin f
        BY <2>3, <3>3, NewFlagsOf DEF g
    <3>5. /\ v.flags = g /\ v.events = w.events /\ v.id = w.id /\ v.age = w.age
          /\ v \in [events : Masks[o], id : 1 .. Cardinality(DOMAIN s.watch[e]), age : 0 .. Never,
                    flags : SUBSET Flags]
        BY <3>1, <3>2, <3>4
    <3> QED BY <3>4, <3>5 DEF f
  <2> HIDE DEF v, w
  <2>5. /\ DOMAIN u.watch[e] = DOMAIN s.watch[e] /\ u.watch[e][o] = v
        /\ \A p \in DOMAIN s.watch[e] : p # o => u.watch[e][p] = s.watch[e][p]
        /\ u.watch[e] = [p \in DOMAIN s.watch[e] |-> u.watch[e][p]]
        /\ \A d \in Epolls : d # e => u.watch[d] = s.watch[d] /\ u.ready[d] = s.ready[d]
        /\ u.watch = [d \in Epolls |-> u.watch[d]] /\ u.ready = [d \in Epolls |-> u.ready[d]]
        /\ u.ready[e] = IF IsReady(v) THEN s.ready[e] \cup {o} ELSE s.ready[e] \ {o}
    <3>1. s.watch[e] = [p \in DOMAIN s.watch[e] |-> s.watch[e][p]]
        BY <2>2 DEF TableType
    <3> DEFINE W == [s.watch[e] EXCEPT ![o] = v]
               R == IF IsReady(v) THEN s.ready[e] \cup {o} ELSE s.ready[e] \ {o}
    <3>2. /\ DOMAIN W = DOMAIN s.watch[e] /\ W[o] = v
          /\ \A p \in DOMAIN s.watch[e] : p # o => W[p] = s.watch[e][p]
          /\ W = [p \in DOMAIN s.watch[e] |-> W[p]]
        BY <1>2, <3>1
    <3> HIDE DEF W, R
    <3>3. /\ u.watch[e] = W /\ u.watch = [d \in Epolls |-> u.watch[d]]
          /\ \A d \in Epolls : d # e => u.watch[d] = s.watch[d]
        BY <2>1, <2>2 DEF W
    <3>4. /\ u.ready[e] = R /\ u.ready = [d \in Epolls |-> u.ready[d]]
          /\ \A d \in Epolls : d # e => u.ready[d] = s.ready[d]
        BY <2>1, <2>2 DEF R
    <3> QED BY <3>2, <3>3, <3>4 DEF R
  <2>6. StateType(u)
    <3>1. TableType(u, e)
      <4>1. TableType(s, e)
          BY <2>2
      <4>2. \A p \in DOMAIN s.watch[e] : u.watch[e][p].id = s.watch[e][p].id
          BY <2>4, <2>5 DEF w
      <4>3. u.ready[e] \subseteq DOMAIN s.watch[e]
          BY <1>2, <2>5, <4>1 DEF TableType
      <4>4. ASSUME NEW p \in DOMAIN s.watch[e]
            PROVE  u.watch[e][p] \in [events : Masks[p], id : 1 .. Cardinality(DOMAIN s.watch[e]),
                                      age : 0 .. Never, flags : SUBSET Flags]
          BY <2>4, <2>5, <4>1 DEF TableType
      <4>5. \A p, q \in DOMAIN s.watch[e] : u.watch[e][p].id = u.watch[e][q].id => p = q
          BY <4>1, <4>2 DEF TableType
      <4>6. ~Closed(u, e)
          BY <1>2, <2>1 DEF Closed
      <4>7. /\ u.due[e] = [p \in DOMAIN s.watch[e] |-> u.due[e][p]] /\ DOMAIN u.due[e] = DOMAIN s.watch[e]
            /\ \A p \in DOMAIN s.watch[e] : u.due[e][p] \subseteq {"READABLE", "WRITABLE", "ONCE"}
            /\ DOMAIN s.watch[e] \subseteq Watchable[e]
        <5>1. u.due[e] = s.due[e]
            BY <2>1
        <5> QED BY <4>1, <5>1 DEF TableType
      <4> DEFINE W == u.watch[e]
                 D == u.due[e]
                 R == u.ready[e]
      <4>8. DOMAIN W = DOMAIN s.watch[e] /\ W = [p \in DOMAIN s.watch[e] |-> W[p]]
          BY <2>5
      <4> HIDE DEF W, D, R
      <4>9. /\ R \subseteq DOMAIN W /\ DOMAIN W \subseteq Watchable[e]
            /\ D = [p \in DOMAIN W |-> D[p]] /\ DOMAIN D = DOMAIN W
            /\ \A p \in DOMAIN W : D[p] \subseteq {"READABLE", "WRITABLE", "ONCE"}
            /\ \A p, q \in DOMAIN W : W[p].id = W[q].id => p = q
          BY <4>3, <4>5, <4>7, <4>8 DEF W, D, R
      <4>10. ASSUME NEW p \in DOMAIN W
             PROVE  W[p] \in [events : Masks[p], id : 1 .. Cardinality(DOMAIN W),
                              age : 0 .. Never, flags : SUBSET Flags]
          BY <4>4, <4>8 DEF W
      <4>11. Tabled(W, D, R, e)
          BY <4>8, <4>9, <4>10 DEF Tabled
      <4>12. u.watch[e] = W /\ u.due[e] = D /\ u.ready[e] = R
          BY DEF W, D, R
      <4> QED BY <4>6, <4>11, <4>12, TableOf
    <3>2. ASSUME NEW d \in Epolls, d # e
          PROVE  TableType(u, d)
        BY <2>1, <2>2, <2>5, <3>2, SameTable
    <3> QED BY <2>1, <2>5, <3>1, <3>2 DEF StateType
  <2>7. WatchesInv(u, X \ {<<e, o>>})
    <3> SUFFICES ASSUME NEW d \in Epolls, NEW p \in DOMAIN u.watch[d]
                 PROVE  Tracks(u, d, p) /\ (<<d, p>> \notin X \ {<<e, o>>} => Told(u, d, p))
        BY DEF WatchesInv
    <3>1. CASE d = e /\ p = o
      <4>0. Tracks(s, e, o)
          BY <1>2 DEF WatchesInv
      <4>1. Tracks(u, e, o)
        <5>1. \A b \in Directions \cap s.status[o] : b \in v.flags
            BY <2>4
        <5> QED BY <2>1, <2>4, <2>5, <4>0, <5>1 DEF Tracks, w
      <4>2. Told(u, e, o)
        <5>1. IsReady(v) <=> o \in u.ready[e]
            BY <2>5
        <5> QED BY <2>1, <2>4, <2>5, <5>1 DEF Told
      <4> QED BY <3>1, <4>1, <4>2
    <3>2. CASE ~(d = e /\ p = o)
      <4>1. p \in DOMAIN s.watch[d] /\ u.watch[d][p] = s.watch[d][p] /\ (p \in u.ready[d] <=> p \in s.ready[d])
          BY <2>5, <3>2
      <4>2. Tracks(s, d, p) /\ (<<d, p>> \notin X => Told(s, d, p))
          BY <4>1 DEF WatchesInv
      <4>3. <<d, p>> # <<e, o>>
          BY <3>2
      <4>4. Tracks(u, d, p)
          BY <2>1, <4>1, <4>2 DEF Tracks
      <4>5. Told(s, d, p) => Told(u, d, p)
          BY <2>1, <4>1 DEF Told
      <4> QED BY <4>2, <4>3, <4>4, <4>5
    <3> QED BY <3>1, <3>2
  <2>8. OwnInv(u, Y \cup {e})
      BY <2>1, <2>5 DEF OwnInv, Closed
  <2>9. WaitersInv(u)
      BY <2>1 DEF WaitersInv, Closed
  <2> QED BY <2>1, <2>6, <2>7, <2>8, <2>9
<1> QED BY <1>1, <1>2

\* The invariant of the watches is about status, watches, ready and ghost.
LEMMA SameWatches ==
    ASSUME NEW s, NEW u, NEW X, WatchesInv(s, X),
           u.status = s.status, u.watch = s.watch, u.ready = s.ready, u.due = s.due
    PROVE  WatchesInv(u, X)
<1> SUFFICES ASSUME NEW e \in Epolls, NEW o \in DOMAIN s.watch[e]
             PROVE  Tracks(u, e, o) /\ (<<e, o>> \notin X => Told(u, e, o))
    BY DEF WatchesInv
<1>1. Tracks(s, e, o) /\ (<<e, o>> \notin X => Told(s, e, o))
    BY DEF WatchesInv
<1>2. Tracks(u, e, o)
    BY <1>1 DEF Tracks
<1>3. Told(s, e, o) => Told(u, e, o)
    BY DEF Told
<1> QED BY <1>1, <1>2, <1>3

\* A descriptor changes its status: its watches are to be told.
LEMMA SetStatusInv ==
    ASSUME NEW s, NEW X, StateType(s), WatchesInv(s, X),
           NEW o \in Files \cup Epolls, NEW st \in SUBSET Bits,
           \A e \in Epolls : <<e, o>> \notin X,
           o \in Epolls /\ "CLOSED" \in st => DOMAIN s.watch[o] = {},
           NEW u, u = SetStatus(s, o, st)
    PROVE  /\ StateType(u)
           /\ WatchesInv(u, X \cup {<<e, o>> : e \in Epolls})
           /\ st = s.status[o] => WatchesInv(u, X)
<1>1. /\ IsState(u) /\ u.watch = s.watch /\ u.ready = s.ready /\ u.call = s.call
      /\ u.status = [s.status EXCEPT ![o] = st]
      /\ u.status \in [Files \cup Epolls -> SUBSET Bits]
      /\ FunctionOn(u.due, Epolls)
      /\ \A e \in Epolls :
            /\ FunctionOn(u.due[e], DOMAIN s.watch[e]) /\ DOMAIN u.due[e] = DOMAIN s.watch[e]
            /\ \A p \in DOMAIN s.watch[e] : u.due[e][p] = NewDue(s, e, o, st, p)
  <2>1. IsSetStatus(s, o, st, u)
      BY SetStatusState
  <2> QED BY <2>1 DEF IsSetStatus
<1>2. u.status[o] = st /\ \A p \in Files \cup Epolls : p # o => u.status[p] = s.status[p]
    BY <1>1 DEF StateType
<1>3. StateType(u)
  <2>1. ASSUME NEW e \in Epolls
        PROVE  TableType(u, e)
    <3>1. TableType(s, e)
        BY DEF StateType
    <3>2. \A p \in DOMAIN s.watch[e] : u.due[e][p] \subseteq {"READABLE", "WRITABLE", "ONCE"}
      <4>1. NewlyOn(s, e, o, st) \subseteq {"READABLE", "WRITABLE"}
          BY DEF NewlyOn
      <4>2. \A p \in DOMAIN s.watch[e] : s.due[e][p] \subseteq {"READABLE", "WRITABLE", "ONCE"}
          BY <3>1 DEF TableType
      <4>3. ASSUME NEW p \in DOMAIN s.watch[e]
            PROVE  NewDue(s, e, o, st, p) \subseteq s.due[e][p] \cup NewlyOn(s, e, o, st)
          BY DEF NewDue
      <4>4. \A p \in DOMAIN s.watch[e] : u.due[e][p] = NewDue(s, e, o, st, p)
          BY <1>1
      <4> QED BY <4>1, <4>2, <4>3, <4>4
    <3>3. Closed(u, e) => DOMAIN s.watch[e] = {}
        BY <1>2, <3>1 DEF Closed, TableType
    <3>4. u.due[e] = [p \in DOMAIN s.watch[e] |-> u.due[e][p]]
        BY <1>1 DEF FunctionOn
    <3>5. DOMAIN u.due[e] = DOMAIN s.watch[e]
        BY <1>1
    <3> DEFINE W == s.watch[e]
               D == u.due[e]
    <3>6. /\ W = [p \in DOMAIN W |-> W[p]] /\ DOMAIN W \subseteq Watchable[e]
          /\ \A p \in DOMAIN W : W[p] \in [events : Masks[p], id : 1 .. Cardinality(DOMAIN W),
                                          age : 0 .. Never, flags : SUBSET Flags]
          /\ \A p, q \in DOMAIN W : W[p].id = W[q].id => p = q
          /\ s.ready[e] \subseteq DOMAIN W
        BY <3>1 DEF TableType
    <3>7. u.watch[e] = W /\ u.ready[e] = s.ready[e]
        BY <1>1
    <3> HIDE DEF W, D
    <3>8. /\ D = [p \in DOMAIN W |-> D[p]] /\ DOMAIN D = DOMAIN W
          /\ \A p \in DOMAIN W : D[p] \subseteq {"READABLE", "WRITABLE", "ONCE"}
        BY <3>2, <3>4, <3>5 DEF W, D
    <3>9. Tabled(W, D, s.ready[e], e)
        BY <3>6, <3>8 DEF Tabled
    <3>10. u.due[e] = D /\ (Closed(u, e) => DOMAIN W = {})
        BY <3>3 DEF W, D
    <3> QED BY <3>7, <3>9, <3>10, TableOf
  <2> QED BY <1>1, <2>1 DEF StateType, FunctionOn
<1>4. ASSUME NEW e \in Epolls, NEW p \in DOMAIN s.watch[e], p # o
      PROVE  Tracks(u, e, p) /\ (<<e, p>> \notin X => Told(u, e, p))
  <2>1. p \in Files \cup Epolls
      BY Descriptors DEF StateType, TableType
  <2>2. Tracks(s, e, p) /\ (<<e, p>> \notin X => Told(s, e, p))
      BY DEF WatchesInv
  <2>3. u.status[p] = s.status[p] /\ u.due[e][p] = s.due[e][p]
      BY <1>1, <1>2, <1>4, <2>1 DEF NewDue
  <2>4. Tracks(u, e, p)
      BY <1>1, <2>2, <2>3 DEF Tracks
  <2>5. Told(s, e, p) => Told(u, e, p)
      BY <1>1, <2>3 DEF Told
  <2> QED BY <2>2, <2>4, <2>5
<1>5. ASSUME NEW e \in Epolls, o \in DOMAIN s.watch[e]
      PROVE  Tracks(u, e, o) /\ (st = s.status[o] => Told(u, e, o))
  <2>1. Tracks(s, e, o) /\ Told(s, e, o)
      BY <1>5 DEF WatchesInv
  <2> DEFINE w == s.watch[e][o]
             old == s.status[o]
             d == s.due[e][o]
             dd == u.due[e][o]
  <2>2. w.flags \cap Bits = old
      BY <2>1 DEF Told
  <2>3. dd = (d \cap (st \cup {"ONCE"})) \cup
             (IF "ET" \in w.events THEN (st \ old) \cap Directions ELSE {})
      BY <1>1, <1>5 DEF NewDue, NewlyOn, Directions
  <2>4. /\ "ET" \in w.events => \A b \in Directions :
              b \in d <=> /\ b \in old
                          /\ "ET_REPORTED" \notin w.flags \/ ChangedFlag(b) \in w.flags \/ b \notin w.flags
        /\ "ONESHOT" \in w.events => ("ONCE" \in d <=> "ONESHOT_REPORTED" \notin w.flags)
      BY <2>1 DEF Tracks
  <2> HIDE DEF w, old, d, dd
  <2>5. ASSUME "ET" \in w.events, NEW b \in Directions
        PROVE  b \in dd <=> /\ b \in st
                            /\ "ET_REPORTED" \notin w.flags \/ ChangedFlag(b) \in w.flags \/ b \notin w.flags
    <3>1. b \in Bits /\ b # "ONCE"
        BY DEF Directions, Bits
    <3>2. b \in w.flags <=> b \in old
        BY <2>2, <3>1
    <3>3. b \in dd <=> (b \in d /\ b \in st) \/ (b \in st /\ b \notin old)
        BY <2>3, <2>5, <3>1
    <3> QED BY <2>4, <2>5, <3>2, <3>3
  <2>6. "ONCE" \in dd <=> "ONCE" \in d
    <3>1. "ONCE" \notin Directions
        BY DEF Directions
    <3> QED BY <2>3, <3>1
  <2>7. Tracks(u, e, o)
      BY <1>1, <1>2, <2>4, <2>5, <2>6 DEF Tracks, w, dd
  <2>8. st = s.status[o] => Told(u, e, o)
      BY <1>1, <1>2, <2>1 DEF Told
  <2> QED BY <2>7, <2>8
<1>8. \A e \in Epolls : DOMAIN u.watch[e] = DOMAIN s.watch[e]
    BY <1>1
<1>6. WatchesInv(u, X \cup {<<e, o>> : e \in Epolls})
  <2> DEFINE Z == X \cup {<<e, o>> : e \in Epolls}
  <2>1. ASSUME NEW e \in Epolls, NEW p \in DOMAIN u.watch[e]
        PROVE  Tracks(u, e, p) /\ (<<e, p>> \notin Z => Told(u, e, p))
    <3>1. CASE p = o
      <4>1. <<e, p>> \in Z
          BY <3>1
      <4> QED BY <1>5, <1>8, <3>1, <4>1
    <3>2. CASE p # o
        BY <1>4, <1>8, <3>2
    <3> QED BY <3>1, <3>2
  <2> HIDE DEF Z
  <2>2. WatchesInv(u, Z)
      BY <2>1 DEF WatchesInv
  <2> QED BY <2>2 DEF Z
<1>7. st = s.status[o] => WatchesInv(u, X)
    BY <1>4, <1>5, <1>8 DEF WatchesInv
<1> QED BY <1>3, <1>6, <1>7

\* An epoll adjusts its own status: a parent is to be told if it changes.
LEMMA AdjustOwnInv ==
    ASSUME NEW s, NEW X, NEW Y, StateInv(s, X, Y), NEW e \in Epolls,
           \A d \in Epolls : <<d, e>> \notin X,
           NEW u, u = AdjustOwn(s, e)
    PROVE  /\ StateInv(u, X \cup {<<Outer, Inner>>}, Y \ {e})
           /\ u.status[e] = s.status[e] \/ e = Outer => StateInv(u, X, Y \ {e})
           /\ Closed(u, e) <=> Closed(s, e)
<1> USE DEF StateInv
<1> DEFINE st == (s.status[e] \ {"READABLE"}) \cup (IF s.ready[e] # {} THEN {"READABLE"} ELSE {})
           v == SetStatus(s, e, st)
           on == "READABLE" \in st \ s.status[e]
<1>1. /\ IsState(u) /\ u.status = v.status /\ u.watch = v.watch /\ u.ready = v.ready
      /\ u.due = v.due /\ st \in SUBSET Bits
      /\ u.call = [t \in Threads |->
            IF on /\ Serves[t] = e /\ s.call[t] # NoCall /\ s.call[t].signal = "none"
            THEN [s.call[t] EXCEPT !.signal = "status"] ELSE s.call[t]]
  <2>1. IsAdjusted(s, e, st, u)
    <3> HIDE DEF v, on
    <3> QED BY AdjustOwnState
  <2> QED BY <2>1 DEF IsAdjusted
<1>2. "READABLE" \in st <=> s.ready[e] # {}
    OBVIOUS
<1>3. "CLOSED" \in st <=> Closed(s, e)
    BY DEF Closed
<1> HIDE DEF st
<1>a. e \in Files \cup Epolls
    OBVIOUS
<1>4. /\ v.watch = s.watch /\ v.ready = s.ready /\ v.status = [s.status EXCEPT ![e] = st]
      /\ e \in DOMAIN s.status
  <2>1. v.watch = s.watch /\ v.ready = s.ready /\ v.status = [s.status EXCEPT ![e] = st]
      BY <1>1, <1>a, SetStatusState DEF IsSetStatus
  <2> QED BY <1>a, <2>1 DEF StateType
<1>5. /\ StateType(v) /\ WatchesInv(v, X \cup {<<d, e>> : d \in Epolls})
      /\ st = s.status[e] => WatchesInv(v, X)
  <2>1. "CLOSED" \in st => DOMAIN s.watch[e] = {}
      BY <1>3 DEF StateType, TableType
  <2> QED BY <1>1, <1>a, <2>1, SetStatusInv
<1> HIDE DEF v
<1>6. u.status[e] = st /\ \A d \in Epolls : d # e => u.status[d] = s.status[d]
    BY <1>1, <1>4
<1>7. StateType(u)
  <2>1. \A d \in Epolls : TableType(u, d)
      BY <1>1, <1>5, SameTable DEF StateType
  <2>2. u.call \in [Threads -> [max : MaxEvents \cup {0}, timed : BOOLEAN,
                                signal : {"none", "status", "timeout"}]]
    <3> DEFINE R == [max : MaxEvents \cup {0}, timed : BOOLEAN, signal : {"none", "status", "timeout"}]
    <3>1. \A c \in R : [c EXCEPT !.signal = "status"] \in R
        OBVIOUS
    <3>2. \A t \in Threads : s.call[t] \in R
        BY DEF StateType
    <3> HIDE DEF R
    <3>3. u.call \in [Threads -> R]
        BY <1>1, <3>1, <3>2
    <3> QED BY <3>3 DEF R
  <2> QED BY <1>1, <1>5, <2>1, <2>2 DEF StateType
<1>8. WatchesInv(u, X \cup {<<d, e>> : d \in Epolls}) /\ (st = s.status[e] => WatchesInv(u, X))
    BY <1>1, <1>5, SameWatches
<1>9. /\ WatchesInv(u, X \cup {<<Outer, Inner>>}) /\ (e = Outer => WatchesInv(u, X))
  <2>1. ASSUME NEW d \in Epolls, NEW p \in DOMAIN u.watch[d], d = Inner \/ e = Outer
        PROVE  <<d, p>> \notin {<<c, e>> : c \in Epolls}
    <3>1. p \in Watchable[d]
        BY <1>7 DEF StateType, TableType
    <3>2. p # e
        BY <2>1, <3>1, Descriptors DEF Epolls
    <3> QED BY <3>2
  <2>2. e = Outer => WatchesInv(u, X)
      BY <1>8, <2>1 DEF WatchesInv
  <2>3. e = Inner => WatchesInv(u, X \cup {<<Outer, Inner>>})
    <3>1. ASSUME e = Inner, NEW d \in Epolls, NEW p \in DOMAIN u.watch[d],
                 <<d, p>> \notin X \cup {<<Outer, Inner>>}
          PROVE  <<d, p>> \notin X \cup {<<c, e>> : c \in Epolls}
      <4>1. CASE d = Inner
          BY <2>1, <3>1, <4>1
      <4>2. CASE d = Outer
          BY <3>1, <4>2
      <4> QED BY <4>1, <4>2 DEF Epolls
    <3> QED BY <1>8, <3>1 DEF WatchesInv
  <2> QED BY <2>2, <2>3 DEF WatchesInv, Epolls
<1>10. OwnInv(u, Y \ {e})
    BY <1>1, <1>2, <1>3, <1>4, <1>6 DEF OwnInv, Closed
<1>11. WaitersInv(u)
  <2> SUFFICES ASSUME NEW t \in Threads, u.call[t] # NoCall, u.call[t].signal = "none",
                      ~Closed(u, Serves[t]), "READABLE" \in u.status[Serves[t]]
               PROVE  FALSE
      BY DEF WaitersInv
  <2>0. Serves[t] \in Epolls
      BY EpollAssumption
  <2>1. s.call[t] # NoCall /\ s.call[t].signal = "none" /\ u.call[t] = s.call[t]
    <3>1. CASE on /\ Serves[t] = e /\ s.call[t] # NoCall /\ s.call[t].signal = "none"
      <4>1. u.call[t] = [s.call[t] EXCEPT !.signal = "status"]
          BY <1>1, <3>1
      <4>2. u.call[t].signal = "status"
          BY <4>1 DEF StateType
      <4> QED BY <4>2
    <3>2. CASE ~(on /\ Serves[t] = e /\ s.call[t] # NoCall /\ s.call[t].signal = "none")
        BY <1>1, <3>2
    <3> QED BY <3>1, <3>2
  <2>2. CASE Serves[t] = e
    <3>1. "READABLE" \notin s.status[e]
        BY <1>3, <1>6, <2>1, <2>2 DEF WaitersInv, Closed
    <3>2. on
        BY <1>6, <2>2, <3>1
    <3>3. u.call[t] = [s.call[t] EXCEPT !.signal = "status"]
        BY <1>1, <2>1, <2>2, <3>2
    <3>4. u.call[t].signal = "status"
        BY <3>3 DEF StateType
    <3> QED BY <3>4
  <2>3. CASE Serves[t] # e
      BY <1>6, <2>0, <2>1, <2>3 DEF WaitersInv, Closed
  <2> QED BY <2>2, <2>3
<1>12. (Closed(u, e) <=> Closed(s, e)) /\ u.status[e] = st
    BY <1>3, <1>6 DEF Closed
<1> QED BY <1>7, <1>8, <1>9, <1>10, <1>11, <1>12

-----------------------------------------------------------------------------
(***************************************************************************)
(* The chain of listeners                                                  *)
(***************************************************************************)

\* No watch of an epoll by an epoll is still to be told.
FilesOnly(X) == \A d, e \in Epolls : <<d, e>> \notin X

\* An epoll adjusts its status and tells its parent: nothing of that is left.
LEMMA AdjustInv ==
    ASSUME NEW s, NEW X, NEW e \in Epolls, StateInv(s, X, {e}), FilesOnly(X)
    PROVE  StateInv(Adjust(s, e), X, {})
<1> DEFINE t == AdjustOwn(s, e)
<1>0. \A d, c \in Epolls : <<d, c>> \notin X
    BY DEF FilesOnly
<1>1. /\ StateInv(t, X \cup {<<Outer, Inner>>}, {e} \ {e})
      /\ t.status[e] = s.status[e] \/ e = Outer => StateInv(t, X, {e} \ {e})
    BY <1>0, AdjustOwnInv
<1>2. /\ StateInv(t, X \cup {<<Outer, Inner>>}, {})
      /\ t.status[e] = s.status[e] \/ e = Outer => StateInv(t, X, {})
  <2>1. {e} \ {e} = {}
      OBVIOUS
  <2> QED BY <1>1, <2>1
<1>3. Adjust(s, e) = IF t.status[e] = s.status[e] THEN t ELSE AdjustOwn(UpdateWatch(t, Outer, e), Outer)
    BY DEF Adjust
<1> HIDE DEF t
<1>4. CASE t.status[e] = s.status[e]
    BY <1>2, <1>3, <1>4
<1>5. CASE t.status[e] # s.status[e]
  <2> DEFINE u == UpdateWatch(t, Outer, e)
  <2>1. Outer \in Epolls /\ Inner \in Epolls
      BY Descriptors
  <2>2. StateInv(u, X, {Outer})
    <3>1. CASE e = Outer
      <4>1. X \ {<<Outer, e>>} = X /\ {} \cup {Outer} = {Outer}
          BY <1>0, <2>1
      <4>2. StateInv(u, X \ {<<Outer, e>>}, {} \cup {Outer})
          BY <1>2, <2>1, <3>1, UpdateWatchInv
      <4> QED BY <4>1, <4>2
    <3>2. CASE e = Inner
      <4>1. (X \cup {<<Outer, Inner>>}) \ {<<Outer, Inner>>} = X /\ {} \cup {Outer} = {Outer}
          BY <1>0, <2>1
      <4>2. StateInv(u, (X \cup {<<Outer, Inner>>}) \ {<<Outer, Inner>>}, {} \cup {Outer})
          BY <1>2, <2>1, <3>2, UpdateWatchInv
      <4> QED BY <4>1, <4>2
    <3> QED BY <3>1, <3>2 DEF Epolls
  <2> HIDE DEF u
  <2>3. StateInv(AdjustOwn(u, Outer), X, {Outer} \ {Outer})
      BY <1>0, <2>1, <2>2, AdjustOwnInv
  <2>4. {Outer} \ {Outer} = {}
      OBVIOUS
  <2> QED BY <1>3, <1>5, <2>3, <2>4 DEF u
<1> QED BY <1>4, <1>5

\* An adjusted epoll may be counted among those still to be adjusted.
LEMMA InvWeaken ==
    ASSUME NEW s, NEW X, NEW Y, NEW Z, StateInv(s, X, Y), Y \subseteq Z
    PROVE  StateInv(s, X, Z)
    BY DEF StateInv, OwnInv

\* An epoll is told of a change of o: that watch is told, and all is adjusted.
LEMMA DescriptorStatusChangedInv ==
    ASSUME NEW s, NEW X, NEW e \in Epolls, NEW o, StateInv(s, X, {e}), FilesOnly(X \ {<<e, o>>})
    PROVE  StateInv(DescriptorStatusChanged(s, e, o), X \ {<<e, o>>}, {})
<1> DEFINE u == UpdateWatch(s, e, o)
<1>1. StateInv(u, X \ {<<e, o>>}, {e})
  <2>1. {e} \cup {e} = {e}
      OBVIOUS
  <2>2. StateInv(u, X \ {<<e, o>>}, {e} \cup {e})
      BY UpdateWatchInv
  <2> QED BY <2>1, <2>2
<1>2. CASE Closed(s, e)
  <2>1. u = s /\ DescriptorStatusChanged(s, e, o) = s
      BY <1>2 DEF UpdateWatch, DescriptorStatusChanged
  <2>2. OwnInv(s, {})
      BY <1>2 DEF OwnInv, StateInv
  <2> QED BY <1>1, <2>1, <2>2 DEF StateInv
<1>3. CASE ~Closed(s, e)
  <2>1. DescriptorStatusChanged(s, e, o) = Adjust(u, e)
      BY <1>3 DEF DescriptorStatusChanged
  <2> HIDE DEF u
  <2> QED BY <1>1, <2>1, AdjustInv
<1> QED BY <1>2, <1>3

\* A file changes its status: both epolls are told.
LEMMA StatusChangeInv ==
    ASSUME NEW s, StateInv(s, {}, {}), NEW f \in Files, NEW st \in SUBSET Bits
    PROVE  StateInv(StatusChange(s, f, st), {}, {})
<1> DEFINE told(r, e) == IF f \in DOMAIN r.watch[e] THEN DescriptorStatusChanged(r, e, f) ELSE r
           a == SetStatus(s, f, st)
           b == told(a, Inner)
           c == told(b, Outer)
<1>1. StatusChange(s, f, st) = IF st = s.status[f] THEN s ELSE c
    BY DEF StatusChange
<1>2. ASSUME NEW r, NEW X, NEW e \in Epolls, StateInv(r, X, {}), FilesOnly(X)
      PROVE  StateInv(told(r, e), X \ {<<e, f>>}, {})
  <2>0. FilesOnly(X \ {<<e, f>>})
      BY <1>2 DEF FilesOnly
  <2>1. CASE f \in DOMAIN r.watch[e]
    <3>1. StateInv(r, X, {e})
        BY <1>2, InvWeaken
    <3>2. StateInv(DescriptorStatusChanged(r, e, f), X \ {<<e, f>>}, {})
        BY <2>0, <3>1, DescriptorStatusChangedInv
    <3> QED BY <2>1, <3>2
  <2>2. CASE f \notin DOMAIN r.watch[e]
    <3>1. WatchesInv(r, X \ {<<e, f>>})
      <4>1. WatchesInv(r, X)
          BY <1>2 DEF StateInv
      <4>2. \A d \in Epolls : \A p \in DOMAIN r.watch[d] : <<d, p>> \notin X \ {<<e, f>>} => <<d, p>> \notin X
          BY <2>2
      <4> QED BY <4>1, <4>2 DEF WatchesInv
    <3> QED BY <1>2, <2>2, <3>1 DEF StateInv
  <2> QED BY <2>1, <2>2
<1> HIDE DEF told
<1> DEFINE X == {<<e, f>> : e \in Epolls}
<1>3. StateInv(a, X, {})
  <2>1. f \in Files \cup Epolls /\ f \notin Epolls
      BY Descriptors
  <2>2. IsSetStatus(s, f, st, a)
      BY <2>1, SetStatusState DEF StateInv
  <2>3. StateType(a) /\ WatchesInv(a, {} \cup X)
      BY <2>1, SetStatusInv DEF StateInv
  <2>4. {} \cup X = X
      OBVIOUS
  <2> HIDE DEF a, X
  <2>5. \A e \in Epolls : a.status[e] = s.status[e] /\ a.ready[e] = s.ready[e]
      BY <2>1, <2>2 DEF IsSetStatus, StateInv, StateType
  <2>6. OwnInv(a, {})
      BY <2>5 DEF StateInv, OwnInv, Closed
  <2>7. a.call = s.call
      BY <2>2 DEF IsSetStatus
  <2>8. WaitersInv(a)
      BY <2>5, <2>7, EpollAssumption DEF StateInv, WaitersInv, Closed
  <2> QED BY <2>3, <2>4, <2>6, <2>8 DEF StateInv
<1> HIDE DEF a, b
<1>4. FilesOnly(X) /\ FilesOnly(X \ {<<Inner, f>>})
    BY Descriptors DEF FilesOnly
<1>5. Inner \in Epolls /\ Outer \in Epolls
    BY Descriptors
<1>6. StateInv(b, X \ {<<Inner, f>>}, {})
    BY <1>2, <1>3, <1>4, <1>5 DEF b
<1>7. StateInv(c, (X \ {<<Inner, f>>}) \ {<<Outer, f>>}, {})
    BY <1>2, <1>4, <1>5, <1>6
<1>8. (X \ {<<Inner, f>>}) \ {<<Outer, f>>} = {}
    BY DEF Epolls
<1> QED BY <1>1, <1>7, <1>8

-----------------------------------------------------------------------------
(***************************************************************************)
(* The actions                                                             *)
(***************************************************************************)

\* The variables as a record.
LEMMA StateFields ==
    /\ State.status = status /\ State.watch = watch /\ State.ready = ready
    /\ State.call = call /\ State.due = due /\ IsState(State)
    BY DEF State, IsState

\* A step that makes s the new state.
LEMMA BecomesState ==
    ASSUME NEW s, StateInv(s, {}, {}), Becomes(s)
    PROVE  StateInv(State', {}, {})
<1>1. s = [status |-> s.status, watch |-> s.watch, ready |-> s.ready, call |-> s.call, due |-> s.due]
    BY DEF StateInv, StateType, IsState
<1>2. State' = [status |-> status', watch |-> watch', ready |-> ready', call |-> call', due |-> due']
    BY DEF State
<1>3. State' = [status |-> s.status, watch |-> s.watch, ready |-> s.ready, call |-> s.call, due |-> s.due]
    BY <1>2 DEF Becomes
<1>4. State' = s
    BY <1>1, <1>3
<1> QED BY <1>4

\* s with other tables for epoll e.
Put(s, e, W, D, R) ==
    [status |-> s.status, watch |-> [s.watch EXCEPT ![e] = W], ready |-> [s.ready EXCEPT ![e] = R],
     call |-> s.call, due |-> [s.due EXCEPT ![e] = D]]

IsPut(s, e, W, D, R, u) ==
    /\ IsState(u) /\ u.status = s.status /\ u.call = s.call
    /\ u.watch = [d \in Epolls |-> u.watch[d]] /\ u.due = [d \in Epolls |-> u.due[d]]
    /\ u.ready = [d \in Epolls |-> u.ready[d]]
    /\ u.watch[e] = W /\ u.due[e] = D /\ u.ready[e] = R
    /\ \A d \in Epolls : d # e => /\ u.watch[d] = s.watch[d] /\ u.due[d] = s.due[d]
                                  /\ u.ready[d] = s.ready[d]

LEMMA PutState ==
    ASSUME NEW s, StateType(s), NEW e \in Epolls, NEW W, NEW D, NEW R, NEW u, u = Put(s, e, W, D, R)
    PROVE  IsPut(s, e, W, D, R, u)
<1>1. /\ u.status = s.status /\ u.call = s.call /\ u.watch = [s.watch EXCEPT ![e] = W]
      /\ u.due = [s.due EXCEPT ![e] = D] /\ u.ready = [s.ready EXCEPT ![e] = R] /\ IsState(u)
    BY DEF Put, IsState
<1>2. /\ s.watch = [d \in Epolls |-> s.watch[d]] /\ s.due = [d \in Epolls |-> s.due[d]]
      /\ s.ready = [d \in Epolls |-> s.ready[d]]
    BY DEF StateType
<1> QED BY <1>1, <1>2 DEF IsPut

\* Other tables for one epoll: it is to be adjusted.
LEMMA PutInv ==
    ASSUME NEW s, StateInv(s, {}, {}), NEW e \in Epolls, NEW W, NEW D, NEW R, NEW u,
           IsPut(s, e, W, D, R, u), TableType(u, e), NEW X,
           \A p \in DOMAIN u.watch[e] : Tracks(u, e, p) /\ (<<e, p>> \notin X => Told(u, e, p))
    PROVE  StateInv(u, X, {e})
<1> USE DEF StateInv
<1>1. StateType(u)
  <2>1. \A d \in Epolls : d # e => TableType(u, d)
      BY SameTable DEF StateType, IsPut
  <2> QED BY <2>1 DEF StateType, IsPut
<1>2. WatchesInv(u, X)
  <2> SUFFICES ASSUME NEW d \in Epolls, NEW p \in DOMAIN u.watch[d]
               PROVE  Tracks(u, d, p) /\ (<<d, p>> \notin X => Told(u, d, p))
      BY DEF WatchesInv
  <2>1. CASE d # e
    <3>1. u.watch[d] = s.watch[d] /\ u.due[d] = s.due[d] /\ u.ready[d] = s.ready[d] /\ u.status = s.status
        BY <2>1 DEF IsPut
    <3>2. Tracks(s, d, p) /\ Told(s, d, p)
        BY <3>1 DEF WatchesInv
    <3>3. Tracks(u, d, p)
        BY <3>1, <3>2 DEF Tracks
    <3>4. Told(u, d, p)
        BY <3>1, <3>2 DEF Told
    <3> QED BY <3>3, <3>4
  <2> QED BY <2>1
<1>3. OwnInv(u, {e})
    BY DEF OwnInv, IsPut, Closed
<1>4. WaitersInv(u)
    BY DEF WaitersInv, IsPut, Closed
<1> QED BY <1>1, <1>2, <1>3, <1>4

\* What a step keeps of a watch that it leaves alone.
KeepsWatch(s, u, e, p) ==
    /\ p \in DOMAIN s.watch[e] /\ u.status = s.status
    /\ u.watch[e][p].events = s.watch[e][p].events /\ u.watch[e][p].flags = s.watch[e][p].flags
    /\ u.due[e][p] = s.due[e][p] /\ (p \in u.ready[e] <=> p \in s.ready[e])

LEMMA SameWatch ==
    ASSUME NEW s, WatchesInv(s, {}), NEW e \in Epolls, NEW p, NEW u, KeepsWatch(s, u, e, p)
    PROVE  Tracks(u, e, p) /\ Told(u, e, p)
<1>1. Tracks(s, e, p) /\ Told(s, e, p)
    BY DEF WatchesInv, KeepsWatch
<1>2. Tracks(u, e, p)
    BY <1>1 DEF Tracks, KeepsWatch
<1>3. IsReady(u.watch[e][p]) <=> IsReady(s.watch[e][p])
    BY DEF IsReady, Events, KeepsWatch
<1>4. Told(s, e, p) => Told(u, e, p)
    BY <1>3 DEF Told, KeepsWatch
<1> QED BY <1>1, <1>2, <1>4

LEMMA AdjustStatusInv ==
    ASSUME IInv, NEW f \in Files, NEW bits \in SUBSET {"ACTIVE", "READABLE", "WRITABLE"},
           NEW on \in BOOLEAN, AdjustStatus(f, bits, on)
    PROVE  IInv'
<1> DEFINE st == IF on THEN status[f] \cup bits ELSE status[f] \ bits
<1>1. st \in SUBSET Bits
  <2>1. status[f] \in SUBSET Bits
      BY StateFields DEF IInv, StateInv, StateType
  <2> QED BY <2>1 DEF Bits
<1>2. StateInv(StatusChange(State, f, st), {}, {})
    BY <1>1, StatusChangeInv DEF IInv
<1>3. StateInv(State', {}, {})
    BY <1>2, BecomesState DEF AdjustStatus
<1> QED BY <1>3 DEF IInv, AdjustStatus

LEMMA CloseFileInv ==
    ASSUME IInv, NEW f \in Files, CloseFile(f)
    PROVE  IInv'
<1> DEFINE st == status[f] \cup {"CLOSED"}
<1>1. st \in SUBSET Bits
  <2>1. status[f] \in SUBSET Bits
      BY StateFields DEF IInv, StateInv, StateType
  <2> QED BY <2>1 DEF Bits
<1>2. StateInv(StatusChange(State, f, st), {}, {})
    BY <1>1, StatusChangeInv DEF IInv
<1>3. StateInv(State', {}, {})
    BY <1>2, BecomesState DEF CloseFile
<1> QED BY <1>3 DEF IInv, CloseFile

\* The tables of an epoll that watches nothing.
LEMMA EmptyTable ==
    ASSUME NEW u, NEW e, u.watch[e] = <<>>, u.due[e] = <<>>, u.ready[e] = {}
    PROVE  TableType(u, e) /\ DOMAIN u.watch[e] = {}
<1>1. DOMAIN u.watch[e] = {} /\ DOMAIN u.due[e] = {}
    OBVIOUS
<1>2. \A g : <<>> = [o \in {} |-> g[o]]
    OBVIOUS
<1>3. /\ u.watch[e] = [o \in DOMAIN u.watch[e] |-> u.watch[e][o]]
      /\ u.due[e] = [o \in DOMAIN u.watch[e] |-> u.due[e][o]]
    BY <1>1, <1>2
<1> QED BY <1>1, <1>3 DEF TableType

LEMMA InitInv ==
    ASSUME Init
    PROVE  IInv
<1>1. /\ State.status = [o \in Files \cup Epolls |-> {"ACTIVE"}]
      /\ State.watch = [e \in Epolls |-> <<>>] /\ State.due = [e \in Epolls |-> <<>>]
      /\ State.ready = [e \in Epolls |-> {}] /\ State.call = [t \in Threads |-> NoCall]
      /\ IsState(State)
    BY StateFields DEF Init
<1>2. \A e \in Epolls : TableType(State, e) /\ DOMAIN State.watch[e] = {}
    BY <1>1, EmptyTable
<1>3. StateType(State)
  <2>1. State.call \in [Threads -> [max : MaxEvents \cup {0}, timed : BOOLEAN,
                                    signal : {"none", "status", "timeout"}]]
      BY <1>1 DEF NoCall
  <2>2. State.status \in [Files \cup Epolls -> SUBSET Bits]
      BY <1>1 DEF Bits
  <2> QED BY <1>1, <1>2, <2>1, <2>2 DEF StateType
<1>4. WatchesInv(State, {})
    BY <1>2 DEF WatchesInv
<1>5. OwnInv(State, {})
    BY <1>1 DEF OwnInv
<1>6. WaitersInv(State)
    BY <1>1 DEF WaitersInv
<1> QED BY <1>3, <1>4, <1>5, <1>6, EpollAssumption DEF IInv, StateInv, Init

\* An epoll without watches is closed: its parent is to be told.
LEMMA SetClosedInv ==
    ASSUME NEW s, NEW e \in Epolls, StateInv(s, {}, {e}), DOMAIN s.watch[e] = {},
           NEW u, u = SetStatus(s, e, s.status[e] \cup {"CLOSED"})
    PROVE  /\ StateInv(u, {<<Outer, Inner>>}, {})
           /\ e = Outer => StateInv(u, {}, {})
<1> USE DEF StateInv
<1> DEFINE st == s.status[e] \cup {"CLOSED"}
<1>1. e \in Files \cup Epolls /\ st \in SUBSET Bits
    BY DEF StateType, Bits
<1>2. IsSetStatus(s, e, st, u)
    BY <1>1, SetStatusState
<1>3. "CLOSED" \in st
    OBVIOUS
<1> HIDE DEF st
<1>4. StateType(u) /\ WatchesInv(u, {} \cup {<<d, e>> : d \in Epolls})
  <2>1. u = SetStatus(s, e, st)
      BY DEF st
  <2> QED BY <1>1, <2>1, SetStatusInv
<1>5. /\ u.status[e] = st /\ \A d \in Epolls : d # e => u.status[d] = s.status[d]
      /\ u.ready = s.ready /\ u.call = s.call
    BY <1>1, <1>2 DEF IsSetStatus, StateType
<1>6. OwnInv(u, {})
    BY <1>3, <1>5 DEF OwnInv, Closed
<1>7. WaitersInv(u)
  <2>1. \A t \in Threads : Serves[t] \in Epolls
      BY EpollAssumption
  <2>2. \A d \in Epolls : d # e => (Closed(u, d) <=> Closed(s, d))
      BY <1>3, <1>5 DEF Closed
  <2> QED BY <1>3, <1>5, <2>1, <2>2 DEF WaitersInv, Closed
<1>8. ASSUME NEW d \in Epolls, NEW p \in DOMAIN u.watch[d], p \in Epolls
      PROVE  d = Outer /\ p = Inner
  <2>1. p \in Watchable[d]
      BY <1>4 DEF StateType, TableType
  <2> QED BY <1>8, <2>1, Descriptors DEF Epolls
<1>9. ASSUME NEW X, (e = Inner => <<Outer, Inner>> \in X)
      PROVE  WatchesInv(u, X)
  <2>1. ASSUME NEW d \in Epolls, NEW p \in DOMAIN u.watch[d], <<d, p>> \notin X
        PROVE  <<d, p>> \notin {} \cup {<<c, e>> : c \in Epolls}
    <3>1. p = e => d = Outer /\ p = Inner
        BY <1>8
    <3>2. p # e
        BY <1>9, <2>1, <3>1
    <3> QED BY <3>2
  <2> QED BY <1>4, <2>1 DEF WatchesInv
<1>10. WatchesInv(u, {<<Outer, Inner>>}) /\ (e = Outer => WatchesInv(u, {}))
    BY <1>9, Descriptors
<1> QED BY <1>4, <1>6, <1>7, <1>10

LEMMA CloseEpollInv ==
    ASSUME IInv, NEW e \in Epolls, CloseEpoll(e)
    PROVE  IInv'
<1> DEFINE s0 == [State EXCEPT !.watch[e] = <<>>, !.due[e] = <<>>, !.ready[e] = {}]
           s == SetStatus(s0, e, status[e] \cup {"CLOSED"})
<1>1. StateInv(State, {}, {})
    BY DEF IInv
<1>2. s0 = Put(State, e, <<>>, <<>>, {})
  <2> DEFINE x == [State EXCEPT !.watch[e] = <<>>]
             y == [x EXCEPT !.due[e] = <<>>]
  <2>1. x = [status |-> status, watch |-> [watch EXCEPT ![e] = <<>>], ready |-> ready, call |-> call,
             due |-> due]
      BY DEF State
  <2>2. s0 = [y EXCEPT !.ready[e] = {}]
      OBVIOUS
  <2> HIDE DEF x, s0
  <2>3. y = [status |-> status, watch |-> [watch EXCEPT ![e] = <<>>], ready |-> ready, call |-> call,
             due |-> [due EXCEPT ![e] = <<>>]]
      BY <2>1
  <2> HIDE DEF y
  <2>4. s0 = [status |-> status, watch |-> [watch EXCEPT ![e] = <<>>],
              ready |-> [ready EXCEPT ![e] = {}], call |-> call, due |-> [due EXCEPT ![e] = <<>>]]
      BY <2>2, <2>3
  <2> QED BY <2>4, StateFields DEF Put
<1>3. IsPut(State, e, <<>>, <<>>, {}, s0)
    BY <1>1, <1>2, PutState DEF StateInv
<1>4. Becomes(IF e = Outer THEN s ELSE AdjustOwn(UpdateWatch(s, Outer, e), Outer))
    BY DEF CloseEpoll
<1> HIDE DEF s0
<1>5. TableType(s0, e) /\ DOMAIN s0.watch[e] = {}
    BY <1>3, EmptyTable DEF IsPut
<1>6. StateInv(s0, {}, {e})
    BY <1>1, <1>3, <1>5, PutInv
<1>7. s0.status[e] = status[e]
    BY <1>3, StateFields DEF IsPut
<1>8. /\ StateInv(s, {<<Outer, Inner>>}, {})
      /\ e = Outer => StateInv(s, {}, {})
    BY <1>5, <1>6, <1>7, SetClosedInv
<1> HIDE DEF s
<1>9. CASE e = Outer
  <2>1. StateInv(State', {}, {})
      BY <1>4, <1>8, <1>9, BecomesState
  <2> QED BY <2>1 DEF IInv, CloseEpoll
<1>10. CASE e = Inner
  <2> DEFINE v == UpdateWatch(s, Outer, Inner)
             x == AdjustOwn(v, Outer)
  <2>1. Outer \in Epolls /\ Inner # Outer
      BY Descriptors
  <2>2. StateInv(v, {<<Outer, Inner>>} \ {<<Outer, Inner>>}, {} \cup {Outer})
      BY <1>8, <2>1, UpdateWatchInv
  <2>3. {<<Outer, Inner>>} \ {<<Outer, Inner>>} = {} /\ {} \cup {Outer} = {Outer} /\ {Outer} \ {Outer} = {}
      OBVIOUS
  <2>4. StateInv(v, {}, {Outer})
      BY <2>2, <2>3
  <2> HIDE DEF v
  <2>5. StateInv(x, {}, {Outer} \ {Outer})
      BY <2>1, <2>4, AdjustOwnInv
  <2>6. Becomes(x)
      BY <1>4, <1>10, <2>1 DEF v
  <2> HIDE DEF x
  <2>7. StateInv(State', {}, {})
      BY <2>3, <2>5, <2>6, BecomesState
  <2> QED BY <2>7 DEF IInv, CloseEpoll
<1> QED BY <1>9, <1>10 DEF Epolls

\* epoll_ctl keeps its bound, and ends with a call of the listener.
LEMMA CtlInv ==
    ASSUME IInv, NEW e \in Epolls, NEW o, Ctl(e, o), NEW s, StateInv(s, {<<e, o>>}, {e}),
           Becomes(DescriptorStatusChanged(s, e, o))
    PROVE  IInv'
<1>1. {<<e, o>>} \ {<<e, o>>} = {} /\ FilesOnly({})
    BY DEF FilesOnly
<1>2. StateInv(DescriptorStatusChanged(s, e, o), {<<e, o>>} \ {<<e, o>>}, {})
    BY <1>1, DescriptorStatusChangedInv
<1>3. StateInv(State', {}, {})
    BY <1>1, <1>2, BecomesState
<1>4. nctl' \in 0 .. MaxCtl
    BY EpollAssumption DEF IInv, Ctl
<1> QED BY <1>3, <1>4 DEF IInv

\* What the invariant says of the tables of an epoll, in the variables.
LEMMA Tables ==
    ASSUME IInv, NEW e \in Epolls
    PROVE  /\ TableType(State, e) /\ StateInv(State, {}, {}) /\ StateType(State) /\ WatchesInv(State, {})
           /\ watch = [d \in Epolls |-> watch[d]] /\ due = [d \in Epolls |-> due[d]]
           /\ ready = [d \in Epolls |-> ready[d]]
           /\ watch[e] = [p \in DOMAIN watch[e] |-> watch[e][p]]
           /\ due[e] = [p \in DOMAIN watch[e] |-> due[e][p]]
           /\ DOMAIN due[e] = DOMAIN watch[e] /\ DOMAIN watch[e] \subseteq Watchable[e]
           /\ \A p \in DOMAIN watch[e] :
                 /\ watch[e][p] \in [events : Masks[p], id : 1 .. Cardinality(DOMAIN watch[e]),
                                     age : 0 .. Never, flags : SUBSET Flags]
                 /\ due[e][p] \subseteq {"READABLE", "WRITABLE", "ONCE"}
           /\ \A p, q \in DOMAIN watch[e] : watch[e][p].id = watch[e][q].id => p = q
           /\ ready[e] \subseteq DOMAIN watch[e]
           /\ IsFiniteSet(DOMAIN watch[e]) /\ Cardinality(DOMAIN watch[e]) \in Nat /\ Never \in Nat
           /\ Cardinality(DOMAIN watch[e]) < Never
<1>1. StateInv(State, {}, {}) /\ StateType(State) /\ WatchesInv(State, {})
    BY DEF IInv, StateInv
<1>2. TableType(State, e)
    BY <1>1 DEF StateType
<1>3. /\ watch = [d \in Epolls |-> watch[d]] /\ due = [d \in Epolls |-> due[d]]
      /\ ready = [d \in Epolls |-> ready[d]]
    BY <1>1, StateFields DEF StateType
<1>4. /\ watch[e] = [p \in DOMAIN watch[e] |-> watch[e][p]]
      /\ due[e] = [p \in DOMAIN watch[e] |-> due[e][p]]
      /\ DOMAIN due[e] = DOMAIN watch[e] /\ DOMAIN watch[e] \subseteq Watchable[e]
      /\ \A p \in DOMAIN watch[e] :
            /\ watch[e][p] \in [events : Masks[p], id : 1 .. Cardinality(DOMAIN watch[e]),
                                age : 0 .. Never, flags : SUBSET Flags]
            /\ due[e][p] \subseteq {"READABLE", "WRITABLE", "ONCE"}
      /\ \A p, q \in DOMAIN watch[e] : watch[e][p].id = watch[e][q].id => p = q
      /\ ready[e] \subseteq DOMAIN watch[e]
    BY <1>2, StateFields DEF TableType
<1>5. /\ IsFiniteSet(DOMAIN watch[e]) /\ Cardinality(DOMAIN watch[e]) \in Nat /\ Never \in Nat
      /\ Cardinality(DOMAIN watch[e]) < Never
  <2>1. State.watch = watch
      BY StateFields
  <2> QED BY <1>1, <2>1, WatchCount
<1> QED BY <1>1, <1>2, <1>3, <1>4, <1>5

\* A watch that is set owes what is on, and has reported nothing.
LEMMA NewWatchTracks ==
    ASSUME NEW u, NEW e, NEW o, "ET_REPORTED" \notin u.watch[e][o].flags,
           "ONESHOT_REPORTED" \notin u.watch[e][o].flags,
           u.due[e][o] = NewlySet(u.watch[e][o].events, u.status[o])
    PROVE  Tracks(u, e, o)
<1> DEFINE m == u.watch[e][o].events
           st == u.status[o]
           d == NewlySet(m, st)
<1>1. "ET" \in m => \A b \in Directions : b \in d <=> b \in st
    BY DEF NewlySet, Directions
<1>2. "ONESHOT" \in m => "ONCE" \in d
    BY DEF NewlySet
<1> HIDE DEF d
<1>3. u.due[e][o] = d
    BY DEF d
<1> QED BY <1>1, <1>2, <1>3 DEF Tracks

\* g is f with the value x for the new argument o.
IsWith(f, o, x, g) ==
    /\ DOMAIN g = DOMAIN f \cup {o} /\ g = [p \in DOMAIN g |-> g[p]] /\ g[o] = x
    /\ \A p \in DOMAIN f : g[p] = f[p]

LEMMA WithOf ==
    ASSUME NEW f, NEW o, NEW x, o \notin DOMAIN f
    PROVE  IsWith(f, o, x, With(f, o, x))
    BY DEF With, IsWith

LEMMA AddInv ==
    ASSUME IInv, NEW e \in Epolls, NEW o \in Objects, NEW m \in Masks[o], Add(e, o, m)
    PROVE  IInv'
<1> DEFINE c == Cardinality(DOMAIN watch[e])
           w == [events |-> m, flags |-> {}, age |-> Never, id |-> c + 1]
           n == NewlySet(m, status[o])
           W == With(watch[e], o, w)
           D == With(due[e], o, n)
           r == [State EXCEPT !.watch[e] = With(@, o, w), !.due[e] = With(@, o, n)]
<1>1. Ctl(e, o) /\ o \notin DOMAIN watch[e] /\ o \in Watchable[e] /\ ~Closed(State, e)
    BY DEF Add, Ctl
<1>2. Becomes(DescriptorStatusChanged(r, e, o))
    BY DEF Add
<1>3. r = Put(State, e, W, D, ready[e])
  <2>1. ready = [ready EXCEPT ![e] = ready[e]]
      BY Tables
  <2> DEFINE x == [State EXCEPT !.watch[e] = With(@, o, w)]
  <2>2. r = [x EXCEPT !.due[e] = With(@, o, n)]
      OBVIOUS
  <2> HIDE DEF r, w, n
  <2>3. x = [status |-> status, watch |-> [watch EXCEPT ![e] = W], ready |-> ready, call |-> call,
             due |-> due]
      BY DEF State
  <2> HIDE DEF x
  <2>4. r = [status |-> status, watch |-> [watch EXCEPT ![e] = W], ready |-> ready, call |-> call,
             due |-> [due EXCEPT ![e] = D]]
      BY <2>2, <2>3
  <2> QED BY <2>1, <2>4, StateFields DEF Put
<1>4. IsPut(State, e, W, D, ready[e], r)
    BY <1>3, PutState, Tables
<1>5. /\ DOMAIN W = DOMAIN watch[e] \cup {o} /\ W = [p \in DOMAIN W |-> W[p]] /\ W[o] = w
      /\ \A p \in DOMAIN watch[e] : W[p] = watch[e][p] /\ D[p] = due[e][p]
      /\ D[o] = n /\ DOMAIN D = DOMAIN W /\ D = [p \in DOMAIN W |-> D[p]]
  <2> HIDE DEF w, n
  <2>1. DOMAIN due[e] = DOMAIN watch[e]
      BY Tables
  <2>2. /\ DOMAIN W = DOMAIN watch[e] \cup {o} /\ W = [p \in DOMAIN W |-> W[p]] /\ W[o] = w
        /\ \A p \in DOMAIN watch[e] : W[p] = watch[e][p]
    <3>1. IsWith(watch[e], o, w, W)
        BY <1>1, WithOf
    <3> HIDE DEF W
    <3> QED BY <3>1 DEF IsWith
  <2>3. /\ DOMAIN D = DOMAIN due[e] \cup {o} /\ D = [p \in DOMAIN D |-> D[p]] /\ D[o] = n
        /\ \A p \in DOMAIN due[e] : D[p] = due[e][p]
    <3>1. IsWith(due[e], o, n, D)
        BY <1>1, <2>1, WithOf
    <3> HIDE DEF D
    <3> QED BY <3>1 DEF IsWith
  <2> HIDE DEF W, D
  <2>4. DOMAIN D = DOMAIN W
      BY <2>1, <2>2, <2>3
  <2> QED BY <2>1, <2>2, <2>3, <2>4
<1>6. Cardinality(DOMAIN W) = c + 1 /\ c \in Nat
  <2>1. IsFiniteSet(DOMAIN watch[e]) /\ c \in Nat
      BY Tables
  <2> HIDE DEF W
  <2> QED BY <1>1, <1>5, <2>1, FS_AddElement
<1>7. n \subseteq {"READABLE", "WRITABLE", "ONCE"}
    BY DEF NewlySet
<1>8. w.events = m /\ w.flags = {} /\ w.id = c + 1
    OBVIOUS
<1>9. ASSUME NEW p \in DOMAIN W
      PROVE  /\ W[p] \in [events : Masks[p], id : 1 .. Cardinality(DOMAIN W), age : 0 .. Never,
                          flags : SUBSET Flags]
             /\ D[p] \subseteq {"READABLE", "WRITABLE", "ONCE"}
  <2>1. CASE p = o
    <3>1. c + 1 \in 1 .. Cardinality(DOMAIN W) /\ Never \in 0 .. Never
      <4>1. Never \in Nat
          BY Tables
      <4> HIDE DEF c, W
      <4> QED BY <1>6, <4>1
    <3>2. w \in [events : Masks[o], id : 1 .. Cardinality(DOMAIN W), age : 0 .. Never, flags : SUBSET Flags]
        BY <3>1
    <3> QED BY <1>5, <1>7, <2>1, <3>2
  <2>2. CASE p # o
    <3>1. p \in DOMAIN watch[e]
        BY <1>5, <2>2
    <3>2. 1 .. c \subseteq 1 .. Cardinality(DOMAIN W)
        BY <1>6
    <3>3. /\ watch[e][p] \in [events : Masks[p], id : 1 .. c, age : 0 .. Never, flags : SUBSET Flags]
          /\ due[e][p] \subseteq {"READABLE", "WRITABLE", "ONCE"}
        BY <3>1, Tables
    <3> HIDE DEF c, W, D
    <3>4. watch[e][p] \in [events : Masks[p], id : 1 .. Cardinality(DOMAIN W), age : 0 .. Never,
                           flags : SUBSET Flags]
        BY <3>2, <3>3
    <3> QED BY <1>5, <3>1, <3>3, <3>4
  <2> QED BY <2>1, <2>2
<1>10. \A p, q \in DOMAIN W : W[p].id = W[q].id => p = q
  <2>1. \A p \in DOMAIN watch[e] : W[p].id \in 1 .. c
      BY <1>5, Tables
  <2>2. W[o].id = c + 1
      BY <1>5, <1>8
  <2>3. \A p, q \in DOMAIN watch[e] : W[p].id = W[q].id => p = q
    <3>1. \A p, q \in DOMAIN watch[e] : watch[e][p].id = watch[e][q].id => p = q
        BY Tables
    <3> HIDE DEF W
    <3> QED BY <1>5, <3>1
  <2> HIDE DEF c, W
  <2>4. \A p \in DOMAIN watch[e] : W[p].id # c + 1
      BY <1>6, <2>1
  <2> QED BY <1>5, <2>2, <2>3, <2>4
<1>11. ready[e] \subseteq DOMAIN W /\ DOMAIN W \subseteq Watchable[e]
    BY <1>1, <1>5, Tables
<1> HIDE DEF W, D, r, w, n
<1>12. r.watch[e] = W /\ r.due[e] = D /\ r.ready[e] = ready[e] /\ r.status = status /\ ~Closed(r, e)
    BY <1>1, <1>4, StateFields DEF IsPut, Closed
<1>13. TableType(r, e)
  <2>1. Tabled(W, D, ready[e], e)
      BY <1>5, <1>9, <1>10, <1>11 DEF Tabled
  <2> QED BY <1>12, <2>1, TableOf
<1>14. Tracks(r, e, o)
  <2>1. r.watch[e][o].flags = {} /\ r.due[e][o] = NewlySet(r.watch[e][o].events, r.status[o])
      BY <1>5, <1>8, <1>12 DEF n
  <2> QED BY <2>1, NewWatchTracks
<1>15. ASSUME NEW p \in DOMAIN r.watch[e], p # o
       PROVE  Tracks(r, e, p) /\ Told(r, e, p)
  <2>1. p \in DOMAIN watch[e] /\ r.watch[e][p] = watch[e][p] /\ r.due[e][p] = due[e][p]
      BY <1>5, <1>12, <1>15
  <2>2. WatchesInv(State, {}) /\ p \in DOMAIN State.watch[e] /\ r.watch[e][p] = State.watch[e][p]
      BY <2>1, Tables, StateFields
  <2>3. r.due[e][p] = State.due[e][p] /\ r.status = State.status /\ r.ready[e] = State.ready[e]
      BY <1>12, <2>1, StateFields
  <2>4. /\ r.watch[e][p].events = State.watch[e][p].events
        /\ r.watch[e][p].flags = State.watch[e][p].flags
      BY <2>2
  <2>5. KeepsWatch(State, r, e, p)
      BY <2>2, <2>3, <2>4 DEF KeepsWatch
  <2> QED BY <2>2, <2>5, SameWatch
<1>16. StateInv(r, {<<e, o>>}, {e})
  <2>1. StateInv(State, {}, {})
      BY Tables
  <2> QED BY <1>4, <1>13, <1>14, <1>15, <2>1, PutInv
<1> QED BY <1>1, <1>2, <1>16, CtlInv

LEMMA ModInv ==
    ASSUME IInv, NEW e \in Epolls, NEW o \in Objects, NEW m \in Masks[o], Mod(e, o, m)
    PROVE  IInv'
<1> DEFINE v == watch[e][o]
           w == Modified(v, m)
           n == NewlySet(m, status[o])
           W == [watch[e] EXCEPT ![o] = w]
           D == [due[e] EXCEPT ![o] = n]
           r == [State EXCEPT !.watch[e][o] = Modified(@, m), !.due[e][o] = NewlySet(m, status[o])]
<1>1. Ctl(e, o) /\ o \in DOMAIN watch[e] /\ ~Closed(State, e)
    BY DEF Mod, Ctl
<1>2. Becomes(DescriptorStatusChanged(r, e, o))
    BY DEF Mod
<1>3. r = Put(State, e, W, D, ready[e])
  <2>1. ready = [ready EXCEPT ![e] = ready[e]]
      BY Tables
  <2> DEFINE x == [State EXCEPT !.watch[e][o] = Modified(@, m)]
  <2>2. r = [x EXCEPT !.due[e][o] = n]
      OBVIOUS
  <2> HIDE DEF r, n
  <2>3. x = [status |-> status, watch |-> [watch EXCEPT ![e] = W], ready |-> ready, call |-> call,
             due |-> due]
      BY DEF State
  <2> HIDE DEF x
  <2>4. r = [status |-> status, watch |-> [watch EXCEPT ![e] = W], ready |-> ready, call |-> call,
             due |-> [due EXCEPT ![e] = D]]
      BY <2>2, <2>3
  <2> QED BY <2>1, <2>4, StateFields DEF Put
<1>4. IsPut(State, e, W, D, ready[e], r)
    BY <1>3, PutState, Tables
<1>5. v \in [events : Masks[o], id : 1 .. Cardinality(DOMAIN watch[e]), age : 0 .. Never, flags : SUBSET Flags]
    BY <1>1, Tables
<1>6. /\ w \in [events : Masks[o], id : 1 .. Cardinality(DOMAIN watch[e]), age : 0 .. Never,
                flags : SUBSET Flags]
      /\ w.events = m /\ w.id = v.id /\ "ET_REPORTED" \notin w.flags /\ "ONESHOT_REPORTED" \notin w.flags
  <2> HIDE DEF v
  <2>1. w = [v EXCEPT !.events = m, !.flags = v.flags \ {"ET_REPORTED", "ONESHOT_REPORTED"}]
      BY DEF Modified
  <2> QED BY <1>5, <2>1
<1>7. n \subseteq {"READABLE", "WRITABLE", "ONCE"}
    BY DEF NewlySet
<1> HIDE DEF w, n
<1>8. /\ DOMAIN W = DOMAIN watch[e] /\ W = [p \in DOMAIN W |-> W[p]] /\ W[o] = w
      /\ \A p \in DOMAIN watch[e] : p # o => W[p] = watch[e][p] /\ D[p] = due[e][p]
      /\ D[o] = n /\ DOMAIN D = DOMAIN W /\ D = [p \in DOMAIN W |-> D[p]]
  <2>1. /\ watch[e] = [p \in DOMAIN watch[e] |-> watch[e][p]]
        /\ due[e] = [p \in DOMAIN watch[e] |-> due[e][p]]
      BY Tables
  <2> QED BY <1>1, <2>1
<1> HIDE DEF W, D, r
<1>9. ASSUME NEW p \in DOMAIN W
      PROVE  /\ W[p] \in [events : Masks[p], id : 1 .. Cardinality(DOMAIN W), age : 0 .. Never,
                          flags : SUBSET Flags]
             /\ D[p] \subseteq {"READABLE", "WRITABLE", "ONCE"}
             /\ W[p].id = watch[e][p].id
  <2>1. CASE p = o
      BY <1>6, <1>7, <1>8, <2>1
  <2>2. CASE p # o
      BY <1>8, <2>2, Tables
  <2> QED BY <2>1, <2>2
<1>10. \A p, q \in DOMAIN W : W[p].id = W[q].id => p = q
  <2>1. \A p, q \in DOMAIN watch[e] : watch[e][p].id = watch[e][q].id => p = q
      BY Tables
  <2> QED BY <1>8, <1>9, <2>1
<1>11. ready[e] \subseteq DOMAIN W /\ DOMAIN W \subseteq Watchable[e]
    BY <1>8, Tables
<1>12. r.watch[e] = W /\ r.due[e] = D /\ r.ready[e] = ready[e] /\ r.status = status /\ ~Closed(r, e)
    BY <1>1, <1>4, StateFields DEF IsPut, Closed
<1>13. TableType(r, e)
  <2>1. Tabled(W, D, ready[e], e)
      BY <1>8, <1>9, <1>10, <1>11 DEF Tabled
  <2> QED BY <1>12, <2>1, TableOf
<1>14. Tracks(r, e, o)
  <2>1. /\ "ET_REPORTED" \notin r.watch[e][o].flags /\ "ONESHOT_REPORTED" \notin r.watch[e][o].flags
        /\ r.due[e][o] = NewlySet(r.watch[e][o].events, r.status[o])
      BY <1>6, <1>8, <1>12 DEF n
  <2> QED BY <2>1, NewWatchTracks
<1>15. ASSUME NEW p \in DOMAIN r.watch[e], p # o
       PROVE  Tracks(r, e, p) /\ Told(r, e, p)
  <2>1. p \in DOMAIN watch[e] /\ r.watch[e][p] = watch[e][p] /\ r.due[e][p] = due[e][p]
      BY <1>8, <1>12, <1>15
  <2>2. KeepsWatch(State, r, e, p)
      BY <1>12, <2>1, StateFields DEF KeepsWatch
  <2> QED BY <2>2, Tables, SameWatch
<1>16. StateInv(r, {<<e, o>>}, {e})
  <2>1. StateInv(State, {}, {})
      BY Tables
  <2> QED BY <1>4, <1>13, <1>14, <1>15, <2>1, PutInv
<1> QED BY <1>1, <1>2, <1>16, CtlInv

LEMMA DelInv ==
    ASSUME IInv, NEW e \in Epolls, NEW o \in Objects, Del(e, o)
    PROVE  IInv'
<1> DEFINE rest == DOMAIN watch[e] \ {o}
           k == watch[e][o].id
           shift(v) == IF v.id > k THEN [v EXCEPT !.id = v.id - 1] ELSE v
           W == [p \in rest |-> shift(watch[e][p])]
           D == [p \in rest |-> due[e][p]]
           R == ready[e] \ {o}
           c == Cardinality(DOMAIN watch[e])
           r == Removed(State, e, o)
<1>1. Ctl(e, o) /\ o \in DOMAIN watch[e] /\ ~Closed(State, e)
    BY DEF Del, Ctl
<1>2. Becomes(Adjust(r, e))
    BY DEF Del
<1>3. r = Put(State, e, W, D, R)
  <2> DEFINE x == [State EXCEPT !.watch[e] = [p \in rest |-> shift(@[p])]]
             y == [x EXCEPT !.due[e] = [p \in rest |-> @[p]]]
  <2>1. State.watch = watch
      BY StateFields
  <2>2. r = [y EXCEPT !.ready[e] = @ \ {o}]
      BY <2>1 DEF Removed
  <2> HIDE DEF r, shift
  <2>3. x = [status |-> status, watch |-> [watch EXCEPT ![e] = W], ready |-> ready, call |-> call,
             due |-> due]
      BY <2>1 DEF State
  <2> HIDE DEF x, W
  <2>4. y = [status |-> status, watch |-> [watch EXCEPT ![e] = W], ready |-> ready, call |-> call,
             due |-> [due EXCEPT ![e] = D]]
      BY <2>3
  <2> HIDE DEF y, D
  <2>5. r = [status |-> status, watch |-> [watch EXCEPT ![e] = W], ready |-> [ready EXCEPT ![e] = R],
             call |-> call, due |-> [due EXCEPT ![e] = D]]
      BY <2>2, <2>4
  <2> QED BY <2>5, StateFields DEF Put
<1>4. IsPut(State, e, W, D, R, r)
    BY <1>3, PutState, Tables
<1>5. Cardinality(rest) = c - 1 /\ c \in Nat
  <2>1. IsFiniteSet(DOMAIN watch[e]) /\ c \in Nat
      BY Tables
  <2> QED BY <1>1, <2>1, FS_RemoveElement
<1>6. k \in 1 .. c
    BY <1>1, Tables
<1>7. ASSUME NEW p \in rest
      PROVE  /\ shift(watch[e][p]) \in [events : Masks[p], id : 1 .. c - 1, age : 0 .. Never,
                                        flags : SUBSET Flags]
             /\ shift(watch[e][p]).events = watch[e][p].events
             /\ shift(watch[e][p]).flags = watch[e][p].flags
             /\ shift(watch[e][p]).id = IF watch[e][p].id > k THEN watch[e][p].id - 1 ELSE watch[e][p].id
             /\ watch[e][p].id \in 1 .. c /\ watch[e][p].id # k
  <2> DEFINE v == watch[e][p]
  <2>1. v \in [events : Masks[p], id : 1 .. c, age : 0 .. Never, flags : SUBSET Flags]
      BY Tables
  <2>2. v.id # k
      BY <1>1, Tables
  <2> HIDE DEF v, c, k
  <2>3. v.id \in 1 .. c
      BY <2>1
  <2>4. CASE v.id > k
    <3>1. v.id - 1 \in 1 .. c - 1
        BY <1>5, <1>6, <2>3, <2>4
    <3> QED BY <2>1, <2>2, <2>3, <2>4, <3>1 DEF v
  <2>5. CASE ~(v.id > k)
    <3>1. v.id \in 1 .. c - 1
        BY <1>5, <1>6, <2>2, <2>3, <2>5
    <3> QED BY <2>1, <2>2, <2>3, <2>5, <3>1 DEF v
  <2> QED BY <2>4, <2>5
<1> HIDE DEF shift
<1>8. /\ DOMAIN W = rest /\ DOMAIN D = rest /\ W = [p \in DOMAIN W |-> W[p]]
      /\ D = [p \in DOMAIN W |-> D[p]]
      /\ \A p \in rest : W[p] = shift(watch[e][p]) /\ D[p] = due[e][p]
    OBVIOUS
<1> HIDE DEF W, D, r, c, k
<1>9. ASSUME NEW p \in DOMAIN W
      PROVE  /\ W[p] \in [events : Masks[p], id : 1 .. Cardinality(DOMAIN W), age : 0 .. Never,
                          flags : SUBSET Flags]
             /\ D[p] \subseteq {"READABLE", "WRITABLE", "ONCE"}
  <2>1. p \in rest /\ W[p] = shift(watch[e][p]) /\ D[p] = due[e][p] /\ Cardinality(DOMAIN W) = c - 1
      BY <1>5, <1>8
  <2>2. shift(watch[e][p]) \in [events : Masks[p], id : 1 .. c - 1, age : 0 .. Never, flags : SUBSET Flags]
      BY <1>7, <2>1
  <2>3. due[e][p] \subseteq {"READABLE", "WRITABLE", "ONCE"}
      BY <2>1, Tables
  <2> HIDE DEF rest
  <2> QED BY <2>1, <2>2, <2>3
<1>10. \A p, q \in DOMAIN W : W[p].id = W[q].id => p = q
  <2>1. \A p, q \in DOMAIN watch[e] : watch[e][p].id = watch[e][q].id => p = q
      BY Tables
  <2>2. ASSUME NEW p \in rest, NEW q \in rest, W[p].id = W[q].id
        PROVE  watch[e][p].id = watch[e][q].id
    <3>1. W[p].id = IF watch[e][p].id > k THEN watch[e][p].id - 1 ELSE watch[e][p].id
        BY <1>7, <1>8
    <3>2. W[q].id = IF watch[e][q].id > k THEN watch[e][q].id - 1 ELSE watch[e][q].id
        BY <1>7, <1>8
    <3>3. /\ watch[e][p].id \in 1 .. c /\ watch[e][p].id # k
          /\ watch[e][q].id \in 1 .. c /\ watch[e][q].id # k
        BY <1>7
    <3> DEFINE i == watch[e][p].id
               j == watch[e][q].id
    <3>4. (IF i > k THEN i - 1 ELSE i) = (IF j > k THEN j - 1 ELSE j)
        BY <2>2, <3>1, <3>2
    <3>5. i \in Int /\ j \in Int /\ k \in Int
        BY <1>6, <3>3
    <3>6. i # k /\ j # k
        BY <3>3
    <3> HIDE DEF i, j
    <3>7. i = j
        BY <3>4, <3>5, <3>6
    <3> QED BY <3>7 DEF i, j
  <2> QED BY <1>8, <2>1, <2>2
<1>11. R \subseteq DOMAIN W /\ DOMAIN W \subseteq Watchable[e]
    BY <1>8, Tables
<1>12. r.watch[e] = W /\ r.due[e] = D /\ r.ready[e] = R /\ r.status = status /\ ~Closed(r, e)
    BY <1>1, <1>4, StateFields DEF IsPut, Closed
<1>13. TableType(r, e)
  <2>1. Tabled(W, D, R, e)
      BY <1>8, <1>9, <1>10, <1>11 DEF Tabled
  <2> QED BY <1>12, <2>1, TableOf
<1>14. ASSUME NEW p \in DOMAIN r.watch[e]
       PROVE  Tracks(r, e, p) /\ Told(r, e, p)
  <2>1. /\ p \in rest /\ r.watch[e][p].events = watch[e][p].events
        /\ r.watch[e][p].flags = watch[e][p].flags /\ r.due[e][p] = due[e][p]
      BY <1>7, <1>8, <1>12
  <2>2. KeepsWatch(State, r, e, p)
      BY <1>12, <2>1, StateFields DEF KeepsWatch
  <2> QED BY <2>2, Tables, SameWatch
<1>15. StateInv(r, {}, {e})
  <2>1. StateInv(State, {}, {})
      BY Tables
  <2> QED BY <1>4, <1>13, <1>14, <2>1, PutInv
<1>16. StateInv(State', {}, {})
  <2>1. FilesOnly({})
      BY DEF FilesOnly
  <2>2. StateInv(Adjust(r, e), {}, {})
      BY <1>15, <2>1, AdjustInv
  <2> QED BY <1>2, <2>2, BecomesState
<1>17. nctl' \in 0 .. MaxCtl
    BY <1>1, EpollAssumption DEF IInv, Ctl
<1> QED BY <1>16, <1>17 DEF IInv

\* epoll_getEvents: what is collected is owed no more, and stays in the table
\* ready if it is level-triggered.
LEMMA CollectedWatch ==
    ASSUME NEW u, NEW s, NEW e, NEW o, NEW w, w = s.watch[e][o], u.watch[e][o] = Collected(w),
           w.flags \in SUBSET Flags, w = [events |-> w.events, id |-> w.id, age |-> w.age, flags |-> w.flags],
           u.due[e][o] = {}, u.status = s.status, u.ready[e] = s.ready[e], o \in s.ready[e],
           IsReady(w), Told(s, e, o)
    PROVE  Tracks(u, e, o) /\ Told(u, e, o)
<1> DEFINE g == (w.flags \ {"READCHANGED", "WRITECHANGED"}) \cup
                (IF "ET" \in w.events THEN {"ET_REPORTED"} ELSE {}) \cup
                (IF "ONESHOT" \in w.events THEN {"ONESHOT_REPORTED"} ELSE {})
           v == Collected(w)
<1>1. v.flags = g /\ v.events = w.events
    BY DEF Collected
<1>2. /\ w.flags \cap Bits = s.status[o] /\ g \cap Bits = w.flags \cap Bits
      /\ "READCHANGED" \notin g /\ "WRITECHANGED" \notin g
      /\ "ET" \in w.events => "ET_REPORTED" \in g
      /\ "ONESHOT" \in w.events => "ONESHOT_REPORTED" \in g
    BY DEF Told, Bits
<1> HIDE DEF v, g
<1>3. u.watch[e][o] = v
    BY DEF v
<1>4. ASSUME NEW b \in Directions
      PROVE  ChangedFlag(b) \notin g /\ (b \in u.status[o] => b \in g)
  <2>1. b \in Bits
      BY DEF Directions, Bits
  <2> QED BY <1>2, <2>1 DEF ChangedFlag
<1>5. Tracks(u, e, o)
    BY <1>1, <1>2, <1>3, <1>4 DEF Tracks
<1>6. ASSUME "ET" \notin w.events, "ONESHOT" \notin w.events
      PROVE  IsReady(v)
  <2>1. \A b \in Bits : b \in v.flags <=> b \in w.flags
      BY <1>1, <1>2
  <2>2. Events(v) = Events(w) /\ Events(w) \subseteq Bits /\ {"ACTIVE", "CLOSED"} \subseteq Bits
      BY <1>1 DEF Events, Bits
  <2>3. Events(v) \cap v.flags = Events(w) \cap w.flags
      BY <2>1, <2>2
  <2> QED BY <1>1, <1>6, <2>1, <2>2, <2>3 DEF IsReady
<1>7. Told(u, e, o)
    BY <1>1, <1>2, <1>3, <1>6 DEF Told
<1> QED BY <1>5, <1>7

LEMMA GetEventsInv ==
    ASSUME NEW s, StateInv(s, {}, {}), s.watch = watch, s.ready = ready, NEW e \in Epolls,
           ~Closed(s, e), NEW n
    PROVE  StateInv(GetEvents(s, e, n), {}, {})
<1> DEFINE got == Reported(e, n)
           W == [o \in DOMAIN s.watch[e] |-> IF o \in got THEN Collected(s.watch[e][o]) ELSE s.watch[e][o]]
           D == [o \in DOMAIN s.due[e] |-> IF o \in got THEN {} ELSE s.due[e][o]]
           r == [s EXCEPT
                   !.watch[e] = [o \in DOMAIN @ |-> IF o \in got THEN Collected(@[o]) ELSE @[o]],
                   !.due[e] = [o \in DOMAIN @ |-> IF o \in got THEN {} ELSE @[o]]]
<1>1. GetEvents(s, e, n) = Adjust(r, e)
    BY DEF GetEvents
<1>2. \A o \in got : o \in s.ready[e] /\ IsReady(s.watch[e][o])
    BY DEF Reported, Reportable
<1> HIDE DEF got
<1>3. StateType(s) /\ TableType(s, e) /\ WatchesInv(s, {})
    BY DEF StateInv, StateType
<1>4. r = Put(s, e, W, D, s.ready[e])
  <2> DEFINE x == [s EXCEPT !.watch[e] = [o \in DOMAIN @ |-> IF o \in got THEN Collected(@[o]) ELSE @[o]]]
  <2>1. s.ready = [s.ready EXCEPT ![e] = s.ready[e]]
      BY <1>3 DEF StateType
  <2>2. s = [status |-> s.status, watch |-> s.watch, ready |-> s.ready, call |-> s.call, due |-> s.due]
      BY <1>3 DEF StateType, IsState
  <2>3. r = [x EXCEPT !.due[e] = [o \in DOMAIN @ |-> IF o \in got THEN {} ELSE @[o]]]
      OBVIOUS
  <2> HIDE DEF r
  <2>4. x = [s EXCEPT !.watch[e] = W]
      OBVIOUS
  <2> HIDE DEF x, W
  <2>5. x = [status |-> s.status, watch |-> [s.watch EXCEPT ![e] = W], ready |-> s.ready,
             call |-> s.call, due |-> s.due]
      BY <2>2, <2>4
  <2>6. r = [x EXCEPT !.due[e] = D]
      BY <2>3, <2>5
  <2> HIDE DEF D
  <2>7. r = [status |-> s.status, watch |-> [s.watch EXCEPT ![e] = W], ready |-> s.ready,
             call |-> s.call, due |-> [s.due EXCEPT ![e] = D]]
      BY <2>5, <2>6
  <2> QED BY <2>1, <2>7 DEF Put
<1>5. IsPut(s, e, W, D, s.ready[e], r)
    BY <1>3, <1>4, PutState
<1>6. /\ DOMAIN W = DOMAIN s.watch[e] /\ DOMAIN D = DOMAIN s.watch[e]
      /\ W = [p \in DOMAIN W |-> W[p]] /\ D = [p \in DOMAIN W |-> D[p]]
      /\ \A p \in DOMAIN s.watch[e] :
            /\ W[p] = IF p \in got THEN Collected(s.watch[e][p]) ELSE s.watch[e][p]
            /\ D[p] = IF p \in got THEN {} ELSE s.due[e][p]
  <2>1. DOMAIN s.due[e] = DOMAIN s.watch[e]
      BY <1>3 DEF TableType
  <2> QED BY <2>1
<1> HIDE DEF W, D, r
<1>7. ASSUME NEW p \in DOMAIN s.watch[e]
      PROVE  /\ s.watch[e][p] \in [events : Masks[p], id : 1 .. Cardinality(DOMAIN s.watch[e]),
                                   age : 0 .. Never, flags : SUBSET Flags]
             /\ W[p] \in [events : Masks[p], id : 1 .. Cardinality(DOMAIN s.watch[e]),
                          age : 0 .. Never, flags : SUBSET Flags]
             /\ W[p].id = s.watch[e][p].id
             /\ D[p] \subseteq {"READABLE", "WRITABLE", "ONCE"}
  <2> DEFINE w == s.watch[e][p]
             g == (w.flags \ {"READCHANGED", "WRITECHANGED"}) \cup
                  (IF "ET" \in w.events THEN {"ET_REPORTED"} ELSE {}) \cup
                  (IF "ONESHOT" \in w.events THEN {"ONESHOT_REPORTED"} ELSE {})
  <2>1. /\ w \in [events : Masks[p], id : 1 .. Cardinality(DOMAIN s.watch[e]),
                  age : 0 .. Never, flags : SUBSET Flags]
        /\ s.due[e][p] \subseteq {"READABLE", "WRITABLE", "ONCE"}
      BY <1>3 DEF TableType
  <2>2. W[p] = IF p \in got THEN Collected(w) ELSE w
      BY <1>6
  <2>3. D[p] \subseteq {"READABLE", "WRITABLE", "ONCE"}
      BY <1>6, <2>1
  <2>4. 0 \in 0 .. Never
      BY <1>3, WatchCount
  <2> HIDE DEF w
  <2>5. g \in SUBSET Flags
      BY <2>1 DEF Flags
  <2>6. Collected(w) = [w EXCEPT !.age = 0, !.flags = g]
      BY DEF Collected
  <2> HIDE DEF g
  <2>7. /\ Collected(w) \in [events : Masks[p], id : 1 .. Cardinality(DOMAIN s.watch[e]),
                             age : 0 .. Never, flags : SUBSET Flags]
        /\ Collected(w).id = w.id
      BY <2>1, <2>4, <2>5, <2>6
  <2> QED BY <2>1, <2>2, <2>3, <2>7 DEF w
<1>8. \A p, q \in DOMAIN W : W[p].id = W[q].id => p = q
  <2>1. \A p, q \in DOMAIN s.watch[e] : s.watch[e][p].id = s.watch[e][q].id => p = q
      BY <1>3 DEF TableType
  <2> QED BY <1>6, <1>7, <2>1
<1>9. r.watch[e] = W /\ r.due[e] = D /\ r.ready[e] = s.ready[e] /\ r.status = s.status /\ ~Closed(r, e)
    BY <1>5 DEF IsPut, Closed
<1>10. s.ready[e] \subseteq DOMAIN W /\ DOMAIN W \subseteq Watchable[e]
    BY <1>3, <1>6 DEF TableType
<1>11. TableType(r, e)
  <2>1. \A p \in DOMAIN W :
           /\ W[p] \in [events : Masks[p], id : 1 .. Cardinality(DOMAIN W), age : 0 .. Never,
                        flags : SUBSET Flags]
           /\ D[p] \subseteq {"READABLE", "WRITABLE", "ONCE"}
      BY <1>6, <1>7
  <2>2. W = [p \in DOMAIN W |-> W[p]] /\ D = [p \in DOMAIN W |-> D[p]] /\ DOMAIN D = DOMAIN W
      BY <1>6
  <2> QED BY <1>8, <1>9, <1>10, <2>1, <2>2 DEF TableType
<1>12. ASSUME NEW p \in DOMAIN r.watch[e]
       PROVE  Tracks(r, e, p) /\ Told(r, e, p)
  <2>1. p \in DOMAIN s.watch[e]
      BY <1>6, <1>9
  <2>2. CASE p \in got
    <3>1. Told(s, e, p)
        BY <1>3, <2>1 DEF WatchesInv
    <3>2. /\ s.watch[e][p].flags \in SUBSET Flags
          /\ s.watch[e][p] = [events |-> s.watch[e][p].events, id |-> s.watch[e][p].id,
                              age |-> s.watch[e][p].age, flags |-> s.watch[e][p].flags]
      <4> DEFINE w == s.watch[e][p]
      <4>1. w \in [events : Masks[p], id : 1 .. Cardinality(DOMAIN s.watch[e]),
                   age : 0 .. Never, flags : SUBSET Flags]
          BY <1>7, <2>1
      <4> HIDE DEF w
      <4>2. w.flags \in SUBSET Flags /\ w = [events |-> w.events, id |-> w.id, age |-> w.age, flags |-> w.flags]
          BY <4>1
      <4> QED BY <4>2 DEF w
    <3>3. r.watch[e][p] = Collected(s.watch[e][p]) /\ r.due[e][p] = {}
        BY <1>6, <1>9, <2>1, <2>2
    <3>4. p \in s.ready[e] /\ IsReady(s.watch[e][p])
        BY <1>2, <2>2
    <3> QED BY <1>9, <3>1, <3>2, <3>3, <3>4, CollectedWatch
  <2>3. CASE p \notin got
    <3>1. KeepsWatch(s, r, e, p)
        BY <1>6, <1>9, <2>1, <2>3 DEF KeepsWatch
    <3> QED BY <1>3, <3>1, SameWatch
  <2> QED BY <2>2, <2>3
<1>13. StateInv(r, {}, {e})
    BY <1>5, <1>11, <1>12, PutInv
<1>14. FilesOnly({})
    BY DEF FilesOnly
<1> QED BY <1>1, <1>13, <1>14, AdjustInv

\* One thread changes its call: it may block only on an epoll that is not
\* readable.
LEMMA CallInv ==
    ASSUME NEW s, StateInv(s, {}, {}), NEW t \in Threads,
           NEW c \in [max : MaxEvents \cup {0}, timed : BOOLEAN, signal : {"none", "status", "timeout"}],
           c # NoCall /\ c.signal = "none" /\ ~Closed(s, Serves[t]) => "READABLE" \notin s.status[Serves[t]],
           NEW u, u = [status |-> s.status, watch |-> s.watch, ready |-> s.ready,
                       call |-> [s.call EXCEPT ![t] = c], due |-> s.due]
    PROVE  StateInv(u, {}, {})
<1>1. /\ IsState(u) /\ u.status = s.status /\ u.watch = s.watch /\ u.ready = s.ready /\ u.due = s.due
      /\ u.call = [s.call EXCEPT ![t] = c]
    BY DEF IsState
<1>2. StateType(u)
  <2>1. \A e \in Epolls : TableType(u, e)
      BY <1>1, SameTable DEF StateInv, StateType
  <2>2. u.call \in [Threads -> [max : MaxEvents \cup {0}, timed : BOOLEAN,
                                signal : {"none", "status", "timeout"}]]
      BY <1>1 DEF StateInv, StateType
  <2> QED BY <1>1, <2>1, <2>2 DEF StateInv, StateType
<1>3. WatchesInv(u, {})
    BY <1>1, SameWatches DEF StateInv
<1>4. OwnInv(u, {})
    BY <1>1 DEF StateInv, OwnInv, Closed
<1>5. WaitersInv(u)
  <2> SUFFICES ASSUME NEW q \in Threads, u.call[q] # NoCall, u.call[q].signal = "none",
                      ~Closed(u, Serves[q])
               PROVE  "READABLE" \notin u.status[Serves[q]]
      BY DEF WaitersInv
  <2>0. t \in DOMAIN s.call
      BY DEF StateInv, StateType
  <2>1. CASE q = t
      BY <1>1, <2>0, <2>1 DEF Closed
  <2>2. CASE q # t
      BY <1>1, <2>2 DEF StateInv, WaitersInv, Closed
  <2> QED BY <2>1, <2>2
<1> QED BY <1>2, <1>3, <1>4, <1>5 DEF StateInv

LEMMA WaitInv ==
    ASSUME IInv, NEW t \in Threads, NEW n \in MaxEvents, NEW timed \in BOOLEAN, Wait(t, n, timed)
    PROVE  IInv'
<1> DEFINE e == Serves[t]
<1>1. e \in Epolls /\ StateInv(State, {}, {})
    BY EpollAssumption DEF IInv
<1>2. CASE ready[e] = {}
  <2> DEFINE c == [max |-> n, timed |-> timed, signal |-> "none"]
             u == [State EXCEPT !.call[t] = c]
  <2>1. Becomes(u)
      BY <1>2 DEF Wait
  <2>2. c \in [max : MaxEvents \cup {0}, timed : BOOLEAN, signal : {"none", "status", "timeout"}]
      OBVIOUS
  <2>3. ~Closed(State, e) => "READABLE" \notin State.status[e]
      BY <1>1, <1>2, StateFields DEF StateInv, OwnInv
  <2> HIDE DEF c
  <2>4. u = [status |-> State.status, watch |-> State.watch, ready |-> State.ready,
             call |-> [State.call EXCEPT ![t] = c], due |-> State.due]
      BY DEF State
  <2> HIDE DEF u
  <2>5. StateInv(u, {}, {})
      BY <1>1, <2>2, <2>3, <2>4, CallInv
  <2>6. StateInv(State', {}, {})
      BY <2>1, <2>5, BecomesState
  <2> QED BY <2>6 DEF IInv, Wait
<1>3. CASE ready[e] # {}
  <2>1. Becomes(GetEvents(State, e, n)) /\ ~Closed(State, e)
      BY <1>3 DEF Wait
  <2>2. State.watch = watch /\ State.ready = ready
      BY StateFields
  <2>3. StateInv(GetEvents(State, e, n), {}, {})
      BY <1>1, <2>1, <2>2, GetEventsInv
  <2>4. StateInv(State', {}, {})
      BY <2>1, <2>3, BecomesState
  <2> QED BY <2>4 DEF IInv, Wait
<1> QED BY <1>2, <1>3

LEMMA TimeoutExpiresInv ==
    ASSUME IInv, NEW t \in Threads, TimeoutExpires(t)
    PROVE  IInv'
<1> DEFINE b == call[t]
           c == [b EXCEPT !.timed = FALSE, !.signal = IF b.signal = "none" THEN "timeout" ELSE b.signal]
           R == [max : MaxEvents \cup {0}, timed : BOOLEAN, signal : {"none", "status", "timeout"}]
<1>1. StateInv(State, {}, {}) /\ call \in [Threads -> R]
    BY StateFields DEF IInv, StateInv, StateType
<1>2. c \in R /\ c.signal # "none"
  <2>1. b \in R
      BY <1>1
  <2> HIDE DEF b
  <2> QED BY <2>1
<1>3. call' = [call EXCEPT ![t] = c]
    BY <1>1 DEF TimeoutExpires
<1> HIDE DEF c, R
<1>4. State' = [status |-> State.status, watch |-> State.watch, ready |-> State.ready,
                call |-> [State.call EXCEPT ![t] = c], due |-> State.due]
  <2>1. State' = [status |-> status', watch |-> watch', ready |-> ready', call |-> call', due |-> due']
      BY DEF State
  <2> QED BY <1>3, <2>1, StateFields DEF TimeoutExpires
<1>5. StateInv(State', {}, {})
    BY <1>1, <1>2, <1>4, CallInv DEF R
<1> QED BY <1>5 DEF IInv, TimeoutExpires

LEMMA RunSignalInv ==
    ASSUME IInv, NEW t \in Threads, RunSignal(t)
    PROVE  IInv'
<1> DEFINE e == Serves[t]
           back == [State EXCEPT !.call[t] = NoCall]
           again == [State EXCEPT !.call[t].signal = "none"]
           R == [max : MaxEvents \cup {0}, timed : BOOLEAN, signal : {"none", "status", "timeout"}]
<1>1. e \in Epolls /\ StateInv(State, {}, {}) /\ State.call \in [Threads -> R]
    BY EpollAssumption DEF IInv, StateInv, StateType
<1>2. Becomes(IF ~Deliver(t) THEN again
              ELSE IF Closed(State, e) \/ ready[e] = {} THEN back ELSE GetEvents(back, e, call[t].max))
    BY DEF RunSignal
<1>3. NoCall \in R
    BY DEF NoCall
<1>4. back = [status |-> State.status, watch |-> State.watch, ready |-> State.ready,
              call |-> [State.call EXCEPT ![t] = NoCall], due |-> State.due]
    BY DEF State
<1>5. again = [status |-> State.status, watch |-> State.watch, ready |-> State.ready,
               call |-> [State.call EXCEPT ![t] = [State.call[t] EXCEPT !.signal = "none"]],
               due |-> State.due]
    BY DEF State
<1>6. [State.call[t] EXCEPT !.signal = "none"] \in R
  <2> DEFINE b == State.call[t]
  <2>1. b \in R
      BY <1>1
  <2> HIDE DEF b
  <2>2. [b EXCEPT !.signal = "none"] \in R
      BY <2>1
  <2> QED BY <2>2 DEF b
<1> HIDE DEF back, again
<1>7. StateInv(back, {}, {})
    BY <1>1, <1>3, <1>4, CallInv
<1>8. CASE ~Deliver(t)
  <2>1. "READABLE" \notin State.status[e]
      BY <1>8, StateFields DEF Deliver
  <2>2. StateInv(again, {}, {})
      BY <1>1, <1>5, <1>6, <2>1, CallInv
  <2>3. Becomes(again)
      BY <1>2, <1>8
  <2>4. StateInv(State', {}, {})
      BY <2>2, <2>3, BecomesState
  <2> QED BY <2>4 DEF IInv, RunSignal
<1>9. CASE Deliver(t) /\ (Closed(State, e) \/ ready[e] = {})
  <2>1. Becomes(back)
      BY <1>2, <1>9
  <2>2. StateInv(State', {}, {})
      BY <1>7, <2>1, BecomesState
  <2> QED BY <2>2 DEF IInv, RunSignal
<1>10. CASE Deliver(t) /\ ~(Closed(State, e) \/ ready[e] = {})
  <2>1. Becomes(GetEvents(back, e, call[t].max))
      BY <1>2, <1>10
  <2>2. back.watch = watch /\ back.ready = ready /\ back.status = State.status
      BY <1>4, StateFields
  <2>3. ~Closed(back, e)
      BY <1>10, <2>2 DEF Closed
  <2>4. StateInv(GetEvents(back, e, call[t].max), {}, {})
      BY <1>1, <1>7, <2>2, <2>3, GetEventsInv
  <2>5. StateInv(State', {}, {})
      BY <2>1, <2>4, BecomesState
  <2> QED BY <2>5 DEF IInv, RunSignal
<1> QED BY <1>8, <1>9, <1>10

\* Time passes: an age counts the distinct ages below it, which are fewer than
\* the watches.
LEMMA YoungerCount ==
    ASSUME IInv, NEW e \in Epolls, NEW a
    PROVE  LET younger == {v.age : v \in {x \in Range(watch[e]) : x.age < a}}
           IN  Cardinality(younger) \in Nat /\ Cardinality(younger) + 1 \in 0 .. Never
<1> DEFINE younger == {v.age : v \in {x \in Range(watch[e]) : x.age < a}}
           S == {p \in DOMAIN watch[e] : watch[e][p].age < a}
           f == [p \in S |-> watch[e][p].age]
<1>1. /\ IsFiniteSet(DOMAIN watch[e]) /\ Cardinality(DOMAIN watch[e]) \in Nat /\ Never \in Nat
      /\ Cardinality(DOMAIN watch[e]) < Never
    BY Tables
<1>2. IsFiniteSet(S) /\ Cardinality(S) <= Cardinality(DOMAIN watch[e])
    BY <1>1, FS_Subset
<1>3. f \in Surjection(S, younger)
    BY DEF Surjection, Range
<1> HIDE DEF younger, S, f
<1>4. IsFiniteSet(younger) /\ Cardinality(younger) <= Cardinality(S)
    BY <1>2, <1>3, FS_Surjection
<1>5. Cardinality(younger) \in Nat /\ Cardinality(S) \in Nat
    BY <1>2, <1>4, FS_CardinalityType
<1>6. Cardinality(younger) + 1 \in 0 .. Never
    BY <1>1, <1>2, <1>4, <1>5
<1> QED BY <1>5, <1>6 DEF younger

LEMMA TickInv ==
    ASSUME IInv, Tick
    PROVE  IInv'
<1> DEFINE u == State'
<1>1. /\ IsState(u) /\ u.status = State.status /\ u.ready = State.ready /\ u.call = State.call
      /\ u.due = State.due /\ u.watch = [e \in Epolls |-> Older(e)]
  <2>1. u = [status |-> status', watch |-> watch', ready |-> ready', call |-> call', due |-> due']
      BY DEF State
  <2> HIDE DEF u
  <2> QED BY <2>1, StateFields DEF Tick, IsState
<1> HIDE DEF u
<1>2. StateInv(State, {}, {}) /\ StateType(State) /\ WatchesInv(State, {})
    BY DEF IInv, StateInv
<1>3. ASSUME NEW e \in Epolls
      PROVE  /\ DOMAIN u.watch[e] = DOMAIN watch[e] /\ u.watch[e] = [p \in DOMAIN watch[e] |-> u.watch[e][p]]
             /\ \A p \in DOMAIN watch[e] :
                   /\ u.watch[e][p] \in [events : Masks[p], id : 1 .. Cardinality(DOMAIN watch[e]),
                                         age : 0 .. Never, flags : SUBSET Flags]
                   /\ u.watch[e][p].id = watch[e][p].id /\ u.watch[e][p].events = watch[e][p].events
                   /\ u.watch[e][p].flags = watch[e][p].flags
  <2>1. u.watch[e] = Older(e)
      BY <1>1
  <2>2. DOMAIN u.watch[e] = DOMAIN watch[e] /\ u.watch[e] = [p \in DOMAIN watch[e] |-> u.watch[e][p]]
      BY <2>1 DEF Older
  <2>3. ASSUME NEW p \in DOMAIN watch[e]
        PROVE  /\ u.watch[e][p] \in [events : Masks[p], id : 1 .. Cardinality(DOMAIN watch[e]),
                                     age : 0 .. Never, flags : SUBSET Flags]
               /\ u.watch[e][p].id = watch[e][p].id /\ u.watch[e][p].events = watch[e][p].events
               /\ u.watch[e][p].flags = watch[e][p].flags
    <3> DEFINE w == watch[e][p]
               k == Cardinality({v.age : v \in {x \in Range(watch[e]) : x.age < w.age}}) + 1
    <3>1. w \in [events : Masks[p], id : 1 .. Cardinality(DOMAIN watch[e]), age : 0 .. Never,
                 flags : SUBSET Flags]
        BY Tables
    <3>2. k \in 0 .. Never
        BY YoungerCount
    <3>3. u.watch[e][p] = IF w.age = Never THEN w ELSE [w EXCEPT !.age = k]
        BY <2>1 DEF Older
    <3> HIDE DEF w, k
    <3>4. [w EXCEPT !.age = k] \in [events : Masks[p], id : 1 .. Cardinality(DOMAIN watch[e]),
                                    age : 0 .. Never, flags : SUBSET Flags]
        BY <3>1, <3>2
    <3>5. /\ [w EXCEPT !.age = k].id = w.id /\ [w EXCEPT !.age = k].events = w.events
          /\ [w EXCEPT !.age = k].flags = w.flags
        BY <3>1
    <3> QED BY <3>1, <3>3, <3>4, <3>5 DEF w
  <2> QED BY <2>2, <2>3
<1>4. ASSUME NEW e \in Epolls
      PROVE  TableType(u, e)
  <2>1. TableType(State, e) /\ State.watch = watch
      BY <1>2, StateFields DEF StateType
  <2>2. \A p, q \in DOMAIN watch[e] : u.watch[e][p].id = u.watch[e][q].id => p = q
    <3>1. \A p, q \in DOMAIN watch[e] : watch[e][p].id = watch[e][q].id => p = q
        BY <2>1 DEF TableType
    <3>2. \A p \in DOMAIN watch[e] : u.watch[e][p].id = watch[e][p].id
        BY <1>3
    <3> QED BY <3>1, <3>2
  <2>3. Closed(u, e) => DOMAIN watch[e] = {}
      BY <1>1, <2>1 DEF TableType, Closed
  <2>4. /\ u.due[e] = [p \in DOMAIN watch[e] |-> u.due[e][p]] /\ DOMAIN u.due[e] = DOMAIN watch[e]
        /\ \A p \in DOMAIN watch[e] : u.due[e][p] \subseteq {"READABLE", "WRITABLE", "ONCE"}
        /\ DOMAIN watch[e] \subseteq Watchable[e] /\ u.ready[e] \subseteq DOMAIN watch[e]
      BY <1>1, <2>1 DEF TableType
  <2>5. DOMAIN u.watch[e] = DOMAIN watch[e] /\ u.watch[e] = [p \in DOMAIN watch[e] |-> u.watch[e][p]]
      BY <1>3
  <2>6. \A p \in DOMAIN watch[e] :
           u.watch[e][p] \in [events : Masks[p], id : 1 .. Cardinality(DOMAIN watch[e]),
                              age : 0 .. Never, flags : SUBSET Flags]
      BY <1>3
  <2> QED BY <2>2, <2>3, <2>4, <2>5, <2>6 DEF TableType
<1>5. StateType(u)
    BY <1>1, <1>2, <1>4 DEF StateType
<1>6. WatchesInv(u, {})
  <2> SUFFICES ASSUME NEW e \in Epolls, NEW p \in DOMAIN u.watch[e]
               PROVE  Tracks(u, e, p) /\ Told(u, e, p)
      BY DEF WatchesInv
  <2>1. KeepsWatch(State, u, e, p)
      BY <1>1, <1>3, StateFields DEF KeepsWatch
  <2> QED BY <1>2, <2>1, SameWatch
<1>7. OwnInv(u, {}) /\ WaitersInv(u)
    BY <1>1, <1>2 DEF StateInv, OwnInv, WaitersInv, Closed
<1>8. StateInv(State', {}, {})
    BY <1>5, <1>6, <1>7 DEF StateInv, u
<1> QED BY <1>8 DEF IInv, Tick
-----------------------------------------------------------------------------
(***************************************************************************)
(* Theorems                                                                *)
(***************************************************************************)

\* Nothing is left to be told or adjusted when a call returns.
THEOREM Invariance == Spec => []IInv
<1>1. Init => IInv
    BY InitInv
<1>2. IInv /\ [Next]_vars => IInv'
  <2> SUFFICES ASSUME IInv, [Next]_vars
               PROVE  IInv'
      OBVIOUS
  <2>1. ASSUME NEW f \in Files, NEW bits \in SUBSET {"ACTIVE", "READABLE", "WRITABLE"}, NEW on \in BOOLEAN,
               AdjustStatus(f, bits, on)
        PROVE  IInv'
      BY <2>1, AdjustStatusInv
  <2>2. ASSUME NEW f \in Files, CloseFile(f)
        PROVE  IInv'
      BY <2>2, CloseFileInv
  <2>3. ASSUME NEW e \in Epolls, CloseEpoll(e)
        PROVE  IInv'
      BY <2>3, CloseEpollInv
  <2>4. ASSUME NEW e \in Epolls, NEW o \in Objects, NEW m \in Masks[o], Add(e, o, m)
        PROVE  IInv'
      BY <2>4, AddInv
  <2>5. ASSUME NEW e \in Epolls, NEW o \in Objects, NEW m \in Masks[o], Mod(e, o, m)
        PROVE  IInv'
      BY <2>5, ModInv
  <2>6. ASSUME NEW e \in Epolls, NEW o \in Objects, Del(e, o)
        PROVE  IInv'
      BY <2>6, DelInv
  <2>7. ASSUME NEW t \in Threads, NEW n \in MaxEvents, NEW timed \in BOOLEAN, Wait(t, n, timed)
        PROVE  IInv'
      BY <2>7, WaitInv
  <2>8. ASSUME NEW t \in Threads, TimeoutExpires(t)
        PROVE  IInv'
      BY <2>8, TimeoutExpiresInv
  <2>9. ASSUME NEW t \in Threads, RunSignal(t)
        PROVE  IInv'
      BY <2>9, RunSignalInv
  <2>10. CASE Tick
      BY <2>10, TickInv
  <2>11. CASE UNCHANGED vars
    <3>1. State' = State /\ nctl' = nctl
        BY <2>11 DEF vars, State
    <3> QED BY <3>1 DEF IInv
  <2> QED BY <2>1, <2>2, <2>3, <2>4, <2>5, <2>6, <2>7, <2>8, <2>9, <2>10, <2>11 DEF Next
<1> QED BY <1>1, <1>2, PTL DEF Spec

\* What a watch that has been told says is what is owed.
LEMMA ReadyIsOwed ==
    ASSUME IInv, NEW e \in Epolls, NEW o \in DOMAIN watch[e]
    PROVE  /\ IsReady(watch[e][o]) <=> Owed(e, o)
           /\ IsReady(watch[e][o]) => o \in ready[e]
           /\ o \in ready[e] =>
                 IsReady(watch[e][o]) \/ {"ET_REPORTED", "ONESHOT_REPORTED"} \cap watch[e][o].flags # {}
<1> DEFINE w == watch[e][o]
           st == status[o]
           d == due[e][o]
<1>1. Tracks(State, e, o) /\ Told(State, e, o)
    BY Tables, StateFields DEF WatchesInv
<1>2. /\ w.flags \cap Bits = st
      /\ IsReady(w) => o \in ready[e]
      /\ o \in ready[e] => IsReady(w) \/ "ET_REPORTED" \in w.flags \/ "ONESHOT_REPORTED" \in w.flags
    BY <1>1, StateFields DEF Told
<1>3. /\ "ET" \in w.events => \A b \in Directions :
            b \in d <=>
               /\ b \in st
               /\ "ET_REPORTED" \notin w.flags \/ ChangedFlag(b) \in w.flags \/ b \notin w.flags
      /\ "ONESHOT" \in w.events => ("ONCE" \in d <=> "ONESHOT_REPORTED" \notin w.flags)
    BY <1>1, StateFields DEF Tracks
<1>4. Events(w) \subseteq Directions /\ Directions \subseteq Bits /\ "ACTIVE" \in Bits /\ "CLOSED" \in Bits
    BY DEF Events, Directions, Bits
<1>5. Events(w) \cap w.flags = Events(w) \cap st
    BY <1>2, <1>4
<1> HIDE DEF w, st, d
<1>6. "ET" \in w.events =>
         ((\E b \in Events(w) \cap w.flags : ChangedFlag(b) \in w.flags \/ "ET_REPORTED" \notin w.flags)
            <=> (Events(w) \cap st) \cap d # {})
  <2> SUFFICES ASSUME "ET" \in w.events
               PROVE  (\E b \in Events(w) \cap w.flags : ChangedFlag(b) \in w.flags \/ "ET_REPORTED" \notin w.flags)
                         <=> (Events(w) \cap st) \cap d # {}
      OBVIOUS
  <2>1. ASSUME NEW b \in Events(w) \cap st
        PROVE  b \in d <=> ChangedFlag(b) \in w.flags \/ "ET_REPORTED" \notin w.flags
    <3>1. b \in Directions /\ b \in st /\ b \in w.flags
        BY <1>4, <1>5
    <3> QED BY <1>3, <3>1
  <2> QED BY <1>5, <2>1
<1>7. ("CLOSED" \in w.flags <=> "CLOSED" \in st) /\ ("ACTIVE" \in w.flags <=> "ACTIVE" \in st)
    BY <1>2, <1>4
<1>8. IsReady(w) <=>
         /\ "CLOSED" \notin st /\ "ACTIVE" \in st
         /\ (IF "ET" \in w.events THEN (Events(w) \cap st) \cap d ELSE Events(w) \cap st) # {}
         /\ ~("ONESHOT" \in w.events /\ "ONESHOT_REPORTED" \in w.flags)
    BY <1>5, <1>6, <1>7 DEF IsReady
<1>9. Owed(e, o) <=>
         /\ "ACTIVE" \in st /\ "CLOSED" \notin st
         /\ (IF "ET" \in w.events THEN (Events(w) \cap st) \cap d ELSE Events(w) \cap st) # {}
         /\ ("ONESHOT" \in w.events => "ONCE" \in d)
    BY DEF Owed, w, st, d
<1>10. IsReady(w) <=> Owed(e, o)
    BY <1>3, <1>8, <1>9
<1> QED BY <1>2, <1>10 DEF w

\* EventsExact, for any files, masks and threads: after every call the watches
\* epoll_getEvents would report, those of the table ready whose flags
\* (_epollwatch_updateStatus) say so, are exactly the ones with an event that
\* is owed to the application.  Of the status of the epoll it says nothing.
THEOREM EventsAreExact == Spec => []EventsExact
<1>1. IInv => EventsExact
  <2> SUFFICES ASSUME IInv
               PROVE  EventsExact
      OBVIOUS
  <2>1. TypeOK
    <3>1. status \in [Files \cup Epolls -> SUBSET Bits]
        BY StateFields DEF IInv, StateInv, StateType
    <3>2. call \in [Threads -> [max : MaxEvents \cup {0}, timed : BOOLEAN,
                                signal : {"none", "status", "timeout"}]]
        BY StateFields DEF IInv, StateInv, StateType
    <3>3. nctl \in 0 .. MaxCtl
        BY DEF IInv
    <3>4. ASSUME NEW e \in Epolls
          PROVE  /\ DOMAIN watch[e] \subseteq Watchable[e]
                 /\ \A o \in DOMAIN watch[e] :
                       watch[e][o] \in
                         [events : Masks[o], id : 1..Cardinality(DOMAIN watch[e]), age : 0..Never,
                          flags : SUBSET Flags]
                 /\ IsInjective([o \in DOMAIN watch[e] |-> watch[e][o].id])
                 /\ ready[e] \subseteq DOMAIN watch[e]
                 /\ DOMAIN due[e] = DOMAIN watch[e]
                 /\ \A o \in DOMAIN due[e] : due[e][o] \subseteq {"READABLE", "WRITABLE", "ONCE"}
      <4>1. IsInjective([o \in DOMAIN watch[e] |-> watch[e][o].id])
          BY Tables DEF IsInjective
      <4> QED BY <4>1, Tables
    <3> QED BY <3>1, <3>2, <3>3, <3>4 DEF TypeOK, Flags
  <2>2. ASSUME NEW e \in Epolls
        PROVE  ready[e] \subseteq DOMAIN watch[e]
      BY Tables
  <2>3. ReportsExact
      BY <2>2, ReadyIsOwed DEF ReportsExact, Reportable, Open
  <2> QED BY <2>1, <2>3 DEF EventsExact
<1> QED BY <1>1, Invariance, PTL

\* NoLostWakeup: a thread that is blocked in epoll_wait (epoll.c of the system
\* calls) with no signal under way misses no event, however the changes of the
\* descriptors, the calls of epoll_ctl, the timeouts and the signals interleave.
THEOREM WakeupsNotLost == Spec => []NoLostWakeup
<1>1. IInv => NoLostWakeup
  <2> SUFFICES ASSUME IInv, NEW t \in Threads, call[t] # NoCall, call[t].signal = "none",
                      Serves[t] \in Open, NEW o \in DOMAIN watch[Serves[t]]
               PROVE  ~Owed(Serves[t], o)
      BY DEF NoLostWakeup
  <2>1. Serves[t] \in Epolls /\ "CLOSED" \notin status[Serves[t]]
      BY DEF Open
  <2>2. "READABLE" \notin status[Serves[t]]
      BY <2>1, StateFields DEF IInv, StateInv, WaitersInv, Closed
  <2>3. ready[Serves[t]] = {}
      BY <2>1, <2>2, StateFields DEF IInv, StateInv, OwnInv, Closed
  <2> QED BY <2>1, <2>3, ReadyIsOwed
<1> QED BY <1>1, Invariance, PTL
-----------------------------------------------------------------------------
(* Timers. *)

\* The queue: no event is in the past and no two have the same id, which an
\* event of a closed or a newly set timer obeys too.
QueueInv ==
    /\ \A e \in events : now <= e.time
    /\ \A d, e \in events : d.id = e.id => d = e

\* The inductive invariant.  OneLiveEvent alone is not inductive: the event
\* that is executed must be the only valid one and still have its time ahead.
TimerInv == TimerTypeOK /\ QueueInv /\ OneLiveEvent /\ ReadableIfExpired

-----------------------------------------------------------------------------
\* _timer_scheduleNewExpireEvent: the event is due not before now and not after
\* the expiration, has the next id, and only nextExpireID changes.
LEMMA ScheduledEvent ==
    ASSUME NEW tm \in TimerRecord, NEW n \in Nat, n <= tm.next
    PROVE  /\ WakeTime(tm, n) \in Nat
           /\ n <= WakeTime(tm, n) /\ WakeTime(tm, n) <= tm.next
           /\ ScheduleNewExpireEvent(tm, n).events
                = {[time |-> WakeTime(tm, n), id |-> tm.nextId]}
           /\ ScheduleNewExpireEvent(tm, n).timer = [tm EXCEPT !.nextId = tm.nextId + 1]
    BY OneSecondAssumption DEF TimerRecord, WakeTime, ScheduleNewExpireEvent

\* _timer_disarm: every event there is becomes invalid.
LEMMA DisarmedTimer ==
    ASSUME NEW tm \in TimerRecord
    PROVE  /\ Disarm(tm) \in TimerRecord
           /\ ~Armed(Disarm(tm))
           /\ Disarm(tm).nextId = tm.nextId /\ Disarm(tm).minId = tm.nextId
           /\ Disarm(tm).count = tm.count /\ Disarm(tm).readable = tm.readable
<1>1. Disarm(tm) \in TimerRecord
    BY DEF TimerRecord, Disarm
<1>2. /\ ~Armed(Disarm(tm)) /\ Disarm(tm).nextId = tm.nextId
      /\ Disarm(tm).minId = tm.nextId /\ Disarm(tm).count = tm.count
    BY DEF TimerRecord, Disarm, Armed
<1>3. Disarm(tm).readable = tm.readable
    BY DEF TimerRecord, Disarm
<1> QED BY <1>1, <1>2, <1>3

\* A timer without expirations to read.
LEMMA ClearedTimer ==
    ASSUME NEW tm \in TimerRecord
    PROVE  /\ Cleared(tm) \in TimerRecord
           /\ Cleared(tm).next = tm.next /\ Cleared(tm).nextId = tm.nextId
           /\ Cleared(tm).minId = tm.minId /\ Cleared(tm).count = 0
           /\ Cleared(tm).readable = FALSE
<1>1. Cleared(tm) \in TimerRecord
    BY DEF TimerRecord, Cleared
<1>2. /\ Cleared(tm).next = tm.next /\ Cleared(tm).nextId = tm.nextId
      /\ Cleared(tm).minId = tm.minId /\ Cleared(tm).count = 0
    BY DEF TimerRecord, Cleared
<1>3. Cleared(tm).readable = FALSE
    BY DEF TimerRecord, Cleared
<1> QED BY <1>1, <1>2, <1>3

\* An expiration that is counted.
LEMMA ExpiredTimer ==
    ASSUME NEW tm \in TimerRecord
    PROVE  /\ Expired(tm) \in TimerRecord
           /\ Expired(tm).nextId = tm.nextId /\ Expired(tm).minId = tm.minId
           /\ Expired(tm).count > 0 /\ Expired(tm).readable = TRUE
<1> DEFINE n == tm.count + 1
<1>a. n \in Nat
    BY DEF TimerRecord
<1>b. Expired(tm) = [tm EXCEPT !.count = n, !.readable = TRUE]
    BY DEF Expired
<1> HIDE DEF n
<1>1. Expired(tm) \in TimerRecord
    BY <1>a, <1>b DEF TimerRecord
<1> USE DEF n
<1>2. /\ Expired(tm).nextId = tm.nextId /\ Expired(tm).minId = tm.minId
      /\ Expired(tm).count > 0
    BY DEF TimerRecord, Expired
<1>3. Expired(tm).readable = TRUE
    BY DEF TimerRecord, Expired
<1> QED BY <1>1, <1>2, <1>3

\* The state that an armed timer and one new event leave: whatever is valid
\* among the events that remain, the new one is the only valid one.
LEMMA NewLiveEvent ==
    ASSUME TimerInv, NEW tm \in TimerRecord, NEW rest \in SUBSET events,
           tm.nextId = timer.nextId, tm.minId <= tm.nextId,
           \A e \in rest : e.id < tm.minId,
           now <= tm.next, tm.count > 0 <=> tm.readable,
           timer' = ScheduleNewExpireEvent(tm, now).timer,
           events' = rest \cup ScheduleNewExpireEvent(tm, now).events,
           now' = now
    PROVE  /\ timer' \in TimerRecord /\ timer'.minId <= timer'.nextId
           /\ events' \subseteq ExpireEvent
           /\ \A e \in events' : e.id < timer'.nextId
           /\ QueueInv' /\ OneLiveEvent' /\ ReadableIfExpired'
<1> DEFINE ev == [time |-> WakeTime(tm, now), id |-> tm.nextId]
<1>1. /\ ev \in ExpireEvent /\ ev.id = timer.nextId
      /\ now <= ev.time /\ ev.time <= tm.next
      /\ events' = rest \cup {ev}
      /\ timer' = [tm EXCEPT !.nextId = tm.nextId + 1]
    BY ScheduledEvent DEF TimerInv, TimerTypeOK, ExpireEvent, TimerRecord
<1>2. /\ timer' \in TimerRecord /\ timer'.next = tm.next
      /\ timer'.nextId = timer.nextId + 1 /\ timer'.minId = tm.minId
      /\ timer'.minId <= timer'.nextId
      /\ timer'.count = tm.count /\ timer'.readable = tm.readable
    BY <1>1 DEF TimerRecord
<1> HIDE DEF ev
<1>3. /\ events' \subseteq ExpireEvent
      /\ \A e \in events' : e.id < timer'.nextId
    BY <1>1, <1>2 DEF TimerInv, TimerTypeOK, ExpireEvent, TimerRecord
<1>4. QueueInv'
  <2>1. \A e \in rest : e.id # ev.id
      BY <1>1 DEF TimerInv, TimerTypeOK, ExpireEvent, TimerRecord
  <2> QED BY <2>1, <1>1 DEF TimerInv, QueueInv
<1>5. OneLiveEvent'
  <2>1. \A e \in rest : ~Valid(timer', e)
      BY <1>2 DEF Valid, TimerInv, TimerTypeOK, ExpireEvent, TimerRecord
  <2>2. Valid(timer', ev)
      BY <1>1, <1>2 DEF Valid, TimerInv, TimerTypeOK, TimerRecord
  <2>3. ValidEvents' = {ev}
      BY <2>1, <2>2, <1>1 DEF ValidEvents
  <2>4. timer'.next > 0
      BY <1>2 DEF TimerInv, TimerTypeOK, TimerRecord
  <2> QED BY <2>3, <2>4, <1>1, <1>2 DEF OneLiveEvent, Armed
<1>6. ReadableIfExpired'
    BY <1>2 DEF ReadableIfExpired
<1> QED BY <1>2, <1>3, <1>4, <1>5, <1>6

\* The state that a disarmed timer leaves.
LEMMA NoLiveEvent ==
    ASSUME TimerInv, NEW tm \in TimerRecord, tm.nextId = timer.nextId,
           tm.count > 0 <=> tm.readable,
           timer' \in TimerRecord, ~Armed(timer'),
           timer'.nextId = tm.nextId, timer'.minId = tm.nextId,
           timer'.count = tm.count, timer'.readable = tm.readable,
           events' \subseteq events, now' = now
    PROVE  /\ timer'.minId <= timer'.nextId
           /\ events' \subseteq ExpireEvent
           /\ \A e \in events' : e.id < timer'.nextId
           /\ QueueInv' /\ OneLiveEvent' /\ ReadableIfExpired'
<1>1. /\ timer'.minId <= timer'.nextId /\ events' \subseteq ExpireEvent
      /\ \A e \in events' : e.id < timer'.nextId
    BY DEF TimerInv, TimerTypeOK, TimerRecord
<1>2. QueueInv'
    BY DEF TimerInv, QueueInv
<1>3. ValidEvents' = {}
    BY <1>1 DEF ValidEvents, Valid, ExpireEvent, TimerRecord
<1> QED BY <1>1, <1>2, <1>3 DEF OneLiveEvent, ReadableIfExpired
-----------------------------------------------------------------------------
\* timerfd_settime re-establishes the invariant whatever was set before.
LEMMA SetTimerInv ==
    ASSUME TimerInv, NEW v \in Values, NEW i \in Intervals, NEW a \in BOOLEAN,
           SetTimer(v, i, a)
    PROVE  TimerInv'
<1> DEFINE off == Cleared(Disarm(timer))
           at == ExpireTime(now, v, a)
           tm == [off EXCEPT !.next = at, !.interval = i]
<1>1. v \in Nat /\ i \in Nat /\ now \in Nat /\ timer \in TimerRecord /\ now' = now
    BY TimerFdAssumption DEF SetTimer, TimerInv, TimerTypeOK
<1>2. /\ off \in TimerRecord /\ ~Armed(off) /\ off.nextId = timer.nextId
      /\ off.minId = timer.nextId /\ off.count = 0 /\ off.readable = FALSE
  <2> DEFINE d == Disarm(timer)
  <2>1. /\ d \in TimerRecord /\ ~Armed(d) /\ d.nextId = timer.nextId /\ d.minId = timer.nextId
      BY <1>1, DisarmedTimer
  <2> HIDE DEF d
  <2>2. /\ Cleared(d) \in TimerRecord /\ Cleared(d).next = d.next /\ Cleared(d).nextId = d.nextId
        /\ Cleared(d).minId = d.minId /\ Cleared(d).count = 0 /\ Cleared(d).readable = FALSE
      BY <2>1, ClearedTimer
  <2>3. off = Cleared(d)
      BY DEF d
  <2> HIDE DEF off
  <2> QED BY <2>1, <2>2, <2>3 DEF Armed
<1>3. at \in Nat /\ now <= at
    BY <1>1 DEF ExpireTime
<1>4. /\ tm \in TimerRecord /\ tm.next = at /\ tm.nextId = timer.nextId
      /\ tm.minId = timer.nextId /\ tm.count = 0 /\ tm.readable = FALSE
    BY <1>1, <1>2, <1>3 DEF TimerRecord
<1>5. /\ timer' = SetTime(timer, now, v, i, a).timer
      /\ events' = events \cup SetTime(timer, now, v, i, a).events
    BY DEF SetTimer, Apply
<1>6. SetTime(timer, now, v, i, a)
        = IF v = 0 THEN Unscheduled(off) ELSE ScheduleNewExpireEvent(tm, now)
    BY DEF SetTime
<1>7. /\ closed' \in BOOLEAN /\ sets' \in 0 .. MaxSets
      /\ now' \in Nat \ {0} /\ first' \in Nat /\ period' \in Nat /\ taken' \in Nat
    BY <1>1, <1>3, TimerFdAssumption DEF SetTimer, TimerInv, TimerTypeOK
<1> HIDE DEF off, at, tm
<1>8. CASE v = 0
  <2>1. timer' = off /\ events' = events
      BY <1>5, <1>6, <1>8 DEF Unscheduled
  <2>2. QueueInv' /\ OneLiveEvent' /\ ReadableIfExpired'
        /\ timer'.minId <= timer'.nextId /\ events' \subseteq ExpireEvent
        /\ \A e \in events' : e.id < timer'.nextId
      BY <2>1, <1>1, <1>2, NoLiveEvent DEF TimerRecord
  <2> QED BY <2>1, <2>2, <1>2, <1>7 DEF TimerInv, TimerTypeOK
<1>9. CASE v # 0
  <2>1. /\ timer' = ScheduleNewExpireEvent(tm, now).timer
        /\ events' = events \cup ScheduleNewExpireEvent(tm, now).events
      BY <1>5, <1>6, <1>9
  <2>2. \A e \in events : e.id < tm.minId
      BY <1>4 DEF TimerInv, TimerTypeOK
  <2>3. /\ timer' \in TimerRecord /\ timer'.minId <= timer'.nextId
        /\ events' \subseteq ExpireEvent /\ \A e \in events' : e.id < timer'.nextId
        /\ QueueInv' /\ OneLiveEvent' /\ ReadableIfExpired'
    <3>1. tm.count > 0 <=> tm.readable
        BY <1>4
    <3>2. tm.minId <= tm.nextId /\ now <= tm.next /\ events \in SUBSET events
        BY <1>1, <1>3, <1>4 DEF TimerRecord
    <3>3. /\ TimerInv /\ tm \in TimerRecord /\ tm.nextId = timer.nextId
          /\ now' = now
        BY <1>1, <1>4
    <3> QED BY ONLY <3>1, <3>2, <3>3, <2>1, <2>2, NewLiveEvent
  <2> QED BY <2>3, <1>7 DEF TimerInv, TimerTypeOK
<1> QED BY <1>8, <1>9

\* An expire event: ignored, looked at again later, or the expiration itself.
LEMMA ExpireTimerInv ==
    ASSUME TimerInv, NEW ev \in events, ExpireTimer(ev)
    PROVE  TimerInv'
<1> DEFINE rest == events \ {ev}
<1>1. /\ timer \in TimerRecord /\ now \in Nat \ {0} /\ now' = now /\ closed' = closed
      /\ timer.minId <= timer.nextId /\ ev \in ExpireEvent
      /\ timer' = Expire(timer, now, ev, closed).timer
      /\ events' = rest \cup Expire(timer, now, ev, closed).events
      /\ UNCHANGED <<sets, first, period, taken>> /\ ev.time = now
    BY DEF ExpireTimer, TimerInv, TimerTypeOK, history
<1>2. SUFFICES
        /\ timer' \in TimerRecord /\ timer'.minId <= timer'.nextId
        /\ events' \subseteq ExpireEvent /\ \A e \in events' : e.id < timer'.nextId
        /\ QueueInv' /\ OneLiveEvent' /\ ReadableIfExpired'
    BY <1>1 DEF TimerInv, TimerTypeOK
<1>3. CASE closed \/ ~Valid(timer, ev)
  <2>1. timer' = timer /\ events' = rest
      BY <1>1, <1>3 DEF Expire, Unscheduled
  <2>2. QueueInv' /\ ReadableIfExpired' /\ timer' \in TimerRecord
        /\ events' \subseteq ExpireEvent /\ \A e \in events' : e.id < timer'.nextId
      BY <2>1, <1>1 DEF TimerInv, TimerTypeOK, QueueInv, ReadableIfExpired
  <2>3. ~closed => ValidEvents' = ValidEvents
      BY <2>1, <1>3 DEF ValidEvents
  <2>4. OneLiveEvent'
      BY <2>1, <2>3, <1>1 DEF TimerInv, OneLiveEvent
  <2> QED BY <2>1, <2>2, <2>4, <1>1
<1>4. CASE ~closed /\ Valid(timer, ev)
  <2>1. Armed(timer) /\ ValidEvents = {ev} /\ now <= timer.next
    <3>1. ev \in ValidEvents
        BY <1>4 DEF ValidEvents
    <3> QED BY <3>1, <1>4, <1>1 DEF TimerInv, OneLiveEvent
  <2>2. \A e \in rest : e \in ExpireEvent /\ e.id < timer.minId
    <3>1. \A e \in rest : ~Valid(timer, e)
        BY <2>1 DEF ValidEvents
    <3> QED BY <3>1, <1>1 DEF Valid, TimerInv, TimerTypeOK, ExpireEvent, TimerRecord
  <2>3. timer.count > 0 <=> timer.readable
      BY DEF TimerInv, ReadableIfExpired
  <2>4. CASE timer.next > now
    <3>1. /\ timer' = ScheduleNewExpireEvent(timer, now).timer
          /\ events' = rest \cup ScheduleNewExpireEvent(timer, now).events
        BY <1>1, <1>4, <2>4 DEF Expire
    <3> QED BY <3>1, <2>1, <2>2, <2>3, <1>1, NewLiveEvent
  <2>5. CASE ~(timer.next > now)
    <3> DEFINE ex == Expired(timer)
               per == [ex EXCEPT !.next = NextPeriod(timer, now)]
    <3>1. /\ ex \in TimerRecord /\ ex.nextId = timer.nextId /\ ex.minId = timer.minId
          /\ ex.count > 0 /\ ex.readable = TRUE
        BY <1>1, ExpiredTimer
    <3>2. NextPeriod(timer, now) \in Nat /\ now <= NextPeriod(timer, now)
        BY <1>1 DEF NextPeriod, TimerRecord
    <3>3. /\ per \in TimerRecord /\ per.nextId = timer.nextId /\ per.minId = timer.minId
          /\ per.count > 0 /\ per.readable = TRUE /\ now <= per.next
        BY <3>1, <3>2 DEF TimerRecord
    <3>4. Expire(timer, now, ev, closed)
            = IF timer.interval > 0 THEN ScheduleNewExpireEvent(per, now)
              ELSE Unscheduled(Disarm(ex))
        BY <1>4, <2>5 DEF Expire
    <3> HIDE DEF ex, per
    <3>5. CASE timer.interval > 0
      <4>1. /\ timer' = ScheduleNewExpireEvent(per, now).timer
            /\ events' = rest \cup ScheduleNewExpireEvent(per, now).events
          BY <3>4, <3>5, <1>1
      <4> QED BY <4>1, <3>3, <2>2, <1>1, NewLiveEvent
    <3>6. CASE ~(timer.interval > 0)
      <4>1. timer' = Disarm(ex) /\ events' = rest
          BY <3>4, <3>6, <1>1 DEF Unscheduled
      <4>2. /\ timer' \in TimerRecord /\ ~Armed(timer') /\ timer'.nextId = ex.nextId
            /\ timer'.minId = ex.nextId /\ timer'.count = ex.count
            /\ timer'.readable = ex.readable
          BY <4>1, <3>1, DisarmedTimer
      <4> QED BY <4>1, <4>2, <3>1, <1>1, NoLiveEvent
    <3> QED BY <3>5, <3>6
  <2> QED BY <2>4, <2>5
<1> QED BY <1>3, <1>4

\* Every step preserves the inductive invariant.
LEMMA StepInv == TimerInv /\ [TimerNext]_timerVars => TimerInv'
<1> SUFFICES ASSUME TimerInv, [TimerNext]_timerVars PROVE TimerInv'
    OBVIOUS
<1>1. CASE \E v \in Values, i \in Intervals, a \in BOOLEAN : SetTimer(v, i, a)
    BY <1>1, SetTimerInv
<1>2. CASE ReadTimer
  <2>1. /\ timer' = Cleared(timer) /\ timer \in TimerRecord /\ taken' = taken + timer.count
        /\ UNCHANGED <<now, events, closed, sets, first, period>>
      BY <1>2 DEF ReadTimer, TimerInv, TimerTypeOK
  <2>2. /\ timer' \in TimerRecord /\ timer'.next = timer.next
        /\ timer'.minId = timer.minId /\ timer'.nextId = timer.nextId
        /\ timer'.count = 0 /\ timer'.readable = FALSE
      BY <2>1, ClearedTimer
  <2>3. taken' \in Nat
      BY <2>1 DEF TimerInv, TimerTypeOK, TimerRecord
  <2>4. TimerTypeOK'
      BY <2>1, <2>2, <2>3 DEF TimerInv, TimerTypeOK
  <2>5. QueueInv' /\ OneLiveEvent'
      BY <2>1, <2>2 DEF TimerInv, QueueInv, OneLiveEvent, ValidEvents, Valid, Armed
  <2>6. ReadableIfExpired'
      BY <2>2 DEF ReadableIfExpired
  <2> QED BY <2>4, <2>5, <2>6 DEF TimerInv
<1>3. CASE CloseTimer
    BY <1>3 DEF CloseTimer, TimerInv, TimerTypeOK, QueueInv, OneLiveEvent, ReadableIfExpired, history
<1>4. CASE \E ev \in events : ExpireTimer(ev)
    BY <1>4, ExpireTimerInv
<1>5. CASE PassTime
  <2>1. /\ now' = now + 1 /\ UNCHANGED <<timer, events, closed, sets, first, period, taken>>
        /\ \A e \in events : e \in ExpireEvent /\ e.time > now
      BY <1>5 DEF PassTime, history, TimerInv, TimerTypeOK
  <2>2. TimerTypeOK' /\ ReadableIfExpired'
      BY <2>1 DEF TimerInv, TimerTypeOK, ReadableIfExpired
  <2>3. \A e \in events : now' <= e.time
      BY <2>1 DEF TimerInv, TimerTypeOK, ExpireEvent
  <2>4. QueueInv'
      BY <2>1, <2>3 DEF TimerInv, QueueInv
  <2>5. OneLiveEvent'
      BY <2>1, <2>3 DEF TimerInv, OneLiveEvent, ValidEvents
  <2> QED BY <2>2, <2>4, <2>5 DEF TimerInv
<1>6. CASE SimulationOver \/ UNCHANGED timerVars
  <2>1. UNCHANGED <<now, timer, events, closed, sets, first, period, taken>>
      BY <1>6 DEF SimulationOver, timerVars
  <2> QED BY <2>1 DEF TimerInv, TimerTypeOK, QueueInv, OneLiveEvent, ValidEvents, ReadableIfExpired
<1> QED BY <1>1, <1>2, <1>3, <1>4, <1>5, <1>6 DEF TimerNext

\* The inductive invariant holds in every reachable state.
LEMMA TimerInvariance == TimerSpec => []TimerInv
<1>1. TimerInit => TimerInv
  <2> SUFFICES ASSUME TimerInit PROVE TimerInv
      OBVIOUS
  <2>1. /\ timer \in TimerRecord /\ timer.next = 0 /\ timer.count = 0
        /\ timer.minId = 0 /\ timer.nextId = 0
      BY DEF TimerInit, NewTimer, TimerRecord
  <2>2. timer.readable = FALSE
      BY DEF TimerInit, NewTimer
  <2>a. closed \in BOOLEAN
      BY DEF TimerInit
  <2>b. sets \in 0 .. MaxSets /\ now \in Nat \ {0}
      BY TimerFdAssumption DEF TimerInit
  <2>3. events = {} /\ TimerTypeOK
      BY <2>1, <2>a, <2>b DEF TimerInit, TimerTypeOK
  <2>4. QueueInv /\ OneLiveEvent /\ ReadableIfExpired
      BY <2>1, <2>2, <2>3 DEF QueueInv, OneLiveEvent, ReadableIfExpired, Armed, ValidEvents
  <2> QED BY <2>3, <2>4 DEF TimerInv
<1> QED BY <1>1, StepInv, PTL DEF TimerSpec

\* Every variable keeps its type, and every event in the queue has an id that
\* _timer_scheduleNewExpireEvent has given out.
THEOREM TimerTypeCorrect == TimerSpec => []TimerTypeOK
<1>1. TimerInv => TimerTypeOK
    BY DEF TimerInv
<1> QED BY <1>1, TimerInvariance, PTL

\* However often the timer is set, read or closed and however the events of
\* the settings interleave, an armed timer has exactly one event that counts
\* and a disarmed timer none (expire ids of timer.c).
THEOREM OneLiveEventHolds == TimerSpec => []OneLiveEvent
<1>1. TimerInv => OneLiveEvent
    BY DEF TimerInv
<1> QED BY <1>1, TimerInvariance, PTL

\* The assertion of _timer_getCurrentTime never fails.
THEOREM TimeLeftAlwaysDefined == TimerSpec => []TimeLeftDefined
<1>1. TimerInv => TimeLeftDefined
  <2> SUFFICES ASSUME TimerInv, Armed(timer), ~closed PROVE now <= timer.next
      BY DEF TimeLeftDefined
  <2>1. PICK e \in ValidEvents : now <= e.time /\ e.time <= timer.next
      BY DEF TimerInv, OneLiveEvent
  <2> QED BY <2>1 DEF TimerInv, TimerTypeOK, ValidEvents, ExpireEvent, TimerRecord
<1> QED BY <1>1, TimerInvariance, PTL

\* The descriptor's readable status agrees with expireCountSinceLastSet.
THEOREM ReadableExact == TimerSpec => []ReadableIfExpired
<1>1. TimerInv => ReadableIfExpired
    BY DEF TimerInv
<1> QED BY <1>1, TimerInvariance, PTL
-----------------------------------------------------------------------------
\* Expirations of the current setting so far.
Count == taken + timer.count

\* What the timer knows of the setting it was given: when armed, its next
\* expiration is as many periods after the first as there were expirations,
\* and the last of them is not in the future; when disarmed, there was none
\* to come or the only one is over.
CountInv ==
    ~closed =>
        IF Armed(timer)
        THEN /\ timer.interval = period /\ 0 < first
             /\ timer.next = first + Count * period
             /\ period = 0 => Count = 0
             /\ Count > 0 => timer.next <= now + period
        ELSE \/ first = 0 /\ Count = 0
             \/ period = 0 /\ 0 < first /\ first <= now /\ Count = 1

\* Multiplication by the next number.
LEMMA OneMore ==
    ASSUME NEW n \in Nat, NEW p \in Nat
    PROVE  (n + 1) * p = n * p + p /\ 0 * p = 0 /\ n * p \in Nat
    BY SMT

\* The quotient is the number of whole periods.
LEMMA Quotient ==
    ASSUME NEW d \in Nat, NEW p \in Nat \ {0}, NEW m \in Nat, m * p <= d, d < m * p + p
    PROVE  d \div p = m
    BY Z3

\* A new setting starts the count at zero.
LEMMA SetTimerCount ==
    ASSUME TimerInv, NEW v \in Values, NEW i \in Intervals, NEW a \in BOOLEAN,
           SetTimer(v, i, a)
    PROVE  CountInv'
<1> DEFINE off == Cleared(Disarm(timer))
           at == ExpireTime(now, v, a)
           tm == [off EXCEPT !.next = at, !.interval = i]
<1>1. v \in Nat /\ i \in Nat /\ now \in Nat \ {0} /\ timer \in TimerRecord
    BY TimerFdAssumption DEF TimerInv, TimerTypeOK
<1>2. off \in TimerRecord /\ off.count = 0 /\ ~Armed(off)
    BY <1>1, DisarmedTimer, ClearedTimer DEF Armed
<1>3. at \in Nat /\ now <= at /\ now' = now
    BY <1>1 DEF ExpireTime, SetTimer
<1>4. tm \in TimerRecord /\ tm.next = at /\ tm.interval = i /\ tm.count = 0
    BY <1>1, <1>2, <1>3 DEF TimerRecord
<1>5. /\ timer' = SetTime(timer, now, v, i, a).timer
      /\ taken' = 0
      /\ first' = IF v = 0 THEN 0 ELSE at
      /\ period' = IF v = 0 THEN 0 ELSE i
    BY DEF SetTimer, Apply
<1>6. SetTime(timer, now, v, i, a)
        = IF v = 0 THEN Unscheduled(off) ELSE ScheduleNewExpireEvent(tm, now)
    BY DEF SetTime
<1> HIDE DEF off, at, tm
<1>7. CASE v = 0
  <2>1. timer' = off
      BY <1>5, <1>6, <1>7 DEF Unscheduled
  <2> QED BY <2>1, <1>2, <1>5, <1>7 DEF CountInv, Count, Armed
<1>8. CASE v # 0
  <2>1. timer' = [tm EXCEPT !.nextId = tm.nextId + 1]
      BY <1>3, <1>4, <1>5, <1>6, <1>8, <1>1, ScheduledEvent
  <2>2. timer'.next = at /\ timer'.interval = i /\ timer'.count = 0
      BY <2>1, <1>4 DEF TimerRecord
  <2>3. Count' = 0 /\ first' = at /\ period' = i /\ Count' * period' = 0
      BY <2>2, <1>1, <1>5, <1>8, OneMore DEF Count
  <2> QED BY <2>2, <2>3, <1>1, <1>3 DEF CountInv, Armed
<1> QED BY <1>7, <1>8

\* An expire event counts one expiration when it is due, and else none.
LEMMA ExpireTimerCount ==
    ASSUME TimerInv, CountInv, NEW ev \in events, ExpireTimer(ev)
    PROVE  CountInv'
<1>1. /\ timer \in TimerRecord /\ now \in Nat \ {0} /\ now' = now /\ closed' = closed
      /\ first' = first /\ period' = period /\ taken' = taken
      /\ first \in Nat /\ period \in Nat /\ taken \in Nat
      /\ timer' = Expire(timer, now, ev, closed).timer
    BY DEF ExpireTimer, TimerInv, TimerTypeOK, history
<1>2. CASE closed \/ ~Valid(timer, ev)
  <2>1. timer' = timer
      BY <1>1, <1>2 DEF Expire, Unscheduled
  <2> QED BY <2>1, <1>1 DEF CountInv, Count
<1>3. CASE ~closed /\ Valid(timer, ev)
  <2>1. Armed(timer) /\ now <= timer.next
    <3>1. ev \in ValidEvents
        BY <1>3 DEF ValidEvents
    <3>2. Armed(timer)
        BY <3>1, <1>3 DEF TimerInv, OneLiveEvent
    <3>3. PICK e \in ValidEvents : now <= e.time /\ e.time <= timer.next
        BY <3>2, <1>3 DEF TimerInv, OneLiveEvent
    <3>4. e.time \in Nat /\ timer.next \in Nat
        BY DEF ValidEvents, TimerInv, TimerTypeOK, ExpireEvent, TimerRecord
    <3> QED BY <3>2, <3>3, <3>4, <1>1
  <2>2. /\ timer.interval = period /\ timer.next = first + Count * period /\ 0 < first
        /\ period = 0 => Count = 0
        /\ Count > 0 => timer.next <= now + period
      BY <2>1, <1>3 DEF CountInv
  <2>3. Count \in Nat /\ timer.count \in Nat /\ timer.next \in Nat
      BY <1>1 DEF Count, TimerRecord
  <2>4. CASE timer.next > now
    <3>1. timer' = [timer EXCEPT !.nextId = timer.nextId + 1]
        BY <1>1, <1>3, <2>1, <2>4, ScheduledEvent DEF Expire
    <3>2. /\ timer'.next = timer.next /\ timer'.interval = timer.interval
          /\ timer'.count = timer.count
        BY <3>1, <1>1 DEF TimerRecord
    <3> QED BY <3>2, <2>1, <2>2, <1>1 DEF CountInv, Count, Armed
  <2>5. CASE ~(timer.next > now)
    <3> DEFINE ex == Expired(timer)
               per == [ex EXCEPT !.next = NextPeriod(timer, now)]
    <3>1. timer.next = now
        BY <2>1, <2>3, <2>5, <1>1
    <3>2. /\ ex \in TimerRecord /\ ex.count = timer.count + 1
          /\ ex.interval = timer.interval
      <4>1. ex.count = timer.count + 1 /\ ex.interval = timer.interval
          BY <1>1 DEF Expired, TimerRecord
      <4> QED BY <4>1, <1>1, ExpiredTimer
    <3>3. NextPeriod(timer, now) = timer.next + period
        BY <3>1, <2>2, <1>1 DEF NextPeriod
    <3>4. /\ per \in TimerRecord /\ per.next = timer.next + period
          /\ per.count = timer.count + 1 /\ per.interval = period
      <4> HIDE DEF ex
      <4>1. NextPeriod(timer, now) \in Nat
          BY <3>3, <2>3, <1>1
      <4>2. per \in TimerRecord
          BY <4>1, <3>2 DEF TimerRecord
      <4> QED BY <4>2, <3>2, <3>3, <2>2 DEF TimerRecord
    <3>5. Expire(timer, now, ev, closed)
            = IF timer.interval > 0 THEN ScheduleNewExpireEvent(per, now)
              ELSE Unscheduled(Disarm(ex))
        BY <1>3, <2>5 DEF Expire
    <3> HIDE DEF ex, per
    <3>6. CASE timer.interval > 0
      <4>1. now <= per.next
          BY <3>1, <3>4, <1>1
      <4>2. timer' = [per EXCEPT !.nextId = per.nextId + 1]
          BY <4>1, <3>4, <3>5, <3>6, <1>1, ScheduledEvent
      <4>3. /\ timer'.next = timer.next + period /\ timer'.count = timer.count + 1
            /\ timer'.interval = period
          BY <4>2, <3>4 DEF TimerRecord
      <4>4. Count' = Count + 1
          BY <4>3, <2>3, <1>1 DEF Count
      <4>5. timer'.next = first + Count' * period
          BY <4>3, <4>4, <2>2, <2>3, <1>1, OneMore
      <4>6. timer'.next > 0 /\ timer'.next <= now + period /\ period # 0
          BY <4>3, <3>1, <3>6, <2>2, <1>1
      <4> QED BY <4>3, <4>5, <4>6, <2>2, <1>1 DEF CountInv, Armed
    <3>7. CASE ~(timer.interval > 0)
      <4>1. timer' = Disarm(ex)
          BY <3>5, <3>7, <1>1 DEF Unscheduled
      <4>2. ~Armed(timer') /\ timer'.count = timer.count + 1
          BY <4>1, <3>2, DisarmedTimer
      <4>3. period = 0 /\ Count = 0
          BY <3>7, <2>2, <1>1
      <4>4. Count' = 1
          BY <4>2, <4>3, <2>3, <1>1 DEF Count
      <4>5. first = now
          BY <4>3, <3>1, <2>2, <1>1
      <4> QED BY <4>2, <4>3, <4>4, <4>5, <1>1 DEF CountInv
    <3> QED BY <3>6, <3>7
  <2> QED BY <2>4, <2>5
<1> QED BY <1>2, <1>3

\* Every step keeps the count.
LEMMA StepCount == TimerInv /\ CountInv /\ [TimerNext]_timerVars => CountInv'
<1> SUFFICES ASSUME TimerInv, CountInv, [TimerNext]_timerVars PROVE CountInv'
    OBVIOUS
<1>1. CASE \E v \in Values, i \in Intervals, a \in BOOLEAN : SetTimer(v, i, a)
    BY <1>1, SetTimerCount
<1>2. CASE ReadTimer
  <2>1. /\ timer' = Cleared(timer) /\ timer \in TimerRecord /\ taken' = taken + timer.count
        /\ UNCHANGED <<now, closed, first, period>> /\ taken \in Nat
      BY <1>2 DEF ReadTimer, TimerInv, TimerTypeOK
  <2>2. /\ timer'.next = timer.next /\ timer'.count = 0
        /\ timer'.interval = timer.interval /\ timer.count \in Nat
      BY <2>1 DEF Cleared, TimerRecord
  <2>3. Count' = Count
      BY <2>1, <2>2 DEF Count
  <2> QED BY <2>1, <2>2, <2>3 DEF CountInv, Armed
<1>3. CASE CloseTimer
    BY <1>3 DEF CloseTimer, CountInv
<1>4. CASE \E ev \in events : ExpireTimer(ev)
    BY <1>4, ExpireTimerCount
<1>5. CASE PassTime
  <2>1. now' = now + 1 /\ UNCHANGED <<timer, closed, first, period, taken>>
      BY <1>5 DEF PassTime, history
  <2>2. now \in Nat /\ timer.next \in Nat /\ period \in Nat /\ first \in Nat
      BY DEF TimerInv, TimerTypeOK, TimerRecord
  <2> QED BY <2>1, <2>2 DEF CountInv, Count
<1>6. CASE SimulationOver \/ UNCHANGED timerVars
  <2>1. UNCHANGED <<now, timer, closed, first, period, taken>>
      BY <1>6 DEF SimulationOver, timerVars
  <2> QED BY <2>1 DEF CountInv, Count
<1> QED BY <1>1, <1>2, <1>3, <1>4, <1>5, <1>6 DEF TimerNext

\* What read returns is exact: for all settings, periods and moments of reading,
\* the expirations read and those to be read are the ones the setting asked
\* for up to now (timer_read, _timer_expire).
THEOREM ExpirationsAreExact == TimerSpec => []ExpirationsExact
<1>1. TimerInit => CountInv
    BY DEF TimerInit, CountInv, Count, NewTimer, Armed
<1>2. TimerInv /\ CountInv => ExpirationsExact
  <2> SUFFICES ASSUME TimerInv, CountInv, ~closed, \A e \in events : e.time > now
               PROVE  Count = Due
      BY DEF ExpirationsExact, Count
  <2>1. /\ now \in Nat /\ first \in Nat /\ period \in Nat /\ Count \in Nat
        /\ timer.next \in Nat
      BY DEF TimerInv, TimerTypeOK, TimerRecord, Count
  <2>2. CASE Armed(timer)
    <3>1. PICK e \in ValidEvents : e.time <= timer.next
        BY <2>2 DEF TimerInv, OneLiveEvent
    <3>2. e.time \in Nat /\ e.time > now
        BY DEF ValidEvents, TimerInv, TimerTypeOK, ExpireEvent
    <3>3. timer.next > now
        BY <3>1, <3>2, <2>1
    <3>4. /\ timer.next = first + Count * period
          /\ period = 0 => Count = 0
          /\ Count > 0 => timer.next <= now + period
        BY <2>2 DEF CountInv
    <3>5. CASE Count = 0
        BY <3>3, <3>4, <3>5, <2>1, OneMore DEF Due
    <3>6. CASE Count > 0
      <4> DEFINE m == Count - 1
      <4>1. m \in Nat /\ Count = m + 1 /\ period \in Nat \ {0}
          BY <3>4, <3>6, <2>1
      <4> HIDE DEF m
      <4>2. m * period \in Nat /\ timer.next = first + m * period + period
          BY <4>1, <3>4, <2>1, OneMore
      <4>3. first + m * period <= now /\ now < first + m * period + period
          BY <4>2, <3>3, <3>4, <3>6, <2>1
      <4>4. now - first \in Nat /\ m * period <= now - first /\ now - first < m * period + period
          BY <4>2, <4>3, <2>1
      <4>5. (now - first) \div period = m
          BY <4>1, <4>4, Quotient
      <4>6. first # 0
          BY <2>2, <2>1 DEF CountInv
      <4> QED BY <4>1, <4>4, <4>5, <4>6, <2>1 DEF Due
    <3> QED BY <3>5, <3>6, <2>1
  <2>3. CASE ~Armed(timer)
      BY <2>1, <2>3 DEF CountInv, Due
  <2> QED BY <2>2, <2>3
<1> QED BY <1>1, <1>2, StepCount, TimerInvariance, PTL DEF TimerSpec
=============================================================================
