------------------------------- MODULE Epoll -------------------------------
(***************************************************************************)
(* Epoll descriptors (host/descriptor/epoll.c), the statuses and listeners *)
(* of the descriptors they watch (host/descriptor/descriptor.c,            *)
(* host/status_listener.c) and the calls epoll_ctl, epoll_wait and close   *)
(* (host/syscall/epoll.c).                                                 *)
(*                                                                         *)
(* There are two epolls: Outer may watch files and Inner, Inner watches    *)
(* files.  A change of a file's status calls the listener of every epoll   *)
(* that watches it; the epoll updates its watch, puts it into its table of *)
(* ready watches or takes it out, and adjusts its own status, which calls  *)
(* the listeners of Outer and of the threads that wait in epoll_wait.  All *)
(* of this happens within the call that changed the status; a thread runs  *)
(* later, from a task (host/syscall_condition.c, see BlockedCalls).        *)
(*                                                                         *)
(* Abstractions.  A watch is known by its object: the descriptor number in *)
(* the key is left out.  EWF_WAITINGREAD, EWF_WAITINGWRITE, EWF_EDGETRIGGER *)
(* and EWF_ONESHOT are read from the events themselves, which change only  *)
(* together with them; EWF_WATCHING holds for every watch in the table.    *)
(* Ids and times of the last report matter only by their order: id counts  *)
(* the watches that were added earlier, and age the times at which another *)
(* watch was reported since (0 for a report at the present time).          *)
(***************************************************************************)
EXTENDS Naturals, FiniteSets, Functions

CONSTANTS
    Files,        \* descriptors that are not epolls
    Lingering,    \* those whose number stays registered after close (TCP)
    Inner, Outer, \* the two epolls
    Watchable,    \* for each epoll, what the application may let it watch
    Changes,      \* <<file, bit>>: the bits of its status that change
    Threads,      \* threads that call epoll_wait
    Serves,       \* the epoll each thread waits on
    Timed,        \* the threads that may wait with a timeout
    Masks,        \* for each object the events of epoll_ctl: sets of IN, OUT, ET, ONESHOT
    MaxEvents,    \* the lengths of the event arrays of epoll_wait
    MaxCtl        \* bound: calls of epoll_ctl

Epolls == {Inner, Outer}
Objects == Files \cup {Inner}
Bits == {"ACTIVE", "READABLE", "WRITABLE", "CLOSED"}
Never == Cardinality(Objects) + 1
NewlySet(m, st) ==
    (IF "ET" \in m THEN st \cap {"READABLE", "WRITABLE"} ELSE {}) \cup
    (IF "ONESHOT" \in m THEN {"ONCE"} ELSE {})
NoCall == [max |-> 0, timed |-> FALSE, signal |-> "none"]

ASSUME EpollAssumption ==
    /\ IsFiniteSet(Files) /\ Lingering \subseteq Files
    /\ Inner # Outer /\ Epolls \cap Files = {}
    /\ Watchable \in [Epolls -> SUBSET Objects] /\ Watchable[Inner] \subseteq Files
    /\ Changes \subseteq Files \X Bits
    /\ Serves \in [Threads -> Epolls]
    /\ Timed \subseteq Threads
    /\ Masks \in [Objects -> SUBSET SUBSET {"IN", "OUT", "ET", "ONESHOT"}]
    /\ MaxEvents \subseteq Nat \ {0} /\ MaxCtl \in Nat

VARIABLES
    status,  \* the status of every descriptor
    watch,   \* for each epoll, its table of watches (watching)
    ready,   \* for each epoll, the objects in its table ready
    call,    \* the epoll_wait of each thread; NoCall when it has none
    due,     \* ghost: what was switched on since the watch was set or reported
    nctl     \* calls of epoll_ctl so far

vars == <<status, watch, ready, call, due, nctl>>

(* The operators below take the state of the descriptors as a record.      *)
State == [status |-> status, watch |-> watch, ready |-> ready, call |-> call,
          due |-> due]

Becomes(s) ==
    /\ status' = s.status /\ watch' = s.watch /\ ready' = s.ready
    /\ call' = s.call /\ due' = s.due

Closed(s, o) == "CLOSED" \in s.status[o]

(* Type correctness: the watches of an epoll are of objects it may watch,  *)
(* with distinct ids, and its table ready holds only its watches.          *)
TypeOK ==
    /\ status \in [Files \cup Epolls -> SUBSET Bits]
    /\ \A e \in Epolls :
          /\ DOMAIN watch[e] \subseteq Watchable[e]
          /\ \A o \in DOMAIN watch[e] :
                watch[e][o] \in
                  [events : Masks[o], id : 1..Cardinality(DOMAIN watch[e]), age : 0..Never,
                   flags : SUBSET {"ACTIVE", "READABLE", "WRITABLE", "CLOSED", "READCHANGED",
                                   "WRITECHANGED", "ET_REPORTED", "ONESHOT_REPORTED"}]
          /\ IsInjective([o \in DOMAIN watch[e] |-> watch[e][o].id])
          /\ ready[e] \subseteq DOMAIN watch[e]
          /\ DOMAIN due[e] = DOMAIN watch[e]
          /\ \A o \in DOMAIN due[e] : due[e][o] \subseteq {"READABLE", "WRITABLE", "ONCE"}
    /\ call \in [Threads -> [max : MaxEvents \cup {0}, timed : BOOLEAN,
                             signal : {"none", "status", "timeout"}]]
    /\ nctl \in 0..MaxCtl

Init ==
    /\ status = [o \in Files \cup Epolls |-> {"ACTIVE"}]
    /\ watch = [e \in Epolls |-> <<>>]
    /\ due = watch
    /\ ready = [e \in Epolls |-> {}]
    /\ call = [t \in Threads |-> NoCall]
    /\ nctl = 0
-----------------------------------------------------------------------------
(* Watches. *)

(* The directions the application waits for.                               *)
Events(w) ==
    (IF "IN" \in w.events THEN {"READABLE"} ELSE {}) \cup
    (IF "OUT" \in w.events THEN {"WRITABLE"} ELSE {})

ChangedFlag(b) == IF b = "READABLE" THEN "READCHANGED" ELSE "WRITECHANGED"
Lazy == {"READCHANGED", "WRITECHANGED", "ET_REPORTED", "ONESHOT_REPORTED"}

(* Mutant: an update forgets that the event was reported. *)
UpdateStatusForgets(w, st) ==
    [w EXCEPT !.flags = st \cup (@ \cap {"READCHANGED", "WRITECHANGED"}) \cup
        {ChangedFlag(b) : b \in {x \in {"READABLE", "WRITABLE"} : (x \in w.flags) # (x \in st)}}]

UpdateStatus(w, st) ==
    [w EXCEPT !.flags = st \cup (@ \cap Lazy) \cup
        {ChangedFlag(b) : b \in {x \in {"READABLE", "WRITABLE"} : (x \in w.flags) # (x \in st)}}]

IsReady(w) ==
    LET has == Events(w) \cap w.flags
    IN  /\ "CLOSED" \notin w.flags /\ "ACTIVE" \in w.flags
        /\ IF "ET" \in w.events
           THEN \E b \in has : ChangedFlag(b) \in w.flags \/ "ET_REPORTED" \notin w.flags
           ELSE has # {}
        /\ ~("ONESHOT" \in w.events /\ "ONESHOT_REPORTED" \in w.flags)

(* The order in which watches are reported: the one not reported for the   *)
(* longest time first, then the one that was added first.                  *)
BeforeById(v, w) == v.id < w.id   \* mutant

Before(v, w) == v.age > w.age \/ (v.age = w.age /\ v.id < w.id)
-----------------------------------------------------------------------------
(* The status of a descriptor and its listeners. *)

NewlyOn(s, e, o, st) ==
    IF "ET" \in s.watch[e][o].events
    THEN (st \ s.status[o]) \cap {"READABLE", "WRITABLE"} ELSE {}

(* The ghost with it: what is on now and was not when it was last reported. *)
SetStatus(s, o, st) ==
    [s EXCEPT !.status[o] = st,
              !.due = [e \in Epolls |-> [p \in DOMAIN s.due[e] |->
                  IF p = o THEN (s.due[e][p] \cap (st \cup {"ONCE"})) \cup NewlyOn(s, e, o, st)
                           ELSE s.due[e][p]]]]

(* The epoll updates one of its watches after a change of the watched      *)
(* descriptor; a closed epoll has removed its listeners.                   *)
UpdateWatch(s, e, o) ==
    IF o \notin DOMAIN s.watch[e] \/ Closed(s, e) THEN s
    ELSE LET w == UpdateStatus(s.watch[e][o], s.status[o])
         IN  [s EXCEPT !.watch[e][o] = w,
                       !.ready[e] = IF IsReady(w) THEN @ \cup {o} ELSE @ \ {o}]

(* descriptor_adjustStatus on the epoll itself: READABLE when a watch is   *)
(* in its table ready.  A thread that waits is told when it is switched on. *)
AdjustOwn(s, e) ==
    LET st == (s.status[e] \ {"READABLE"}) \cup (IF s.ready[e] # {} THEN {"READABLE"} ELSE {})
        on == "READABLE" \in st \ s.status[e]
    IN  [SetStatus(s, e, st) EXCEPT !.call = [t \in Threads |->
            IF on /\ Serves[t] = e /\ s.call[t] # NoCall /\ s.call[t].signal = "none"
            THEN [s.call[t] EXCEPT !.signal = "status"] ELSE s.call[t]]]

(* Mutant: the epolls that watch this one are not told. *)
AdjustParentUntold(s, e) == AdjustOwn(s, e)

Adjust(s, e) ==
    LET t == AdjustOwn(s, e)
    IN  IF t.status[e] = s.status[e] THEN t ELSE AdjustOwn(UpdateWatch(t, Outer, e), Outer)

(* _epoll_descriptorStatusChanged. *)
DescriptorStatusChanged(s, e, o) ==
    IF Closed(s, e) THEN s ELSE Adjust(UpdateWatch(s, e, o), e)

(* A file takes the status st: the listeners of both epolls are called.    *)
StatusChange(s, f, st) ==
    LET told(r, e) == IF f \in DOMAIN r.watch[e] THEN DescriptorStatusChanged(r, e, f) ELSE r
    IN  IF st = s.status[f] THEN s ELSE told(told(SetStatus(s, f, st), Inner), Outer)

(* What the rest of the simulator does to a file: data arrives or is read, *)
(* buffers fill and drain, a connection opens or ends.                     *)
AdjustStatus(f, bits, on) ==
    /\ {f} \X bits \subseteq Changes
    /\ ~Closed(State, f) \/ f \in Lingering
    /\ Becomes(StatusChange(State, f, IF on THEN status[f] \cup bits ELSE status[f] \ bits))
    /\ UNCHANGED nctl

CloseFile(f) ==
    /\ <<f, "CLOSED">> \in Changes /\ ~Closed(State, f)
    /\ Becomes(StatusChange(State, f, status[f] \cup {"CLOSED"}))
    /\ UNCHANGED nctl

(* An epoll is closed: its parent is told and its listeners are removed.   *)
(* Nothing reads its tables any more, which are freed with it.             *)
CloseEpoll(e) ==
    /\ ~Closed(State, e)
    /\ LET s == SetStatus([State EXCEPT !.watch[e] = <<>>, !.due[e] = <<>>, !.ready[e] = {}],
                          e, status[e] \cup {"CLOSED"})
       IN  Becomes(IF e = Outer THEN s ELSE AdjustOwn(UpdateWatch(s, Outer, e), Outer))
    /\ UNCHANGED nctl
-----------------------------------------------------------------------------
(* epoll_ctl. *)

Ctl(e, o) ==
    /\ nctl < MaxCtl /\ nctl' = nctl + 1
    /\ ~Closed(State, e)
    /\ o \in Watchable[e]

With(f, o, x) == [p \in DOMAIN f \cup {o} |-> IF p = o THEN x ELSE f[p]]

Add(e, o, m) ==
    /\ Ctl(e, o) /\ ~Closed(State, o) /\ o \notin DOMAIN watch[e]
    /\ LET w == [events |-> m, flags |-> {}, age |-> Never,
                 id |-> Cardinality(DOMAIN watch[e]) + 1]
       IN  Becomes(DescriptorStatusChanged(
               [State EXCEPT !.watch[e] = With(@, o, w),
                             !.due[e] = With(@, o, NewlySet(m, status[o]))], e, o))

Modified(w, m) ==
    [w EXCEPT !.events = m, !.flags = @ \ {"ET_REPORTED", "ONESHOT_REPORTED"}]

Mod(e, o, m) ==
    /\ Ctl(e, o) /\ ~Closed(State, o) /\ o \in DOMAIN watch[e]
    /\ Becomes(DescriptorStatusChanged(
           [State EXCEPT !.watch[e][o] = Modified(@, m),
                         !.due[e][o] = NewlySet(m, status[o])], e, o))

(* The watch is gone from both tables; the ids of the others move up.      *)
Removed(s, e, o) ==
    LET rest == DOMAIN s.watch[e] \ {o}
        moved(v) == IF v.id > s.watch[e][o].id THEN [v EXCEPT !.id = @ - 1] ELSE v
    IN  [s EXCEPT !.watch[e] = [p \in rest |-> moved(@[p])],
                  !.due[e] = [p \in rest |-> @[p]],
                  !.ready[e] = @ \ {o}]

(* A file that is closed can be deleted only while it is registered.       *)
Del(e, o) ==
    /\ Ctl(e, o) /\ o \in DOMAIN watch[e]
    /\ ~Closed(State, o) \/ o \in Lingering
    /\ Becomes(Adjust(Removed(State, e, o), e))
-----------------------------------------------------------------------------
(* epoll_wait. *)

(* The watches that epoll_getEvents reports into an array that is long     *)
(* enough, and into one of length n.                                       *)
Reportable(e) == {o \in ready[e] : IsReady(watch[e][o])}

Reported(e, n) ==
    LET r == Reportable(e)
    IN  {o \in r : Cardinality({p \in r : Before(watch[e][p], watch[e][o])}) < n}

Collected(w) ==
    [w EXCEPT !.age = 0,
              !.flags = (@ \ {"READCHANGED", "WRITECHANGED"}) \cup
                        (IF "ET" \in w.events THEN {"ET_REPORTED"} ELSE {}) \cup
                        (IF "ONESHOT" \in w.events THEN {"ONESHOT_REPORTED"} ELSE {})]

GetEvents(s, e, n) ==
    LET got == Reported(e, n)
    IN  Adjust([s EXCEPT
            !.watch[e] = [o \in DOMAIN @ |-> IF o \in got THEN Collected(@[o]) ELSE @[o]],
            !.due[e] = [o \in DOMAIN @ |-> IF o \in got THEN {} ELSE @[o]]], e)

(* The call blocks when the table ready is empty, and returns at once with *)
(* the events otherwise; with a timeout of zero it always returns.         *)
Wait(t, n, timed) ==
    LET e == Serves[t]
    IN  /\ call[t] = NoCall /\ ~Closed(State, e) /\ (timed => t \in Timed)
        /\ IF ready[e] = {}
           THEN Becomes([State EXCEPT !.call[t] = [max |-> n, timed |-> timed, signal |-> "none"]])
           ELSE Becomes(GetEvents(State, e, n))
        /\ UNCHANGED nctl

(* The timer of a blocked call expires: without effect when a signal is    *)
(* already under way.                                                      *)
TimeoutExpires(t) ==
    /\ call[t].timed
    /\ call' = [call EXCEPT ![t].timed = FALSE,
                            ![t].signal = IF @ = "none" THEN "timeout" ELSE @]
    /\ UNCHANGED <<status, watch, ready, due, nctl>>

(* _syscallcondition_signal: is the signal passed on to the thread?        *)
Deliver(t) == call[t].signal = "timeout" \/ "READABLE" \in status[Serves[t]]

(* The task of the signal runs: the thread makes its call again, which     *)
(* returns the events, nothing, or an error if the epoll is closed.        *)
RunSignal(t) ==
    LET e == Serves[t]
        back == [State EXCEPT !.call[t] = NoCall]
    IN  /\ call[t].signal # "none"
        /\ Becomes(IF ~Deliver(t) THEN [State EXCEPT !.call[t].signal = "none"]
                   ELSE IF Closed(State, e) \/ ready[e] = {} THEN back
                   ELSE GetEvents(back, e, call[t].max))
        /\ UNCHANGED nctl

(* Simulated time passes between two calls. *)
Older(e) ==
    [o \in DOMAIN watch[e] |->
        LET w == watch[e][o]
            younger == {v.age : v \in {x \in Range(watch[e]) : x.age < w.age}}
        IN  IF w.age = Never THEN w ELSE [w EXCEPT !.age = Cardinality(younger) + 1]]

Tick ==
    /\ watch' = [e \in Epolls |-> Older(e)]
    /\ UNCHANGED <<status, ready, call, due, nctl>>
-----------------------------------------------------------------------------
Next ==
    \/ \E f \in Files, bits \in SUBSET {"ACTIVE", "READABLE", "WRITABLE"}, on \in BOOLEAN :
          AdjustStatus(f, bits, on)
    \/ \E f \in Files : CloseFile(f)
    \/ \E e \in Epolls : CloseEpoll(e)
    \/ \E e \in Epolls, o \in Objects :
          \/ \E m \in Masks[o] : Add(e, o, m) \/ Mod(e, o, m)
          \/ Del(e, o)
    \/ \E t \in Threads :
          \/ \E n \in MaxEvents, timed \in BOOLEAN : Wait(t, n, timed)
          \/ TimeoutExpires(t) \/ RunSignal(t)
    \/ Tick

(* Fairness, stated on states.  Time passes after every report and every   *)
(* signal task is run: the scheduler executes every event.  The            *)
(* application serves its epolls in a loop: an open epoll with something   *)
(* to report is not left alone for ever, something is reported (age 0).    *)
JustReported(e) == \E o \in DOMAIN watch[e] : watch[e][o].age = 0
Waited(e) == \E t \in Threads : Serves[t] = e /\ call[t] # NoCall

Fairness ==
    /\ []<>(\A e \in Epolls : ~JustReported(e))
    /\ []<>(\A t \in Threads : call[t].signal = "none")
    /\ \A e \in Epolls :
          []<>(Closed(State, e) \/ Waited(e) \/ JustReported(e) \/ Reported(e, 1) = {})

Spec == Init /\ [][Next]_vars /\ Fairness
-----------------------------------------------------------------------------
(* Properties. *)

(* What an epoll owes its application, from the present status of the      *)
(* watched descriptor and from what was switched on since the last report. *)
(* For a watched epoll that is its own status, which stays on when one     *)
(* event after another arrives: nothing is owed for the second.            *)
Owed(e, o) ==
    LET w == watch[e][o]
        on == Events(w) \cap status[o]
    IN  /\ "ACTIVE" \in status[o] /\ "CLOSED" \notin status[o]
        /\ (IF "ET" \in w.events THEN on \cap due[e][o] ELSE on) # {}
        /\ ("ONESHOT" \in w.events => "ONCE" \in due[e][o])

Open == {e \in Epolls : "CLOSED" \notin status[e]}

(* No event is lost and none is invented: what epoll_getEvents would       *)
(* report, from the table ready and the flags that listeners left in the   *)
(* watches, are exactly the watches whose descriptor has an event that is  *)
(* owed.  An edge-triggered event is owed once for every time the status   *)
(* is switched on, a one-shot watch once for every epoll_ctl.  It says     *)
(* nothing of the status of the epoll: edge-triggered and one-shot watches *)
(* that have been reported stay in the table ready, where epoll_getEvents  *)
(* passes over them but where they keep the epoll readable.                *)
ReportsExact ==
    \A e \in Open : Reportable(e) = {o \in DOMAIN watch[e] : Owed(e, o)}

(* The tables are well formed and the reports are exact.                   *)
EventsExact == TypeOK /\ ReportsExact

(* A thread that is blocked in epoll_wait with no signal under way misses  *)
(* nothing: no watch of its epoll has an event.                            *)
NoLostWakeup ==
    \A t \in Threads :
        (call[t] # NoCall /\ call[t].signal = "none" /\ Serves[t] \in Open) =>
            \A o \in DOMAIN watch[Serves[t]] : ~Owed(Serves[t], o)

(* Fairness across watches (last_reported_event_time): while an epoll is   *)
(* served, even with an array of one event, a watch that always has an     *)
(* event is reported again and again, whatever the other watches do.       *)
NoStarvation ==
    \A e \in Epolls : \A o \in Watchable[e] :
        []<>(o \in DOMAIN watch[e] => (~Owed(e, o) \/ watch[e][o].age = 0))
=============================================================================
