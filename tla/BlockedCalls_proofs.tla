------------------------ MODULE BlockedCalls_proofs -------------------------
(***************************************************************************)
(* Theorems about BlockedCalls: conditions, timeouts and wake-ups of       *)
(* blocked system calls agree in every reachable state.                    *)
(*                                                                         *)
(* The inductive invariant is stated for conditions cs and a queue q that  *)
(* need not be the current ones: a signal task first takes the condition   *)
(* of its thread away and then handles the system call again, and the      *)
(* state in between (Ready) is where both kinds of calls start from.       *)
(***************************************************************************)
EXTENDS BlockedCalls, FiniteSetTheorems, SequenceTheorems, TLAPS

\* Tasks of which the queue never holds two.
Same(x, y) ==
    \/ x.do = "start" /\ y.do = "start" /\ x.thread = y.thread
    \/ x.do = "signal" /\ y.do = "signal" /\ x.cond = y.cond
    \/ x.do = "expire" /\ y.do = "expire" /\ x.thread = y.thread /\ x.id = y.id

Once(q) == \A i, j \in DOMAIN q : i # j => ~Same(q[i], q[j])

\* The calls a thread can be blocked in.
CallOK(c) ==
    /\ \/ c.op = "nanosleep" /\ c.on = NoFutex /\ c.timed
       \/ c.op = "read" /\ c.on = File /\ ~c.timed
       \/ c.op \in {"wait", "wait_bitset"} /\ c.on \in Futexes
       \/ c.op = "poll" /\ c.on = File
    /\ c.timeout > 0 => c.timed

One(b) == IF b THEN 1 ELSE 0

\* A condition that has lost its thread is free, unless the process exits and
\* a signal task still holds it.
DeadOK(cd) ==
    \/ cd = Free
    \/ exiting /\ ~cd.onTimer /\ ~cd.onTrigger /\ cd.pending /\ cd.refs = 1

\* A condition with a thread is the one of the call its thread is blocked in.
LiveOK(cd) ==
    /\ WasBlocked(cd.thread) /\ cd.of = cd.thread
    /\ cd.trigger = blocked[cd.thread].on
    /\ cd.timed = blocked[cd.thread].timed
    /\ cd.onTimer = cd.timed
    /\ cd.onTrigger = (cd.trigger # NoFutex)
    /\ cd.trigger \in Futexes => cd.trigger \in table
    /\ cd.refs = 1 + One(cd.onTimer) + One(cd.onTrigger) + One(cd.pending)

CondOK(cd) == IF cd.thread = NoThread THEN DeadOK(cd) ELSE LiveOK(cd)

OnePerThread(cs) ==
    \A c, d \in Conds : cs[c].thread = cs[d].thread => cs[c].thread = NoThread \/ c = d

CondsInv(cs) == (\A c \in Conds : CondOK(cs[c])) /\ OnePerThread(cs)

\* What a condition waits for has not happened while no signal is on its way,
\* and a signal for a futex has one of two reasons.
WakeOK(cd) ==
    /\ ~cd.pending =>
          /\ cd.trigger = File => ~readable
          /\ cd.trigger \in Futexes => ~cd.woken
          /\ cd.timed /\ cd.trigger # File => timer[cd.thread].count = 0
    /\ cd.pending /\ cd.trigger \in Futexes /\ ~cd.woken => timer[cd.thread].count > 0

WakesInv(cs) == \A c \in Conds : cs[c].thread # NoThread => WakeOK(cs[c])

SignalOK(cs, x) ==
    /\ x.time = now /\ cs[x.cond].pending
    /\ x.wasTimeout /\ cs[x.cond].thread # NoThread => timer[cs[x.cond].thread].count > 0
    /\ ~x.wasTimeout => cs[x.cond].trigger # NoFutex

SignalsInv(cs, q) ==
    /\ \A x \in Range(q) : x.do = "signal" => SignalOK(cs, x)
    /\ \A c \in Conds : cs[c].pending => \E x \in Range(q) : x.do = "signal" /\ x.cond = c

\* The threads that are still to be started.
StartOK(x) ==
    IF x.thread = Main THEN spawned = {}
    ELSE /\ x.thread \in spawned /\ x.thread # running /\ ~WasBlocked(x.thread)
         /\ exiting \/ x.thread \in threads

StartsInv(q) == \A x \in Range(q) : x.do = "start" => StartOK(x)

\* Only the last expire task of an armed timer counts, and it is in time.
ExpireOK(tm, x) ==
    /\ x.id < tm.nextId
    /\ Valid(tm, x) => Armed(tm) /\ x.id + 1 = tm.nextId /\ x.time <= tm.next

ExpiresInv(q) == \A x \in Range(q) : x.do = "expire" => ExpireOK(timer[x.thread], x)

Awaited(t, q) ==
    \E x \in Range(q) : x.do = "expire" /\ x.thread = t /\ Valid(timer[t], x)

ArmedInv(q) == \A t \in Threads : Armed(timer[t]) => Awaited(t, q)

\* The timers of threads expire once.
TimerOK(tm) ==
    /\ tm.minId <= tm.nextId /\ tm.interval = 0
    /\ tm.readable = (tm.count > 0)
    /\ Armed(tm) => tm.count = 0

TimersInv == \A t \in Threads : TimerOK(timer[t])

Quiet(tm) == ~Armed(tm) /\ tm.count = 0

\* The timer of a thread is that of the call c it is blocked in.
TimeoutOK(tm, c) ==
    /\ Armed(tm) => c.timed /\ tm.next = c.due
    /\ tm.count > 0 => c.timed /\ c.due <= now
    /\ c.timeout > 0 => ~Quiet(tm) /\ (c.on # File => now <= c.due)

TimeoutsInv ==
    \A t \in Threads :
        /\ t \notin spawned => Quiet(timer[t])
        /\ t \in threads /\ ~WasBlocked(t) => Quiet(timer[t])
        /\ WasBlocked(t) => TimeoutOK(timer[t], blocked[t])

BlockedInv ==
    \A t \in Threads : WasBlocked(t) =>
        CallOK(blocked[t]) /\ \E c \in Conds : cond[c].thread = t

ProcInv ==
    /\ exiting => threads = {} /\ spawned # {}
    /\ spawned # {} => Main \in spawned

IInv ==
    /\ TypeOK /\ AssertionsHold /\ ProcInv /\ BlockedInv
    /\ CondsInv(cond) /\ WakesInv(cond) /\ SignalsInv(cond, tasks)
    /\ Once(tasks) /\ StartsInv(tasks) /\ ExpiresInv(tasks) /\ ArmedInv(tasks)
    /\ TimersInv /\ TimeoutsInv
-----------------------------------------------------------------------------
(***************************************************************************)
(* The queue of tasks                                                      *)
(***************************************************************************)

\* A task goes to a place of the queue.
LEMMA Position ==
    ASSUME NEW q \in Seq(Task), NEW time
    PROVE  Cardinality({k \in DOMAIN q : q[k].time <= time}) \in 0 .. Len(q)
<1> DEFINE S == {k \in DOMAIN q : q[k].time <= time}
<1>1. Len(q) \in Nat /\ DOMAIN q = 1 .. Len(q)
    BY LenProperties
<1>2. IsFiniteSet(1 .. Len(q)) /\ Cardinality(1 .. Len(q)) = Len(q)
    BY <1>1, FS_Interval
<1>3. IsFiniteSet(S) /\ Cardinality(S) <= Len(q)
    BY <1>1, <1>2, FS_Subset
<1>4. Cardinality(S) \in Nat
    BY <1>3, FS_CardinalityType
<1> QED BY <1>1, <1>3, <1>4

\* The tasks in new are in r, after the first n of q and before the others.
Inserted(q, new, n, r) ==
    /\ r \in Seq(Task) /\ n \in 0 .. Len(q) /\ Len(r) = Len(q) + Len(new)
    /\ \A i \in 1 .. Len(r) :
          r[i] = IF i <= n THEN q[i]
                 ELSE IF i <= n + Len(new) THEN new[i - n]
                 ELSE q[i - Len(new)]

\* What Enqueue puts where.
LEMMA Placed ==
    ASSUME NEW q \in Seq(Task), NEW new \in Seq(Task), NEW time
    PROVE  Inserted(q, new, Cardinality({k \in DOMAIN q : q[k].time <= time}),
                    Enqueue(q, new, time))
<1> DEFINE n == Cardinality({k \in DOMAIN q : q[k].time <= time})
           a == SubSeq(q, 1, n)
           b == SubSeq(q, n + 1, Len(q))
           ab == a \o new
           r == Enqueue(q, new, time)
<1>1. n \in 0 .. Len(q) /\ Len(q) \in Nat /\ Len(new) \in Nat
    BY Position, LenProperties
<1>e. r = ab \o b
    BY DEF Enqueue
<1> HIDE DEF n, r
<1>2. \A i \in 1 .. Len(q) : q[i] \in Task
    BY ElementOfSeq
<1>3. /\ a \in Seq(Task) /\ Len(a) = n /\ \A i \in 1 .. n : a[i] = q[i]
  <2>1. /\ a \in Seq(Task) /\ Len(a) = IF 1 <= n THEN n - 1 + 1 ELSE 0
        /\ \A i \in 1 .. n - 1 + 1 : a[i] = q[1 + i - 1]
      BY <1>1, <1>2, SubSeqProperties
  <2> HIDE DEF a
  <2> QED BY <2>1, <1>1
<1>4. /\ b \in Seq(Task) /\ Len(b) = Len(q) - n
      /\ \A i \in 1 .. Len(q) - n : b[i] = q[n + i]
  <2>1. /\ b \in Seq(Task) /\ Len(b) = IF n + 1 <= Len(q) THEN Len(q) - (n + 1) + 1 ELSE 0
        /\ \A i \in 1 .. Len(q) - (n + 1) + 1 : b[i] = q[n + 1 + i - 1]
      BY <1>1, <1>2, SubSeqProperties
  <2> HIDE DEF b
  <2> QED BY <2>1, <1>1
<1> HIDE DEF a, b
<1>5. /\ ab \in Seq(Task) /\ Len(ab) = n + Len(new)
      /\ \A i \in 1 .. n + Len(new) : ab[i] = IF i <= n THEN q[i] ELSE new[i - n]
  <2>1. /\ ab \in Seq(Task) /\ Len(ab) = Len(a) + Len(new)
        /\ \A i \in 1 .. Len(a) + Len(new) : ab[i] = IF i <= Len(a) THEN a[i] ELSE new[i - Len(a)]
      BY <1>3, ConcatProperties
  <2> HIDE DEF ab
  <2> QED BY <2>1, <1>1, <1>3
<1> HIDE DEF ab
<1>6. /\ r \in Seq(Task) /\ Len(r) = Len(ab) + Len(b)
      /\ \A i \in 1 .. Len(ab) + Len(b) : r[i] = IF i <= Len(ab) THEN ab[i] ELSE b[i - Len(ab)]
    BY <1>5, <1>4, <1>e, ConcatProperties
<1>7. Len(r) = Len(q) + Len(new)
    BY <1>6, <1>5, <1>4, <1>1
<1>8. ASSUME NEW i \in 1 .. Len(r)
      PROVE  r[i] = IF i <= n THEN q[i]
                    ELSE IF i <= n + Len(new) THEN new[i - n] ELSE q[i - Len(new)]
  <2>1. CASE i <= n + Len(new)
    <3>1. /\ i \in 1 .. n + Len(new) /\ i <= Len(ab)
          /\ i \in 1 .. Len(ab) + Len(b)
        BY <2>1, <1>1, <1>5, <1>6, <1>4
    <3>2. r[i] = ab[i]
        BY <3>1, <1>6
    <3> QED BY <3>1, <3>2, <2>1, <1>5
  <2>2. CASE i > n + Len(new)
    <3> DEFINE j == i - (n + Len(new))
    <3>1. /\ r[i] = b[j] /\ j \in 1 .. Len(q) - n
          /\ n + j = i - Len(new) /\ ~(i <= n) /\ ~(i <= n + Len(new))
        BY <2>2, <1>1, <1>5, <1>6, <1>4, <1>7
    <3> HIDE DEF j
    <3>2. b[j] = q[n + j]
        BY <3>1, <1>4
    <3> QED BY <3>1, <3>2
  <2> QED BY <2>1, <2>2, <1>1
<1>9. Inserted(q, new, n, r)
    BY <1>1, <1>6, <1>7, <1>8 DEF Inserted
<1> QED BY <1>9 DEF n, r

\* Afterwards the queue holds what it held and what was added.
LEMMA EnqueueRange ==
    ASSUME NEW q \in Seq(Task), NEW new \in Seq(Task), NEW time
    PROVE  /\ Enqueue(q, new, time) \in Seq(Task)
           /\ Range(Enqueue(q, new, time)) = Range(q) \cup Range(new)
<1> DEFINE n == Cardinality({k \in DOMAIN q : q[k].time <= time})
           r == Enqueue(q, new, time)
<1>1. /\ r \in Seq(Task) /\ n \in 0 .. Len(q) /\ Len(r) = Len(q) + Len(new)
      /\ \A i \in 1 .. Len(r) : r[i] = IF i <= n THEN q[i]
                                       ELSE IF i <= n + Len(new) THEN new[i - n]
                                       ELSE q[i - Len(new)]
  <2>1. Inserted(q, new, n, r)
      BY Placed
  <2> HIDE DEF n, r
  <2> QED BY <2>1 DEF Inserted
<1> HIDE DEF n, r
<1>2. /\ Len(q) \in Nat /\ Len(new) \in Nat /\ Len(r) \in Nat
      /\ DOMAIN q = 1 .. Len(q) /\ DOMAIN new = 1 .. Len(new) /\ DOMAIN r = 1 .. Len(r)
    BY <1>1, LenProperties
<1>3. ASSUME NEW i \in 1 .. Len(r) PROVE r[i] \in Range(q) \cup Range(new)
  <2>1. CASE i <= n
      BY <2>1, <1>1, <1>2 DEF Range
  <2>2. CASE i > n /\ i <= n + Len(new)
    <3>1. r[i] = new[i - n] /\ i - n \in 1 .. Len(new)
        BY <2>2, <1>1, <1>2
    <3> QED BY <3>1, <1>2 DEF Range
  <2>3. CASE i > n + Len(new)
    <3>1. r[i] = q[i - Len(new)] /\ i - Len(new) \in 1 .. Len(q)
        BY <2>3, <1>1, <1>2
    <3> QED BY <3>1, <1>2 DEF Range
  <2> QED BY <2>1, <2>2, <2>3, <1>1, <1>2
<1>4. ASSUME NEW k \in 1 .. Len(q) PROVE q[k] \in Range(r)
  <2>1. CASE k <= n
    <3>1. k \in 1 .. Len(r) /\ r[k] = q[k]
        BY <2>1, <1>1, <1>2
    <3> QED BY <3>1, <1>2 DEF Range
  <2>2. CASE k > n
    <3>1. /\ k + Len(new) \in 1 .. Len(r) /\ ~(k + Len(new) <= n + Len(new))
          /\ ~(k + Len(new) <= n) /\ (k + Len(new)) - Len(new) = k
        BY <2>2, <1>1, <1>2
    <3>2. r[k + Len(new)] = q[k]
        BY <3>1, <1>1
    <3> QED BY <3>1, <3>2, <1>2 DEF Range
  <2> QED BY <2>1, <2>2, <1>1, <1>2
<1>5. ASSUME NEW k \in 1 .. Len(new) PROVE new[k] \in Range(r)
  <2>1. /\ k + n \in 1 .. Len(r) /\ k + n <= n + Len(new) /\ ~(k + n <= n) /\ (k + n) - n = k
      BY <1>1, <1>2
  <2>2. r[k + n] = new[k]
      BY <2>1, <1>1
  <2> QED BY <2>1, <2>2, <1>2 DEF Range
<1>6. Range(r) \subseteq Range(q) \cup Range(new)
    BY <1>3, <1>2 DEF Range
<1>7. Range(q) \subseteq Range(r)
    BY <1>4, <1>2 DEF Range
<1>8. Range(new) \subseteq Range(r)
    BY <1>5, <1>2 DEF Range
<1>9. r \in Seq(Task) /\ Range(r) = Range(q) \cup Range(new)
    BY <1>1, <1>6, <1>7, <1>8
<1> QED BY <1>9 DEF r

\* No two tasks are the same if none of the new ones is in the queue.
LEMMA EnqueueOnce ==
    ASSUME NEW q \in Seq(Task), NEW new \in Seq(Task), NEW time, Once(q), Once(new),
           \A x \in Range(q), y \in Range(new) : ~Same(x, y)
    PROVE  Once(Enqueue(q, new, time))
<1> DEFINE n == Cardinality({k \in DOMAIN q : q[k].time <= time})
           r == Enqueue(q, new, time)
           old(i) == IF i <= n THEN i ELSE i - Len(new)
           isNew(i) == i > n /\ i <= n + Len(new)
<1>1. /\ r \in Seq(Task) /\ n \in 0 .. Len(q) /\ Len(r) = Len(q) + Len(new)
      /\ \A i \in 1 .. Len(r) : r[i] = IF i <= n THEN q[i]
                                       ELSE IF i <= n + Len(new) THEN new[i - n]
                                       ELSE q[i - Len(new)]
  <2>1. Inserted(q, new, n, r)
      BY Placed
  <2> HIDE DEF n, r
  <2> QED BY <2>1 DEF Inserted
<1> HIDE DEF n, r
<1>2. /\ Len(q) \in Nat /\ Len(new) \in Nat /\ Len(r) \in Nat
      /\ DOMAIN q = 1 .. Len(q) /\ DOMAIN new = 1 .. Len(new) /\ DOMAIN r = 1 .. Len(r)
    BY <1>1, LenProperties
<1>3. ASSUME NEW i \in 1 .. Len(r), isNew(i)
      PROVE  i - n \in 1 .. Len(new) /\ r[i] = new[i - n]
  <2>1. i - n \in 1 .. Len(new) /\ ~(i <= n)
      BY <1>3, <1>1, <1>2
  <2> QED BY <2>1, <1>1, <1>3
<1>4. ASSUME NEW i \in 1 .. Len(r), ~isNew(i)
      PROVE  old(i) \in 1 .. Len(q) /\ r[i] = q[old(i)]
  <2>1. CASE i <= n
    <3>1. old(i) \in 1 .. Len(q) /\ old(i) = i
        BY <2>1, <1>1, <1>2
    <3> QED BY <3>1, <2>1, <1>1
  <2>2. CASE i > n + Len(new)
    <3>1. /\ old(i) \in 1 .. Len(q) /\ old(i) = i - Len(new)
          /\ ~(i <= n) /\ ~(i <= n + Len(new))
        BY <2>2, <1>1, <1>2
    <3> QED BY <3>1, <1>1
  <2> QED BY <2>1, <2>2, <1>4, <1>1, <1>2
<1>5. ASSUME NEW i \in 1 .. Len(r), NEW j \in 1 .. Len(r), i # j, isNew(i), isNew(j)
      PROVE  ~Same(r[i], r[j])
  <2>1. i - n # j - n /\ i - n \in DOMAIN new /\ j - n \in DOMAIN new
      BY <1>3, <1>5, <1>1, <1>2
  <2>2. ~Same(new[i - n], new[j - n])
      BY <2>1 DEF Once
  <2> QED BY <2>2, <1>3, <1>5
<1>6. ASSUME NEW i \in 1 .. Len(r), NEW j \in 1 .. Len(r), i # j, ~isNew(i), ~isNew(j)
      PROVE  ~Same(r[i], r[j])
  <2>1. old(i) \in DOMAIN q /\ old(j) \in DOMAIN q /\ r[i] = q[old(i)] /\ r[j] = q[old(j)]
      BY <1>4, <1>6, <1>2
  <2>2. old(i) # old(j)
      BY <1>6, <1>1, <1>2
  <2> HIDE DEF old
  <2> QED BY <2>1, <2>2 DEF Once
<1>7. ASSUME NEW i \in 1 .. Len(r), NEW j \in 1 .. Len(r), isNew(i), ~isNew(j)
      PROVE  ~Same(r[i], r[j]) /\ ~Same(r[j], r[i])
  <2>1. r[i] \in Range(new)
    <3>1. i - n \in DOMAIN new /\ r[i] = new[i - n]
        BY <1>3, <1>7, <1>2
    <3> QED BY <3>1 DEF Range
  <2>2. r[j] \in Range(q)
    <3>1. old(j) \in DOMAIN q /\ r[j] = q[old(j)]
        BY <1>4, <1>7, <1>2
    <3> HIDE DEF old
    <3> QED BY <3>1 DEF Range
  <2>3. ~Same(r[j], r[i])
      BY <2>1, <2>2
  <2> QED BY <2>3 DEF Same
<1> HIDE DEF isNew
<1>8. Once(r)
    BY <1>5, <1>6, <1>7, <1>2 DEF Once
<1> QED BY <1>8 DEF r

\* Executing the first task.
LEMMA Dequeued ==
    ASSUME NEW q \in Seq(Task), q # <<>>
    PROVE  /\ Head(q) \in Task /\ Tail(q) \in Seq(Task)
           /\ Range(q) = {Head(q)} \cup Range(Tail(q))
           /\ Once(q) => Once(Tail(q)) /\ \A x \in Range(Tail(q)) : ~Same(Head(q), x)
<1> DEFINE r == Tail(q)
<1>1. /\ Head(q) \in Task /\ r \in Seq(Task) /\ Len(r) = Len(q) - 1
      /\ \A i \in 1 .. Len(r) : r[i] = q[i + 1]
    BY HeadTailProperties
<1>2. /\ Len(q) \in Nat \ {0} /\ DOMAIN q = 1 .. Len(q) /\ Head(q) = q[1]
    BY LenProperties, EmptySeq
<1>3. DOMAIN r = 1 .. Len(r) /\ Len(r) \in Nat
    BY <1>1, LenProperties
<1> HIDE DEF r
<1>4. ASSUME NEW i \in DOMAIN r PROVE i + 1 \in DOMAIN q /\ i + 1 # 1 /\ r[i] = q[i + 1]
    BY <1>1, <1>2, <1>3
<1>5. ASSUME NEW i \in DOMAIN q, i # 1 PROVE q[i] \in Range(r)
  <2>1. i - 1 \in DOMAIN r /\ (i - 1) + 1 = i
      BY <1>5, <1>1, <1>2, <1>3
  <2>2. r[i - 1] = q[i]
      BY <2>1, <1>4
  <2> QED BY <2>1, <2>2 DEF Range
<1>6. 1 \in DOMAIN q
    BY <1>2
<1>7. Range(q) \subseteq {Head(q)} \cup Range(r)
    BY <1>5, <1>2 DEF Range
<1>8. {Head(q)} \cup Range(r) \subseteq Range(q)
    BY <1>4, <1>2, <1>6 DEF Range
<1>9. ASSUME Once(q) PROVE Once(r)
  <2> SUFFICES ASSUME NEW i \in DOMAIN r, NEW j \in DOMAIN r, i # j PROVE ~Same(r[i], r[j])
      BY DEF Once
  <2>1. i + 1 # j + 1
      BY <1>3
  <2> QED BY <2>1, <1>4, <1>9 DEF Once
<1>10. ASSUME Once(q), NEW x \in Range(r) PROVE ~Same(Head(q), x)
  <2>1. PICK i \in DOMAIN r : x = r[i]
      BY DEF Range
  <2> QED BY <2>1, <1>4, <1>6, <1>2, <1>10 DEF Once
<1> QED BY <1>1, <1>7, <1>8, <1>9, <1>10 DEF r

\* A queue of one task.
LEMMA SingleTask ==
    ASSUME NEW x \in Task
    PROVE  <<x>> \in Seq(Task) /\ Range(<<x>>) = {x} /\ Once(<<x>>)
<1>1. <<x>> \in Seq(Task) /\ DOMAIN <<x>> = {1} /\ <<x>>[1] = x
    OBVIOUS
<1> QED BY <1>1 DEF Range, Once

\* What a task is made of.
LEMMA TaskFields ==
    ASSUME NEW x \in Task
    PROVE  /\ x.time \in Nat
           /\ x.do \in {"start", "stop", "expire", "signal"}
           /\ x.do = "start" => x.thread \in Threads
           /\ x.do = "expire" => x.thread \in Threads /\ x.id \in Nat
           /\ x.do = "signal" => x.cond \in Conds /\ x.wasTimeout \in BOOLEAN
    BY DEF Task

LEMMA TaskKinds ==
    /\ \A t \in Threads, n \in Nat :
          /\ StartTask(t, n) \in Task /\ StartTask(t, n).do = "start"
          /\ StartTask(t, n).thread = t /\ StartTask(t, n).time = n
    /\ \A n \in Nat :
          StopTask(n) \in Task /\ StopTask(n).do = "stop" /\ StopTask(n).time = n
    /\ \A t \in Threads, ev \in ExpireEvent :
          /\ ExpireTask(t, ev) \in Task /\ ExpireTask(t, ev).do = "expire"
          /\ ExpireTask(t, ev).thread = t /\ ExpireTask(t, ev).time = ev.time
          /\ ExpireTask(t, ev).id = ev.id
    /\ now \in Nat => \A c \in Conds, b \in BOOLEAN :
          /\ SignalTask(c, b) \in Task /\ SignalTask(c, b).do = "signal"
          /\ SignalTask(c, b).cond = c /\ SignalTask(c, b).time = now
          /\ SignalTask(c, b).wasTimeout = b
<1>1. ASSUME NEW t \in Threads, NEW n \in Nat
      PROVE  /\ StartTask(t, n) \in Task /\ StartTask(t, n).do = "start"
             /\ StartTask(t, n).thread = t /\ StartTask(t, n).time = n
    BY DEF StartTask, Task
<1>2. ASSUME NEW n \in Nat
      PROVE  StopTask(n) \in Task /\ StopTask(n).do = "stop" /\ StopTask(n).time = n
    BY DEF StopTask, Task
<1>3. ASSUME NEW t \in Threads, NEW ev \in ExpireEvent
      PROVE  /\ ExpireTask(t, ev) \in Task /\ ExpireTask(t, ev).do = "expire"
             /\ ExpireTask(t, ev).thread = t /\ ExpireTask(t, ev).time = ev.time
             /\ ExpireTask(t, ev).id = ev.id
    BY DEF ExpireTask, Task, ExpireEvent
<1>4. ASSUME now \in Nat, NEW c \in Conds, NEW b \in BOOLEAN
      PROVE  /\ SignalTask(c, b) \in Task /\ SignalTask(c, b).do = "signal"
             /\ SignalTask(c, b).cond = c /\ SignalTask(c, b).time = now
             /\ SignalTask(c, b).wasTimeout = b
    BY <1>4 DEF SignalTask, Task
<1> QED BY <1>1, <1>2, <1>3, <1>4
-----------------------------------------------------------------------------
(***************************************************************************)
(* The timer of a thread                                                   *)
(***************************************************************************)

\* An expire event is not before now and not after the expiration.
LEMMA ScheduledEvent ==
    ASSUME NEW tm \in TimerRecord, NEW n \in Nat, n <= tm.next
    PROVE  LET r == ScheduleNewExpireEvent(tm, n)
               ev == [time |-> WakeTime(tm, n), id |-> tm.nextId]
           IN  /\ r.events = {ev} /\ ev \in ExpireEvent
               /\ n <= ev.time /\ ev.time <= tm.next /\ ev.id = tm.nextId
               /\ r.timer = [tm EXCEPT !.nextId = tm.nextId + 1]
<1>1. WakeTime(tm, n) \in Nat /\ n <= WakeTime(tm, n) /\ WakeTime(tm, n) <= tm.next
    BY OneSecondAssumption DEF TimerRecord, WakeTime
<1>2. tm.nextId \in Nat
    BY DEF TimerRecord
<1> QED BY <1>1, <1>2 DEF ScheduleNewExpireEvent, ExpireEvent

\* A timer that is switched off.
LEMMA SwitchedOff ==
    ASSUME NEW tm \in TimerRecord
    PROVE  LET off == Cleared(Disarm(tm))
           IN  /\ off \in TimerRecord /\ off.next = 0 /\ off.interval = 0 /\ off.count = 0
               /\ off.readable = FALSE /\ off.nextId = tm.nextId /\ off.minId = tm.nextId
<1> DEFINE d == Disarm(tm)
<1>1. d \in TimerRecord
    BY DEF Disarm, TimerRecord
<1>2. d.next = 0 /\ d.interval = 0 /\ d.nextId = tm.nextId /\ d.minId = tm.nextId
    BY DEF Disarm, TimerRecord
<1> HIDE DEF d
<1>3. Cleared(d) \in TimerRecord
    BY <1>1 DEF Cleared, TimerRecord
<1>4. /\ Cleared(d).next = d.next /\ Cleared(d).interval = d.interval /\ Cleared(d).count = 0
      /\ Cleared(d).nextId = d.nextId /\ Cleared(d).minId = d.minId
    BY <1>1 DEF Cleared, TimerRecord
<1>5. Cleared(d).readable = FALSE
    BY <1>1 DEF Cleared, TimerRecord
<1> QED BY <1>2, <1>3, <1>4, <1>5 DEF d

\* timer_setTime of zero
LEMMA SetTimeOff ==
    ASSUME NEW tm \in TimerRecord, NEW n, NEW a
    PROVE  /\ SetTime(tm, n, 0, 0, a).timer = Cleared(Disarm(tm))
           /\ SetTime(tm, n, 0, 0, a).events = {}
    BY DEF SetTime, Unscheduled

\* timer_setTime of a time that is not zero
TimeSet(r, tm, n, at) ==
    /\ r.timer \in TimerRecord /\ at \in Nat /\ n <= at
    /\ r.timer.next = at /\ Armed(r.timer) /\ r.timer.interval = 0
    /\ r.timer.count = 0 /\ r.timer.readable = FALSE
    /\ r.timer.minId = tm.nextId /\ r.timer.nextId = tm.nextId + 1
    /\ \E ev \in ExpireEvent :
          r.events = {ev} /\ ev.id = tm.nextId /\ n <= ev.time /\ ev.time <= at

LEMMA SetTimeOn ==
    ASSUME NEW tm \in TimerRecord, NEW n \in Nat, NEW v \in Nat \ {0}, NEW a \in BOOLEAN
    PROVE  TimeSet(SetTime(tm, n, v, 0, a), tm, n, ExpireTime(n, v, a))
<1> DEFINE off == Cleared(Disarm(tm))
           at == ExpireTime(n, v, a)
           on == [off EXCEPT !.next = at, !.interval = 0]
           r == SetTime(tm, n, v, 0, a)
<1>1. /\ off \in TimerRecord /\ off.next = 0 /\ off.interval = 0 /\ off.count = 0
      /\ off.readable = FALSE /\ off.nextId = tm.nextId /\ off.minId = tm.nextId
    BY SwitchedOff
<1>2. at \in Nat /\ n <= at /\ at > 0
    BY DEF ExpireTime
<1>3. r = ScheduleNewExpireEvent(on, n)
    BY DEF SetTime
<1> HIDE DEF off, at, r
<1>4. tm.nextId \in Nat /\ tm.nextId + 1 \in Nat
    BY DEF TimerRecord
<1>5. /\ on.next = at /\ on.interval = 0 /\ on.count = 0
      /\ on.nextId = tm.nextId /\ on.minId = tm.nextId
    BY <1>1 DEF TimerRecord
<1>5a. on.readable = FALSE
    BY <1>1 DEF TimerRecord
<1>5b. on \in TimerRecord
    BY <1>1, <1>2 DEF TimerRecord
<1> HIDE DEF on
<1>6. on \in TimerRecord /\ n <= on.next
    BY <1>5, <1>5b, <1>2
<1> DEFINE ev == [time |-> WakeTime(on, n), id |-> on.nextId]
<1>7. /\ r.events = {ev} /\ ev \in ExpireEvent
      /\ n <= ev.time /\ ev.time <= on.next /\ ev.id = on.nextId
      /\ r.timer = [on EXCEPT !.nextId = on.nextId + 1]
    BY <1>3, <1>6, ScheduledEvent
<1> HIDE DEF ev
<1> DEFINE id == on.nextId + 1
<1>i. id = tm.nextId + 1 /\ id \in Nat /\ r.timer = [on EXCEPT !.nextId = id]
    BY <1>7, <1>5, <1>4
<1> HIDE DEF id
<1>8. /\ r.timer.next = at /\ r.timer.interval = 0 /\ r.timer.count = 0
      /\ r.timer.nextId = id /\ r.timer.minId = tm.nextId
    BY <1>i, <1>5, <1>5b DEF TimerRecord
<1>8a. r.timer.readable = FALSE
    BY <1>i, <1>5a, <1>5b DEF TimerRecord
<1>9. \E e \in ExpireEvent : r.events = {e} /\ e.id = tm.nextId /\ n <= e.time /\ e.time <= at
    BY <1>7, <1>5
<1>10. r.timer \in TimerRecord
    BY <1>i, <1>5b DEF TimerRecord
<1>11. /\ r.timer.next = at /\ Armed(r.timer) /\ r.timer.interval = 0 /\ r.timer.count = 0
       /\ r.timer.readable = FALSE /\ r.timer.minId = tm.nextId /\ r.timer.nextId = tm.nextId + 1
    BY <1>8, <1>8a, <1>2, <1>i DEF Armed
<1>12. TimeSet(r, tm, n, at)
    BY <1>2, <1>9, <1>10, <1>11 DEF TimeSet
<1> QED BY <1>12 DEF r, at

\* _timer_expire with the event of a longer wait: the next check is scheduled.
LEMMA ExpireEarly ==
    ASSUME NEW tm \in TimerRecord, NEW n \in Nat, NEW x, Valid(tm, x), tm.next > n
    PROVE  LET r == Expire(tm, n, x, FALSE)
           IN  /\ r.timer = [tm EXCEPT !.nextId = tm.nextId + 1]
               /\ r.timer \in TimerRecord
               /\ \E ev \in ExpireEvent :
                     /\ r.events = {ev} /\ ev.id = tm.nextId
                     /\ n <= ev.time /\ ev.time <= tm.next
<1> DEFINE r == Expire(tm, n, x, FALSE)
           ev == [time |-> WakeTime(tm, n), id |-> tm.nextId]
<1>1. r = ScheduleNewExpireEvent(tm, n)
    BY DEF Expire
<1>2. n <= tm.next /\ tm.nextId \in Nat
    BY DEF TimerRecord
<1> HIDE DEF r
<1>3. /\ r.events = {ev} /\ ev \in ExpireEvent
      /\ n <= ev.time /\ ev.time <= tm.next /\ ev.id = tm.nextId
      /\ r.timer = [tm EXCEPT !.nextId = tm.nextId + 1]
    BY <1>1, <1>2, ScheduledEvent
<1>4. r.timer \in TimerRecord
    BY <1>3, <1>2 DEF TimerRecord
<1> HIDE DEF ev
<1> QED BY <1>3, <1>4 DEF r

\* _timer_expire when the time has come: a timer without interval is off.
LEMMA ExpireNow ==
    ASSUME NEW tm \in TimerRecord, NEW n \in Nat, NEW x, Valid(tm, x), ~(tm.next > n),
           tm.interval = 0
    PROVE  LET r == Expire(tm, n, x, FALSE)
           IN  /\ r.events = {}
               /\ r.timer \in TimerRecord /\ r.timer.next = 0 /\ r.timer.interval = 0
               /\ r.timer.count > 0 /\ r.timer.readable = TRUE
               /\ r.timer.nextId = tm.nextId /\ r.timer.minId = tm.nextId
<1> DEFINE r == Expire(tm, n, x, FALSE)
           m == tm.count + 1
           e == Expired(tm)
           d == Disarm(e)
<1>1. r = Unscheduled(d)
    BY DEF Expire
<1>2. m \in Nat /\ m > 0 /\ e = [tm EXCEPT !.count = m, !.readable = TRUE]
    BY DEF TimerRecord, Expired
<1> HIDE DEF m, e, d, r
<1>3. e \in TimerRecord
    BY <1>2 DEF TimerRecord
<1>4. e.nextId = tm.nextId /\ e.count = m
    BY <1>2 DEF TimerRecord
<1>5. e.readable = TRUE
    BY <1>2 DEF TimerRecord
<1>6. d \in TimerRecord
    BY <1>3 DEF d, Disarm, TimerRecord
<1>7. /\ d.next = 0 /\ d.interval = 0 /\ d.nextId = e.nextId /\ d.minId = e.nextId
      /\ d.count = e.count
    BY <1>3 DEF d, Disarm, TimerRecord
<1>8. d.readable = e.readable
    BY <1>3 DEF d, Disarm, TimerRecord
<1>9. r.events = {} /\ r.timer = d
    BY <1>1 DEF Unscheduled
<1>10. /\ r.events = {} /\ r.timer \in TimerRecord /\ r.timer.next = 0 /\ r.timer.interval = 0
       /\ r.timer.count > 0 /\ r.timer.nextId = tm.nextId /\ r.timer.minId = tm.nextId
    BY <1>2, <1>4, <1>6, <1>7, <1>9
<1>11. r.timer.readable = TRUE
    BY <1>5, <1>8, <1>9
<1> QED BY <1>10, <1>11 DEF r

\* _timer_expire with an event of an earlier setting: nothing.
LEMMA ExpireStale ==
    ASSUME NEW tm \in TimerRecord, NEW n, NEW x, ~Valid(tm, x)
    PROVE  Expire(tm, n, x, FALSE).timer = tm /\ Expire(tm, n, x, FALSE).events = {}
    BY DEF Expire, Unscheduled
-----------------------------------------------------------------------------
(***************************************************************************)
(* Adding tasks of one kind                                                *)
(***************************************************************************)

LEMMA ExpireQueued ==
    ASSUME NEW q \in Seq(Task), NEW t \in Threads, NEW ev \in ExpireEvent
    PROVE  LET r == EnqueueExpire(q, t, {ev})
               y == ExpireTask(t, ev)
           IN  /\ r \in Seq(Task) /\ Range(r) = Range(q) \cup {y}
               /\ y \in Task /\ y.do = "expire" /\ y.thread = t
               /\ y.id = ev.id /\ y.time = ev.time
               /\ (Once(q) /\ \A x \in Range(q) : x.do = "expire" /\ x.thread = t => x.id < ev.id)
                     => Once(r)
<1> DEFINE y == ExpireTask(t, ev)
           new == <<y>>
           r == EnqueueExpire(q, t, {ev})
<1>1. /\ y \in Task /\ y.do = "expire" /\ y.thread = t /\ y.id = ev.id /\ y.time = ev.time
      /\ ev.id \in Nat
    BY TaskKinds DEF ExpireEvent
<1> HIDE DEF y
<1>2. new \in Seq(Task) /\ Range(new) = {y} /\ Once(new)
    BY <1>1, SingleTask
<1>3. r = Enqueue(q, new, ev.time)
  <2>1. (CHOOSE e \in {ev} : TRUE) = ev
      OBVIOUS
  <2> QED BY <2>1 DEF EnqueueExpire, y
<1> HIDE DEF new, r
<1>4. r \in Seq(Task) /\ Range(r) = Range(q) \cup {y}
    BY <1>2, <1>3, EnqueueRange
<1>5. ASSUME Once(q), \A x \in Range(q) : x.do = "expire" /\ x.thread = t => x.id < ev.id
      PROVE  Once(r)
  <2>1. ASSUME NEW x \in Range(q) PROVE ~Same(x, y)
      BY <1>1, <1>5 DEF Same
  <2>2. \A x \in Range(q), z \in Range(new) : ~Same(x, z)
      BY <2>1, <1>2
  <2> QED BY <2>2, <1>2, <1>3, <1>5, EnqueueOnce
<1>6. /\ r \in Seq(Task) /\ Range(r) = Range(q) \cup {y}
      /\ (Once(q) /\ \A x \in Range(q) : x.do = "expire" /\ x.thread = t => x.id < ev.id)
            => Once(r)
    BY <1>4, <1>5
<1> QED BY <1>1, <1>6 DEF r, y

\* r is q with one signal task for each condition in S.
WithSignals(q, r, S, w) ==
    /\ r \in Seq(Task)
    /\ Range(r) = Range(q) \cup {SignalTask(c, w) : c \in S}
    /\ (Once(q) /\ \A x \in Range(q) : x.do = "signal" => x.cond \notin S) => Once(r)

LEMMA SignalsQueued ==
    ASSUME NEW q \in Seq(Task), NEW S \in SUBSET Conds, NEW order \in Orders(S),
           NEW w \in BOOLEAN, now \in Nat
    PROVE  WithSignals(q, NotifiedTasks(q, order, w), S, w)
<1> DEFINE n == Cardinality(S)
           new == [k \in DOMAIN order |-> SignalTask(order[k], w)]
           r == NotifiedTasks(q, order, w)
<1>1. /\ order \in [1 .. n -> S] /\ DOMAIN order = 1 .. n
      /\ \A a, b \in 1 .. n : order[a] = order[b] => a = b
      /\ \A c \in S : \E a \in 1 .. n : order[a] = c
    BY DEF Orders, Bijection, Injection, Surjection, IsInjective
<1>2. n \in Nat
  <2>1. IsFiniteSet(Conds)
      BY BlockedCallsAssumption
  <2>2. IsFiniteSet(S)
      BY <2>1, FS_Subset
  <2> QED BY <2>2, FS_CardinalityType
<1>3. \A c \in S : /\ SignalTask(c, w) \in Task /\ SignalTask(c, w).do = "signal"
                   /\ SignalTask(c, w).cond = c
    BY TaskKinds
<1>4. /\ new \in Seq(Task) /\ DOMAIN new = 1 .. n
      /\ \A k \in 1 .. n : new[k] = SignalTask(order[k], w)
  <2> HIDE DEF n
  <2>1. \A k \in 1 .. n : SignalTask(order[k], w) \in Task
      BY <1>1, <1>3
  <2> QED BY <2>1, <1>1, <1>2
<1>5. r = Enqueue(q, new, now)
    BY DEF NotifiedTasks
<1> HIDE DEF n, new, r
<1>6. Range(new) = {SignalTask(c, w) : c \in S}
  <2>1. Range(new) \subseteq {SignalTask(c, w) : c \in S}
      BY <1>1, <1>4 DEF Range
  <2>2. ASSUME NEW c \in S PROVE SignalTask(c, w) \in Range(new)
    <3>1. PICK a \in 1 .. n : order[a] = c
        BY <1>1
    <3> QED BY <3>1, <1>4 DEF Range
  <2> QED BY <2>1, <2>2
<1>7. Once(new)
  <2> SUFFICES ASSUME NEW i \in 1 .. n, NEW j \in 1 .. n, i # j PROVE ~Same(new[i], new[j])
      BY <1>4 DEF Once
  <2>1. order[i] # order[j] /\ order[i] \in S /\ order[j] \in S
      BY <1>1
  <2>2. /\ new[i].do = "signal" /\ new[i].cond = order[i]
        /\ new[j].do = "signal" /\ new[j].cond = order[j]
      BY <2>1, <1>3, <1>4
  <2> QED BY <2>1, <2>2 DEF Same
<1>8. r \in Seq(Task) /\ Range(r) = Range(q) \cup {SignalTask(c, w) : c \in S}
    BY <1>4, <1>5, <1>6, EnqueueRange
<1>9. ASSUME Once(q), \A x \in Range(q) : x.do = "signal" => x.cond \notin S
      PROVE  Once(r)
  <2>1. ASSUME NEW x \in Range(q), NEW c \in S PROVE ~Same(x, SignalTask(c, w))
      BY <1>3, <1>9 DEF Same
  <2>2. \A x \in Range(q), y \in Range(new) : ~Same(x, y)
      BY <2>1, <1>6
  <2> QED BY <2>2, <1>4, <1>5, <1>7, <1>9, EnqueueOnce
<1>10. WithSignals(q, r, S, w)
    BY <1>8, <1>9 DEF WithSignals
<1> QED BY <1>10 DEF r
-----------------------------------------------------------------------------
(***************************************************************************)
(* Conditions                                                              *)
(***************************************************************************)

\* A condition that loses its thread is freed, unless a signal task holds it.
LEMMA CancelledCond ==
    ASSUME NEW cd \in Cond,
           cd.refs = 1 + One(cd.onTimer) + One(cd.onTrigger) + One(cd.pending)
    PROVE  LET r == Unref(Cancel(cd), 1)
           IN  /\ ~cd.pending => r = Free
               /\ cd.pending => /\ r \in Cond /\ r.thread = NoThread /\ r.pending = TRUE
                                /\ r.onTimer = FALSE /\ r.onTrigger = FALSE
                                /\ r.refs = 1 /\ r.trigger = cd.trigger
<1> DEFINE m == 1 + One(cd.pending)
           a == [cd EXCEPT !.thread = NoThread, !.onTimer = FALSE, !.onTrigger = FALSE,
                           !.woken = FALSE]
           b == [a EXCEPT !.refs = m]
<1>1. /\ cd.onTimer \in BOOLEAN /\ cd.onTrigger \in BOOLEAN /\ cd.pending \in BOOLEAN
      /\ cd.refs \in Nat
    BY DEF Cond
<1>2. a \in Cond
    BY DEF Cond
<1>3. a.thread = NoThread /\ a.trigger = cd.trigger /\ a.refs = cd.refs
    BY DEF Cond
<1>4. a.onTimer = FALSE /\ a.onTrigger = FALSE /\ a.pending = cd.pending
    BY DEF Cond
<1>5. Listeners(cd) = One(cd.onTimer) + One(cd.onTrigger)
    BY DEF Listeners, One
<1>6. /\ One(cd.onTimer) \in Nat /\ One(cd.onTrigger) \in Nat
      /\ One(cd.pending) = IF cd.pending THEN 1 ELSE 0
    BY DEF One
<1>7. Cancel(cd) = Unref(a, Listeners(cd))
    BY DEF Cancel
<1>8. ~(a.refs <= Listeners(cd)) /\ a.refs - Listeners(cd) = m /\ m \in Nat
    BY <1>3, <1>5, <1>6
<1> HIDE DEF a, m
<1>9. Cancel(cd) = b
    BY <1>7, <1>8 DEF Unref
<1>10. b \in Cond
    BY <1>2, <1>8 DEF Cond
<1>11. b.thread = NoThread /\ b.trigger = cd.trigger /\ b.refs = m
    BY <1>2, <1>3 DEF Cond
<1>12. b.onTimer = FALSE /\ b.onTrigger = FALSE /\ b.pending = cd.pending
    BY <1>2, <1>4 DEF Cond
<1> HIDE DEF b
<1>13. CASE ~cd.pending
  <2>1. b.refs <= 1
      BY <1>13, <1>11, <1>6 DEF m
  <2>2. Unref(b, 1) = Free
      BY <2>1 DEF Unref
  <2> QED BY <2>2, <1>9, <1>13
<1>14. CASE cd.pending
  <2> DEFINE r == [b EXCEPT !.refs = 1]
  <2>0. One(cd.pending) = 1
      BY <1>14 DEF One
  <2>1. m = 2
      BY <2>0 DEF m
  <2>2. Unref(b, 1) = r
    <3>1. ~(b.refs <= 1) /\ b.refs - 1 = 1
        BY <2>1, <1>11
    <3> QED BY <3>1 DEF Unref
  <2>3. r \in Cond
      BY <1>10 DEF Cond
  <2>4. r.thread = NoThread /\ r.trigger = cd.trigger /\ r.refs = 1
      BY <1>10, <1>11 DEF Cond
  <2>5. r.onTimer = FALSE /\ r.onTrigger = FALSE /\ r.pending = cd.pending
      BY <1>10, <1>12 DEF Cond
  <2>6. r.pending = TRUE
      BY <2>5, <1>14, <1>1
  <2> HIDE DEF r
  <2> QED BY <2>2, <2>3, <2>4, <2>5, <2>6, <1>9, <1>14
<1> QED BY <1>13, <1>14, <1>1

\* The reference of an executed signal task.
LEMMA SignalTaskDone ==
    ASSUME NEW cd \in Cond, cd.refs > 0
    PROVE  LET r == Unref([cd EXCEPT !.pending = FALSE], 1)
           IN  /\ cd.refs = 1 => r = Free
               /\ cd.refs > 1 => r = [cd EXCEPT !.pending = FALSE, !.refs = cd.refs - 1]
<1> DEFINE a == [cd EXCEPT !.pending = FALSE]
           m == cd.refs - 1
<1>1. a.refs = cd.refs /\ cd.refs \in Nat
    BY DEF Cond
<1>2. CASE cd.refs = 1
  <2>1. Unref(a, 1) = Free
      BY <1>1, <1>2 DEF Unref
  <2> QED BY <2>1, <1>2
<1>3. CASE cd.refs > 1
  <2>1. ~(a.refs <= 1) /\ a.refs - 1 = m
      BY <1>1, <1>3
  <2> HIDE DEF m
  <2>2. Unref(a, 1) = [a EXCEPT !.refs = m]
      BY <2>1 DEF Unref
  <2>3. [a EXCEPT !.refs = m] = [cd EXCEPT !.pending = FALSE, !.refs = m]
      BY DEF Cond
  <2> QED BY <2>2, <2>3, <1>3 DEF m
<1> QED BY <1>1, <1>2, <1>3

\* What notifying and waking leave of a condition.
Noted(old, new, told) ==
    /\ new.thread = old.thread /\ new.trigger = old.trigger /\ new.of = old.of
    /\ new.timed = old.timed /\ new.onTimer = old.onTimer /\ new.onTrigger = old.onTrigger
    /\ new.pending = (old.pending \/ told)
    /\ new.refs = old.refs + (IF told /\ ~old.pending THEN 1 ELSE 0)

LEMMA NotedCond ==
    ASSUME NEW cd \in Cond, ~cd.pending
    PROVE  LET r == [cd EXCEPT !.pending = TRUE, !.refs = cd.refs + 1]
           IN  r \in Cond /\ r.woken = cd.woken /\ Noted(cd, r, TRUE)
<1> DEFINE m == cd.refs + 1
           r == [cd EXCEPT !.pending = TRUE, !.refs = m]
<1>1. m \in Nat
    BY DEF Cond
<1> HIDE DEF m
<1>2. r \in Cond
    BY <1>1 DEF Cond
<1>3. r.thread = cd.thread /\ r.trigger = cd.trigger /\ r.of = cd.of /\ r.refs = m
    BY DEF Cond
<1>4. /\ r.timed = cd.timed /\ r.onTimer = cd.onTimer /\ r.onTrigger = cd.onTrigger
      /\ r.woken = cd.woken /\ r.pending = TRUE
    BY DEF Cond
<1> HIDE DEF r
<1>5. r.pending = (cd.pending \/ TRUE)
    BY <1>4
<1>6. r.refs = cd.refs + (IF TRUE /\ ~cd.pending THEN 1 ELSE 0)
    BY <1>3 DEF m
<1> QED BY <1>2, <1>3, <1>4, <1>5, <1>6 DEF Noted, r, m

LEMMA WokenCond ==
    ASSUME NEW cd \in Cond
    PROVE  LET r == [cd EXCEPT !.woken = TRUE]
           IN  r \in Cond /\ r.woken = TRUE /\ Noted(cd, r, FALSE)
<1> DEFINE r == [cd EXCEPT !.woken = TRUE]
<1>2. r \in Cond
    BY DEF Cond
<1>3. r.thread = cd.thread /\ r.trigger = cd.trigger /\ r.of = cd.of /\ r.refs = cd.refs
    BY DEF Cond
<1>4. /\ r.timed = cd.timed /\ r.onTimer = cd.onTimer /\ r.onTrigger = cd.onTrigger
      /\ r.pending = cd.pending /\ r.woken = TRUE
    BY DEF Cond
<1> HIDE DEF r
<1>5. r.pending = (cd.pending \/ FALSE)
    BY <1>4 DEF Cond
<1>6. r.refs = cd.refs + (IF FALSE /\ ~cd.pending THEN 1 ELSE 0)
    BY <1>3 DEF Cond
<1> QED BY <1>2, <1>3, <1>4, <1>5, <1>6 DEF Noted, r

LEMMA NotedNothing ==
    ASSUME NEW cd \in Cond PROVE Noted(cd, cd, FALSE)
<1>1. cd.pending = (cd.pending \/ FALSE)
    BY DEF Cond
<1>2. cd.refs = cd.refs + (IF FALSE /\ ~cd.pending THEN 1 ELSE 0)
    BY DEF Cond
<1> QED BY <1>1, <1>2 DEF Noted

\* The notify functions of conditions.
LEMMA NotifiedFields ==
    ASSUME cond \in [Conds -> Cond], NEW S \in SUBSET Conds
    PROVE  /\ NotifiedConds(S) \in [Conds -> Cond]
           /\ \A c \in Conds : /\ Noted(cond[c], NotifiedConds(S)[c], c \in S)
                               /\ NotifiedConds(S)[c].woken = cond[c].woken
                               /\ c \notin S => NotifiedConds(S)[c] = cond[c]
<1> SUFFICES ASSUME NEW c \in Conds
             PROVE  /\ NotifiedConds(S)[c] \in Cond
                    /\ Noted(cond[c], NotifiedConds(S)[c], c \in S)
                    /\ NotifiedConds(S)[c].woken = cond[c].woken
                    /\ c \notin S => NotifiedConds(S)[c] = cond[c]
    BY DEF NotifiedConds
<1> DEFINE cd == cond[c]
           r == [cd EXCEPT !.pending = TRUE, !.refs = cd.refs + 1]
<1>1. cd \in Cond
    OBVIOUS
<1>2. NotifiedConds(S)[c] = IF c \in S /\ ~cd.pending THEN r ELSE cd
    BY DEF NotifiedConds, Notified
<1>3. CASE c \in S /\ ~cd.pending
  <2>1. r \in Cond /\ r.woken = cd.woken /\ Noted(cd, r, TRUE)
      BY <1>1, <1>3, NotedCond
  <2>2. (c \in S) = TRUE
      BY <1>3
  <2> HIDE DEF r, cd
  <2> QED BY <2>1, <2>2, <1>2, <1>3 DEF cd
<1>4. CASE c \notin S
  <2>1. Noted(cd, cd, FALSE)
      BY <1>1, NotedNothing
  <2>2. (c \in S) = FALSE
      BY <1>4
  <2> HIDE DEF r, cd
  <2> QED BY <2>1, <2>2, <1>1, <1>2, <1>4 DEF cd
<1>5. CASE c \in S /\ cd.pending
  <2>1. Noted(cd, cd, FALSE) /\ (c \in S) = TRUE
      BY <1>1, <1>5, NotedNothing
  <2>2. Noted(cd, cd, TRUE)
      BY <2>1, <1>5 DEF Noted
  <2> HIDE DEF r, cd
  <2> QED BY <2>1, <2>2, <1>1, <1>2, <1>5 DEF cd
<1> QED BY <1>3, <1>4, <1>5

\* ... and futex_wake marks those it wakes.
LEMMA WokenFields ==
    ASSUME cond \in [Conds -> Cond], NEW S \in SUBSET Conds
    PROVE  LET cs == Woken(NotifiedConds(S), S)
           IN  /\ cs \in [Conds -> Cond]
               /\ \A c \in Conds :
                     /\ Noted(cond[c], cs[c], c \in S)
                     /\ cs[c].woken = (cond[c].woken \/ c \in S)
                     /\ c \notin S => cs[c] = cond[c]
<1> DEFINE ns == NotifiedConds(S)
           cs == Woken(ns, S)
<1> SUFFICES ASSUME NEW c \in Conds
             PROVE  /\ cs[c] \in Cond
                    /\ Noted(cond[c], cs[c], c \in S)
                    /\ cs[c].woken = (cond[c].woken \/ c \in S)
                    /\ c \notin S => cs[c] = cond[c]
    BY DEF Woken
<1>1. /\ ns[c] \in Cond /\ Noted(cond[c], ns[c], c \in S) /\ ns[c].woken = cond[c].woken
      /\ cond[c] \in Cond /\ c \notin S => ns[c] = cond[c]
    BY NotifiedFields
<1>2. cs[c] = IF c \in S THEN [ns[c] EXCEPT !.woken = TRUE] ELSE ns[c]
    BY DEF Woken
<1> HIDE DEF ns, cs
<1>3. CASE c \in S
  <2> DEFINE r == [ns[c] EXCEPT !.woken = TRUE]
  <2>1. r \in Cond /\ r.woken = TRUE /\ Noted(ns[c], r, FALSE)
      BY <1>1, WokenCond
  <2>2. cs[c] = r /\ (c \in S) = TRUE
      BY <1>2, <1>3
  <2> HIDE DEF r
  <2>3. Noted(cond[c], r, TRUE)
    <3>1. /\ r.thread = cond[c].thread /\ r.trigger = cond[c].trigger /\ r.of = cond[c].of
          /\ r.timed = cond[c].timed /\ r.onTimer = cond[c].onTimer
          /\ r.onTrigger = cond[c].onTrigger
        BY <2>1, <2>2, <1>1 DEF Noted
    <3>2. r.pending = TRUE
        BY <2>1, <2>2, <1>1 DEF Noted
    <3>3. r.refs = ns[c].refs + 0 /\ ns[c].refs = cond[c].refs + (IF TRUE /\ ~cond[c].pending THEN 1 ELSE 0)
        BY <2>1, <2>2, <1>1 DEF Noted
    <3>4. r.refs = cond[c].refs + (IF TRUE /\ ~cond[c].pending THEN 1 ELSE 0)
        BY <3>3, <1>1 DEF Cond
    <3> QED BY <3>1, <3>2, <3>4 DEF Noted
  <2>4. cs[c].woken = (cond[c].woken \/ c \in S)
      BY <2>1, <2>2
  <2> QED BY <2>1, <2>2, <2>3, <2>4, <1>3
<1>4. CASE c \notin S
  <2>1. cs[c] = ns[c] /\ cs[c] = cond[c]
      BY <1>1, <1>2, <1>4
  <2>2. cond[c].woken = (cond[c].woken \/ c \in S)
      BY <1>1, <1>4 DEF Cond
  <2> QED BY <2>1, <2>2, <1>1
<1> QED BY <1>3, <1>4

\* Conditions that are notified were listening, and stay what they are.
LEMMA NotedConds ==
    ASSUME cond \in [Conds -> Cond], CondsInv(cond), NEW S \in SUBSET Conds,
           \A c \in S : cond[c].onTimer \/ cond[c].onTrigger,
           NEW cs \in [Conds -> Cond],
           \A c \in Conds : Noted(cond[c], cs[c], c \in S),
           \A c \in Conds : c \notin S => cs[c] = cond[c]
    PROVE  CondsInv(cs) /\ \A c \in S : cond[c].thread # NoThread
<1>1. ASSUME NEW c \in S PROVE cond[c].thread # NoThread
  <2>1. CASE cond[c].thread = NoThread
    <3>1. DeadOK(cond[c]) /\ (cond[c].onTimer \/ cond[c].onTrigger)
        BY <2>1 DEF CondsInv, CondOK
    <3> QED BY <3>1 DEF DeadOK, Free
  <2> QED BY <2>1
<1>2. ASSUME NEW c \in Conds PROVE CondOK(cs[c])
  <2>1. CondOK(cond[c]) /\ cond[c] \in Cond /\ cs[c] \in Cond
      BY DEF CondsInv
  <2>2. CASE c \notin S
      BY <2>1, <2>2
  <2>3. CASE c \in S
    <3>1. LiveOK(cond[c]) /\ cond[c].thread # NoThread
        BY <2>1, <2>3, <1>1 DEF CondOK
    <3>2. Noted(cond[c], cs[c], TRUE)
      <4>1. (c \in S) = TRUE
          BY <2>3
      <4> QED BY <4>1
    <3>3. /\ cs[c].thread = cond[c].thread /\ cs[c].trigger = cond[c].trigger
          /\ cs[c].of = cond[c].of /\ cs[c].timed = cond[c].timed
          /\ cs[c].onTimer = cond[c].onTimer /\ cs[c].onTrigger = cond[c].onTrigger
        BY <3>2 DEF Noted
    <3>4. cs[c].pending = TRUE
        BY <3>2 DEF Noted
    <3>5. cs[c].refs = 1 + One(cs[c].onTimer) + One(cs[c].onTrigger) + One(cs[c].pending)
      <4>1. cs[c].refs = cond[c].refs + (IF ~cond[c].pending THEN 1 ELSE 0)
          BY <3>2 DEF Noted
      <4>2. cond[c].refs = 1 + One(cond[c].onTimer) + One(cond[c].onTrigger) + One(cond[c].pending)
          BY <3>1 DEF LiveOK
      <4>3. One(cs[c].pending) = 1
          BY <3>4 DEF One
      <4>4. One(cond[c].onTimer) \in Nat /\ One(cond[c].onTrigger) \in Nat
          BY DEF One
      <4>5. One(cond[c].pending) = IF cond[c].pending THEN 1 ELSE 0
          BY DEF One
      <4> QED BY <4>1, <4>2, <4>3, <4>4, <4>5, <3>3
    <3>6. LiveOK(cs[c])
        BY <3>1, <3>3, <3>5 DEF LiveOK
    <3> QED BY <3>1, <3>3, <3>6 DEF CondOK
  <2> QED BY <2>2, <2>3
<1>3. \A c \in Conds : cs[c].thread = cond[c].thread
    BY DEF Noted
<1>4. OnePerThread(cs)
    BY <1>3 DEF CondsInv, OnePerThread
<1> QED BY <1>1, <1>2, <1>4 DEF CondsInv
-----------------------------------------------------------------------------
(***************************************************************************)
(* Steps                                                                   *)
(***************************************************************************)

\* The types that the invariant gives.
LEMMA Types ==
    ASSUME IInv
    PROVE  /\ now \in Nat /\ tasks \in Seq(Task) /\ cond \in [Conds -> Cond]
           /\ timer \in [Threads -> TimerRecord] /\ blocked \in [Threads -> Syscall]
           /\ threads \subseteq Threads /\ spawned \subseteq Threads
           /\ NoThread \notin Threads
    BY BlockedCallsAssumption DEF IInv, TypeOK

LEMMA InQueue ==
    ASSUME NEW q \in Seq(Task)
    PROVE  /\ \A x \in Range(q) : x \in Task
           /\ (\A k \in DOMAIN q : q[k].time >= now) <=> (\A x \in Range(q) : x.time >= now)
<1>1. \A k \in DOMAIN q : q[k] \in Task
    BY ElementOfSeq, LenProperties
<1> QED BY <1>1 DEF Range

\* r is q with signal tasks for conditions of S; there is one for every
\* condition that is pending in cs.
SignalsAdded(q, r, S, cs, w) ==
    /\ r \in Seq(Task) /\ Once(r) /\ Range(q) \subseteq Range(r)
    /\ \A x \in Range(r) :
          \/ x \in Range(q)
          \/ x.do = "signal" /\ x.cond \in S /\ x.wasTimeout = w /\ x.time = now
    /\ \A x \in Range(r) : x.do = "signal" => cs[x.cond].pending
    /\ \A c \in Conds : cs[c].pending => \E x \in Range(r) : x.do = "signal" /\ x.cond = c

\* Queues that have all the signal tasks of the present one.
HasSignals(q) ==
    /\ q \in Seq(Task) /\ Once(q) /\ Range(q) \subseteq Range(tasks)
    /\ \A x \in Range(tasks) : x.do = "signal" => x \in Range(q)

AllNoted(S, cs) == cs \in [Conds -> Cond] /\ \A c \in Conds : Noted(cond[c], cs[c], c \in S)

\* Notifying conditions adds their signal tasks.
LEMMA NotifyStep ==
    ASSUME IInv, NEW S \in SUBSET Conds, NEW q, NEW cs, NEW w \in BOOLEAN,
           HasSignals(q), AllNoted(S, cs),
           NEW order \in Orders(Notified(S))
    PROVE  SignalsAdded(q, NotifiedTasks(q, order, w), S, cs, w)
<1> SUFFICES ASSUME q \in Seq(Task), Once(q), Range(q) \subseteq Range(tasks),
                    \A x \in Range(tasks) : x.do = "signal" => x \in Range(q),
                    cs \in [Conds -> Cond],
                    \A c \in Conds : Noted(cond[c], cs[c], c \in S)
             PROVE  SignalsAdded(q, NotifiedTasks(q, order, w), S, cs, w)
    BY DEF HasSignals, AllNoted
<1> DEFINE T == Notified(S)
           r == NotifiedTasks(q, order, w)
<1>1. now \in Nat /\ cond \in [Conds -> Cond] /\ tasks \in Seq(Task)
    BY Types
<1>2. T \in SUBSET Conds /\ T = {c \in S : ~cond[c].pending}
    BY DEF Notified
<1>3. SignalsInv(cond, tasks)
    BY DEF IInv
<1> HIDE DEF T
<1>4. \A x \in Range(q) : x.do = "signal" => x.cond \notin T
  <2> SUFFICES ASSUME NEW x \in Range(q), x.do = "signal" PROVE cond[x.cond].pending
      BY <1>2
  <2> QED BY <1>3 DEF SignalsInv, SignalOK
<1>5. /\ r \in Seq(Task) /\ Once(r)
      /\ Range(r) = Range(q) \cup {SignalTask(c, w) : c \in T}
  <2>1. order \in Orders(T)
      BY DEF T
  <2>2. WithSignals(q, r, T, w)
      BY ONLY q \in Seq(Task), <2>1, <1>1, <1>2, w \in BOOLEAN, SignalsQueued
  <2> HIDE DEF r
  <2> QED BY <2>2, <1>4 DEF WithSignals
<1> HIDE DEF r
<1>6. \A c \in T : /\ SignalTask(c, w).do = "signal" /\ SignalTask(c, w).cond = c
                   /\ SignalTask(c, w).time = now /\ SignalTask(c, w).wasTimeout = w
    BY <1>1, <1>2, TaskKinds
<1>7. ASSUME NEW x \in Range(r), x \notin Range(q)
      PROVE  x.do = "signal" /\ x.cond \in S /\ x.wasTimeout = w /\ x.time = now
  <2>1. PICK c \in T : x = SignalTask(c, w)
      BY <1>5, <1>7
  <2> QED BY <2>1, <1>6, <1>2
<1>8. \A c \in S : cs[c].pending = TRUE
  <2> SUFFICES ASSUME NEW c \in S PROVE cs[c].pending = TRUE
      OBVIOUS
  <2>1. (c \in S) = TRUE /\ c \in Conds
      OBVIOUS
  <2>2. Noted(cond[c], cs[c], TRUE)
      BY <2>1
  <2> QED BY <2>2 DEF Noted
<1>9. \A c \in Conds \ S : cs[c].pending = cond[c].pending
  <2> SUFFICES ASSUME NEW c \in Conds \ S PROVE cs[c].pending = cond[c].pending
      OBVIOUS
  <2>1. (c \in S) = FALSE
      OBVIOUS
  <2>2. Noted(cond[c], cs[c], FALSE)
      BY <2>1
  <2>3. cs[c].pending = (cond[c].pending \/ FALSE) /\ cond[c] \in Cond
      BY <2>2, <1>1 DEF Noted
  <2> QED BY <2>3 DEF Cond
<1>10. ASSUME NEW x \in Range(r), x.do = "signal" PROVE cs[x.cond].pending
  <2>1. CASE x \in Range(q)
    <3>1. cond[x.cond].pending /\ x.cond \in Conds
      <4>1. x \in Range(tasks) /\ x \in Task
          BY <2>1, <1>1, InQueue
      <4>2. x.cond \in Conds
          BY <4>1, <1>10, TaskFields
      <4> QED BY <4>1, <4>2, <1>3, <1>10 DEF SignalsInv, SignalOK
    <3> QED BY <3>1, <1>8, <1>9
  <2>2. CASE x \notin Range(q)
      BY <2>2, <1>7, <1>8
  <2> QED BY <2>1, <2>2
<1>11. ASSUME NEW c \in Conds, cs[c].pending
       PROVE  \E x \in Range(r) : x.do = "signal" /\ x.cond = c
  <2>1. CASE c \in T
    <3>1. SignalTask(c, w) \in Range(r)
        BY <2>1, <1>5
    <3> QED BY <3>1, <2>1, <1>6
  <2>2. CASE c \notin T
    <3>1. cond[c].pending
        BY <2>2, <1>2, <1>9, <1>11
    <3>2. PICK x \in Range(tasks) : x.do = "signal" /\ x.cond = c
        BY <3>1, <1>3 DEF SignalsInv
    <3> QED BY <3>2, <1>5
  <2> QED BY <2>1, <2>2
<1>12. SignalsAdded(q, r, S, cs, w)
    BY <1>5, <1>7, <1>10, <1>11 DEF SignalsAdded
<1> QED BY <1>12 DEF r

\* futex_wake, whatever the thread that calls it does besides.
LEMMA WakeUpInv ==
    ASSUME IInv, NEW f \in Futexes, NEW n, WakeUp(f, n),
           UNCHANGED <<now, exiting, blocked, timer, table, readable>>
    PROVE  /\ cond' \in [Conds -> Cond] /\ tasks' \in Seq(Task)
           /\ \A c \in Conds : cond'[c].thread = cond[c].thread
           /\ CondsInv(cond)' /\ WakesInv(cond)' /\ SignalsInv(cond, tasks)'
           /\ Once(tasks)' /\ Range(tasks) \subseteq Range(tasks')
           /\ \A x \in Range(tasks') :
                 x \in Range(tasks) \/ (x.do = "signal" /\ x.time = now)
<1>1. /\ now \in Nat /\ tasks \in Seq(Task) /\ cond \in [Conds -> Cond]
    BY Types
<1>2. PICK S \in WakeChoices(f, n) :
        /\ cond' = Woken(NotifiedConds(S), S)
        /\ \E order \in Orders(Notified(S)) : tasks' = NotifiedTasks(tasks, order, FALSE)
    BY DEF WakeUp
<1>3. PICK order \in Orders(Notified(S)) : tasks' = NotifiedTasks(tasks, order, FALSE)
    BY <1>2
<1>4. /\ S \in SUBSET Conds
      /\ \A c \in S : cond[c].onTrigger /\ cond[c].trigger = f
    BY DEF WakeChoices, NotWoken, ListeningTo
<1>5. /\ cond' \in [Conds -> Cond]
      /\ \A c \in Conds : Noted(cond[c], cond'[c], c \in S)
      /\ \A c \in Conds : cond'[c].woken = (cond[c].woken \/ c \in S)
      /\ \A c \in Conds : c \notin S => cond'[c] = cond[c]
    BY <1>1, <1>2, <1>4, WokenFields
<1>6. CondsInv(cond') /\ \A c \in S : cond[c].thread # NoThread
    BY <1>1, <1>4, <1>5, NotedConds DEF IInv
<1>7. CondsInv(cond)'
    BY <1>6 DEF CondsInv, CondOK, DeadOK, LiveOK, WasBlocked, OnePerThread
<1>o. Once(tasks)
    BY DEF IInv
<1>8. /\ tasks' \in Seq(Task) /\ Once(tasks') /\ Range(tasks) \subseteq Range(tasks')
      /\ \A x \in Range(tasks') :
            \/ x \in Range(tasks)
            \/ x.do = "signal" /\ x.cond \in S /\ x.wasTimeout = FALSE /\ x.time = now
      /\ \A x \in Range(tasks') : x.do = "signal" => cond'[x.cond].pending
      /\ \A c \in Conds : cond'[c].pending =>
            \E x \in Range(tasks') : x.do = "signal" /\ x.cond = c
  <2> DEFINE r == NotifiedTasks(tasks, order, FALSE)
             cs == cond'
  <2>1. AllNoted(S, cs)
      BY <1>5 DEF AllNoted
  <2>2. HasSignals(tasks) /\ FALSE \in BOOLEAN /\ S \in SUBSET Conds
      BY <1>1, <1>o, <1>4 DEF HasSignals
  <2> HIDE DEF cs
  <2>3. SignalsAdded(tasks, r, S, cs, FALSE)
      BY ONLY IInv, <2>1, <2>2, order \in Orders(Notified(S)), NotifyStep
  <2> HIDE DEF r
  <2>4. tasks' = r
      BY <1>3 DEF r
  <2> QED BY <2>3, <2>4 DEF cs, SignalsAdded
<1>9. \A c \in Conds : /\ cond'[c].thread = cond[c].thread
                       /\ cond'[c].trigger = cond[c].trigger /\ cond'[c].timed = cond[c].timed
    BY <1>5 DEF Noted
<1>10. WakesInv(cond)'
  <2> SUFFICES ASSUME NEW c \in Conds, cond'[c].thread # NoThread
               PROVE  WakeOK(cond[c])'
      BY DEF WakesInv
  <2>1. CASE c \notin S
    <3>1. WakeOK(cond[c]) /\ cond'[c] = cond[c]
        BY <2>1, <1>5, <1>9 DEF IInv, WakesInv
    <3> QED BY <3>1 DEF WakeOK
  <2>2. CASE c \in S
    <3>1. cond'[c].woken = (cond[c].woken \/ c \in S)
        BY <1>5
    <3>2. cond'[c].woken
        BY <3>1, <2>2
    <3>3. cond'[c].pending = (cond[c].pending \/ c \in S)
        BY <1>5 DEF Noted
    <3>4. cond'[c].pending
        BY <3>3, <2>2
    <3> QED BY <3>2, <3>4 DEF WakeOK
  <2> QED BY <2>1, <2>2
<1>11. SignalsInv(cond, tasks)'
  <2>1. ASSUME NEW x \in Range(tasks'), x.do = "signal" PROVE SignalOK(cond, x)'
    <3>1. CASE x \in Range(tasks)
      <4>1. SignalOK(cond, x) /\ x.cond \in Conds
          BY <3>1, <2>1, <1>1, InQueue, TaskFields DEF IInv, SignalsInv
      <4> QED BY <4>1, <2>1, <1>8, <1>9 DEF SignalOK
    <3>2. CASE x \notin Range(tasks)
      <4>1. x.cond \in S /\ x.wasTimeout = FALSE /\ x.time = now
          BY <3>2, <1>8
      <4>2. cond'[x.cond].trigger # NoFutex
          BY <4>1, <1>4, <1>9, BlockedCallsAssumption
      <4> QED BY <4>1, <4>2, <2>1, <1>8 DEF SignalOK
    <3> QED BY <3>1, <3>2
  <2> QED BY <2>1, <1>8 DEF SignalsInv
<1>12. Once(tasks)'
    BY <1>8 DEF Once, Same
<1>13. \A x \in Range(tasks') : x \in Range(tasks) \/ (x.do = "signal" /\ x.time = now)
    BY <1>8
<1>14. Range(tasks) \subseteq Range(tasks') /\ tasks' \in Seq(Task)
    BY <1>8
<1>15. \A c \in Conds : cond'[c].thread = cond[c].thread
    BY <1>9
<1> QED BY <1>5, <1>7, <1>10, <1>11, <1>12, <1>13, <1>14, <1>15

\* Signal tasks concern neither timers nor threads to be started.
LEMMA SignalsOnly ==
    ASSUME IInv, tasks' \in Seq(Task), Range(tasks) \subseteq Range(tasks'),
           \A x \in Range(tasks') : x \in Range(tasks) \/ (x.do = "signal" /\ x.time = now),
           UNCHANGED <<now, timer>>
    PROVE  /\ ExpiresInv(tasks)' /\ ArmedInv(tasks)'
           /\ \A k \in DOMAIN tasks' : tasks'[k].time >= now'
           /\ \A x \in Range(tasks') : x.do = "start" => x \in Range(tasks)
<1>1. ExpiresInv(tasks)'
    BY DEF IInv, ExpiresInv, ExpireOK
<1>2. ArmedInv(tasks)'
    BY DEF IInv, ArmedInv, Awaited
<1>3. now \in Nat /\ tasks \in Seq(Task)
    BY Types
<1>4. \A x \in Range(tasks) : x.time >= now
    BY <1>3, InQueue DEF IInv, TypeOK
<1>5. \A x \in Range(tasks') : x.time >= now
    BY <1>3, <1>4
<1>6. \A k \in DOMAIN tasks' : tasks'[k].time >= now
  <2> DEFINE q == tasks'
  <2>1. q \in Seq(Task) /\ \A x \in Range(q) : x.time >= now
      BY <1>5
  <2> HIDE DEF q
  <2>2. \A k \in DOMAIN q : q[k].time >= now
      BY <2>1, InQueue
  <2> QED BY <2>2 DEF q
<1> QED BY <1>1, <1>2, <1>6

\* FUTEX_WAKE
LEMMA FutexWakeInv ==
    ASSUME IInv, NEW t \in Threads, NEW f \in Futexes, NEW n, FutexWake(t, f, n)
    PROVE  IInv'
<1>1. /\ WakeUp(f, n) /\ calls' = calls + 1 /\ calls < MaxCalls
      /\ UNCHANGED <<now, early, threads, spawned, exiting, running, blocked, ret,
                     timer, table, readable, arrivals, crash>>
    BY DEF FutexWake, MayCall
<1>2. /\ cond' \in [Conds -> Cond] /\ tasks' \in Seq(Task)
      /\ \A c \in Conds : cond'[c].thread = cond[c].thread
      /\ CondsInv(cond)' /\ WakesInv(cond)' /\ SignalsInv(cond, tasks)'
      /\ Once(tasks)' /\ Range(tasks) \subseteq Range(tasks')
      /\ \A x \in Range(tasks') : x \in Range(tasks) \/ (x.do = "signal" /\ x.time = now)
    BY <1>1, WakeUpInv
<1>3. /\ ExpiresInv(tasks)' /\ ArmedInv(tasks)'
      /\ \A k \in DOMAIN tasks' : tasks'[k].time >= now'
      /\ \A x \in Range(tasks') : x.do = "start" => x \in Range(tasks)
    BY <1>1, <1>2, SignalsOnly
<1>4. StartsInv(tasks)'
    BY <1>1, <1>3 DEF IInv, StartsInv, StartOK, WasBlocked
<1>5. TypeOK'
    BY <1>1, <1>2, <1>3, BlockedCallsAssumption DEF IInv, TypeOK, WasBlocked
<1>6. BlockedInv'
    BY <1>1, <1>2 DEF IInv, BlockedInv, WasBlocked, CallOK
<1>7. ProcInv' /\ TimersInv' /\ TimeoutsInv' /\ AssertionsHold'
    BY <1>1 DEF IInv, ProcInv, TimersInv, TimeoutsInv, TimeoutOK, Quiet, AssertionsHold, WasBlocked
<1> QED BY <1>2, <1>3, <1>4, <1>5, <1>6, <1>7 DEF IInv

\* exit
LEMMA ExitThreadInv ==
    ASSUME IInv, NEW t \in Threads, ExitThread(t)
    PROVE  IInv'
<1>1. /\ running = t /\ running' = NoThread /\ threads' = threads \ {t}
      /\ UNCHANGED <<now, early, spawned, exiting, blocked, ret, timer, table,
                     readable, calls, arrivals, crash>>
    BY DEF ExitThread
<1>2. /\ cond' \in [Conds -> Cond] /\ tasks' \in Seq(Task)
      /\ \A c \in Conds : cond'[c].thread = cond[c].thread
      /\ CondsInv(cond)' /\ WakesInv(cond)' /\ SignalsInv(cond, tasks)'
      /\ Once(tasks)' /\ Range(tasks) \subseteq Range(tasks')
      /\ \A x \in Range(tasks') : x \in Range(tasks) \/ (x.do = "signal" /\ x.time = now)
  <2>1. CASE TidAddress[t] # NoFutex /\ Cardinality(threads) > 1
    <3>1. TidAddress[t] \in Futexes
        BY <2>1, BlockedCallsAssumption
    <3>2. WakeUp(TidAddress[t], 1)
        BY <2>1 DEF ExitThread
    <3> QED BY <3>1, <3>2, <1>1, WakeUpInv
  <2>2. CASE ~(TidAddress[t] # NoFutex /\ Cardinality(threads) > 1)
    <3>1. cond' = cond /\ tasks' = tasks
        BY <2>2 DEF ExitThread
    <3>2. /\ cond' \in [Conds -> Cond] /\ tasks' \in Seq(Task)
        BY <3>1, Types
    <3>3. CondsInv(cond)'
        BY <1>1, <3>1 DEF IInv, CondsInv, CondOK, DeadOK, LiveOK, WasBlocked, OnePerThread
    <3>4. WakesInv(cond)' /\ SignalsInv(cond, tasks)' /\ Once(tasks)'
        BY <1>1, <3>1 DEF IInv, WakesInv, WakeOK, SignalsInv, SignalOK, Once, Same
    <3> QED BY <3>1, <3>2, <3>3, <3>4
  <2> QED BY <2>1, <2>2
<1>3. /\ ExpiresInv(tasks)' /\ ArmedInv(tasks)'
      /\ \A k \in DOMAIN tasks' : tasks'[k].time >= now'
      /\ \A x \in Range(tasks') : x.do = "start" => x \in Range(tasks)
    BY <1>1, <1>2, SignalsOnly
<1>4. t \in threads /\ ~WasBlocked(t) /\ t # NoThread
    BY <1>1, BlockedCallsAssumption DEF IInv, TypeOK
<1>5. StartsInv(tasks)'
  <2> SUFFICES ASSUME NEW x \in Range(tasks'), x.do = "start" PROVE StartOK(x)'
      BY DEF StartsInv
  <2>1. StartOK(x) /\ x \in Task
      BY <1>3, Types, InQueue DEF IInv, StartsInv
  <2>2. x.thread # NoThread
      BY <2>1, TaskFields, BlockedCallsAssumption
  <2> QED BY <2>1, <2>2, <1>1 DEF StartOK, WasBlocked
<1>6. TypeOK'
  <2>1. \A u \in Threads : WasBlocked(u)' => u \in threads' \ {running'}
      BY <1>1, <1>4, BlockedCallsAssumption DEF IInv, TypeOK, WasBlocked
  <2> QED BY <2>1, <1>1, <1>2, <1>3 DEF IInv, TypeOK
<1>7. BlockedInv'
    BY <1>1, <1>2 DEF IInv, BlockedInv, WasBlocked, CallOK
<1>8. ProcInv' /\ TimersInv' /\ AssertionsHold'
    BY <1>1, <1>4 DEF IInv, ProcInv, TimersInv, AssertionsHold
<1>9. TimeoutsInv'
    BY <1>1 DEF IInv, TimeoutsInv, TimeoutOK, Quiet, WasBlocked
<1> QED BY <1>2, <1>3, <1>5, <1>6, <1>7, <1>8, <1>9 DEF IInv

\* clone
LEMMA CloneInv ==
    ASSUME IInv, NEW t \in Threads, NEW u \in Threads, Clone(t, u)
    PROVE  IInv'
<1> DEFINE y == StartTask(u, now)
<1>1. /\ running = t /\ calls < MaxCalls /\ u \notin spawned
      /\ calls' = calls + 1 /\ spawned' = spawned \cup {u} /\ threads' = threads \cup {u}
      /\ tasks' = Enqueue(tasks, <<y>>, now)
      /\ UNCHANGED <<now, early, exiting, running, blocked, ret, timer, cond, table,
                     readable, arrivals, crash>>
    BY DEF Clone, MayCall
<1>2. now \in Nat /\ tasks \in Seq(Task) /\ NoThread \notin Threads
    BY Types
<1>3. t \in threads /\ threads \subseteq spawned /\ ~exiting /\ Main \in spawned
    BY <1>1, <1>2 DEF IInv, TypeOK, ProcInv
<1>4. y \in Task /\ y.do = "start" /\ y.thread = u /\ y.time = now
    BY <1>2, TaskKinds
<1> HIDE DEF y
<1>5. <<y>> \in Seq(Task) /\ Range(<<y>>) = {y} /\ Once(<<y>>)
    BY <1>4, SingleTask
<1>6. tasks' \in Seq(Task) /\ Range(tasks') = Range(tasks) \cup {y}
    BY <1>1, <1>2, <1>5, EnqueueRange
<1>7. Once(tasks')
  <2>1. ASSUME NEW x \in Range(tasks) PROVE ~Same(x, y)
    <3>1. x.do = "start" => StartOK(x)
        BY DEF IInv, StartsInv
    <3>2. x.do = "start" => x.thread # u
        BY <3>1, <1>1, <1>3 DEF StartOK
    <3> QED BY <3>2, <1>4 DEF Same
  <2>2. \A x \in Range(tasks), z \in Range(<<y>>) : ~Same(x, z)
      BY <2>1, <1>5
  <2>3. Once(tasks)
      BY DEF IInv
  <2> QED BY <2>2, <2>3, <1>1, <1>2, <1>5, EnqueueOnce
<1>8. Once(tasks)'
    BY <1>7 DEF Once, Same
<1>9. \A k \in DOMAIN tasks' : tasks'[k].time >= now'
  <2>1. \A x \in Range(tasks) : x.time >= now
      BY <1>2, InQueue DEF IInv, TypeOK
  <2> DEFINE q == tasks'
  <2>2. q \in Seq(Task) /\ \A x \in Range(q) : x.time >= now
      BY <2>1, <1>2, <1>4, <1>6
  <2> HIDE DEF q
  <2>3. \A k \in DOMAIN q : q[k].time >= now
      BY <2>2, InQueue
  <2> QED BY <2>3, <1>1 DEF q
<1>10. ~WasBlocked(u) /\ Quiet(timer[u])
    BY <1>1, <1>3 DEF IInv, TypeOK, TimeoutsInv
<1>11. TypeOK'
  <2>1. \A v \in Threads : WasBlocked(v)' => v \in threads' \ {running'}
      BY <1>1 DEF IInv, TypeOK, WasBlocked
  <2>2. threads' \subseteq spawned' /\ spawned' \subseteq Threads /\ running' \in threads' \cup {NoThread}
      BY <1>1 DEF IInv, TypeOK
  <2> QED BY <2>1, <2>2, <1>1, <1>6, <1>9, BlockedCallsAssumption DEF IInv, TypeOK
<1>12. StartsInv(tasks)'
  <2> SUFFICES ASSUME NEW x \in Range(tasks'), x.do = "start" PROVE StartOK(x)'
      BY DEF StartsInv
  <2>1. CASE x = y
      BY <2>1, <1>1, <1>3, <1>4, <1>10 DEF StartOK, WasBlocked
  <2>2. CASE x # y
    <3>1. StartOK(x)
        BY <2>2, <1>6 DEF IInv, StartsInv
    <3> QED BY <3>1, <1>1, <1>3 DEF StartOK, WasBlocked
  <2> QED BY <2>1, <2>2
<1>13. ExpiresInv(tasks)' /\ ArmedInv(tasks)'
    BY <1>1, <1>4, <1>6 DEF IInv, ExpiresInv, ArmedInv, Awaited
<1>14. CondsInv(cond)' /\ WakesInv(cond)'
    BY <1>1 DEF IInv, CondsInv, CondOK, DeadOK, LiveOK, WasBlocked, OnePerThread, WakesInv, WakeOK
<1>15. SignalsInv(cond, tasks)'
    BY <1>1, <1>4, <1>6 DEF IInv, SignalsInv, SignalOK
<1>16. BlockedInv' /\ ProcInv' /\ TimersInv' /\ AssertionsHold'
    BY <1>1, <1>3 DEF IInv, BlockedInv, WasBlocked, ProcInv, TimersInv, AssertionsHold
<1>17. TimeoutsInv'
    BY <1>1, <1>10 DEF IInv, TimeoutsInv, TimeoutOK, WasBlocked
<1> QED BY <1>8, <1>11, <1>12, <1>13, <1>14, <1>15, <1>16, <1>17 DEF IInv

\* What is known when a task is executed.
LEMMA Executing ==
    ASSUME IInv, NEW do, MayRun(do)
    PROVE  LET x == Head(tasks)
           IN  /\ x \in Task /\ x.do = do /\ x.time = now /\ x \in Range(tasks)
               /\ Tail(tasks) \in Seq(Task) /\ Once(Tail(tasks))
               /\ Range(tasks) = {x} \cup Range(Tail(tasks))
               /\ \A y \in Range(Tail(tasks)) : y \in Task /\ y.time >= now /\ ~Same(x, y)
               /\ \A k \in DOMAIN Tail(tasks) : Tail(tasks)[k].time >= now
               /\ running = NoThread /\ crash = ""
<1> DEFINE x == Head(tasks)
           q == Tail(tasks)
<1>1. /\ running = NoThread /\ crash = "" /\ tasks # <<>> /\ x.time = now /\ x.do = do
    BY DEF MayRun
<1>2. tasks \in Seq(Task) /\ Once(tasks) /\ \A y \in Range(tasks) : y.time >= now
    BY Types, InQueue DEF IInv, TypeOK
<1>3. /\ x \in Task /\ q \in Seq(Task) /\ Range(tasks) = {x} \cup Range(q)
      /\ Once(q) /\ \A y \in Range(q) : ~Same(x, y)
    BY <1>1, <1>2, Dequeued
<1> HIDE DEF x, q
<1>4. \A y \in Range(q) : y \in Task /\ y.time >= now
    BY <1>2, <1>3, InQueue
<1>5. \A k \in DOMAIN q : q[k].time >= now
    BY <1>3, <1>4, InQueue
<1> QED BY <1>1, <1>3, <1>4, <1>5 DEF x, q

\* _process_runStartTask, _start_thread_task
LEMMA RunStartInv ==
    ASSUME IInv, RunStart
    PROVE  IInv'
<1> DEFINE x == Head(tasks)
           q == Tail(tasks)
           t == x.thread
           alive == IF t = Main THEN {Main} ELSE threads
<1>1. /\ MayRun("start") /\ threads' = alive /\ spawned' = spawned \cup {t}
      /\ running' = (IF ~exiting /\ alive # {} THEN t ELSE NoThread)
      /\ tasks' = q /\ early' = FALSE
      /\ UNCHANGED <<now, exiting, blocked, ret, timer, cond, table, readable,
                     calls, arrivals, crash>>
    BY DEF RunStart
<1>2. /\ x \in Task /\ x.do = "start" /\ x \in Range(tasks)
      /\ q \in Seq(Task) /\ Once(q) /\ Range(tasks) = {x} \cup Range(q)
      /\ \A y \in Range(q) : y \in Task /\ y.time >= now /\ ~Same(x, y)
      /\ \A k \in DOMAIN q : q[k].time >= now
      /\ running = NoThread
    BY <1>1, Executing
<1>3. t \in Threads /\ NoThread \notin Threads /\ Main \in Threads
    BY <1>2, TaskFields, BlockedCallsAssumption
<1>4. StartOK(x)
    BY <1>2 DEF IInv, StartsInv
<1>5. /\ threads \subseteq spawned /\ spawned \subseteq Threads
      /\ \A u \in Threads : WasBlocked(u) => u \in threads
    BY DEF IInv, TypeOK
<1> HIDE DEF x, q
<1>6. /\ alive \subseteq spawned' /\ spawned' \subseteq Threads
      /\ exiting => alive = {}
      /\ ~exiting => t \in alive
      /\ (~WasBlocked(t) /\ Quiet(timer[t])) \/ exiting
      /\ threads \subseteq alive /\ alive \subseteq threads \cup {t}
  <2>1. CASE t = Main
    <3>1. spawned = {} /\ threads = {} /\ ~exiting
        BY <2>1, <1>4, <1>5 DEF StartOK, IInv, ProcInv
    <3>2. ~WasBlocked(t) /\ Quiet(timer[t])
        BY <3>1, <1>3, <1>5 DEF IInv, TimeoutsInv
    <3> QED BY <3>1, <3>2, <2>1, <1>1, <1>3
  <2>2. CASE t # Main
    <3>1. t \in spawned /\ ~WasBlocked(t) /\ (exiting \/ t \in threads)
        BY <2>2, <1>4 DEF StartOK
    <3>2. Quiet(timer[t]) \/ exiting
        BY <3>1, <1>3 DEF IInv, TimeoutsInv
    <3> QED BY <3>1, <3>2, <2>2, <1>1, <1>5 DEF IInv, ProcInv
  <2> QED BY <2>1, <2>2
<1>7. Main \in spawned'
    BY <1>1, <1>4, <1>3 DEF StartOK, IInv, ProcInv
<1>8. running' \in threads' \cup {NoThread}
    BY <1>1, <1>6
<1>9. \A u \in Threads : WasBlocked(u)' => u \in threads' \ {running'}
    BY <1>1, <1>3, <1>5, <1>6 DEF WasBlocked
<1>10. TypeOK'
    BY <1>1, <1>2, <1>6, <1>8, <1>9 DEF IInv, TypeOK
<1>11. StartsInv(tasks)'
  <2> SUFFICES ASSUME NEW y \in Range(q), y.do = "start" PROVE StartOK(y)'
      BY <1>1 DEF StartsInv
  <2>1. StartOK(y) /\ y.thread # t /\ y.thread \in Threads
      BY <1>2, TaskFields DEF IInv, StartsInv, Same
  <2>2. CASE y.thread = Main
    <3>1. spawned = {} /\ t # Main
        BY <2>1, <2>2 DEF StartOK
    <3> QED BY <3>1, <1>4 DEF StartOK
  <2>3. CASE y.thread # Main
      BY <2>1, <2>3, <1>1, <1>3, <1>6 DEF StartOK, WasBlocked
  <2> QED BY <2>2, <2>3
<1>12. ExpiresInv(tasks)' /\ ArmedInv(tasks)'
  <2>1. ExpiresInv(tasks)'
      BY <1>1, <1>2 DEF IInv, ExpiresInv
  <2>2. ASSUME NEW u \in Threads, Armed(timer[u]) PROVE Awaited(u, q)
    <3>1. Awaited(u, tasks)
        BY <2>2 DEF IInv, ArmedInv
    <3> QED BY <3>1, <1>2 DEF Awaited
  <2> QED BY <2>1, <2>2, <1>1 DEF ArmedInv, Awaited
<1>13. CondsInv(cond)' /\ WakesInv(cond)'
    BY <1>1 DEF IInv, CondsInv, CondOK, DeadOK, LiveOK, WasBlocked, OnePerThread, WakesInv, WakeOK
<1>14. SignalsInv(cond, tasks)'
  <2>1. \A y \in Range(q) : y.do = "signal" => SignalOK(cond, y)'
      BY <1>1, <1>2 DEF IInv, SignalsInv, SignalOK
  <2>2. ASSUME NEW c \in Conds, cond[c].pending
        PROVE  \E y \in Range(q) : y.do = "signal" /\ y.cond = c
    <3>1. PICK y \in Range(tasks) : y.do = "signal" /\ y.cond = c
        BY <2>2 DEF IInv, SignalsInv
    <3> QED BY <3>1, <1>2
  <2> QED BY <2>1, <2>2, <1>1 DEF SignalsInv
<1>15. BlockedInv' /\ TimersInv' /\ AssertionsHold'
    BY <1>1 DEF IInv, BlockedInv, WasBlocked, TimersInv, AssertionsHold
<1>16. ProcInv'
    BY <1>1, <1>6, <1>7 DEF ProcInv
<1>17. TimeoutsInv'
    BY <1>1, <1>6 DEF IInv, TimeoutsInv, TimeoutOK, WasBlocked
<1>18. Once(tasks)'
    BY <1>1, <1>2 DEF Once, Same
<1> QED BY <1>10, <1>11, <1>12, <1>13, <1>14, <1>15, <1>16, <1>17, <1>18 DEF IInv

\* _process_handleProcessExit, of exit_group or of the stop task
LEMMA ProcessExitInv ==
    ASSUME IInv, HandleProcessExit, tasks' \in Seq(Task), Once(tasks'),
           Range(tasks') \subseteq Range(tasks),
           \A x \in Range(tasks) : x.do # "stop" => x \in Range(tasks'),
           early' \in BOOLEAN,
           UNCHANGED <<now, spawned, ret, timer, table, readable, calls, arrivals, crash>>
    PROVE  IInv'
<1>1. /\ exiting' = (exiting \/ IsRunning) /\ threads' = {} /\ running' = NoThread
      /\ cond' = Cleanup(cond, threads) /\ blocked' = [t \in Threads |-> NoCall]
    BY DEF HandleProcessExit
<1>2. /\ tasks \in Seq(Task) /\ cond \in [Conds -> Cond]
      /\ \A x \in Range(tasks) : x \in Task /\ x.time >= now
    BY Types, InQueue DEF IInv, TypeOK
<1>3. NoCall \in Syscall /\ \A t \in Threads : blocked'[t] = NoCall
    BY <1>1 DEF NoCall, Syscall, Triggers
<1>4. ASSUME NEW c \in Conds
      PROVE  /\ cond'[c] \in Cond /\ cond'[c].thread = NoThread
             /\ cond'[c].pending = cond[c].pending
             /\ cond'[c].pending => cond'[c].trigger = cond[c].trigger
             /\ cond'[c] = Free \/ (/\ exiting' /\ ~cond'[c].onTimer /\ ~cond'[c].onTrigger
                                    /\ cond'[c].pending /\ cond'[c].refs = 1)
  <2> DEFINE cd == cond[c]
             r == Unref(Cancel(cd), 1)
  <2>1. cd \in Cond /\ CondOK(cd)
      BY <1>2 DEF IInv, CondsInv
  <2>2. cond'[c] = IF cd.thread \in threads THEN r ELSE cd
      BY <1>1 DEF Cleanup
  <2>f. Free \in Cond /\ Free.thread = NoThread /\ Free.pending = FALSE
      BY BlockedCallsAssumption DEF Free, Cond, Triggers
  <2>3. CASE cd.thread = NoThread
    <3>1. cd.thread \notin threads
        BY <2>3, Types
    <3>2. DeadOK(cd) /\ cond'[c] = cd
        BY <3>1, <2>1, <2>2, <2>3 DEF CondOK
    <3>3. cd = Free \/ (exiting /\ ~cd.onTimer /\ ~cd.onTrigger /\ cd.pending /\ cd.refs = 1)
        BY <3>2 DEF DeadOK
    <3>4. exiting => exiting'
        BY <1>1
    <3> QED BY <3>2, <3>3, <3>4, <2>1, <2>3
  <2>4. CASE cd.thread # NoThread
    <3>1. LiveOK(cd) /\ cd.thread \in Threads
        BY <2>1, <2>4 DEF CondOK, Cond
    <3>2. cd.thread \in threads
        BY <3>1 DEF LiveOK, IInv, TypeOK
    <3>3. exiting'
      <4>1. IsRunning
          BY <3>2 DEF IInv, ProcInv, IsRunning
      <4> QED BY <4>1, <1>1
    <3>4. cd.refs = 1 + One(cd.onTimer) + One(cd.onTrigger) + One(cd.pending)
        BY <3>1 DEF LiveOK
    <3>5. /\ ~cd.pending => r = Free
          /\ cd.pending => /\ r \in Cond /\ r.thread = NoThread /\ r.pending = TRUE
                           /\ r.onTimer = FALSE /\ r.onTrigger = FALSE
                           /\ r.refs = 1 /\ r.trigger = cd.trigger
        BY <2>1, <3>4, CancelledCond
    <3>6. cond'[c] = r /\ cd.pending \in BOOLEAN
        BY <2>1, <2>2, <3>2 DEF Cond
    <3> HIDE DEF r, cd
    <3>7. CASE cd.pending
      <4>1. cd.pending = TRUE
          BY <3>6, <3>7
      <4> QED BY <4>1, <3>3, <3>5, <3>6, <3>7 DEF cd
    <3>8. CASE ~cd.pending
      <4>1. cd.pending = FALSE
          BY <3>6, <3>8
      <4> QED BY <4>1, <3>5, <3>6, <3>8, <2>f DEF cd
    <3> QED BY <3>7, <3>8
  <2> QED BY <2>3, <2>4
<1>5. \A k \in DOMAIN tasks' : tasks'[k].time >= now'
  <2> DEFINE q == tasks'
  <2>1. q \in Seq(Task) /\ \A x \in Range(q) : x.time >= now
      BY <1>2
  <2> HIDE DEF q
  <2>2. \A k \in DOMAIN q : q[k].time >= now
      BY <2>1, InQueue
  <2> QED BY <2>2 DEF q
<1>6. TypeOK'
  <2>1. \A u \in Threads : ~WasBlocked(u)'
      BY <1>3 DEF WasBlocked
  <2>2. cond' \in [Conds -> Cond]
      BY <1>1, <1>4 DEF Cleanup
  <2>3. blocked' \in [Threads -> Syscall]
      BY <1>1, <1>3
  <2>4. exiting' \in BOOLEAN
      BY <1>1
  <2> QED BY <2>1, <2>2, <2>3, <2>4, <1>1, <1>5 DEF IInv, TypeOK
<1>7. CondsInv(cond)'
    BY <1>4 DEF CondsInv, CondOK, DeadOK, OnePerThread
<1>8. WakesInv(cond)'
    BY <1>4 DEF WakesInv
<1>9. SignalsInv(cond, tasks)'
  <2>1. ASSUME NEW x \in Range(tasks'), x.do = "signal" PROVE SignalOK(cond, x)'
    <3>1. SignalOK(cond, x) /\ x.cond \in Conds
        BY <1>2, <2>1, TaskFields DEF IInv, SignalsInv
    <3> QED BY <3>1, <1>4 DEF SignalOK
  <2>2. ASSUME NEW c \in Conds, cond'[c].pending
        PROVE  \E x \in Range(tasks') : x.do = "signal" /\ x.cond = c
    <3>1. cond[c].pending
        BY <2>2, <1>4
    <3>2. PICK x \in Range(tasks) : x.do = "signal" /\ x.cond = c
        BY <3>1 DEF IInv, SignalsInv
    <3> QED BY <3>2
  <2> QED BY <2>1, <2>2 DEF SignalsInv
<1>10. StartsInv(tasks)'
  <2> SUFFICES ASSUME NEW x \in Range(tasks'), x.do = "start" PROVE StartOK(x)'
      BY DEF StartsInv
  <2>1. StartOK(x) /\ x.thread \in Threads
      BY <1>2, TaskFields DEF IInv, StartsInv
  <2>2. x.thread # NoThread /\ ~WasBlocked(x.thread)'
      BY <2>1, <1>3, BlockedCallsAssumption DEF WasBlocked
  <2>3. CASE x.thread = Main
      BY <2>1, <2>3 DEF StartOK
  <2>4. CASE x.thread # Main
    <3>1. x.thread \in spawned /\ (exiting \/ x.thread \in threads)
        BY <2>1, <2>4 DEF StartOK
    <3>2. exiting'
        BY <3>1, <1>1 DEF IsRunning
    <3> QED BY <3>1, <3>2, <2>2, <2>4, <1>1 DEF StartOK
  <2> QED BY <2>3, <2>4
<1>11. ExpiresInv(tasks)' /\ ArmedInv(tasks)'
  <2>1. ExpiresInv(tasks)'
      BY DEF IInv, ExpiresInv
  <2>2. ASSUME NEW u \in Threads, Armed(timer[u]) PROVE Awaited(u, tasks)'
    <3>1. Awaited(u, tasks)
        BY <2>2 DEF IInv, ArmedInv
    <3> QED BY <3>1 DEF Awaited
  <2> QED BY <2>1, <2>2 DEF ArmedInv
<1>12. BlockedInv' /\ TimersInv' /\ AssertionsHold'
    BY <1>3 DEF IInv, BlockedInv, WasBlocked, TimersInv, AssertionsHold
<1>13. ProcInv'
    BY <1>1 DEF IInv, TypeOK, ProcInv, IsRunning
<1>14. TimeoutsInv'
    BY <1>1, <1>3 DEF IInv, TimeoutsInv, WasBlocked
<1>15. Once(tasks)'
    BY DEF Once, Same
<1> QED BY <1>6, <1>7, <1>8, <1>9, <1>10, <1>11, <1>12, <1>13, <1>14, <1>15 DEF IInv

LEMMA ExitGroupInv ==
    ASSUME IInv, NEW t \in Threads, ExitGroup(t)
    PROVE  IInv'
<1>1. /\ HandleProcessExit /\ tasks' = tasks /\ early' = early
      /\ UNCHANGED <<now, spawned, ret, timer, table, readable, calls, arrivals, crash>>
    BY DEF ExitGroup
<1>2. tasks \in Seq(Task) /\ Once(tasks) /\ early \in BOOLEAN
    BY Types DEF IInv, TypeOK
<1> QED BY <1>1, <1>2, ProcessExitInv

\* _process_runStopTask
LEMMA RunStopInv ==
    ASSUME IInv, RunStop
    PROVE  IInv'
<1>1. /\ MayRun("stop") /\ HandleProcessExit /\ tasks' = Tail(tasks) /\ early' = FALSE
      /\ UNCHANGED <<now, spawned, ret, timer, table, readable, calls, arrivals, crash>>
    BY DEF RunStop
<1>2. /\ Head(tasks).do = "stop" /\ Tail(tasks) \in Seq(Task) /\ Once(Tail(tasks))
      /\ Range(tasks) = {Head(tasks)} \cup Range(Tail(tasks))
    BY <1>1, Executing
<1>3. /\ tasks' \in Seq(Task) /\ Once(tasks') /\ Range(tasks') \subseteq Range(tasks)
      /\ \A x \in Range(tasks) : x.do # "stop" => x \in Range(tasks')
    BY <1>1, <1>2
<1>4. early' \in BOOLEAN
    BY <1>1
<1> QED BY <1>1, <1>3, <1>4, ProcessExitInv

\* A packet arrives and the descriptor becomes readable.
LEMMA ArriveInv ==
    ASSUME IInv, Arrive
    PROVE  IInv'
<1> DEFINE S == ListeningTo(File)
<1>1. /\ arrivals < MaxArrivals /\ arrivals' = arrivals + 1 /\ readable' = TRUE
      /\ cond' = NotifiedConds(S)
      /\ \E order \in Orders(Notified(S)) : tasks' = NotifiedTasks(tasks, order, FALSE)
      /\ UNCHANGED <<now, early, threads, spawned, exiting, running, blocked, ret,
                     timer, table, calls, crash>>
    BY DEF Arrive
<1>2. PICK order \in Orders(Notified(S)) : tasks' = NotifiedTasks(tasks, order, FALSE)
    BY <1>1
<1>3. /\ now \in Nat /\ tasks \in Seq(Task) /\ cond \in [Conds -> Cond] /\ Once(tasks)
      /\ CondsInv(cond)
    BY Types DEF IInv
<1>4. /\ S \in SUBSET Conds
      /\ \A c \in Conds : c \in S <=> (cond[c].onTrigger /\ cond[c].trigger = File)
    BY DEF ListeningTo
<1> HIDE DEF S
<1>5. /\ cond' \in [Conds -> Cond]
      /\ \A c \in Conds : Noted(cond[c], cond'[c], c \in S)
      /\ \A c \in Conds : cond'[c].woken = cond[c].woken
      /\ \A c \in Conds : c \notin S => cond'[c] = cond[c]
    BY <1>1, <1>3, <1>4, NotifiedFields
<1>6. CondsInv(cond')
    BY <1>3, <1>4, <1>5, NotedConds
<1>7. /\ tasks' \in Seq(Task) /\ Once(tasks') /\ Range(tasks) \subseteq Range(tasks')
      /\ \A x \in Range(tasks') :
            \/ x \in Range(tasks)
            \/ x.do = "signal" /\ x.cond \in S /\ x.wasTimeout = FALSE /\ x.time = now
      /\ \A x \in Range(tasks') : x.do = "signal" => cond'[x.cond].pending
      /\ \A c \in Conds : cond'[c].pending =>
            \E x \in Range(tasks') : x.do = "signal" /\ x.cond = c
  <2> DEFINE r == NotifiedTasks(tasks, order, FALSE)
             cs == cond'
  <2>1. AllNoted(S, cs)
      BY <1>5 DEF AllNoted
  <2>2. HasSignals(tasks) /\ FALSE \in BOOLEAN /\ S \in SUBSET Conds
      BY <1>3, <1>4 DEF HasSignals
  <2> HIDE DEF cs
  <2>3. SignalsAdded(tasks, r, S, cs, FALSE)
      BY ONLY IInv, <2>1, <2>2, order \in Orders(Notified(S)), NotifyStep
  <2> HIDE DEF r
  <2>4. tasks' = r
      BY <1>2 DEF r
  <2> QED BY <2>3, <2>4 DEF cs, SignalsAdded
<1>8. \A c \in Conds : /\ cond'[c].thread = cond[c].thread
                       /\ cond'[c].trigger = cond[c].trigger /\ cond'[c].timed = cond[c].timed
    BY <1>5 DEF Noted
<1>9. \A x \in Range(tasks') : x \in Range(tasks) \/ (x.do = "signal" /\ x.time = now)
    BY <1>7
<1>10. /\ ExpiresInv(tasks)' /\ ArmedInv(tasks)'
       /\ \A k \in DOMAIN tasks' : tasks'[k].time >= now'
       /\ \A x \in Range(tasks') : x.do = "start" => x \in Range(tasks)
    BY <1>1, <1>7, <1>9, SignalsOnly
<1>11. WakesInv(cond)'
  <2> SUFFICES ASSUME NEW c \in Conds, cond'[c].thread # NoThread
               PROVE  WakeOK(cond[c])'
      BY DEF WakesInv
  <2>1. CASE c \notin S
    <3>1. WakeOK(cond[c]) /\ LiveOK(cond[c]) /\ cond'[c] = cond[c]
        BY <2>1, <1>5, <1>8 DEF IInv, WakesInv, CondsInv, CondOK
    <3>2. cond[c].trigger # File
        BY <3>1, <2>1, <1>4, BlockedCallsAssumption DEF LiveOK
    <3> QED BY <3>1, <3>2, <1>1 DEF WakeOK
  <2>2. CASE c \in S
    <3>3. cond'[c].pending = (cond[c].pending \/ c \in S)
        BY <1>5 DEF Noted
    <3>4. cond'[c].pending
        BY <3>3, <2>2
    <3>5. cond'[c].trigger \notin Futexes
        BY <2>2, <1>4, <1>8, BlockedCallsAssumption
    <3> QED BY <3>4, <3>5 DEF WakeOK
  <2> QED BY <2>1, <2>2
<1>12. SignalsInv(cond, tasks)'
  <2>1. ASSUME NEW x \in Range(tasks'), x.do = "signal" PROVE SignalOK(cond, x)'
    <3>1. CASE x \in Range(tasks)
      <4>1. SignalOK(cond, x) /\ x.cond \in Conds
          BY <3>1, <2>1, <1>3, InQueue, TaskFields DEF IInv, SignalsInv
      <4> QED BY <4>1, <2>1, <1>1, <1>7, <1>8 DEF SignalOK
    <3>2. CASE x \notin Range(tasks)
      <4>1. x.cond \in S /\ x.wasTimeout = FALSE /\ x.time = now
          BY <3>2, <1>7
      <4>2. cond'[x.cond].trigger # NoFutex
          BY <4>1, <1>4, <1>8, BlockedCallsAssumption
      <4> QED BY <4>1, <4>2, <2>1, <1>1, <1>7 DEF SignalOK
    <3> QED BY <3>1, <3>2
  <2> QED BY <2>1, <1>7 DEF SignalsInv
<1>13. CondsInv(cond)'
    BY <1>6, <1>1 DEF CondsInv, CondOK, DeadOK, LiveOK, WasBlocked, OnePerThread
<1>14. StartsInv(tasks)'
    BY <1>1, <1>10 DEF IInv, StartsInv, StartOK, WasBlocked
<1>15. TypeOK'
  <2>1. arrivals' \in 0 .. MaxArrivals
      BY <1>1, BlockedCallsAssumption DEF IInv, TypeOK
  <2>2. readable' \in BOOLEAN
      BY <1>1
  <2>3. \A t \in Threads : WasBlocked(t)' => t \in threads' \ {running'}
      BY <1>1 DEF IInv, TypeOK, WasBlocked
  <2> QED BY <2>1, <2>2, <2>3, <1>1, <1>5, <1>7, <1>10 DEF IInv, TypeOK
<1>16. BlockedInv'
    BY <1>1, <1>8 DEF IInv, BlockedInv, WasBlocked, CallOK
<1>17. ProcInv' /\ TimersInv' /\ TimeoutsInv' /\ AssertionsHold'
    BY <1>1 DEF IInv, ProcInv, TimersInv, TimeoutsInv, TimeoutOK, Quiet, AssertionsHold, WasBlocked
<1>18. Once(tasks)'
    BY <1>7 DEF Once, Same
<1> QED BY <1>10, <1>11, <1>12, <1>13, <1>14, <1>15, <1>16, <1>17, <1>18 DEF IInv

\* Time passes when nothing is left to do: then no signal is on its way and
\* every timeout lies ahead.
LEMMA TickInv ==
    ASSUME IInv, Tick
    PROVE  IInv'
<1>1. /\ now' = now + 1 /\ now < EndTime /\ early' = TRUE
      /\ \A k \in DOMAIN tasks : tasks[k].time > now
      /\ UNCHANGED <<tasks, threads, spawned, exiting, running, blocked, ret, timer,
                     cond, table, readable, calls, arrivals, crash>>
    BY DEF Tick, Idle
<1>2. /\ now \in Nat /\ tasks \in Seq(Task) /\ timer \in [Threads -> TimerRecord]
      /\ blocked \in [Threads -> Syscall]
    BY Types
<1>3. /\ \A x \in Range(tasks) : x.time > now /\ x \in Task
      /\ \A k \in DOMAIN tasks : tasks[k] \in Task
    BY <1>1, <1>2, InQueue, ElementOfSeq, LenProperties DEF Range
<1>4. \A x \in Range(tasks) : x.do # "signal"
    BY <1>2, <1>3 DEF IInv, SignalsInv, SignalOK
<1>5. \A c \in Conds : ~cond[c].pending
    BY <1>4 DEF IInv, SignalsInv
<1>6. SignalsInv(cond, tasks)'
    BY <1>1, <1>4, <1>5 DEF SignalsInv
<1>7. \A k \in DOMAIN tasks : tasks[k].time >= now + 1
  <2> SUFFICES ASSUME NEW k \in DOMAIN tasks PROVE tasks[k].time >= now + 1
      OBVIOUS
  <2>1. tasks[k].time \in Nat /\ tasks[k].time > now
      BY <1>1, <1>3, TaskFields
  <2> QED BY <2>1, <1>2
<1>8. TypeOK'
    BY <1>1, <1>2, <1>7, BlockedCallsAssumption DEF IInv, TypeOK, WasBlocked
<1>9. TimeoutsInv'
  <2> SUFFICES ASSUME NEW t \in Threads, WasBlocked(t)
               PROVE  TimeoutOK(timer[t], blocked[t])'
      BY <1>1 DEF IInv, TimeoutsInv, WasBlocked, Quiet
  <2>1. TimeoutOK(timer[t], blocked[t]) /\ timer[t] \in TimerRecord /\ blocked[t] \in Syscall
      BY <1>2 DEF IInv, TimeoutsInv
  <2>2. blocked[t].due \in Nat /\ timer[t].next \in Nat /\ timer[t].count \in Nat
      BY <2>1 DEF Syscall, TimerRecord
  <2>3. ASSUME blocked[t].timeout > 0, blocked[t].on # File PROVE now + 1 <= blocked[t].due
    <3>1. ~Quiet(timer[t]) /\ blocked[t].timed
        BY <2>1, <2>3 DEF TimeoutOK, IInv, BlockedInv, CallOK
    <3>2. timer[t].count = 0
      <4>1. PICK c \in Conds : cond[c].thread = t
          BY DEF IInv, BlockedInv
      <4>2. t # NoThread
          BY BlockedCallsAssumption
      <4>3. LiveOK(cond[c]) /\ WakeOK(cond[c])
          BY <4>1, <4>2 DEF IInv, CondsInv, CondOK, WakesInv
      <4>4. cond[c].timed /\ cond[c].trigger # File
          BY <4>1, <4>3, <3>1, <2>3 DEF LiveOK
      <4> QED BY <4>1, <4>3, <4>4, <1>5 DEF WakeOK
    <3>3. Armed(timer[t])
        BY <3>1, <3>2 DEF Quiet
    <3>4. timer[t].next = blocked[t].due
        BY <3>3, <2>1 DEF TimeoutOK
    <3>5. PICK x \in Range(tasks) : x.do = "expire" /\ x.thread = t /\ Valid(timer[t], x)
        BY <3>3 DEF IInv, ArmedInv, Awaited
    <3>6. x.time <= timer[t].next
        BY <3>5 DEF IInv, ExpiresInv, ExpireOK
    <3>7. x.time \in Nat /\ x.time > now
        BY <1>3, TaskFields
    <3> QED BY <3>4, <3>6, <3>7, <2>2, <1>2
  <2>4. blocked[t].due <= now => blocked[t].due <= now + 1
      BY <2>2, <1>2
  <2> QED BY <2>1, <2>3, <2>4, <1>1 DEF TimeoutOK, Quiet
<1>10. CondsInv(cond)' /\ WakesInv(cond)'
    BY <1>1 DEF IInv, CondsInv, CondOK, DeadOK, LiveOK, WasBlocked, OnePerThread, WakesInv, WakeOK
<1>11. StartsInv(tasks)' /\ Once(tasks)'
    BY <1>1 DEF IInv, StartsInv, StartOK, WasBlocked, Once, Same
<1>12. ExpiresInv(tasks)' /\ ArmedInv(tasks)'
    BY <1>1 DEF IInv, ExpiresInv, ArmedInv, Awaited
<1>13. BlockedInv' /\ ProcInv' /\ TimersInv' /\ AssertionsHold'
    BY <1>1 DEF IInv, BlockedInv, WasBlocked, ProcInv, TimersInv, AssertionsHold
<1> QED BY <1>6, <1>8, <1>9, <1>10, <1>11, <1>12, <1>13 DEF IInv

\* A step that changes nothing the invariant is about but the fault.
LEMMA UnchangedInv ==
    ASSUME IInv, early' \in BOOLEAN, AssertionsHold', calls' \in 0 .. MaxCalls,
           UNCHANGED <<now, tasks, threads, spawned, exiting, running, blocked, ret, timer,
                       cond, table, readable, arrivals>>
    PROVE  IInv'
<1>1. TypeOK'
    BY DEF IInv, TypeOK, WasBlocked
<1>2. CondsInv(cond)' /\ WakesInv(cond)'
    BY DEF IInv, CondsInv, CondOK, DeadOK, LiveOK, WasBlocked, OnePerThread, WakesInv, WakeOK
<1>3. SignalsInv(cond, tasks)'
    BY DEF IInv, SignalsInv, SignalOK
<1>4. StartsInv(tasks)' /\ Once(tasks)'
    BY DEF IInv, StartsInv, StartOK, WasBlocked, Once, Same
<1>5. ExpiresInv(tasks)' /\ ArmedInv(tasks)'
    BY DEF IInv, ExpiresInv, ArmedInv, Awaited
<1>6. BlockedInv' /\ ProcInv' /\ TimersInv' /\ TimeoutsInv'
    BY DEF IInv, BlockedInv, WasBlocked, ProcInv, TimersInv, TimeoutsInv, TimeoutOK
<1> QED BY <1>1, <1>2, <1>3, <1>4, <1>5, <1>6 DEF IInv

\* What an expire task of t does to the timer, which becomes new, and to the
\* queue: it schedules the expire tasks in E.
Expiring(t, new, E, rises) ==
    /\ TimerOK(new)
    /\ rises => new.count > 0
    /\ ~rises => new.count = timer[t].count
    /\ timer[t].count > 0 => new.count > 0
    /\ Quiet(timer[t]) => Quiet(new)
    /\ WasBlocked(t) => TimeoutOK(new, blocked[t])
    /\ \A y \in E : y.do = "expire" /\ y.thread = t /\ y.time >= now
    /\ \A x \in Range(Tail(tasks)) \cup E :
          x.do = "expire" /\ x.thread = t => ExpireOK(new, x)
    /\ Armed(new) => \E x \in Range(Tail(tasks)) \cup E :
                        x.do = "expire" /\ x.thread = t /\ Valid(new, x)

ExpiringNotifies(t, new, E, rises, S, order) ==
    /\ S = {c \in Conds : rises /\ cond[c].onTimer /\ cond[c].of = t}
    /\ Head(tasks).thread = t /\ early' = FALSE
    /\ timer' = [timer EXCEPT ![t] = new]
    /\ cond' = NotifiedConds(S)
    /\ tasks' \in Seq(Task) /\ Once(tasks')
    /\ Range(tasks') = Range(NotifiedTasks(Tail(tasks), order, TRUE)) \cup E
    /\ UNCHANGED <<now, threads, spawned, exiting, running, blocked, ret, table,
                   readable, calls, arrivals, crash>>

LEMMA ExpireStep ==
    ASSUME IInv, MayRun("expire"), NEW t \in Threads, NEW new \in TimerRecord, NEW E,
           NEW S \in SUBSET Conds, NEW order \in Orders(Notified(S)), NEW rises \in BOOLEAN,
           Expiring(t, new, E, rises), ExpiringNotifies(t, new, E, rises, S, order)
    PROVE  IInv'
<1> USE DEF Expiring, ExpiringNotifies
<1> DEFINE x0 == Head(tasks)
           q == Tail(tasks)
           r == NotifiedTasks(q, order, TRUE)
<1>1. /\ x0 \in Task /\ x0.do = "expire" /\ x0 \in Range(tasks)
      /\ q \in Seq(Task) /\ Once(q) /\ Range(tasks) = {x0} \cup Range(q)
      /\ \A y \in Range(q) : y \in Task /\ y.time >= now /\ ~Same(x0, y)
    BY Executing
<1>2. /\ now \in Nat /\ tasks \in Seq(Task) /\ cond \in [Conds -> Cond]
      /\ timer \in [Threads -> TimerRecord] /\ CondsInv(cond)
    BY Types DEF IInv
<1>3. \A c \in S : cond[c].onTimer \/ cond[c].onTrigger
    OBVIOUS
<1>4. /\ cond' \in [Conds -> Cond]
      /\ \A c \in Conds : Noted(cond[c], cond'[c], c \in S)
      /\ \A c \in Conds : cond'[c].woken = cond[c].woken
      /\ \A c \in Conds : c \notin S => cond'[c] = cond[c]
    BY <1>2, NotifiedFields
<1>5. CondsInv(cond') /\ \A c \in S : cond[c].thread # NoThread
  <2> DEFINE cs == cond'
  <2>1. /\ cs \in [Conds -> Cond]
        /\ \A c \in Conds : Noted(cond[c], cs[c], c \in S)
        /\ \A c \in Conds : c \notin S => cs[c] = cond[c]
      BY <1>4
  <2> HIDE DEF cs
  <2>2. CondsInv(cs) /\ \A c \in S : cond[c].thread # NoThread
      BY ONLY <1>2, <1>3, <2>1, S \in SUBSET Conds, NotedConds
  <2> QED BY <2>2 DEF cs
<1> HIDE DEF q
<1>6. /\ Range(q) \subseteq Range(r)
      /\ \A x \in Range(r) :
            \/ x \in Range(q)
            \/ x.do = "signal" /\ x.cond \in S /\ x.wasTimeout = TRUE /\ x.time = now
      /\ \A x \in Range(r) : x.do = "signal" => cond'[x.cond].pending
      /\ \A c \in Conds : cond'[c].pending =>
            \E x \in Range(r) : x.do = "signal" /\ x.cond = c
  <2> DEFINE cs == cond'
  <2> HIDE DEF Expiring, ExpiringNotifies
  <2>1. AllNoted(S, cs)
      BY <1>4 DEF AllNoted
  <2>2. HasSignals(q) /\ TRUE \in BOOLEAN
      BY <1>1 DEF HasSignals
  <2> HIDE DEF cs
  <2>3. SignalsAdded(q, r, S, cs, TRUE)
      BY ONLY IInv, <2>1, <2>2, S \in SUBSET Conds, order \in Orders(Notified(S)), NotifyStep
  <2> HIDE DEF r
  <2> QED BY <2>3 DEF cs, SignalsAdded
<1>7. Range(tasks') = Range(r) \cup E
    BY DEF q
<1> HIDE DEF r
<1>8. \A x \in Range(tasks') :
         \/ x \in Range(q)
         \/ x.do = "signal" /\ x.cond \in S /\ x.wasTimeout = TRUE /\ x.time = now
         \/ x \in E /\ x.do = "expire"
    BY <1>6, <1>7
<1>9. \A c \in Conds : /\ cond'[c].thread = cond[c].thread
                       /\ cond'[c].trigger = cond[c].trigger /\ cond'[c].timed = cond[c].timed
    BY <1>4 DEF Noted
<1>10. /\ \A u \in Threads : u # t => timer'[u] = timer[u]
       /\ timer'[t] = new /\ timer' \in [Threads -> TimerRecord]
    BY <1>2
<1>11. \A u \in Threads : timer[u].count > 0 => timer'[u].count > 0
    BY <1>10
<1>12. WakesInv(cond)'
  <2> SUFFICES ASSUME NEW c \in Conds, cond'[c].thread # NoThread
               PROVE  WakeOK(cond[c])'
      BY DEF WakesInv
  <2>e. /\ c \in S <=> rises /\ cond[c].onTimer /\ cond[c].of = t
        /\ rises => new.count > 0
        /\ ~rises => new.count = timer[t].count
        /\ readable' = readable
      OBVIOUS
  <2> HIDE DEF Expiring, ExpiringNotifies
  <2>0. cond[c].thread = cond'[c].thread /\ cond[c] \in Cond
      BY <1>2, <1>9
  <2>1. LiveOK(cond[c]) /\ WakeOK(cond[c]) /\ cond[c].thread \in Threads
    <3>1. LiveOK(cond[c])
        BY <1>2, <2>0 DEF CondsInv, CondOK
    <3>2. WakeOK(cond[c])
        BY <2>0 DEF IInv, WakesInv
    <3> QED BY <2>0, <3>1, <3>2 DEF Cond
  <2>2. CASE c \in S
    <3>1. cond'[c].pending = (cond[c].pending \/ c \in S)
        BY <1>4 DEF Noted
    <3>2. cond'[c].pending
        BY <3>1, <2>2
    <3>3. cond[c].thread = t /\ rises
        BY <2>1, <2>2, <2>e DEF LiveOK
    <3>4. timer'[cond'[c].thread] = new
        BY <3>3, <2>0, <1>10
    <3>5. timer'[cond'[c].thread].count > 0
        BY <3>3, <3>4, <2>e
    <3> QED BY <3>2, <3>5 DEF WakeOK
  <2>3. CASE c \notin S
    <3>1. cond'[c] = cond[c]
        BY <2>3, <1>4
    <3>2. cond[c].pending => WakeOK(cond[c])'
        BY <3>1, <2>1, <1>11, <2>e DEF WakeOK
    <3>3. ASSUME ~cond[c].pending, cond[c].timed, cond[c].trigger # File
          PROVE  timer'[cond[c].thread].count = 0
      <4>1. timer[cond[c].thread].count = 0
          BY <3>3, <2>1 DEF WakeOK
      <4>2. cond[c].thread # t \/ ~rises
          BY <3>3, <2>1, <2>3, <2>e DEF LiveOK
      <4>3. CASE cond[c].thread # t
          BY <4>1, <4>3, <2>1, <1>10
      <4>4. CASE cond[c].thread = t
          BY <4>1, <4>2, <4>4, <2>e, <1>10
      <4> QED BY <4>3, <4>4
    <3> QED BY <3>1, <3>2, <3>3, <2>1, <2>e DEF WakeOK
  <2> QED BY <2>2, <2>3
<1>13. SignalsInv(cond, tasks)'
  <2>1. ASSUME NEW x \in Range(tasks'), x.do = "signal" PROVE SignalOK(cond, x)'
    <3>1. cond'[x.cond].pending
        BY <2>1, <1>6, <1>7
    <3>2. CASE x \in Range(q)
      <4>1. SignalOK(cond, x) /\ x.cond \in Conds
          BY <3>2, <2>1, <1>1, TaskFields DEF IInv, SignalsInv
      <4>2. cond[x.cond].thread # NoThread => cond[x.cond].thread \in Threads
          BY <4>1, <1>2 DEF Cond
      <4> QED BY <4>1, <4>2, <3>1, <1>9, <1>11 DEF SignalOK
    <3>3. CASE x \notin Range(q)
      <4>1. x.cond \in S /\ x.wasTimeout = TRUE /\ x.time = now
          BY <3>3, <2>1, <1>8
      <4>2. LiveOK(cond[x.cond]) /\ rises /\ cond[x.cond].of = t
          BY <4>1, <1>5 DEF IInv, CondsInv, CondOK
      <4>3. cond'[x.cond].thread = t
          BY <4>1, <4>2, <1>9 DEF LiveOK
      <4> QED BY <4>1, <4>2, <4>3, <3>1, <1>10 DEF SignalOK
    <3> QED BY <3>2, <3>3
  <2>2. ASSUME NEW c \in Conds, cond'[c].pending
        PROVE  \E x \in Range(tasks') : x.do = "signal" /\ x.cond = c
      BY <2>2, <1>6, <1>7
  <2> QED BY <2>1, <2>2 DEF SignalsInv
<1>14. CondsInv(cond)'
    BY <1>5 DEF CondsInv, CondOK, DeadOK, LiveOK, WasBlocked, OnePerThread
<1>15. StartsInv(tasks)'
  <2>1. \A x \in Range(tasks') : x.do = "start" => x \in Range(tasks)
      BY <1>1, <1>8
  <2> QED BY <2>1 DEF IInv, StartsInv, StartOK, WasBlocked
<1>16. ExpiresInv(tasks)'
  <2> SUFFICES ASSUME NEW x \in Range(tasks'), x.do = "expire"
               PROVE  ExpireOK(timer'[x.thread], x)
      BY DEF ExpiresInv, ExpireOK
  <2>1. x \in Range(q) \cup E
      BY <1>8
  <2>2. CASE x.thread = t
      BY <2>1, <2>2, <1>10 DEF q
  <2>3. CASE x.thread # t
    <3>1. x \in Range(tasks) /\ x.thread \in Threads
        BY <2>1, <2>3, <1>1, TaskFields
    <3> QED BY <3>1, <2>3, <1>10 DEF IInv, ExpiresInv
  <2> QED BY <2>2, <2>3
<1>17. ArmedInv(tasks)'
  <2> SUFFICES ASSUME NEW u \in Threads, Armed(timer'[u]) PROVE Awaited(u, tasks)'
      BY DEF ArmedInv
  <2>0. Range(q) \cup E \subseteq Range(tasks')
      BY <1>6, <1>7
  <2>1. CASE u = t
    <3>1. PICK x \in Range(q) \cup E : x.do = "expire" /\ x.thread = t /\ Valid(new, x)
        BY <2>1, <1>10 DEF q
    <3> QED BY <3>1, <2>0, <2>1, <1>10 DEF Awaited
  <2>2. CASE u # t
    <3>1. Awaited(u, tasks)
        BY <2>2, <1>10 DEF IInv, ArmedInv
    <3>2. PICK x \in Range(tasks) : x.do = "expire" /\ x.thread = u /\ Valid(timer[u], x)
        BY <3>1 DEF Awaited
    <3>3. x \in Range(q)
        BY <3>2, <2>2, <1>1
    <3> QED BY <3>2, <3>3, <2>0, <2>2, <1>10 DEF Awaited
  <2> QED BY <2>1, <2>2
<1>18. \A k \in DOMAIN tasks' : tasks'[k].time >= now'
  <2>1. \A x \in Range(tasks') : x.time >= now
    <3> SUFFICES ASSUME NEW x \in Range(tasks') PROVE x.time >= now
        OBVIOUS
    <3>1. CASE x \in Range(q)
        BY <3>1, <1>1
    <3>2. CASE x.time = now
        BY <3>2, <1>2
    <3>3. CASE x \in E
        BY <3>3
    <3> QED BY <3>1, <3>2, <3>3, <1>8
  <2> DEFINE p == tasks'
  <2>2. p \in Seq(Task) /\ \A x \in Range(p) : x.time >= now
      BY <2>1
  <2> HIDE DEF p
  <2>3. \A k \in DOMAIN p : p[k].time >= now
      BY <2>2, InQueue
  <2> QED BY <2>3 DEF p
<1>19. TypeOK'
  <2>1. \A u \in Threads : WasBlocked(u)' => u \in threads' \ {running'}
      BY DEF IInv, TypeOK, WasBlocked
  <2> QED BY <2>1, <1>4, <1>10, <1>18 DEF IInv, TypeOK
<1>20. BlockedInv'
    BY <1>9 DEF IInv, BlockedInv, WasBlocked, CallOK
<1>21. ProcInv' /\ AssertionsHold' /\ Once(tasks)'
    BY DEF IInv, ProcInv, AssertionsHold, Once, Same
<1>22. TimersInv'
    BY <1>10 DEF IInv, TimersInv
<1>23. TimeoutsInv'
  <2> SUFFICES ASSUME NEW u \in Threads
               PROVE  /\ u \notin spawned => Quiet(timer'[u])
                      /\ u \in threads /\ ~WasBlocked(u) => Quiet(timer'[u])
                      /\ WasBlocked(u) => TimeoutOK(timer'[u], blocked[u])
      BY DEF TimeoutsInv, TimeoutOK, WasBlocked
  <2>1. /\ u \notin spawned => Quiet(timer[u])
        /\ u \in threads /\ ~WasBlocked(u) => Quiet(timer[u])
        /\ WasBlocked(u) => TimeoutOK(timer[u], blocked[u])
      BY DEF IInv, TimeoutsInv
  <2>2. CASE u = t
      BY <2>1, <2>2, <1>10
  <2>3. CASE u # t
      BY <2>1, <2>3, <1>10
  <2> QED BY <2>2, <2>3
<1> QED BY <1>12, <1>13, <1>14, <1>15, <1>16, <1>17, <1>19, <1>20, <1>21, <1>22, <1>23 DEF IInv

\* _timer_expire of a thread's timer
LEMMA RunExpireInv ==
    ASSUME IInv, RunExpire PROVE IInv'
<1> DEFINE x0 == Head(tasks)
           q == Tail(tasks)
           t == x0.thread
           tm == timer[t]
           res == Expire(tm, now, x0, FALSE)
           rises == ~tm.readable /\ res.timer.readable
           S == {c \in Conds : rises /\ cond[c].onTimer /\ cond[c].of = t}
<1>1. /\ MayRun("expire") /\ early' = FALSE
      /\ UNCHANGED <<now, threads, spawned, exiting, running, blocked, ret, table,
                     readable, calls, arrivals, crash>>
      /\ timer' = [timer EXCEPT ![t] = res.timer] /\ cond' = NotifiedConds(S)
    BY DEF RunExpire
<1>2. PICK order \in Orders(Notified(S)) :
         tasks' = EnqueueExpire(NotifiedTasks(q, order, TRUE), t, res.events)
    BY DEF RunExpire
<1> DEFINE r == NotifiedTasks(q, order, TRUE)
<1>3. /\ x0 \in Task /\ x0.do = "expire" /\ x0 \in Range(tasks) /\ x0.time = now
      /\ q \in Seq(Task) /\ Once(q) /\ Range(tasks) = {x0} \cup Range(q)
      /\ \A y \in Range(q) : y \in Task /\ ~Same(x0, y)
    BY <1>1, Executing
<1>4. t \in Threads /\ x0.id \in Nat
    BY <1>3, TaskFields
<1>5. /\ now \in Nat /\ cond \in [Conds -> Cond] /\ tm \in TimerRecord
      /\ timer \in [Threads -> TimerRecord]
      /\ blocked[t] \in Syscall
    BY <1>4, Types
<1> HIDE DEF x0, q, res
<1>6. TimerOK(tm) /\ ExpireOK(tm, x0)
    BY <1>3, <1>4 DEF IInv, TimersInv, ExpiresInv
<1>7. WasBlocked(t) => TimeoutOK(tm, blocked[t])
    BY <1>4 DEF IInv, TimeoutsInv
<1> HIDE DEF t
<1>8. /\ S \in SUBSET Conds /\ rises \in BOOLEAN
    OBVIOUS
<1>9. ASSUME NEW x \in Range(q), x.do = "expire", x.thread = t
      PROVE  ExpireOK(tm, x) /\ x.id # x0.id /\ x.id \in Nat
  <2>1. x \in Range(tasks) /\ ~Same(x0, x) /\ x \in Task
      BY <1>3, <1>9
  <2>2. ExpireOK(tm, x)
      BY <2>1, <1>9 DEF IInv, ExpiresInv
  <2> QED BY <2>1, <2>2, <1>3, <1>9, TaskFields DEF Same, t
<1> HIDE DEF tm, rises, S
<1>10. /\ r \in Seq(Task) /\ Once(r) /\ Range(q) \subseteq Range(r)
       /\ \A x \in Range(r) : x \in Range(q) \/ x.do = "signal"
  <2> DEFINE cs == NotifiedConds(S)
  <2>0. cs \in [Conds -> Cond] /\ \A c \in Conds : Noted(cond[c], cs[c], c \in S)
      BY <1>5, <1>8, NotifiedFields
  <2> HIDE DEF cs
  <2>1. AllNoted(S, cs)
      BY <2>0 DEF AllNoted
  <2>2. HasSignals(q) /\ TRUE \in BOOLEAN
      BY <1>3 DEF HasSignals
  <2>3. SignalsAdded(q, r, S, cs, TRUE)
      BY ONLY IInv, <2>1, <2>2, <1>8, order \in Orders(Notified(S)), NotifyStep
  <2> HIDE DEF r
  <2> QED BY <2>3 DEF SignalsAdded
<1>11. tasks' = EnqueueExpire(r, t, res.events)
    BY <1>2
<1> HIDE DEF r
<1> DEFINE new == res.timer
<1>12. Head(tasks).thread = t /\ Tail(tasks) = q
    BY DEF t, x0, q
<1>13. S = {c \in Conds : rises /\ cond[c].onTimer /\ cond[c].of = t}
    BY DEF S
<1>14. rises = (~tm.readable /\ new.readable)
    BY DEF rises
<1>15. tm.readable \in BOOLEAN /\ tm.count \in Nat /\ tm.nextId \in Nat /\ tm.minId \in Nat /\ tm.next \in Nat
    BY <1>5 DEF TimerRecord
<1>16. CASE ~Valid(tm, x0)
  <2> DEFINE E == {}
  <2>1. new = tm /\ res.events = {}
      BY <1>5, <1>16, ExpireStale DEF res
  <2>2. ~rises
      BY <2>1, <1>14
  <2>3. tasks' = r
      BY <2>1, <1>11 DEF EnqueueExpire
  <2>4. new \in TimerRecord /\ TimerOK(new) /\ new.count = tm.count
      BY <2>1, <1>5, <1>6
  <2>5. Armed(new) => \E x \in Range(q) : x.do = "expire" /\ x.thread = t /\ Valid(new, x)
    <3>1. Armed(tm) => Awaited(t, tasks)
        BY <1>4 DEF IInv, ArmedInv, tm
    <3> QED BY <3>1, <2>1, <1>3, <1>16 DEF Awaited, tm
  <2>6. /\ WasBlocked(t) => TimeoutOK(new, blocked[t])
        /\ Quiet(tm) => Quiet(new)
      BY <2>1, <1>7
  <2>7. \A x \in Range(q) \cup E : x.do = "expire" /\ x.thread = t => ExpireOK(new, x)
      BY <2>1, <1>9
  <2>8. Range(tasks') = Range(r) \cup E
      BY <2>3
  <2>9. \A y \in E : y.do = "expire" /\ y.thread = t /\ y.time >= now
      OBVIOUS
  <2>10. tasks' \in Seq(Task) /\ Once(tasks')
      BY <2>3, <1>10
  <2>11. Expiring(t, new, E, rises)
      BY <2>2, <2>4, <2>5, <2>6, <2>7, <2>9, <1>12 DEF Expiring, tm
  <2>12. ExpiringNotifies(t, new, E, rises, S, order)
      BY <2>8, <2>10, <1>1, <1>12, <1>13 DEF ExpiringNotifies, r
  <2> HIDE DEF E, new
  <2> QED BY <2>11, <2>12, <2>4, <1>1, <1>4, <1>8, ExpireStep
<1>17. CASE Valid(tm, x0) /\ ~(tm.next > now)
  <2> DEFINE E == {}
  <2>1. /\ res.events = {}
        /\ new \in TimerRecord /\ new.next = 0 /\ new.interval = 0
        /\ new.count > 0 /\ new.readable = TRUE
        /\ new.nextId = tm.nextId /\ new.minId = tm.nextId
    <3>1. tm.interval = 0
        BY <1>6 DEF TimerOK
    <3> QED BY <3>1, <1>5, <1>17, ExpireNow DEF res
  <2>2. Armed(tm) /\ tm.count = 0 /\ tm.next = now
    <3>1. Armed(tm) /\ x0.time <= tm.next
        BY <1>6, <1>17 DEF ExpireOK
    <3> QED BY <3>1, <1>3, <1>5, <1>6, <1>15, <1>17 DEF TimerOK
  <2>3. tm.readable = FALSE
    <3>1. tm.readable = (tm.count > 0) /\ ~(tm.count > 0)
        BY <2>2, <1>6 DEF TimerOK
    <3> QED BY <3>1, <1>15
  <2>4. rises
      BY <2>1, <2>3, <1>14
  <2>5. tasks' = r
      BY <2>1, <1>11 DEF EnqueueExpire
  <2>6. ~Armed(new) /\ ~Quiet(tm)
      BY <2>1, <2>2 DEF Armed, Quiet
  <2>7. TimerOK(new)
    <3>1. new.readable = (new.count > 0)
        BY <2>1
    <3>2. new.minId <= new.nextId
        BY <2>1, <1>15
    <3> QED BY <3>1, <3>2, <2>1, <2>6 DEF TimerOK
  <2>8. WasBlocked(t) => TimeoutOK(new, blocked[t])
    <3> SUFFICES ASSUME WasBlocked(t) PROVE TimeoutOK(new, blocked[t])
        OBVIOUS
    <3>1. blocked[t].timed /\ tm.next = blocked[t].due
        BY <1>7, <2>2 DEF TimeoutOK
    <3>2. blocked[t].due = now
        BY <3>1, <2>2
    <3>3. ~Quiet(new)
        BY <2>1 DEF Quiet
    <3> QED BY <3>1, <3>2, <3>3, <2>6, <1>5 DEF TimeoutOK
  <2>9. ASSUME NEW x \in Range(q), x.do = "expire", x.thread = t PROVE ExpireOK(new, x)
    <3>1. x.id < tm.nextId /\ x.id \in Nat
        BY <1>9, <2>9 DEF ExpireOK
    <3> QED BY <3>1, <2>1, <1>15 DEF ExpireOK, Valid
  <2>10. Expiring(t, new, E, rises)
      BY <2>1, <2>2, <2>4, <2>6, <2>7, <2>8, <2>9, <1>12 DEF Expiring, tm
  <2>11. ExpiringNotifies(t, new, E, rises, S, order)
      BY <2>5, <1>10, <1>1, <1>12, <1>13 DEF ExpiringNotifies, r
  <2> HIDE DEF E, new
  <2> QED BY <2>10, <2>11, <2>1, <1>1, <1>4, <1>8, ExpireStep
<1>18. CASE Valid(tm, x0) /\ tm.next > now
  <2>1. /\ new = [tm EXCEPT !.nextId = tm.nextId + 1] /\ new \in TimerRecord
        /\ \E ev \in ExpireEvent :
              res.events = {ev} /\ ev.id = tm.nextId /\ now <= ev.time /\ ev.time <= tm.next
      BY <1>5, <1>18, ExpireEarly DEF res
  <2>2. PICK ev \in ExpireEvent :
           res.events = {ev} /\ ev.id = tm.nextId /\ now <= ev.time /\ ev.time <= tm.next
      BY <2>1
  <2> DEFINE y == ExpireTask(t, ev)
             E == {y}
             m == tm.nextId + 1
  <2>3. m \in Nat /\ new = [tm EXCEPT !.nextId = m]
      BY <2>1, <1>15
  <2> HIDE DEF m, new
  <2>4. /\ new.next = tm.next /\ new.interval = tm.interval /\ new.count = tm.count
        /\ new.nextId = m /\ new.minId = tm.minId
      BY <2>3, <1>5 DEF TimerRecord
  <2>5. new.readable = tm.readable
      BY <2>3, <1>5 DEF TimerRecord
  <2>6. (Armed(new) <=> Armed(tm)) /\ (Quiet(new) <=> Quiet(tm))
      BY <2>4 DEF Armed, Quiet
  <2>7. TimerOK(new) /\ tm.minId <= tm.nextId
      BY <2>4, <2>5, <2>6, <1>6, <1>15 DEF TimerOK, m
  <2>8. ~rises
      BY <2>5, <1>14
  <2>9. WasBlocked(t) => TimeoutOK(new, blocked[t])
      BY <2>4, <2>6, <1>7 DEF TimeoutOK
  <2> DEFINE p == EnqueueExpire(r, t, {ev})
  <2>10. \A x \in Range(r) : x.do = "expire" /\ x.thread = t => x.id < ev.id
    <3> SUFFICES ASSUME NEW x \in Range(r), x.do = "expire", x.thread = t PROVE x.id < ev.id
        OBVIOUS
    <3>1. x \in Range(q)
        BY <1>10
    <3> QED BY <3>1, <1>9, <2>2 DEF ExpireOK
  <2>11. /\ p \in Seq(Task) /\ Range(p) = Range(r) \cup {y}
         /\ y \in Task /\ y.do = "expire" /\ y.thread = t
         /\ y.id = ev.id /\ y.time = ev.time /\ Once(p)
      BY <2>10, <1>4, <1>10, ExpireQueued
  <2>12. tasks' = p
      BY <2>2, <1>11
  <2> HIDE DEF y, p
  <2>13. ExpireOK(new, y) /\ Valid(new, y)
    <3>1. Armed(tm)
        BY <1>18, <1>5, <1>15 DEF Armed
    <3>2. y.id = tm.nextId /\ y.time <= tm.next
        BY <2>2, <2>11
    <3>3. Valid(new, y)
        BY <3>2, <2>4, <2>7, <1>15 DEF Valid
    <3> QED BY <3>1, <3>2, <3>3, <2>4, <2>6, <1>15 DEF ExpireOK, m
  <2>14. ASSUME NEW x \in Range(q), x.do = "expire", x.thread = t PROVE ExpireOK(new, x)
    <3>1. ExpireOK(tm, x) /\ x.id # x0.id /\ x.id \in Nat
        BY <1>9, <2>14
    <3>2. x0.id + 1 = tm.nextId
        BY <1>6, <1>18 DEF ExpireOK
    <3>3. ~Valid(tm, x)
        BY <3>1, <3>2, <1>4, <1>15 DEF ExpireOK
    <3>4. ~Valid(new, x)
        BY <3>3, <2>4 DEF Valid
    <3>5. x.id < m
        BY <3>1, <1>15 DEF ExpireOK, m
    <3> QED BY <3>4, <3>5, <2>4 DEF ExpireOK
  <2>15. y.time >= now
      BY <2>2, <2>11, <1>5 DEF ExpireEvent
  <2>16. Expiring(t, new, E, rises)
    <3>1. \A x \in Range(q) \cup E : x.do = "expire" /\ x.thread = t => ExpireOK(new, x)
        BY <2>13, <2>14
    <3>2. \E x \in Range(q) \cup E : x.do = "expire" /\ x.thread = t /\ Valid(new, x)
        BY <2>11, <2>13
    <3>3. \A z \in E : z.do = "expire" /\ z.thread = t /\ z.time >= now
        BY <2>11, <2>15
    <3> HIDE DEF E
    <3> QED BY <3>1, <3>2, <3>3, <2>4, <2>6, <2>7, <2>8, <2>9, <1>12 DEF Expiring, tm
  <2>17. ExpiringNotifies(t, new, E, rises, S, order)
    <3>1. timer' = [timer EXCEPT ![t] = new]
        BY <1>1 DEF new
    <3> QED BY <3>1, <2>11, <2>12, <1>1, <1>12, <1>13 DEF ExpiringNotifies, r
  <2> HIDE DEF E
  <2> QED BY <2>16, <2>17, <2>1, <1>1, <1>4, <1>8, ExpireStep
<1> QED BY <1>16, <1>17, <1>18
-----------------------------------------------------------------------------
(***************************************************************************)
(* System calls.  Thread t has no condition among cs and may be continued: *)
(* it runs and makes a new call, or the signal task that continues it has  *)
(* been executed and its condition is gone.                                *)
(***************************************************************************)
Ready(t, cs, q) ==
    /\ t \in threads /\ ~exiting /\ crash = "" /\ running \in {t, NoThread}
    /\ cs \in [Conds -> Cond] /\ q \in Seq(Task) /\ Once(q)
    /\ \A x \in Range(q) : x.time >= now
    /\ CondsInv(cs) /\ WakesInv(cs) /\ SignalsInv(cs, q)
    /\ StartsInv(q) /\ ExpiresInv(q) /\ ArmedInv(q)
    /\ \A c \in Conds : cs[c].thread # t
    /\ \A u \in Threads : WasBlocked(u) /\ u # t => \E c \in Conds : cs[c].thread = u
    /\ \A x \in Range(q) : x.do = "start" => x.thread # t

\* What a system call leaves alone.
Around ==
    /\ early' \in BOOLEAN /\ calls' \in 0 .. MaxCalls
    /\ UNCHANGED <<now, threads, spawned, exiting, arrivals>>

\* There is storage for one more condition, as each thread has at most one.
LEMMA FreeCond ==
    ASSUME NEW t \in Threads, NEW cs, NEW q, Ready(t, cs, q)
    PROVE  LET n == CHOOSE n \in Conds : cs[n] = Free
           IN  n \in Conds /\ cs[n] = Free
<1> SUFFICES ASSUME \A n \in Conds : cs[n] # Free PROVE FALSE
    OBVIOUS
<1> DEFINE f == [c \in Conds |-> cs[c].thread]
           T == Threads \ {t}
<1>1. cs \in [Conds -> Cond] /\ CondsInv(cs) /\ ~exiting /\ \A c \in Conds : cs[c].thread # t
    BY DEF Ready
<1>2. ASSUME NEW c \in Conds PROVE cs[c].thread # NoThread /\ cs[c].thread \in T
  <2>1. cs[c].thread # NoThread
      BY <1>1 DEF CondsInv, CondOK, DeadOK
  <2> QED BY <2>1, <1>1 DEF Cond
<1>3. f \in [Conds -> T]
    BY <1>2
<1>4. \A c, d \in Conds : c # d => f[c] # f[d]
    BY <1>1, <1>2 DEF CondsInv, OnePerThread
<1>5. /\ IsFiniteSet(Threads) /\ IsFiniteSet(Conds)
      /\ Cardinality(Threads) <= Cardinality(Conds)
    BY BlockedCallsAssumption
<1>6. IsFiniteSet(T) /\ Cardinality(T) = Cardinality(Threads) - 1
    BY <1>5, FS_RemoveElement
<1>7. Cardinality(Threads) \in Nat /\ Cardinality(Conds) \in Nat
    BY <1>5, FS_CardinalityType
<1>8. Cardinality(T) < Cardinality(Conds)
    BY <1>5, <1>6, <1>7
<1> HIDE DEF f, T
<1> QED BY <1>3, <1>4, <1>5, <1>6, <1>8, FS_PigeonHole

\* A new condition holds what it was made for.
IsWaiting(w, t, trigger, timed) ==
    /\ w \in Cond /\ w.thread = t /\ w.of = t /\ w.trigger = trigger
    /\ w.timed = timed /\ w.onTimer = timed /\ w.onTrigger = (trigger # NoFutex)
    /\ w.woken = FALSE /\ w.pending = FALSE
    /\ w.refs = 1 + One(w.onTimer) + One(w.onTrigger) + One(w.pending)

LEMMA WaitingFields ==
    ASSUME NEW t \in Threads, NEW trigger \in Triggers, NEW timed \in BOOLEAN
    PROVE  IsWaiting(Waiting(t, trigger, timed), t, trigger, timed)
<1> DEFINE w == Waiting(t, trigger, timed)
           m == 1 + (IF timed THEN 1 ELSE 0) + (IF trigger # NoFutex THEN 1 ELSE 0)
           b == (trigger # NoFutex)
<1>1. m \in Nat /\ b \in BOOLEAN
    OBVIOUS
<1>2. m = 1 + One(timed) + One(b) + One(FALSE)
    BY DEF One
<1>3. w = [thread |-> t, trigger |-> trigger, timed |-> timed, of |-> t,
           onTimer |-> timed, onTrigger |-> b, woken |-> FALSE, pending |-> FALSE, refs |-> m]
    BY DEF Waiting
<1> HIDE DEF m, b, w
<1>4. w \in Cond
    BY <1>1, <1>3 DEF Cond
<1>5. w.thread = t /\ w.of = t /\ w.trigger = trigger /\ w.refs = m
    BY <1>3
<1>6. w.timed = timed /\ w.onTimer = timed /\ w.onTrigger = b /\ w.woken = FALSE /\ w.pending = FALSE
    BY <1>3
<1>7. w.refs = 1 + One(w.onTimer) + One(w.onTrigger) + One(w.pending)
    BY <1>2, <1>5, <1>6
<1>8. IsWaiting(w, t, trigger, timed)
    BY <1>4, <1>5, <1>6, <1>7 DEF IsWaiting, b
<1> QED BY <1>8 DEF w

\* A call c that may block: its timer, if it asks for none, is off.
Blockable(t, c) ==
    /\ CallOK(c)
    /\ ~c.timed => Quiet(timer[t])
    /\ c.timed => c.due = ExpireTime(now, c.timeout, Absolute(c))

\* The timer new and the queue r that a call of t leaves, which found q.
Timing(t, q, r, new) ==
    /\ new \in TimerRecord /\ TimerOK(new) /\ new.count = 0
    /\ r \in Seq(Task) /\ Once(r) /\ Range(q) \subseteq Range(r)
    /\ \A x \in Range(r) :
          x \in Range(q) \/ (x.do = "expire" /\ x.thread = t /\ x.time >= now)
    /\ \A x \in Range(r) : x.do = "expire" /\ x.thread = t => ExpireOK(new, x)
    /\ Armed(new) => \E x \in Range(r) : x.do = "expire" /\ x.thread = t /\ Valid(new, x)

\* The expire tasks of t that are in the queue when the timer is switched off.
LEMMA TimerOff ==
    ASSUME IInv, NEW t \in Threads, NEW cs, NEW q, Ready(t, cs, q)
    PROVE  Timing(t, q, q, Cleared(Disarm(timer[t]))) /\ Quiet(Cleared(Disarm(timer[t])))
<1> DEFINE tm == timer[t]
           new == Cleared(Disarm(tm))
<1>1. tm \in TimerRecord
    BY Types
<1>2. /\ new \in TimerRecord /\ new.next = 0 /\ new.interval = 0 /\ new.count = 0
      /\ new.readable = FALSE /\ new.nextId = tm.nextId /\ new.minId = tm.nextId
    BY <1>1, SwitchedOff
<1>3. tm.nextId \in Nat
    BY <1>1 DEF TimerRecord
<1>4. q \in Seq(Task) /\ Once(q) /\ ExpiresInv(q)
    BY DEF Ready
<1> HIDE DEF new
<1>5. ~Armed(new) /\ Quiet(new)
    BY <1>2 DEF Armed, Quiet
<1>6. TimerOK(new)
  <2>0. (new.count > 0) = FALSE
      BY <1>2
  <2>1. new.readable = (new.count > 0)
      BY <2>0, <1>2
  <2>2. new.minId <= new.nextId
      BY <1>2, <1>3
  <2> QED BY <2>1, <2>2, <1>2, <1>5 DEF TimerOK
<1>7. ASSUME NEW x \in Range(q), x.do = "expire", x.thread = t PROVE ExpireOK(new, x)
  <2>1. x.id < tm.nextId
      BY <1>4, <1>7 DEF ExpiresInv, ExpireOK
  <2>2. x.id \in Nat
      BY <1>4, <1>7, InQueue, TaskFields
  <2> QED BY <2>1, <2>2, <1>2, <1>3 DEF ExpireOK, Valid
<1>8. Timing(t, q, q, new)
    BY <1>2, <1>4, <1>5, <1>6, <1>7 DEF Timing
<1> QED BY <1>5, <1>8 DEF new

\* A timer that a call leaves alone.
LEMMA TimerKept ==
    ASSUME IInv, NEW t \in Threads, NEW cs, NEW q, Ready(t, cs, q), Quiet(timer[t])
    PROVE  Timing(t, q, q, timer[t])
<1>1. timer[t] \in TimerRecord /\ TimerOK(timer[t]) /\ timer[t].count = 0 /\ ~Armed(timer[t])
    BY Types DEF IInv, TimersInv, Quiet
<1>2. q \in Seq(Task) /\ Once(q) /\ ExpiresInv(q)
    BY DEF Ready
<1>3. \A x \in Range(q) : x.do = "expire" /\ x.thread = t => ExpireOK(timer[t], x)
    BY <1>2 DEF ExpiresInv
<1> QED BY <1>1, <1>2, <1>3 DEF Timing

\* The timeout of a call that blocks.
LEMMA TimerOn ==
    ASSUME IInv, NEW t \in Threads, NEW cs, NEW q, Ready(t, cs, q),
           NEW c \in Syscall, c.timeout > 0, NEW a \in BOOLEAN,
           c.timed, c.due = ExpireTime(now, c.timeout, a)
    PROVE  LET set == SetTime(timer[t], now, c.timeout, 0, a)
           IN  /\ Timing(t, q, EnqueueExpire(q, t, set.events), set.timer)
               /\ TimeoutOK(set.timer, c)
<1> DEFINE tm == timer[t]
           v == c.timeout
           set == SetTime(tm, now, v, 0, a)
           new == set.timer
           at == ExpireTime(now, v, a)
<1>1. tm \in TimerRecord /\ now \in Nat /\ v \in Nat \ {0}
    BY Types DEF Syscall
<1>2. q \in Seq(Task) /\ Once(q) /\ ExpiresInv(q)
    BY DEF Ready
<1>3. c.due = at
    OBVIOUS
<1> HIDE DEF v, tm
<1>4. /\ new \in TimerRecord /\ at \in Nat /\ now <= at
      /\ new.next = at /\ Armed(new) /\ new.interval = 0
      /\ new.count = 0 /\ new.readable = FALSE
      /\ new.minId = tm.nextId /\ new.nextId = tm.nextId + 1
      /\ \E ev \in ExpireEvent :
            set.events = {ev} /\ ev.id = tm.nextId /\ now <= ev.time /\ ev.time <= at
  <2>1. TimeSet(set, tm, now, at)
      BY <1>1, SetTimeOn
  <2> HIDE DEF set, at
  <2> QED BY <2>1 DEF TimeSet
<1>5. PICK ev \in ExpireEvent :
         set.events = {ev} /\ ev.id = tm.nextId /\ now <= ev.time /\ ev.time <= at
    BY <1>4
<1>6. tm.nextId \in Nat
    BY <1>1 DEF TimerRecord
<1> DEFINE r == EnqueueExpire(q, t, {ev})
           y == ExpireTask(t, ev)
<1> HIDE DEF set, at
<1>7. \A x \in Range(q) : x.do = "expire" /\ x.thread = t => x.id < ev.id
    BY <1>2, <1>5 DEF ExpiresInv, ExpireOK, tm
<1>8. /\ r \in Seq(Task) /\ Range(r) = Range(q) \cup {y} /\ Once(r)
      /\ y \in Task /\ y.do = "expire" /\ y.thread = t /\ y.id = ev.id /\ y.time = ev.time
    BY ONLY <1>2, <1>7, t \in Threads, ev \in ExpireEvent, ExpireQueued
<1> HIDE DEF r, y
<1>9. TimerOK(new)
  <2>0. (new.count > 0) = FALSE
      BY <1>4
  <2>1. new.readable = (new.count > 0)
      BY <2>0, <1>4
  <2>2. new.minId <= new.nextId
      BY <1>4, <1>6
  <2> QED BY <2>1, <2>2, <1>4 DEF TimerOK
<1>10. ExpireOK(new, y) /\ Valid(new, y)
    BY <1>4, <1>5, <1>6, <1>8 DEF ExpireOK, Valid
<1>11. ASSUME NEW x \in Range(q), x.do = "expire", x.thread = t PROVE ExpireOK(new, x)
  <2>1. x.id < tm.nextId
      BY <1>5, <1>7, <1>11
  <2>2. x.id \in Nat
      BY <1>2, <1>11, InQueue, TaskFields
  <2> QED BY <2>1, <2>2, <1>4, <1>6 DEF ExpireOK, Valid
<1>12. y.time >= now
    BY <1>5, <1>8, <1>1 DEF ExpireEvent
<1>13. Timing(t, q, r, new)
  <2>1. \A x \in Range(r) : x.do = "expire" /\ x.thread = t => ExpireOK(new, x)
      BY <1>8, <1>10, <1>11
  <2>2. \A x \in Range(r) :
           x \in Range(q) \/ (x.do = "expire" /\ x.thread = t /\ x.time >= now)
      BY <1>8, <1>12
  <2>3. \E x \in Range(r) : x.do = "expire" /\ x.thread = t /\ Valid(new, x)
      BY <1>8, <1>10
  <2> QED BY <2>1, <2>2, <2>3, <1>4, <1>8, <1>9 DEF Timing
<1>14. TimeoutOK(new, c)
  <2>1. ~Quiet(new) /\ now <= c.due /\ new.next = c.due
      BY <1>3, <1>4 DEF Quiet
  <2> QED BY <2>1, <1>4 DEF TimeoutOK
<1>15. EnqueueExpire(q, t, set.events) = r
    BY <1>5 DEF r
<1> QED BY <1>13, <1>14, <1>15 DEF set, v, tm

\* What every call that blocks (b is the call) or is done (b is NoCall) leaves
\* apart from the conditions.
Leaves(t, q, new, b) ==
    /\ Timing(t, q, tasks', new) /\ timer' = [timer EXCEPT ![t] = new]
    /\ blocked' = [blocked EXCEPT ![t] = b] /\ b \in Syscall
    /\ ret' \in [Threads -> {"none", "woken", "timedout"}]
    /\ IF b = NoCall THEN running' = t /\ Quiet(new)
       ELSE running' = NoThread /\ TimeoutOK(new, b)
    /\ table' \subseteq Futexes /\ readable' \in BOOLEAN /\ crash' = crash

LEMMA CallStep ==
    ASSUME IInv, NEW t \in Threads, NEW cs, NEW q, Ready(t, cs, q), Around,
           NEW new, NEW b, Leaves(t, q, new, b), cond' \in [Conds -> Cond]
    PROVE  /\ TypeOK' /\ AssertionsHold' /\ ProcInv' /\ TimersInv' /\ TimeoutsInv'
           /\ Once(tasks)' /\ StartsInv(tasks)' /\ ExpiresInv(tasks)' /\ ArmedInv(tasks)'
<1>1. /\ now \in Nat /\ timer \in [Threads -> TimerRecord] /\ blocked \in [Threads -> Syscall]
      /\ threads \subseteq Threads /\ NoThread \notin Threads
    BY Types
<1>2. /\ new \in TimerRecord /\ TimerOK(new) /\ new.count = 0
      /\ tasks' \in Seq(Task) /\ Once(tasks') /\ Range(q) \subseteq Range(tasks')
      /\ \A x \in Range(tasks') :
            x \in Range(q) \/ (x.do = "expire" /\ x.thread = t /\ x.time >= now)
      /\ \A x \in Range(tasks') : x.do = "expire" /\ x.thread = t => ExpireOK(new, x)
      /\ Armed(new) => \E x \in Range(tasks') : x.do = "expire" /\ x.thread = t /\ Valid(new, x)
    BY DEF Leaves, Timing
<1>3. /\ timer' = [timer EXCEPT ![t] = new]
      /\ blocked' = [blocked EXCEPT ![t] = b] /\ b \in Syscall
      /\ ret' \in [Threads -> {"none", "woken", "timedout"}]
      /\ b = NoCall => running' = t /\ Quiet(new)
      /\ b # NoCall => running' = NoThread /\ TimeoutOK(new, b)
      /\ table' \subseteq Futexes /\ readable' \in BOOLEAN /\ crash' = crash
    BY DEF Leaves
<1>4. /\ t \in threads /\ ~exiting /\ crash = "" /\ q \in Seq(Task)
      /\ running \in {t, NoThread}
      /\ \A x \in Range(q) : x.time >= now
      /\ StartsInv(q) /\ ExpiresInv(q) /\ ArmedInv(q)
      /\ \A x \in Range(q) : x.do = "start" => x.thread # t
    BY DEF Ready
<1>5. /\ early' \in BOOLEAN /\ calls' \in 0 .. MaxCalls
      /\ now' = now /\ threads' = threads /\ spawned' = spawned /\ exiting' = exiting
      /\ arrivals' = arrivals
    BY DEF Around
<1>6. /\ timer'[t] = new /\ timer' \in [Threads -> TimerRecord]
      /\ \A u \in Threads : u # t => timer'[u] = timer[u]
    BY <1>1, <1>2, <1>3
<1>7. /\ blocked'[t] = b /\ blocked' \in [Threads -> Syscall]
      /\ \A u \in Threads : u # t => blocked'[u] = blocked[u]
    BY <1>1, <1>3
<1>8. \A k \in DOMAIN tasks' : tasks'[k].time >= now'
  <2> DEFINE p == tasks'
  <2>1. p \in Seq(Task) /\ \A x \in Range(p) : x.time >= now
      BY <1>2, <1>4
  <2> HIDE DEF p
  <2>2. \A k \in DOMAIN p : p[k].time >= now
      BY <2>1, InQueue
  <2> QED BY <2>2, <1>5 DEF p
<1>9. \A u \in Threads : WasBlocked(u)' => u \in threads' \ {running'}
  <2> SUFFICES ASSUME NEW u \in Threads, blocked'[u] # NoCall
               PROVE  u \in threads \ {running'}
      BY <1>5 DEF WasBlocked
  <2>1. CASE u = t
      BY <2>1, <1>1, <1>3, <1>4, <1>7
  <2>2. CASE u # t
    <3>1. WasBlocked(u)
        BY <2>2, <1>7 DEF WasBlocked
    <3>2. u \in threads
        BY <3>1 DEF IInv, TypeOK
    <3> QED BY <3>2, <2>2, <1>1, <1>3
  <2> QED BY <2>1, <2>2
<1>10. running' \in threads' \cup {NoThread}
    BY <1>3, <1>4, <1>5
<1>11. TypeOK'
    BY <1>2, <1>3, <1>5, <1>6, <1>7, <1>8, <1>9, <1>10 DEF IInv, TypeOK
<1>12. AssertionsHold' /\ ProcInv'
    BY <1>3, <1>5 DEF IInv, AssertionsHold, ProcInv
<1>13. TimersInv'
    BY <1>2, <1>6 DEF IInv, TimersInv
<1>14. TimeoutsInv'
  <2> SUFFICES ASSUME NEW u \in Threads
               PROVE  /\ u \notin spawned => Quiet(timer'[u])
                      /\ u \in threads /\ blocked'[u] = NoCall => Quiet(timer'[u])
                      /\ blocked'[u] # NoCall => TimeoutOK(timer'[u], blocked'[u])
      BY <1>5 DEF TimeoutsInv, TimeoutOK, WasBlocked
  <2>1. CASE u = t
    <3>1. t \in spawned
        BY <1>4 DEF IInv, TypeOK
    <3> QED BY <3>1, <2>1, <1>3, <1>6, <1>7
  <2>2. CASE u # t
    <3>1. /\ u \notin spawned => Quiet(timer[u])
          /\ u \in threads /\ blocked[u] = NoCall => Quiet(timer[u])
          /\ blocked[u] # NoCall => TimeoutOK(timer[u], blocked[u])
        BY DEF IInv, TimeoutsInv, WasBlocked
    <3> QED BY <3>1, <2>2, <1>6, <1>7
  <2> QED BY <2>1, <2>2
<1>15. Once(tasks)'
    BY <1>2 DEF Once, Same
<1>16. StartsInv(tasks)'
  <2> SUFFICES ASSUME NEW x \in Range(tasks'), x.do = "start" PROVE StartOK(x)'
      BY DEF StartsInv
  <2>1. x \in Range(q) /\ StartOK(x) /\ x.thread # t
      BY <1>2, <1>4 DEF StartsInv
  <2>2. x.thread \in Threads
      BY <2>1, <1>4, InQueue, TaskFields
  <2>3. x.thread # running'
      BY <2>1, <2>2, <1>1, <1>3
  <2>4. WasBlocked(x.thread)' <=> WasBlocked(x.thread)
      BY <2>1, <2>2, <1>7 DEF WasBlocked
  <2> QED BY <2>1, <2>3, <2>4, <1>5 DEF StartOK
<1>17. ExpiresInv(tasks)'
  <2> SUFFICES ASSUME NEW x \in Range(tasks'), x.do = "expire"
               PROVE  ExpireOK(timer'[x.thread], x)
      BY DEF ExpiresInv, ExpireOK
  <2>1. CASE x.thread = t
      BY <2>1, <1>2, <1>6
  <2>2. CASE x.thread # t
    <3>1. x \in Range(q) /\ x.thread \in Threads
        BY <2>2, <1>2, <1>4, InQueue, TaskFields
    <3> QED BY <3>1, <2>2, <1>4, <1>6 DEF ExpiresInv
  <2> QED BY <2>1, <2>2
<1>18. ArmedInv(tasks)'
  <2> SUFFICES ASSUME NEW u \in Threads, Armed(timer'[u])
               PROVE  \E x \in Range(tasks') :
                         x.do = "expire" /\ x.thread = u /\ Valid(timer'[u], x)
      BY DEF ArmedInv, Awaited
  <2>1. CASE u = t
      BY <2>1, <1>2, <1>6
  <2>2. CASE u # t
      BY <2>2, <1>2, <1>4, <1>6 DEF ArmedInv, Awaited
  <2> QED BY <2>1, <2>2
<1> QED BY <1>11, <1>12, <1>13, <1>14, <1>15, <1>16, <1>17, <1>18

\* Futexes that are waited for stay in the table, and no call makes the
\* descriptor readable.
Sustains(cs) ==
    /\ readable' => readable
    /\ \A c \in Conds :
          cs[c].thread # NoThread /\ cs[c].trigger \in Futexes => cs[c].trigger \in table'

\* Conditions of other threads are as good as before.
LEMMA OthersKept ==
    ASSUME IInv, NEW t \in Threads, NEW cs, NEW q, Ready(t, cs, q), Around,
           NEW new, NEW b, Leaves(t, q, new, b), Sustains(cs),
           NEW c \in Conds, cond'[c] = cs[c]
    PROVE  CondOK(cond[c])' /\ (cond'[c].thread # NoThread => WakeOK(cond[c])')
<1>1. /\ timer \in [Threads -> TimerRecord] /\ blocked \in [Threads -> Syscall]
    BY Types
<1>2. /\ timer' = [timer EXCEPT ![t] = new] /\ blocked' = [blocked EXCEPT ![t] = b]
      /\ exiting' = exiting /\ now' = now
    BY DEF Leaves, Around
<1>3. /\ cs[c] \in Cond /\ CondOK(cs[c]) /\ cs[c].thread # t
      /\ cs[c].thread # NoThread => WakeOK(cs[c])
    BY DEF Ready, CondsInv, WakesInv
<1>4. CASE cs[c].thread = NoThread
    BY <1>2, <1>3, <1>4 DEF CondOK, DeadOK
<1>5. CASE cs[c].thread # NoThread
  <2> DEFINE u == cs[c].thread
  <2>1. u \in Threads /\ u # t /\ LiveOK(cs[c]) /\ WakeOK(cs[c])
      BY <1>3, <1>5 DEF Cond, CondOK
  <2>2. timer'[u] = timer[u] /\ blocked'[u] = blocked[u]
      BY <2>1, <1>1, <1>2
  <2>3. cs[c].trigger \in Futexes => cs[c].trigger \in table'
      BY <1>5 DEF Sustains
  <2>4. LiveOK(cond[c])'
      BY <2>1, <2>2, <2>3 DEF LiveOK, WasBlocked
  <2>5. WakeOK(cond[c])'
      BY <2>1, <2>2 DEF WakeOK, Sustains
  <2> QED BY <2>4, <2>5, <1>5 DEF CondOK
<1> QED BY <1>4, <1>5

LEMMA SignalsKept ==
    ASSUME IInv, NEW t \in Threads, NEW cs, NEW q, Ready(t, cs, q), Around,
           NEW new, NEW b, Leaves(t, q, new, b),
           \A c \in Conds : cs[c].pending \/ cond'[c].pending => cond'[c] = cs[c]
    PROVE  SignalsInv(cond, tasks)'
<1>1. /\ timer \in [Threads -> TimerRecord]
    BY Types
<1>2. /\ timer' = [timer EXCEPT ![t] = new] /\ now' = now
      /\ Range(q) \subseteq Range(tasks')
      /\ \A x \in Range(tasks') : x \in Range(q) \/ x.do = "expire"
    BY DEF Leaves, Timing, Around
<1>3. /\ q \in Seq(Task) /\ SignalsInv(cs, q) /\ cs \in [Conds -> Cond]
      /\ \A c \in Conds : cs[c].thread # t
    BY DEF Ready
<1>4. ASSUME NEW x \in Range(tasks'), x.do = "signal" PROVE SignalOK(cond, x)'
  <2>1. x \in Range(q) /\ SignalOK(cs, x) /\ x.cond \in Conds
      BY <1>2, <1>3, <1>4, InQueue, TaskFields DEF SignalsInv
  <2>2. cond'[x.cond] = cs[x.cond]
      BY <2>1 DEF SignalOK
  <2>3. cs[x.cond].thread # NoThread => timer'[cs[x.cond].thread] = timer[cs[x.cond].thread]
      BY <2>1, <1>1, <1>2, <1>3 DEF Cond
  <2> QED BY <2>1, <2>2, <2>3, <1>2 DEF SignalOK
<1>5. ASSUME NEW c \in Conds, cond'[c].pending
      PROVE  \E x \in Range(tasks') : x.do = "signal" /\ x.cond = c
  <2>1. cs[c].pending
      BY <1>5
  <2> QED BY <2>1, <1>2, <1>3 DEF SignalsInv
<1> QED BY <1>4, <1>5 DEF SignalsInv

\* SYSCALL_DONE
LEMMA CompleteInv ==
    ASSUME IInv, NEW t \in Threads, NEW cs, NEW q, Ready(t, cs, q), Around,
           NEW result \in {"none", "woken", "timedout"}, Complete(t, cs, q, result),
           Sustains(cs), table' \subseteq Futexes, readable' \in BOOLEAN, crash' = crash
    PROVE  IInv'
<1>1. /\ now \in Nat /\ timer \in [Threads -> TimerRecord] /\ blocked \in [Threads -> Syscall]
    BY Types
<1>2. /\ t \in threads /\ cs \in [Conds -> Cond] /\ CondsInv(cs)
      /\ \A u \in Threads : WasBlocked(u) /\ u # t => \E c \in Conds : cs[c].thread = u
    BY DEF Ready
<1>3. /\ cond' = cs /\ tasks' = q /\ running' = t
      /\ blocked' = [blocked EXCEPT ![t] = NoCall]
      /\ ret' = [ret EXCEPT ![t] = result]
    BY DEF Complete
<1> DEFINE new == IF WasBlocked(t) THEN Cleared(Disarm(timer[t])) ELSE timer[t]
<1>4. Timing(t, q, q, new) /\ Quiet(new)
  <2>1. CASE WasBlocked(t)
      BY <2>1, TimerOff
  <2>2. CASE ~WasBlocked(t)
    <3>1. Quiet(timer[t])
        BY <2>2, <1>2 DEF IInv, TimeoutsInv
    <3> QED BY <3>1, <2>2, TimerKept
  <2> QED BY <2>1, <2>2
<1>5. timer' = [timer EXCEPT ![t] = new]
  <2>1. SetTime(timer[t], now, 0, 0, FALSE).timer = Cleared(Disarm(timer[t]))
      BY DEF SetTime, Unscheduled
  <2> QED BY <2>1, <1>1 DEF Complete
<1> HIDE DEF new
<1>6. NoCall \in Syscall
    BY BlockedCallsAssumption DEF NoCall, Syscall, Triggers
<1>7. ret' \in [Threads -> {"none", "woken", "timedout"}]
    BY <1>3 DEF IInv, TypeOK
<1>8. Leaves(t, q, new, NoCall)
    BY <1>3, <1>4, <1>5, <1>6, <1>7 DEF Leaves
<1>9. cond' \in [Conds -> Cond]
    BY <1>2, <1>3
<1>10. /\ TypeOK' /\ AssertionsHold' /\ ProcInv' /\ TimersInv' /\ TimeoutsInv'
       /\ Once(tasks)' /\ StartsInv(tasks)' /\ ExpiresInv(tasks)' /\ ArmedInv(tasks)'
    BY <1>8, <1>9, CallStep
<1>11. \A c \in Conds : CondOK(cond[c])' /\ (cond'[c].thread # NoThread => WakeOK(cond[c])')
  <2> SUFFICES ASSUME NEW c \in Conds
               PROVE  CondOK(cond[c])' /\ (cond'[c].thread # NoThread => WakeOK(cond[c])')
      OBVIOUS
  <2>1. cond'[c] = cs[c]
      BY <1>3
  <2> QED BY <2>1, <1>8, OthersKept
<1>12. CondsInv(cond)'
    BY <1>11, <1>2, <1>3 DEF CondsInv, OnePerThread
<1>13. WakesInv(cond)'
    BY <1>11 DEF WakesInv
<1>14. SignalsInv(cond, tasks)'
  <2>1. \A c \in Conds : cs[c].pending \/ cond'[c].pending => cond'[c] = cs[c]
      BY <1>3
  <2> QED BY <2>1, <1>8, SignalsKept
<1>15. BlockedInv'
  <2> SUFFICES ASSUME NEW u \in Threads, blocked'[u] # NoCall
               PROVE  CallOK(blocked'[u]) /\ \E c \in Conds : cond'[c].thread = u
      BY DEF BlockedInv, WasBlocked, CallOK
  <2>1. u # t /\ blocked'[u] = blocked[u] /\ WasBlocked(u)
      BY <1>1, <1>3 DEF WasBlocked
  <2> QED BY <2>1, <1>2, <1>3 DEF IInv, BlockedInv
<1> QED BY <1>10, <1>12, <1>13, <1>14, <1>15 DEF IInv

\* SYSCALL_BLOCK
LEMMA BlockInv ==
    ASSUME IInv, NEW t \in Threads, NEW cs, NEW q, Ready(t, cs, q), Around,
           NEW c \in Syscall, Blockable(t, c), c.on = File => ~readable',
           Block(t, c, cs, q, c.on, c.timed),
           Sustains(cs), table' \subseteq Futexes, c.on \in Futexes => c.on \in table',
           readable' \in BOOLEAN, crash' = crash
    PROVE  IInv'
<1>1. /\ now \in Nat /\ timer \in [Threads -> TimerRecord] /\ blocked \in [Threads -> Syscall]
      /\ NoThread \notin Threads
    BY Types
<1>2. /\ t \in threads /\ cs \in [Conds -> Cond] /\ CondsInv(cs)
      /\ \A d \in Conds : cs[d].thread # t
      /\ \A u \in Threads : WasBlocked(u) /\ u # t => \E d \in Conds : cs[d].thread = u
    BY DEF Ready
<1> DEFINE n == CHOOSE n \in Conds : cs[n] = Free
           a == Absolute(c)
           set == IF c.timed THEN SetTime(timer[t], now, c.timeout, 0, a)
                  ELSE Unscheduled(timer[t])
           new == set.timer
           w == Waiting(t, c.on, c.timed)
<1>3. n \in Conds /\ cs[n] = Free
    BY FreeCond
<1>4. /\ cond' = [cs EXCEPT ![n] = w]
      /\ timer' = [timer EXCEPT ![t] = new]
      /\ tasks' = EnqueueExpire(q, t, set.events)
      /\ blocked' = [blocked EXCEPT ![t] = c]
      /\ ret' = [ret EXCEPT ![t] = "none"] /\ running' = NoThread
    BY DEF Block
<1>5. /\ c.on \in Triggers /\ c.timed \in BOOLEAN /\ c.timeout \in Nat /\ a \in BOOLEAN
    BY DEF Syscall, Absolute
<1>6. /\ w \in Cond /\ w.thread = t /\ w.of = t /\ w.trigger = c.on
      /\ w.timed = c.timed /\ w.onTimer = c.timed /\ w.onTrigger = (c.on # NoFutex)
      /\ w.woken = FALSE /\ w.pending = FALSE
      /\ w.refs = 1 + One(w.onTimer) + One(w.onTrigger) + One(w.pending)
  <2>1. IsWaiting(w, t, c.on, c.timed)
      BY <1>5, WaitingFields
  <2> HIDE DEF w
  <2> QED BY <2>1 DEF IsWaiting
<1> HIDE DEF n, w
<1>7. Timing(t, q, tasks', new) /\ TimeoutOK(new, c)
  <2>1. CASE ~c.timed
    <3>1. Quiet(timer[t]) /\ ~(c.timeout > 0)
        BY <2>1 DEF Blockable, CallOK
    <3>2. new = timer[t] /\ set.events = {}
        BY <2>1 DEF Unscheduled
    <3>3. tasks' = q
        BY <3>2, <1>4 DEF EnqueueExpire
    <3>4. Timing(t, q, q, timer[t])
        BY <3>1, TimerKept
    <3>5. TimeoutOK(timer[t], c)
        BY <3>1 DEF TimeoutOK, Quiet
    <3> HIDE DEF set
    <3> QED BY <3>2, <3>3, <3>4, <3>5
  <2>2. CASE c.timed /\ c.timeout = 0
    <3>1. new = Cleared(Disarm(timer[t])) /\ set.events = {}
        BY <2>2 DEF SetTime, Unscheduled
    <3>2. tasks' = q
        BY <3>1, <1>4 DEF EnqueueExpire
    <3> HIDE DEF set
    <3>3. Timing(t, q, q, new) /\ Quiet(new)
        BY <3>1, TimerOff
    <3>4. TimeoutOK(new, c)
        BY <3>3, <2>2 DEF TimeoutOK, Quiet
    <3> QED BY <3>2, <3>3, <3>4
  <2>3. CASE c.timed /\ c.timeout > 0
    <3> DEFINE on == SetTime(timer[t], now, c.timeout, 0, a)
    <3>1. c.due = ExpireTime(now, c.timeout, a)
        BY <2>3 DEF Blockable
    <3>2. set = on
        BY <2>3
    <3> HIDE DEF a
    <3>3. Timing(t, q, EnqueueExpire(q, t, on.events), on.timer) /\ TimeoutOK(on.timer, c)
        BY <3>1, <2>3, <1>5, TimerOn
    <3> HIDE DEF set, on
    <3> QED BY <3>2, <3>3, <1>4
  <2> QED BY <2>1, <2>2, <2>3, <1>5
<1> HIDE DEF set, a
<1>8. c # NoCall
    BY DEF Blockable, CallOK, NoCall
<1>9. ret' \in [Threads -> {"none", "woken", "timedout"}]
    BY <1>4 DEF IInv, TypeOK
<1>10. Leaves(t, q, new, c)
    BY <1>4, <1>7, <1>8, <1>9 DEF Leaves
<1>11. /\ cond' \in [Conds -> Cond] /\ cond'[n] = w
       /\ \A d \in Conds : d # n => cond'[d] = cs[d]
    BY <1>2, <1>3, <1>4, <1>6
<1>12. /\ TypeOK' /\ AssertionsHold' /\ ProcInv' /\ TimersInv' /\ TimeoutsInv'
       /\ Once(tasks)' /\ StartsInv(tasks)' /\ ExpiresInv(tasks)' /\ ArmedInv(tasks)'
    BY <1>10, <1>11, CallStep
<1>13. blocked'[t] = c /\ timer'[t] = new /\ new.count = 0
    BY <1>1, <1>4, <1>7 DEF Timing
<1>14. CondOK(cond[n])' /\ WakeOK(cond[n])'
  <2>1. w.onTimer = w.timed /\ w.onTrigger = (w.trigger # NoFutex)
      BY <1>6
  <2>2. LiveOK(cond[n])'
      BY <2>1, <1>6, <1>8, <1>11, <1>13 DEF LiveOK, WasBlocked
  <2>3. WakeOK(cond[n])'
      BY <1>6, <1>11, <1>13 DEF WakeOK
  <2> QED BY <2>2, <2>3, <1>1, <1>6, <1>11 DEF CondOK
<1>15. ASSUME NEW d \in Conds
       PROVE  CondOK(cond[d])' /\ (cond'[d].thread # NoThread => WakeOK(cond[d])')
  <2>1. CASE d = n
      BY <2>1, <1>14
  <2>2. CASE d # n
    <3>1. cond'[d] = cs[d]
        BY <2>2, <1>11
    <3> QED BY <3>1, <1>10, OthersKept
  <2> QED BY <2>1, <2>2
<1>16. OnePerThread(cond)'
  <2> SUFFICES ASSUME NEW d \in Conds, NEW e \in Conds, cond'[d].thread = cond'[e].thread
               PROVE  cond'[d].thread = NoThread \/ d = e
      BY DEF OnePerThread
  <2> QED BY <1>2, <1>6, <1>11 DEF CondsInv, OnePerThread
<1>17. CondsInv(cond)' /\ WakesInv(cond)'
    BY <1>15, <1>16 DEF CondsInv, WakesInv
<1>18. SignalsInv(cond, tasks)'
  <2>1. cs[n].pending = FALSE
      BY <1>3 DEF Free
  <2>2. \A d \in Conds : cs[d].pending \/ cond'[d].pending => cond'[d] = cs[d]
      BY <2>1, <1>6, <1>11
  <2> QED BY <2>2, <1>10, SignalsKept
<1>19. BlockedInv'
  <2> SUFFICES ASSUME NEW u \in Threads, blocked'[u] # NoCall
               PROVE  CallOK(blocked'[u]) /\ \E d \in Conds : cond'[d].thread = u
      BY DEF BlockedInv, WasBlocked, CallOK
  <2>1. CASE u = t
      BY <2>1, <1>3, <1>6, <1>11, <1>13 DEF Blockable
  <2>2. CASE u # t
    <3>1. blocked'[u] = blocked[u] /\ WasBlocked(u)
        BY <2>2, <1>1, <1>4 DEF WasBlocked
    <3>2. PICK d \in Conds : cs[d].thread = u
        BY <3>1, <2>2, <1>2
    <3>3. d # n
        BY <3>2, <1>1, <1>3 DEF Free
    <3> QED BY <3>1, <3>2, <3>3, <1>11 DEF IInv, BlockedInv
  <2> QED BY <2>1, <2>2
<1> QED BY <1>12, <1>17, <1>18, <1>19 DEF IInv

\* A call that a thread makes, or that is handled again: then what its
\* condition waited for has happened.
Handled(t, c) ==
    /\ CallOK(c)
    /\ IF WasBlocked(t)
       THEN /\ c = blocked[t]
            /\ c.op = "nanosleep" /\ c.timeout > 0 => timer[t].count > 0
            /\ c.on \in Futexes => c.on \in table
       ELSE c.timed => c.due = ExpireTime(now, c.timeout, Absolute(c))

LEMMA TableKept ==
    ASSUME NEW t \in Threads, NEW cs, NEW q, Ready(t, cs, q),
           readable' => readable, table \subseteq table'
    PROVE  Sustains(cs)
<1>1. \A c \in Conds : CondOK(cs[c])
    BY DEF Ready, CondsInv
<1>2. \A c \in Conds :
         cs[c].thread # NoThread /\ cs[c].trigger \in Futexes => cs[c].trigger \in table
    BY <1>1 DEF CondOK, LiveOK
<1> QED BY <1>2 DEF Sustains

LEMMA CallBlockable ==
    ASSUME IInv, NEW t \in Threads, NEW cs, NEW q, Ready(t, cs, q),
           NEW c \in Syscall, Handled(t, c), WasBlocked(t) => ~c.timed
    PROVE  Blockable(t, c)
<1>1. ASSUME ~c.timed PROVE Quiet(timer[t])
  <2>1. CASE WasBlocked(t)
    <3>1. TimeoutOK(timer[t], c)
        BY <2>1 DEF IInv, TimeoutsInv, Handled
    <3>2. timer[t].count \in Nat
        BY Types DEF TimerRecord
    <3> QED BY <3>1, <3>2, <1>1 DEF TimeoutOK, Quiet
  <2>2. CASE ~WasBlocked(t)
      BY <2>2 DEF Ready, IInv, TimeoutsInv
  <2> QED BY <2>1, <2>2
<1> QED BY <1>1 DEF Blockable, Handled

LEMMA NanosleepInv ==
    ASSUME IInv, NEW t \in Threads, NEW cs, NEW q, Ready(t, cs, q), Around,
           NEW c \in Syscall, Handled(t, c), c.op = "nanosleep", Nanosleep(t, c, cs, q)
    PROVE  IInv'
<1>1. /\ c.on = NoFutex /\ c.timed = TRUE /\ c.timeout \in Nat
    BY DEF Handled, CallOK, Syscall
<1>2. table \subseteq Futexes /\ readable \in BOOLEAN /\ NoFutex # File /\ NoFutex \notin Futexes
    BY BlockedCallsAssumption DEF IInv, TypeOK
<1>3. CASE c.timeout > 0 /\ ~WasBlocked(t)
  <2>1. Block(t, c, cs, q, c.on, c.timed) /\ UNCHANGED <<table, readable, crash>>
      BY <1>1, <1>3 DEF Nanosleep
  <2>2. Blockable(t, c) /\ Sustains(cs)
      BY <1>3, <2>1, CallBlockable, TableKept
  <2> QED BY <2>1, <2>2, <1>1, <1>2, BlockInv
<1>4. CASE c.timeout > 0 /\ WasBlocked(t)
  <2>1. timer[t].count > 0 /\ TimerOK(timer[t])
      BY <1>4 DEF Handled, IInv, TimersInv
  <2>2. timer[t] \in TimerRecord
      BY Types
  <2>3. timer[t].count # 0 /\ ~Armed(timer[t])
      BY <2>1, <2>2 DEF TimerOK, TimerRecord
  <2>4. ~(TimeLeft(timer[t], now) > 0)
      BY <2>3 DEF TimeLeft
  <2>5. Complete(t, cs, q, "none") /\ UNCHANGED <<table, readable, crash>>
      BY <2>3, <2>4, <1>4 DEF Nanosleep
  <2>6. Sustains(cs)
      BY <2>5, TableKept
  <2> QED BY <2>5, <2>6, <1>2, CompleteInv
<1>5. CASE ~(c.timeout > 0)
  <2>1. Complete(t, cs, q, "none") /\ UNCHANGED <<table, readable, crash>>
      BY <1>5 DEF Nanosleep
  <2>2. Sustains(cs)
      BY <2>1, TableKept
  <2> QED BY <2>1, <2>2, <1>2, CompleteInv
<1> QED BY <1>3, <1>4, <1>5

LEMMA FutexWaitInv ==
    ASSUME IInv, NEW t \in Threads, NEW cs, NEW q, Ready(t, cs, q), Around,
           NEW c \in Syscall, Handled(t, c), c.op \in {"wait", "wait_bitset"},
           FutexWait(t, c, cs, q)
    PROVE  IInv'
<1>1. c.on \in Futexes
    BY DEF Handled, CallOK
<1>2. table \subseteq Futexes /\ readable \in BOOLEAN /\ File \notin Futexes
    BY BlockedCallsAssumption DEF IInv, TypeOK
<1>3. CASE ~WasBlocked(t)
  <2>1. /\ table' = table \cup {c.on} /\ Block(t, c, cs, q, c.on, c.timed)
        /\ readable' = readable /\ crash' = crash
      BY <1>3 DEF FutexWait
  <2>2. Blockable(t, c)
      BY <1>3, CallBlockable
  <2>3. Sustains(cs)
      BY <2>1, TableKept
  <2>4. c.on # File /\ table' \subseteq Futexes /\ c.on \in table'
      BY <2>1, <1>1, <1>2
  <2> QED BY <2>1, <2>2, <2>3, <2>4, <1>2, BlockInv
<1>4. CASE WasBlocked(t)
  <2> DEFINE result == IF c.timed /\ timer[t].count > 0 THEN "timedout" ELSE "woken"
  <2>1. c.on \in table
      BY <1>1, <1>4 DEF Handled
  <2>2. /\ Complete(t, cs, q, result)
        /\ table' = table \ Unused(c.on, cs) /\ readable' = readable /\ crash' = crash
      BY <2>1, <1>4 DEF FutexWait
  <2>3. result \in {"none", "woken", "timedout"}
      OBVIOUS
  <2> HIDE DEF result
  <2>4. Sustains(cs)
    <3> SUFFICES ASSUME NEW d \in Conds, cs[d].thread # NoThread, cs[d].trigger \in Futexes
                 PROVE  cs[d].trigger \in table'
        BY <2>2 DEF Sustains
    <3>1. LiveOK(cs[d])
        BY DEF Ready, CondsInv, CondOK
    <3>2. cs[d].trigger \in table /\ cs[d].onTrigger = (cs[d].trigger # NoFutex)
        BY <3>1 DEF LiveOK
    <3>3. cs[d].onTrigger
        BY <3>2, BlockedCallsAssumption
    <3>4. cs[d].trigger \notin Unused(c.on, cs)
        BY <3>3 DEF Unused
    <3> QED BY <3>2, <3>4, <2>2
  <2>5. table' \subseteq Futexes
      BY <2>2, <1>2
  <2> QED BY <2>2, <2>3, <2>4, <2>5, <1>2, CompleteInv
<1> QED BY <1>3, <1>4

LEMMA PollInv ==
    ASSUME IInv, NEW t \in Threads, NEW cs, NEW q, Ready(t, cs, q), Around,
           NEW c \in Syscall, Handled(t, c), c.op = "poll", Poll(t, c, cs, q)
    PROVE  IInv'
<1>1. c.on = File
    BY DEF Handled, CallOK
<1>2. table \subseteq Futexes /\ readable \in BOOLEAN /\ File \notin Futexes
    BY BlockedCallsAssumption DEF IInv, TypeOK
<1>3. UNCHANGED <<table, readable, crash>>
    BY DEF Poll
<1>4. Sustains(cs)
    BY <1>3, TableKept
<1>5. CASE readable \/ (c.timed /\ c.timeout = 0) \/ WasBlocked(t)
  <2>1. Complete(t, cs, q, "none")
      BY <1>5 DEF Poll
  <2> QED BY <2>1, <1>2, <1>3, <1>4, CompleteInv
<1>6. CASE ~(readable \/ (c.timed /\ c.timeout = 0) \/ WasBlocked(t))
  <2>1. Block(t, c, cs, q, c.on, c.timed)
      BY <1>1, <1>6 DEF Poll
  <2>2. Blockable(t, c)
      BY <1>6, CallBlockable
  <2> QED BY <2>1, <2>2, <1>1, <1>2, <1>3, <1>4, <1>6, BlockInv
<1> QED BY <1>5, <1>6

LEMMA ReadInv ==
    ASSUME IInv, NEW t \in Threads, NEW cs, NEW q, Ready(t, cs, q), Around,
           NEW c \in Syscall, Handled(t, c), c.op = "read", Read(t, c, cs, q)
    PROVE  IInv'
<1>1. c.on = File /\ c.timed = FALSE
    BY DEF Handled, CallOK, Syscall
<1>2. table \subseteq Futexes /\ readable \in BOOLEAN /\ File \notin Futexes
    BY BlockedCallsAssumption DEF IInv, TypeOK
<1>3. UNCHANGED <<table, crash>>
    BY DEF Read
<1>4. CASE readable
  <2>1. Complete(t, cs, q, "none") /\ readable' = FALSE
      BY <1>4 DEF Read
  <2>2. Sustains(cs)
      BY <2>1, <1>3, TableKept
  <2> QED BY <2>1, <2>2, <1>2, <1>3, CompleteInv
<1>5. CASE ~readable
  <2>1. Block(t, c, cs, q, c.on, c.timed) /\ readable' = readable
      BY <1>1, <1>5 DEF Read
  <2>2. Blockable(t, c)
      BY <1>1, CallBlockable
  <2>3. Sustains(cs)
      BY <2>1, <1>3, TableKept
  <2> QED BY <2>1, <2>2, <2>3, <1>1, <1>2, <1>3, <1>5, BlockInv
<1> QED BY <1>4, <1>5

\* Every system call.
LEMMA MakeSyscallInv ==
    ASSUME IInv, NEW t \in Threads, NEW cs, NEW q, Ready(t, cs, q), Around,
           NEW c \in Syscall, Handled(t, c), MakeSyscall(t, c, cs, q)
    PROVE  IInv'
    BY NanosleepInv, FutexWaitInv, PollInv, ReadInv DEF MakeSyscall

Made(c) ==
    c \in Syscall /\ CallOK(c) /\ c.due = ExpireTime(now, c.timeout, Absolute(c))

LEMMA NewCallMade ==
    ASSUME now \in Nat, NEW op \in {"nanosleep", "read", "wait", "wait_bitset", "poll"},
           NEW on \in Triggers, NEW d \in Nat, NEW b \in BOOLEAN, d > 0 => b,
           \/ op = "nanosleep" /\ on = NoFutex /\ b
           \/ op = "read" /\ on = File /\ ~b
           \/ op \in {"wait", "wait_bitset"} /\ on \in Futexes
           \/ op = "poll" /\ on = File
    PROVE  Made(NewCall(op, on, d, b))
<1> DEFINE c == NewCall(op, on, d, b)
           due == ExpireTime(now, d, op = "wait_bitset")
<1>1. due \in Nat
    BY DEF ExpireTime
<1>2. c = [op |-> op, on |-> on, timeout |-> d, timed |-> b, due |-> due]
    BY DEF NewCall
<1> HIDE DEF due, c
<1>3. c \in Syscall
    BY <1>1, <1>2 DEF Syscall
<1>4. c.op = op /\ c.on = on /\ c.timeout = d /\ c.due = due
    BY <1>2
<1>5. c.timed = b
    BY <1>2
<1>6. c.due = ExpireTime(now, c.timeout, Absolute(c))
    BY <1>4 DEF due, Absolute
<1>7. CallOK(c)
    BY <1>4, <1>5 DEF CallOK
<1>8. Made(c)
    BY <1>3, <1>6, <1>7 DEF Made
<1> QED BY <1>8 DEF c

\* The calls that threads make can be blocked in.
LEMMA NewCallsOK ==
    ASSUME now \in Nat, NEW c \in NewCalls PROVE Made(c)
<1>1. Timeouts \subseteq Nat /\ NoFutex \in Triggers /\ File \in Triggers
    BY BlockedCallsAssumption DEF Triggers
<1>2. Futexes \subseteq Triggers /\ 0 \in Nat /\ ~(0 > 0)
    BY DEF Triggers
<1>3. ASSUME NEW d \in Timeouts PROVE Made(NewCall("nanosleep", NoFutex, d, TRUE))
    BY <1>1, NewCallMade
<1>4. Made(NewCall("read", File, 0, FALSE))
    BY <1>1, <1>2, NewCallMade
<1>5. ASSUME NEW w \in {"wait", "wait_bitset"} \X Futexes \X Timeouts
      PROVE  Made(NewCall(w[1], w[2], w[3], TRUE))
  <2>1. w[1] \in {"wait", "wait_bitset"} /\ w[2] \in Futexes /\ w[3] \in Timeouts
      OBVIOUS
  <2> QED BY <2>1, <1>1, <1>2, NewCallMade
<1>6. ASSUME NEW f \in Futexes PROVE Made(NewCall("wait", f, 0, FALSE))
    BY <1>2, NewCallMade
<1>7. ASSUME NEW d \in Timeouts PROVE Made(NewCall("poll", File, d, TRUE))
    BY <1>1, NewCallMade
<1>8. Made(NewCall("poll", File, 0, FALSE))
    BY <1>1, <1>2, NewCallMade
<1>9. CASE c \in {NewCall(w[1], w[2], w[3], TRUE) :
                    w \in {"wait", "wait_bitset"} \X Futexes \X Timeouts}
    BY <1>5, <1>9
<1>10. CASE \/ c \in {NewCall("nanosleep", NoFutex, d, TRUE) : d \in Timeouts}
            \/ c \in {NewCall("wait", f, 0, FALSE) : f \in Futexes}
            \/ c \in {NewCall("poll", File, d, TRUE) : d \in Timeouts}
    BY <1>3, <1>6, <1>7, <1>10
<1>11. CASE c = NewCall("read", File, 0, FALSE) \/ c = NewCall("poll", File, 0, FALSE)
    BY <1>4, <1>8, <1>11
<1> QED BY <1>9, <1>10, <1>11 DEF NewCalls

\* A thread that runs has no condition and is ready for a call.
LEMMA CallInv ==
    ASSUME IInv, NEW t \in Threads, NEW c \in NewCalls, Call(t, c) PROVE IInv'
<1>1. /\ running = t /\ crash = "" /\ calls < MaxCalls /\ calls' = calls + 1
      /\ MakeSyscall(t, c, cond, tasks)
      /\ UNCHANGED <<now, early, threads, spawned, exiting, arrivals>>
    BY DEF Call, MayCall
<1>2. /\ now \in Nat /\ tasks \in Seq(Task) /\ cond \in [Conds -> Cond] /\ NoThread \notin Threads
    BY Types
<1>3. /\ t \in threads /\ t \in spawned /\ ~WasBlocked(t) /\ \A x \in Range(tasks) : x.time >= now
    BY <1>1, <1>2, InQueue DEF IInv, TypeOK
<1>4. ~exiting
    BY <1>3 DEF IInv, ProcInv
<1>5. \A d \in Conds : cond[d].thread # t
    BY <1>2, <1>3 DEF IInv, CondsInv, CondOK, LiveOK
<1>6. \A x \in Range(tasks) : x.do = "start" => x.thread # t
    BY <1>1, <1>3 DEF IInv, StartsInv, StartOK
<1>7. \A u \in Threads : WasBlocked(u) => \E d \in Conds : cond[d].thread = u
    BY DEF IInv, BlockedInv
<1>8. Ready(t, cond, tasks)
    BY <1>1, <1>2, <1>3, <1>4, <1>5, <1>6, <1>7 DEF IInv, Ready
<1>9. Around
  <2>1. early' \in BOOLEAN
      BY <1>1 DEF IInv, TypeOK
  <2>2. calls \in 0 .. MaxCalls /\ MaxCalls \in Nat
      BY BlockedCallsAssumption DEF IInv, TypeOK
  <2>3. calls' \in 0 .. MaxCalls
    <3>1. calls < MaxCalls /\ calls' = calls + 1
        BY <1>1
    <3> QED BY ONLY <3>1, <2>2
  <2> QED BY <2>1, <2>3, <1>1 DEF Around
<1>10. c \in Syscall /\ CallOK(c) /\ c.due = ExpireTime(now, c.timeout, Absolute(c))
    BY <1>2, NewCallsOK DEF Made
<1>11. Handled(t, c)
    BY <1>3, <1>10 DEF Handled
<1> QED BY <1>1, <1>8, <1>9, <1>10, <1>11, MakeSyscallInv

\* A condition whose signal task was executed without effect.
LEMMA SignalSpent ==
    ASSUME NEW cd \in Cond, cd.refs > 1
    PROVE  LET r == [cd EXCEPT !.pending = FALSE, !.refs = cd.refs - 1]
           IN  /\ r \in Cond /\ r.thread = cd.thread /\ r.of = cd.of /\ r.trigger = cd.trigger
               /\ r.timed = cd.timed /\ r.onTimer = cd.onTimer /\ r.onTrigger = cd.onTrigger
               /\ r.woken = cd.woken /\ r.pending = FALSE /\ r.refs = cd.refs - 1
<1> DEFINE m == cd.refs - 1
           r == [cd EXCEPT !.pending = FALSE, !.refs = m]
<1>1. m \in Nat
    BY DEF Cond
<1> HIDE DEF m
<1>2. r \in Cond
    BY <1>1 DEF Cond
<1>3. r.thread = cd.thread /\ r.of = cd.of /\ r.trigger = cd.trigger /\ r.refs = m
    BY DEF Cond
<1>4. /\ r.timed = cd.timed /\ r.onTimer = cd.onTimer /\ r.onTrigger = cd.onTrigger
      /\ r.woken = cd.woken /\ r.pending = FALSE
    BY DEF Cond
<1> HIDE DEF r
<1> QED BY <1>2, <1>3, <1>4 DEF r, m

\* What is known of the condition of an executed signal task.
SignalRun(x, q) ==
    /\ x \in Task /\ x.do = "signal" /\ x.cond \in Conds /\ x.wasTimeout \in BOOLEAN
    /\ SignalOK(cond, x)
    /\ q \in Seq(Task) /\ Once(q) /\ Range(tasks) = {x} \cup Range(q)
    /\ \A y \in Range(q) : y \in Task /\ y.time >= now /\ (y.do = "signal" => y.cond # x.cond)
    /\ running = NoThread /\ crash = ""

LEMMA Signalled ==
    ASSUME IInv, MayRun("signal")
    PROVE  SignalRun(Head(tasks), Tail(tasks))
<1> DEFINE x == Head(tasks)
           q == Tail(tasks)
<1>1. /\ x \in Task /\ x.do = "signal" /\ x \in Range(tasks)
      /\ q \in Seq(Task) /\ Once(q) /\ Range(tasks) = {x} \cup Range(q)
      /\ \A y \in Range(q) : y \in Task /\ y.time >= now /\ ~Same(x, y)
      /\ running = NoThread /\ crash = ""
    BY Executing
<1> HIDE DEF x, q
<1>2. x.cond \in Conds /\ x.wasTimeout \in BOOLEAN
    BY <1>1, TaskFields
<1>3. SignalOK(cond, x)
    BY <1>1 DEF IInv, SignalsInv
<1>4. \A y \in Range(q) : y.do = "signal" => y.cond # x.cond
    BY <1>1 DEF Same
<1>5. SignalRun(x, q)
    BY <1>1, <1>2, <1>3, <1>4 DEF SignalRun
<1> QED BY <1>5 DEF x, q

\* The queue without the signal task of condition c, when nothing else of it
\* has changed.
LEMMA QueueLeft ==
    ASSUME IInv, NEW x, NEW q, SignalRun(x, q), NEW cs,
           cs[x.cond].pending = FALSE,
           \A d \in Conds : d # x.cond => cs[d] = cond[d]
    PROVE  /\ SignalsInv(cs, q) /\ StartsInv(q) /\ ExpiresInv(q) /\ ArmedInv(q)
<1>1. /\ x.do = "signal" /\ Range(tasks) = {x} \cup Range(q)
      /\ \A y \in Range(q) : y \in Task /\ (y.do = "signal" => y.cond # x.cond)
    BY DEF SignalRun
<1>2. Range(q) \subseteq Range(tasks)
    BY <1>1
<1>3. ASSUME NEW y \in Range(q), y.do = "signal" PROVE SignalOK(cs, y)
  <2>1. SignalOK(cond, y) /\ y.cond \in Conds /\ y.cond # x.cond
      BY <1>1, <1>2, <1>3, TaskFields DEF IInv, SignalsInv
  <2>2. cs[y.cond] = cond[y.cond]
      BY <2>1
  <2> QED BY <2>1, <2>2 DEF SignalOK
<1>4. ASSUME NEW d \in Conds, cs[d].pending PROVE \E y \in Range(q) : y.do = "signal" /\ y.cond = d
  <2>1. d # x.cond /\ cond[d].pending
      BY <1>4
  <2>2. PICK y \in Range(tasks) : y.do = "signal" /\ y.cond = d
      BY <2>1 DEF IInv, SignalsInv
  <2> QED BY <2>1, <2>2, <1>1
<1>5. StartsInv(q) /\ ExpiresInv(q)
    BY <1>2 DEF IInv, StartsInv, ExpiresInv
<1>6. ArmedInv(q)
    BY <1>1 DEF IInv, ArmedInv, Awaited
<1> QED BY <1>3, <1>4, <1>5, <1>6 DEF SignalsInv

\* A signal task that continues no thread.
LEMMA SignalDropped ==
    ASSUME IInv, NEW x, NEW q, SignalRun(x, q), early' = FALSE, tasks' = q,
           cond' \in [Conds -> Cond],
           cond'[x.cond].pending = FALSE, cond'[x.cond].thread = cond[x.cond].thread,
           CondOK(cond'[x.cond]), cond'[x.cond].thread # NoThread => WakeOK(cond'[x.cond]),
           \A d \in Conds : d # x.cond => cond'[d] = cond[d],
           UNCHANGED <<now, threads, spawned, exiting, running, blocked, ret, timer, table,
                       readable, calls, arrivals, crash>>
    PROVE  IInv'
<1> DEFINE cs == cond'
<1>0. /\ cs[x.cond].pending = FALSE
      /\ \A d \in Conds : d # x.cond => cs[d] = cond[d]
    OBVIOUS
<1> HIDE DEF cs
<1>1. /\ SignalsInv(cs, q) /\ StartsInv(q) /\ ExpiresInv(q) /\ ArmedInv(q)
    BY ONLY <1>0, IInv, SignalRun(x, q), QueueLeft
<1>2. SignalsInv(cond, tasks)'
    BY <1>1 DEF SignalsInv, SignalOK, cs
<1>3. StartsInv(tasks)' /\ ExpiresInv(tasks)' /\ ArmedInv(tasks)'
    BY <1>1 DEF StartsInv, StartOK, WasBlocked, ExpiresInv, ArmedInv, Awaited
<1>4. /\ q \in Seq(Task) /\ Once(q) /\ x.cond \in Conds
      /\ \A y \in Range(q) : y.time >= now
    BY DEF SignalRun
<1>5. TypeOK' /\ Once(tasks)'
  <2>1. \A k \in DOMAIN q : q[k].time >= now
      BY <1>4, InQueue
  <2>2. Once(tasks)'
      BY <1>4 DEF Once, Same
  <2> QED BY <2>1, <2>2, <1>4 DEF IInv, TypeOK, WasBlocked
<1>6. \A d \in Conds : CondOK(cond'[d]) /\ (cond'[d].thread # NoThread => WakeOK(cond'[d]))
    BY <1>4 DEF IInv, CondsInv, WakesInv
<1>7. \A d \in Conds : cond'[d].thread = cond[d].thread
    OBVIOUS
<1>8. CondsInv(cond)'
  <2>1. \A d \in Conds : CondOK(cond[d])'
      BY <1>6 DEF CondOK, DeadOK, LiveOK, WasBlocked
  <2>2. OnePerThread(cond)'
      BY <1>7 DEF IInv, CondsInv, OnePerThread
  <2> QED BY <2>1, <2>2 DEF CondsInv
<1>9. WakesInv(cond)'
    BY <1>6 DEF WakesInv, WakeOK
<1>10. BlockedInv'
    BY <1>7 DEF IInv, BlockedInv, WasBlocked, CallOK
<1>11. ProcInv' /\ TimersInv' /\ AssertionsHold' /\ TimeoutsInv'
    BY DEF IInv, ProcInv, TimersInv, AssertionsHold, TimeoutsInv, TimeoutOK, WasBlocked
<1> QED BY <1>2, <1>3, <1>5, <1>8, <1>9, <1>10, <1>11 DEF IInv

\* The condition of an executed signal task: free if it has no thread, else as
\* before without the task.
LEMMA SignalCond ==
    ASSUME IInv, NEW x, NEW q, SignalRun(x, q)
    PROVE  LET old == cond[x.cond]
               u == Unref([old EXCEPT !.pending = FALSE], 1)
           IN  /\ old \in Cond /\ old.pending
               /\ [old EXCEPT !.pending = FALSE].thread = old.thread
               /\ [old EXCEPT !.pending = FALSE].trigger = old.trigger
               /\ old.thread = NoThread => u = Free
               /\ old.thread # NoThread =>
                     /\ u \in Cond /\ u.thread = old.thread /\ u.trigger = old.trigger
                     /\ u.pending = FALSE /\ LiveOK(u) /\ LiveOK(old)
                     /\ old.thread \in threads /\ IsRunning
<1> DEFINE old == cond[x.cond]
           u == Unref([old EXCEPT !.pending = FALSE], 1)
<1>1. x.cond \in Conds /\ old.pending /\ cond \in [Conds -> Cond]
    BY Types DEF SignalRun, SignalOK
<1>2. old \in Cond /\ CondOK(old)
    BY <1>1 DEF IInv, CondsInv
<1> HIDE DEF old
<1>3. /\ [old EXCEPT !.pending = FALSE].thread = old.thread
      /\ [old EXCEPT !.pending = FALSE].trigger = old.trigger
    BY <1>2 DEF Cond
<1>4. old.refs \in Nat
    BY <1>2 DEF Cond
<1>5. ASSUME old.thread = NoThread PROVE u = Free
  <2>1. DeadOK(old) /\ old # Free
      BY <1>1, <1>2, <1>5 DEF CondOK, Free
  <2>2. old.refs = 1 /\ old.refs > 0
      BY <2>1 DEF DeadOK
  <2> QED BY <2>2, <1>2, SignalTaskDone
<1>6. ASSUME old.thread # NoThread
      PROVE  /\ u \in Cond /\ u.thread = old.thread /\ u.trigger = old.trigger
             /\ u.pending = FALSE /\ LiveOK(u) /\ LiveOK(old)
             /\ old.thread \in threads /\ IsRunning
  <2>1. LiveOK(old)
      BY <1>2, <1>6 DEF CondOK
  <2>2. /\ old.refs = 1 + One(old.onTimer) + One(old.onTrigger) + 1
        /\ One(old.onTimer) \in Nat /\ One(old.onTrigger) \in Nat
      BY <2>1, <1>1 DEF LiveOK, One
  <2>3. old.refs > 1 /\ old.refs > 0
      BY <2>2
  <2> DEFINE r == [old EXCEPT !.pending = FALSE, !.refs = old.refs - 1]
  <2>4. u = r
      BY <2>3, <1>2, SignalTaskDone
  <2>5. /\ r \in Cond /\ r.thread = old.thread /\ r.of = old.of /\ r.trigger = old.trigger
        /\ r.timed = old.timed /\ r.onTimer = old.onTimer /\ r.onTrigger = old.onTrigger
        /\ r.woken = old.woken /\ r.pending = FALSE /\ r.refs = old.refs - 1
      BY <2>3, <1>2, SignalSpent
  <2> HIDE DEF r, u
  <2>6. One(r.pending) = 0
      BY <2>5 DEF One
  <2>7. r.refs = 1 + One(r.onTimer) + One(r.onTrigger) + One(r.pending)
      BY <2>2, <2>5, <2>6
  <2>8. LiveOK(r)
      BY <2>1, <2>5, <2>7 DEF LiveOK
  <2>9. old.thread \in Threads
      BY <1>2, <1>6 DEF Cond
  <2>10. old.thread \in threads
      BY <2>1, <2>9 DEF LiveOK, IInv, TypeOK
  <2>11. IsRunning
      BY <2>10 DEF IsRunning, IInv, ProcInv
  <2> QED BY <2>1, <2>4, <2>5, <2>8, <2>10, <2>11
<1> HIDE DEF u
<1> QED BY <1>1, <1>2, <1>3, <1>5, <1>6 DEF old, u

\* The state in which a signal task continues a thread.
LEMMA SignalReady ==
    ASSUME IInv, NEW x, NEW q, SignalRun(x, q), NEW t, t = cond[x.cond].thread,
           t # NoThread, NEW u, u \in Cond, u.thread = t, LiveOK(u), u.pending = FALSE,
           NEW done, done = [cond EXCEPT ![x.cond] = u]
    PROVE  t \in Threads /\ Ready(t, Cleanup(done, {t}), q)
<1> DEFINE c == x.cond
           cs == Cleanup(done, {t})
<1>1. /\ c \in Conds /\ cond \in [Conds -> Cond] /\ t \in Threads
      /\ threads \subseteq Threads
    BY Types DEF SignalRun, Cond
<1>2. LiveOK(cond[c]) /\ CondsInv(cond)
    BY <1>1 DEF IInv, CondsInv, CondOK
<1>3. t \in threads /\ WasBlocked(t)
    BY <1>1, <1>2 DEF LiveOK, IInv, TypeOK
<1>4. ~exiting
    BY <1>3 DEF IInv, ProcInv
<1>5. Unref(Cancel(u), 1) = Free
  <2>1. u.refs = 1 + One(u.onTimer) + One(u.onTrigger) + One(u.pending)
      BY DEF LiveOK
  <2>2. ~u.pending
      OBVIOUS
  <2> QED BY <2>1, <2>2, CancelledCond
<1>6. cs[c] = Free
  <2>1. done[c] = u
      BY <1>1
  <2> QED BY <2>1, <1>1, <1>5 DEF Cleanup
<1>7. ASSUME NEW d \in Conds, d # c PROVE cs[d] = cond[d] /\ cond[d].thread # t
  <2>1. cond[d].thread # t
      BY <1>1, <1>2, <1>7 DEF CondsInv, OnePerThread
  <2>2. done[d] = cond[d]
      BY <1>1, <1>7
  <2> QED BY <2>1, <2>2 DEF Cleanup
<1>8. cs = [d \in Conds |-> cs[d]]
    BY DEF Cleanup
<1> HIDE DEF cs
<1>9. Free \in Cond /\ Free.thread = NoThread /\ Free.pending = FALSE
    BY BlockedCallsAssumption DEF Free, Cond, Triggers
<1>10. cs \in [Conds -> Cond]
    BY <1>1, <1>6, <1>7, <1>8, <1>9
<1>11. CondsInv(cs)
  <2>1. ASSUME NEW d \in Conds PROVE CondOK(cs[d])
      BY <1>2, <1>6, <1>7, <1>9 DEF CondsInv, CondOK, DeadOK
  <2>2. OnePerThread(cs)
      BY <1>2, <1>6, <1>7, <1>9 DEF CondsInv, OnePerThread
  <2> QED BY <2>1, <2>2 DEF CondsInv
<1>12. WakesInv(cs)
    BY <1>6, <1>7, <1>9 DEF IInv, WakesInv
<1>13. /\ SignalsInv(cs, q) /\ StartsInv(q) /\ ExpiresInv(q) /\ ArmedInv(q)
  <2>1. cs[x.cond].pending = FALSE /\ \A d \in Conds : d # x.cond => cs[d] = cond[d]
      BY <1>6, <1>7, <1>9
  <2> QED BY ONLY <2>1, IInv, SignalRun(x, q), QueueLeft
<1>14. \A d \in Conds : cs[d].thread # t
    BY <1>6, <1>7, <1>9
<1>15. ASSUME NEW v \in Threads, WasBlocked(v), v # t PROVE \E d \in Conds : cs[d].thread = v
  <2>1. PICK d \in Conds : cond[d].thread = v
      BY <1>15 DEF IInv, BlockedInv
  <2> QED BY <2>1, <1>7, <1>15
<1>16. /\ q \in Seq(Task) /\ Once(q) /\ running = NoThread /\ crash = ""
       /\ \A y \in Range(q) : y.time >= now
       /\ Range(q) \subseteq Range(tasks)
    BY DEF SignalRun
<1>17. \A y \in Range(q) : y.do = "start" => y.thread # t
  <2>1. t \in spawned
      BY <1>3 DEF IInv, TypeOK
  <2> QED BY <2>1, <1>3, <1>16 DEF IInv, StartsInv, StartOK
<1>18. Ready(t, cs, q)
    BY <1>3, <1>4, <1>10, <1>11, <1>12, <1>13, <1>14, <1>15, <1>16, <1>17 DEF Ready
<1> QED BY <1>1, <1>18 DEF cs

\* The call whose thread is continued was waiting for what the signal says.
LEMMA SignalHandled ==
    ASSUME IInv, NEW x, NEW q, SignalRun(x, q), NEW t \in Threads, t = cond[x.cond].thread,
           x.wasTimeout \/ cond[x.cond].trigger \in Futexes
              \/ (cond[x.cond].trigger = File /\ readable),
           LiveOK(cond[x.cond])
    PROVE  blocked[t] \in Syscall /\ Handled(t, blocked[t])
<1> DEFINE c == blocked[t]
<1>1. c \in Syscall /\ NoThread \notin Threads
    BY Types
<1>2. WasBlocked(t) /\ c.on = cond[x.cond].trigger /\ (c.on \in Futexes => c.on \in table)
    BY DEF LiveOK
<1>3. CallOK(c)
    BY <1>2 DEF IInv, BlockedInv
<1>4. ASSUME c.op = "nanosleep" PROVE timer[t].count > 0
  <2>1. c.on = NoFutex
      BY <1>3, <1>4 DEF CallOK
  <2>2. x.wasTimeout
      BY <2>1, <1>2, BlockedCallsAssumption
  <2>3. SignalOK(cond, x)
      BY DEF SignalRun
  <2> QED BY <2>2, <2>3, <1>1 DEF SignalOK
<1> QED BY <1>1, <1>2, <1>3, <1>4 DEF Handled

\* _syscallcondition_signal
LEMMA RunSignalInv ==
    ASSUME IInv, RunSignal PROVE IInv'
<1> DEFINE x == Head(tasks)
           q == Tail(tasks)
           old == cond[x.cond]
           cd == [old EXCEPT !.pending = FALSE]
           u == Unref(cd, 1)
           done == [cond EXCEPT ![x.cond] = u]
           deliver == x.wasTimeout \/ StatusIsValid(cd)
<1>1. /\ MayRun("signal") /\ early' = FALSE
      /\ UNCHANGED <<now, threads, spawned, exiting, calls, arrivals>>
      /\ \/ /\ deliver => cd.thread # NoThread /\ ~IsRunning
            /\ cond' = done /\ tasks' = q
            /\ UNCHANGED <<running, blocked, ret, timer, table, readable, crash>>
         \/ Panic("process is NULL")
         \/ /\ deliver /\ cd.thread # NoThread
            /\ MakeSyscall(cd.thread, blocked[cd.thread], Cleanup(done, {cd.thread}), q)
    BY DEF RunSignal
<1>2. SignalRun(x, q)
    BY <1>1, Signalled
<1>3. /\ x.cond \in Conds /\ x.wasTimeout \in BOOLEAN /\ SignalOK(cond, x)
      /\ cond \in [Conds -> Cond]
    BY <1>2, Types DEF SignalRun
<1> HIDE DEF x, q
<1>4. /\ old \in Cond /\ old.pending /\ cd.thread = old.thread /\ cd.trigger = old.trigger
      /\ old.thread = NoThread => u = Free
      /\ old.thread # NoThread =>
            /\ u \in Cond /\ u.thread = old.thread /\ u.trigger = old.trigger
            /\ u.pending = FALSE /\ LiveOK(u) /\ LiveOK(old)
            /\ old.thread \in threads /\ IsRunning
    BY <1>2, SignalCond
<1> HIDE DEF u, cd
<1>5. deliver = (x.wasTimeout \/ old.trigger \in Futexes \/ (old.trigger = File /\ readable))
    BY <1>4 DEF StatusIsValid
<1> HIDE DEF deliver
<1>6. CASE Panic("process is NULL")
  <2>1. AssertionsHold'
      BY <1>6 DEF Panic, AssertionsHold
  <2>2. calls' \in 0 .. MaxCalls
      BY <1>1 DEF IInv, TypeOK
  <2> QED BY <2>1, <2>2, <1>1, <1>6, UnchangedInv DEF Panic
<1>7. CASE /\ deliver => cd.thread # NoThread /\ ~IsRunning
           /\ cond' = done /\ tasks' = q
           /\ UNCHANGED <<running, blocked, ret, timer, table, readable, crash>>
  <2>1. /\ Free \in Cond /\ Free.thread = NoThread /\ Free.pending = FALSE
      BY BlockedCallsAssumption DEF Free, Cond, Triggers
  <2>2. u \in Cond /\ u.pending = FALSE /\ u.thread = old.thread
      BY <2>1, <1>4
  <2>3. CondOK(u)
      BY <2>1, <1>4 DEF CondOK, DeadOK
  <2>4. u.thread # NoThread => WakeOK(u)
    <3> SUFFICES ASSUME old.thread # NoThread PROVE WakeOK(u)
        BY <2>2
    <3>1. ~deliver /\ u.trigger = old.trigger /\ u.pending = FALSE
        BY <1>4, <1>7
    <3>2. ~x.wasTimeout /\ old.trigger \notin Futexes /\ ~(old.trigger = File /\ readable)
        BY <3>1, <1>5
    <3>3. old.trigger # NoFutex /\ old.trigger \in Triggers
        BY <3>2, <1>3, <1>4 DEF SignalOK, Cond
    <3>4. old.trigger = File /\ ~readable
        BY <3>2, <3>3 DEF Triggers
    <3> QED BY <3>1, <3>2, <3>4 DEF WakeOK
  <2>5. /\ cond' \in [Conds -> Cond] /\ cond'[x.cond] = u
        /\ \A d \in Conds : d # x.cond => cond'[d] = cond[d]
      BY <2>2, <1>3, <1>7
  <2>6. /\ cond'[x.cond].pending = FALSE /\ cond'[x.cond].thread = cond[x.cond].thread
        /\ CondOK(cond'[x.cond]) /\ (cond'[x.cond].thread # NoThread => WakeOK(cond'[x.cond]))
      BY <2>2, <2>3, <2>4, <2>5
  <2>7. /\ early' = FALSE /\ tasks' = q
        /\ UNCHANGED <<now, threads, spawned, exiting, running, blocked, ret, timer, table,
                       readable, calls, arrivals, crash>>
      BY <1>1, <1>7
  <2> QED BY ONLY IInv, <2>5, <2>6, <2>7, <1>2, SignalDropped
<1>8. CASE /\ deliver /\ cd.thread # NoThread
           /\ MakeSyscall(cd.thread, blocked[cd.thread], Cleanup(done, {cd.thread}), q)
  <2> DEFINE t == old.thread
             cs == Cleanup(done, {t})
  <2>1. /\ t # NoThread /\ MakeSyscall(t, blocked[t], cs, q)
        /\ u \in Cond /\ u.thread = t /\ u.pending = FALSE /\ LiveOK(u) /\ LiveOK(old)
      BY <1>4, <1>8
  <2>2. t \in Threads /\ Ready(t, cs, q)
      BY <2>1, <1>2, SignalReady
  <2>3. blocked[t] \in Syscall /\ Handled(t, blocked[t])
      BY <2>1, <2>2, <1>2, <1>5, <1>8, SignalHandled
  <2>4. Around
    <3>1. calls' \in 0 .. MaxCalls /\ early' \in BOOLEAN
        BY <1>1 DEF IInv, TypeOK
    <3> QED BY <3>1, <1>1 DEF Around
  <2> HIDE DEF t, cs
  <2> QED BY <2>1, <2>2, <2>3, <2>4, MakeSyscallInv
<1> QED BY <1>1, <1>6, <1>7, <1>8

\* The initial state: the start task, the stop task, and nothing else.
LEMMA InitInv == Init => IInv
<1> SUFFICES ASSUME Init PROVE IInv
    OBVIOUS
<1>0. /\ now = 0 /\ early = TRUE /\ threads = {} /\ spawned = {} /\ exiting = FALSE
      /\ running = NoThread /\ blocked = [t \in Threads |-> NoCall]
      /\ ret = [t \in Threads |-> "none"] /\ timer = [t \in Threads |-> NewTimer]
      /\ cond = [c \in Conds |-> Free] /\ table = {} /\ readable = FALSE
      /\ calls = 0 /\ arrivals = 0 /\ crash = ""
    BY DEF Init
<1>n. now = 0 /\ calls = 0 /\ arrivals = 0
    BY <1>0
<1>t. \A t \in Threads : timer[t] = NewTimer
    BY <1>0
<1>1. NoCall \in Syscall /\ Free \in Cond /\ NewTimer \in TimerRecord
  <2>1. NoCall \in Syscall
      BY BlockedCallsAssumption DEF NoCall, Syscall, Triggers
  <2>2. Free \in Cond
      BY BlockedCallsAssumption DEF Free, Cond, Triggers
  <2>3. NewTimer \in TimerRecord
      BY DEF NewTimer, TimerRecord
  <2> QED BY <2>1, <2>2, <2>3
<1> DEFINE s == StartTask(Main, 1)
           e == StopTask(StopTime)
<1>2. /\ s \in Task /\ s.do = "start" /\ s.thread = Main /\ s.time = 1
      /\ e \in Task /\ e.do = "stop" /\ e.time = StopTime
  <2>1. Main \in Threads /\ StopTime \in Nat /\ 1 \in Nat
      BY BlockedCallsAssumption
  <2> QED BY ONLY <2>1, TaskKinds
<1> HIDE DEF s, e
<1>3. /\ <<s>> \in Seq(Task) /\ Range(<<s>>) = {s} /\ Once(<<s>>)
      /\ <<e>> \in Seq(Task) /\ Range(<<e>>) = {e} /\ Once(<<e>>)
    BY <1>2, SingleTask
<1>4. tasks \in Seq(Task) /\ Once(tasks) /\ Range(tasks) \subseteq {s, e}
  <2>1. CASE StopTime = 0
      BY <2>1, <1>3 DEF Init, s
  <2>2. CASE StopTime # 0
    <3> DEFINE p == <<s>>
               n == <<e>>
               r == Enqueue(p, n, StopTime)
    <3>1. tasks = r
        BY <2>2 DEF Init, s, e
    <3>2. \A y \in Range(p), z \in Range(n) : ~Same(y, z)
        BY <1>2, <1>3 DEF Same
    <3>3. p \in Seq(Task) /\ n \in Seq(Task) /\ Once(p) /\ Once(n)
        BY <1>3
    <3> HIDE DEF p, n
    <3>4. r \in Seq(Task) /\ Range(r) = Range(p) \cup Range(n)
        BY <3>3, EnqueueRange
    <3>5. Once(r)
        BY <3>2, <3>3, EnqueueOnce
    <3> QED BY <3>1, <3>4, <3>5, <1>3 DEF p, n
  <2> QED BY <2>1, <2>2
<1>5. \A x \in Range(tasks) : x.do \notin {"signal", "expire"} /\ x.time \in Nat
  <2>1. StopTime \in Nat
      BY BlockedCallsAssumption
  <2> QED BY <2>1, <1>2, <1>4
<1>6. \A k \in DOMAIN tasks : tasks[k].time >= now
  <2>1. \A x \in Range(tasks) : x.time >= now
      BY <1>n, <1>5
  <2> QED BY <2>1, <1>4, InQueue
<1>7. TypeOK
  <2>1. /\ now \in 0 .. EndTime /\ calls \in 0 .. MaxCalls /\ arrivals \in 0 .. MaxArrivals
      BY <1>n, BlockedCallsAssumption
  <2>2. early \in BOOLEAN /\ exiting \in BOOLEAN /\ readable \in BOOLEAN
      BY <1>0
  <2>3. /\ threads \subseteq spawned /\ spawned \subseteq Threads
        /\ running \in threads \cup {NoThread} /\ table \subseteq Futexes
      BY <1>0
  <2>4. /\ blocked \in [Threads -> Syscall]
        /\ timer \in [Threads -> TimerRecord] /\ cond \in [Conds -> Cond]
      BY <1>0, <1>1
  <2>5. \A t \in Threads : ~WasBlocked(t)
      BY <1>0 DEF WasBlocked
  <2>6. ret \in [Threads -> {"none", "woken", "timedout"}]
      BY <1>0
  <2> QED BY <2>1, <2>2, <2>3, <2>4, <2>5, <2>6, <1>4, <1>6 DEF TypeOK
<1>8. CondsInv(cond)
    BY <1>0, <1>1 DEF CondsInv, CondOK, DeadOK, OnePerThread, Free
<1>9. WakesInv(cond)
    BY <1>0 DEF WakesInv, Free
<1>10. SignalsInv(cond, tasks)
    BY <1>0, <1>5 DEF SignalsInv, Free
<1>11. StartsInv(tasks)
    BY <1>0, <1>2, <1>4 DEF StartsInv, StartOK
<1>12. \A t \in Threads : Quiet(timer[t]) /\ TimerOK(timer[t])
  <2>1. /\ NewTimer.next = 0 /\ NewTimer.interval = 0 /\ NewTimer.count = 0
        /\ NewTimer.nextId = 0 /\ NewTimer.minId = 0
      BY DEF NewTimer
  <2>2. NewTimer.readable = (NewTimer.count > 0)
    <3>1. NewTimer.readable = FALSE
        BY DEF NewTimer
    <3>2. (NewTimer.count > 0) = FALSE
        BY <2>1
    <3> QED BY <3>1, <3>2
  <2>3. Quiet(NewTimer) /\ TimerOK(NewTimer)
      BY <2>1, <2>2 DEF Quiet, TimerOK, Armed
  <2> QED BY <2>3, <1>t
<1>13. ExpiresInv(tasks) /\ ArmedInv(tasks)
    BY <1>5, <1>12 DEF ExpiresInv, ArmedInv, Quiet
<1>14. TimersInv /\ TimeoutsInv /\ BlockedInv
    BY <1>0, <1>12 DEF TimersInv, TimeoutsInv, BlockedInv, WasBlocked
<1>15. ProcInv /\ AssertionsHold
    BY <1>0 DEF ProcInv, AssertionsHold
<1> QED BY <1>4, <1>7, <1>8, <1>9, <1>10, <1>11, <1>13, <1>14, <1>15 DEF IInv

\* No step leaves the invariant.
LEMMA StepInv == IInv /\ [Next]_vars => IInv'
<1> SUFFICES ASSUME IInv, [Next]_vars PROVE IInv'
    OBVIOUS
<1>1. ASSUME NEW t \in Threads, Plugin(t) PROVE IInv'
    BY <1>1, CallInv, FutexWakeInv, CloneInv, ExitThreadInv, ExitGroupInv DEF Plugin
<1>2. CASE RunTask
    BY <1>2, RunStartInv, RunStopInv, RunExpireInv, RunSignalInv DEF RunTask
<1>3. CASE Arrive
    BY <1>3, ArriveInv
<1>4. CASE Tick
    BY <1>4, TickInv
<1>5. CASE UNCHANGED vars
  <2>1. UNCHANGED <<now, early, tasks, threads, spawned, exiting, running, blocked, ret,
                    timer, cond, table, readable, calls, arrivals, crash>>
      BY <1>5 DEF vars
  <2>2. early' \in BOOLEAN /\ calls' \in 0 .. MaxCalls /\ AssertionsHold'
      BY <2>1 DEF IInv, TypeOK, AssertionsHold
  <2> QED BY <2>1, <2>2, UnchangedInv
<1> QED BY <1>1, <1>2, <1>3, <1>4, <1>5 DEF Next, Over

\* The inductive invariant holds in every reachable state.
THEOREM Invariance == Spec => []IInv
    BY InitInv, StepInv, PTL DEF Spec
-----------------------------------------------------------------------------
(***************************************************************************)
(* The theorems                                                            *)
(***************************************************************************)

\* The signal task of a condition is counted once.
LEMMA SignalCount ==
    ASSUME IInv, NEW c \in Conds
    PROVE  Cardinality(SignalTasks(c)) = One(cond[c].pending)
<1>1. Once(tasks) /\ SignalsInv(cond, tasks)
    BY DEF IInv
<1>2. CASE ~cond[c].pending
  <2>1. \A k \in DOMAIN tasks : ~(tasks[k].do = "signal" /\ tasks[k].cond = c)
      BY <1>1, <1>2 DEF SignalsInv, SignalOK, Range
  <2>2. SignalTasks(c) = {}
      BY <2>1 DEF SignalTasks
  <2> QED BY <2>2, <1>2, FS_EmptySet DEF One
<1>3. CASE cond[c].pending
  <2>1. PICK x \in Range(tasks) : x.do = "signal" /\ x.cond = c
      BY <1>1, <1>3 DEF SignalsInv
  <2>2. PICK k \in DOMAIN tasks : tasks[k] = x
      BY DEF Range
  <2>3. \A j \in DOMAIN tasks : tasks[j].do = "signal" /\ tasks[j].cond = c => j = k
      BY <2>1, <2>2, <1>1 DEF Once, Same
  <2>4. SignalTasks(c) = {k}
      BY <2>1, <2>2, <2>3 DEF SignalTasks
  <2>5. Cardinality(SignalTasks(c)) = 1
      BY <2>4, FS_Singleton
  <2> QED BY <2>5, <1>3 DEF One
<1> QED BY <1>2, <1>3

LEMMA InvConds == IInv => CondsExact
<1> SUFFICES ASSUME IInv PROVE CondsExact
    OBVIOUS
<1>1. OneSignalTask
    BY SignalCount DEF OneSignalTask, One
<1>2. ASSUME NEW c \in Conds
      PROVE  cond[c].refs = (IF Live(c) THEN 1 ELSE 0) + Listeners(cond[c])
                            + Cardinality(SignalTasks(c))
  <2>1. cond[c] \in Cond /\ CondOK(cond[c])
      BY Types DEF IInv, CondsInv
  <2>2. Cardinality(SignalTasks(c)) = One(cond[c].pending)
      BY SignalCount
  <2>3. Listeners(cond[c]) = One(cond[c].onTimer) + One(cond[c].onTrigger)
      BY DEF Listeners, One
  <2>4. /\ One(cond[c].onTimer) \in Nat /\ One(cond[c].onTrigger) \in Nat
        /\ One(cond[c].pending) \in Nat
      BY DEF One
  <2>5. CASE cond[c].thread # NoThread
    <3>1. cond[c].refs = 1 + One(cond[c].onTimer) + One(cond[c].onTrigger) + One(cond[c].pending)
        BY <2>1, <2>5 DEF CondOK, LiveOK
    <3>2. (IF Live(c) THEN 1 ELSE 0) = 1
        BY <2>5 DEF Live
    <3> QED BY <3>1, <3>2, <2>2, <2>3, <2>4
  <2>6. CASE cond[c].thread = NoThread
    <3>1. (IF Live(c) THEN 1 ELSE 0) = 0
        BY <2>6 DEF Live
    <3>2. ~cond[c].onTimer /\ ~cond[c].onTrigger
        BY <2>1, <2>6 DEF CondOK, DeadOK, Free
    <3>3. One(cond[c].onTimer) = 0 /\ One(cond[c].onTrigger) = 0
        BY <3>2 DEF One
    <3>4. cond[c].refs = One(cond[c].pending)
        BY <2>1, <2>6 DEF CondOK, DeadOK, Free, One
    <3> QED BY <3>1, <3>3, <3>4, <2>2, <2>3, <2>4
  <2> QED BY <2>5, <2>6
<1>3. CondRefsExact
    BY <1>2 DEF CondRefsExact
<1> QED BY <1>1, <1>3 DEF IInv, CondsExact

\* The conditions of syscall_condition.c are counted, signalled once and
\* never missed by the assertions of their handlers, for any number of
\* threads, futexes and calls.
THEOREM CondsAlwaysExact == Spec => []CondsExact
    BY Invariance, InvConds, PTL

LEMMA InvWake == IInv => NoMissedWake
<1> SUFFICES ASSUME IInv PROVE NoMissedWake
    OBVIOUS
<1>1. \A t \in Threads : WasBlocked(t) => \E c \in Conds : cond[c].thread = t
    BY DEF IInv, BlockedInv
<1>2. ASSUME NEW c \in Conds, Live(c), ~cond[c].pending
      PROVE  /\ cond[c].trigger = File => ~readable
             /\ cond[c].trigger \in Futexes => cond[c].trigger \in table /\ ~cond[c].woken
             /\ cond[c].timed /\ cond[c].trigger # File => timer[cond[c].of].count = 0
  <2>1. LiveOK(cond[c]) /\ WakeOK(cond[c])
      BY <1>2 DEF IInv, CondsInv, CondOK, WakesInv, Live
  <2> QED BY <2>1, <1>2 DEF LiveOK, WakeOK
<1> QED BY <1>1, <1>2 DEF NoMissedWake

\* No blocked thread is forgotten: as long as no signal is on its way to it,
\* what its call waits for has not happened.
THEOREM WakeNeverMissed == Spec => []NoMissedWake
    BY Invariance, InvWake, PTL

LEMMA InvTimeouts == IInv => TimeoutsExact
<1> SUFFICES ASSUME IInv PROVE TimeoutsExact
    OBVIOUS
<1>1. NotOverdue
    BY DEF IInv, TimeoutsInv, TimeoutOK, NotOverdue
<1>2. Once(tasks) /\ ExpiresInv(tasks) /\ ArmedInv(tasks) /\ tasks \in Seq(Task)
    BY Types DEF IInv
<1>3. ASSUME NEW t \in Threads, NEW k \in LiveExpireTasks(t)
      PROVE  /\ k \in DOMAIN tasks /\ tasks[k].do = "expire" /\ tasks[k].thread = t
             /\ Armed(timer[t]) /\ tasks[k].id \in Nat
             /\ tasks[k].id + 1 = timer[t].nextId /\ tasks[k].time <= timer[t].next
  <2>1. /\ k \in DOMAIN tasks /\ tasks[k].do = "expire" /\ tasks[k].thread = t
        /\ Valid(timer[t], tasks[k])
      BY <1>3 DEF LiveExpireTasks
  <2>2. tasks[k] \in Range(tasks)
      BY <2>1 DEF Range
  <2>3. ExpireOK(timer[t], tasks[k])
      BY <2>1, <2>2, <1>2 DEF ExpiresInv
  <2>4. tasks[k].id \in Nat
      BY <2>1, <2>2, <1>2, InQueue, TaskFields
  <2> QED BY <2>1, <2>3, <2>4 DEF ExpireOK
<1>4. ASSUME NEW t \in threads, Armed(timer[t])
      PROVE  /\ WasBlocked(t) /\ blocked[t].timed /\ timer[t].next = blocked[t].due
             /\ Cardinality(LiveExpireTasks(t)) = 1
             /\ \A k \in LiveExpireTasks(t) : tasks[k].time <= timer[t].next
  <2>1. t \in Threads
      BY Types
  <2>2. WasBlocked(t)
      BY <2>1, <1>4 DEF IInv, TimeoutsInv, Quiet
  <2>3. blocked[t].timed /\ timer[t].next = blocked[t].due
      BY <2>1, <2>2, <1>4 DEF IInv, TimeoutsInv, TimeoutOK
  <2>4. PICK x \in Range(tasks) : x.do = "expire" /\ x.thread = t /\ Valid(timer[t], x)
      BY <2>1, <1>2, <1>4 DEF ArmedInv, Awaited
  <2>5. PICK k \in DOMAIN tasks : tasks[k] = x
      BY DEF Range
  <2>6. k \in LiveExpireTasks(t)
      BY <2>4, <2>5 DEF LiveExpireTasks
  <2>7. ASSUME NEW j \in LiveExpireTasks(t) PROVE j = k
    <3>1. /\ tasks[j].id \in Nat /\ tasks[k].id \in Nat
          /\ tasks[j].id + 1 = timer[t].nextId /\ tasks[k].id + 1 = timer[t].nextId
        BY <2>1, <2>6, <1>3
    <3>2. tasks[j].id = tasks[k].id
        BY <3>1
    <3>3. Same(tasks[j], tasks[k]) /\ j \in DOMAIN tasks
        BY <3>2, <2>1, <2>6, <1>3 DEF Same
    <3> QED BY <3>3, <1>2 DEF Once
  <2>8. LiveExpireTasks(t) = {k}
      BY <2>6, <2>7
  <2>9. Cardinality(LiveExpireTasks(t)) = 1
      BY <2>8, FS_Singleton
  <2> QED BY <2>1, <2>2, <2>3, <2>9, <1>3
<1>5. ASSUME NEW t \in threads, ~Armed(timer[t])
      PROVE  /\ LiveExpireTasks(t) = {}
             /\ timer[t].count > 0 => WasBlocked(t) /\ blocked[t].due <= now
  <2>1. t \in Threads
      BY Types
  <2>2. LiveExpireTasks(t) = {}
      BY <2>1, <1>3, <1>5
  <2>3. ASSUME timer[t].count > 0 PROVE WasBlocked(t) /\ blocked[t].due <= now
    <3>1. ~Quiet(timer[t])
        BY <2>3 DEF Quiet
    <3>2. WasBlocked(t)
        BY <3>1, <2>1 DEF IInv, TimeoutsInv
    <3> QED BY <3>2, <2>1, <2>3 DEF IInv, TimeoutsInv, TimeoutOK
  <2> QED BY <2>2, <2>3
<1>6. TimeoutBelongsToCall
    BY <1>4, <1>5 DEF TimeoutBelongsToCall
<1> QED BY <1>1, <1>6 DEF TimeoutsExact

\* The timer that all calls of a thread share (timer.c) is that of the call it
\* is blocked in and has one expire task that counts, and it ends a sleep or a
\* futex wait with a timeout above zero in time.
THEOREM TimeoutsAlwaysExact == Spec => []TimeoutsExact
    BY Invariance, InvTimeouts, PTL

\* Why a blocked call of t returns.
Reason(t) ==
    \/ blocked[t].timed /\ blocked[t].due <= now /\ ret'[t] # "woken"
    \/ blocked[t].on = File /\ readable
    \/ ret'[t] = "woken" /\ \E c \in Conds : cond[c].thread = t /\ cond[c].woken

\* A call leaves its thread running or blocked, and none other.
LEMMA CallRuns ==
    ASSUME NEW t \in Threads, NEW c, NEW cs, NEW q, MakeSyscall(t, c, cs, q)
    PROVE  \/ running' = NoThread
           \/ UNCHANGED <<running, blocked>>
           \/ /\ running' = t
              /\ \/ c.op = "nanosleep" /\ Complete(t, cs, q, "none")
                 \/ c.op = "poll" /\ Complete(t, cs, q, "none")
                 \/ c.op = "read" /\ readable /\ Complete(t, cs, q, "none")
                 \/ /\ c.op \in {"wait", "wait_bitset"}
                    /\ Complete(t, cs, q, IF c.timed /\ timer[t].count > 0
                                          THEN "timedout" ELSE "woken")
<1>1. CASE c.op = "nanosleep" /\ Nanosleep(t, c, cs, q)
    BY <1>1 DEF Nanosleep, Block, Complete, Panic
<1>2. CASE c.op \in {"wait", "wait_bitset"} /\ FutexWait(t, c, cs, q)
    BY <1>2 DEF FutexWait, Block, Complete, Panic
<1>3. CASE c.op = "poll" /\ Poll(t, c, cs, q)
    BY <1>3 DEF Poll, Block, Complete
<1>4. CASE c.op = "read" /\ Read(t, c, cs, q)
    BY <1>4 DEF Read, Block, Complete
<1> QED BY <1>1, <1>2, <1>3, <1>4 DEF MakeSyscall

\* The timeout of a blocked call whose timer has expired is over.
LEMMA TimeIsOver ==
    ASSUME IInv, NEW t \in Threads, WasBlocked(t), timer[t].count > 0
    PROVE  blocked[t].timed /\ blocked[t].due <= now
    BY DEF IInv, TimeoutsInv, TimeoutOK

\* A call that returns was continued by the signal task of its condition.
LEMMA SignalReason ==
    ASSUME IInv, RunSignal, NEW t \in Threads, Returns(t)
    PROVE  Reason(t)
<1> DEFINE x == Head(tasks)
           q == Tail(tasks)
           old == cond[x.cond]
           cd == [old EXCEPT !.pending = FALSE]
           u == Unref(cd, 1)
           done == [cond EXCEPT ![x.cond] = u]
           deliver == x.wasTimeout \/ StatusIsValid(cd)
           s == cd.thread
           cs == Cleanup(done, {s})
           b == blocked[t]
<1>1. /\ MayRun("signal")
      /\ \/ UNCHANGED blocked
         \/ deliver /\ s # NoThread /\ MakeSyscall(s, blocked[s], cs, q)
    BY DEF RunSignal, Panic
<1>2. WasBlocked(t) /\ blocked'[t] = NoCall /\ running' = t /\ blocked'[t] # blocked[t]
    BY DEF Returns, WasBlocked
<1>3. deliver /\ s # NoThread /\ MakeSyscall(s, blocked[s], cs, q)
    BY <1>1, <1>2
<1>4. SignalRun(x, q) /\ NoThread \notin Threads
    BY <1>1, Signalled, Types
<1>5. x.cond \in Conds /\ SignalOK(cond, x) /\ running = NoThread
    BY <1>4 DEF SignalRun
<1>6. ret \in [Threads -> {"none", "woken", "timedout"}]
    BY DEF IInv, TypeOK
<1> HIDE DEF x, q
<1>7. /\ old \in Cond /\ old.pending /\ cd.thread = old.thread /\ cd.trigger = old.trigger
      /\ old.thread # NoThread => LiveOK(old)
    BY <1>4, SignalCond
<1>8. s = old.thread /\ s \in Threads /\ LiveOK(old) /\ WakeOK(old)
    BY <1>3, <1>5, <1>7 DEF Cond, IInv, WakesInv
<1>9. deliver => x.wasTimeout \/ old.trigger \in Futexes \/ (old.trigger = File /\ readable)
    BY <1>7 DEF StatusIsValid
<1> HIDE DEF cd, u, done, deliver, s, cs
<1>10. /\ s = t
       /\ \/ b.op = "nanosleep" /\ Complete(t, cs, q, "none")
          \/ b.op = "poll" /\ Complete(t, cs, q, "none")
          \/ b.op = "read" /\ readable /\ Complete(t, cs, q, "none")
          \/ /\ b.op \in {"wait", "wait_bitset"}
             /\ Complete(t, cs, q, IF b.timed /\ timer[t].count > 0
                                   THEN "timedout" ELSE "woken")
  <2>1. t # NoThread /\ running' # NoThread /\ ~UNCHANGED <<running, blocked>>
      BY <1>2, <1>4
  <2>2. /\ running' = s
        /\ \/ blocked[s].op = "nanosleep" /\ Complete(s, cs, q, "none")
           \/ blocked[s].op = "poll" /\ Complete(s, cs, q, "none")
           \/ blocked[s].op = "read" /\ readable /\ Complete(s, cs, q, "none")
           \/ /\ blocked[s].op \in {"wait", "wait_bitset"}
              /\ Complete(s, cs, q, IF blocked[s].timed /\ timer[s].count > 0
                                    THEN "timedout" ELSE "woken")
      BY <2>1, <1>3, <1>8, CallRuns
  <2> QED BY <2>2, <1>2
<1>11. old.thread = t /\ old.trigger = b.on /\ CallOK(b)
    BY <1>2, <1>8, <1>10 DEF LiveOK, IInv, BlockedInv
<1>12. x.wasTimeout => b.timed /\ b.due <= now
  <2>1. x.wasTimeout => timer[t].count > 0
      BY <1>4, <1>5, <1>11 DEF SignalOK
  <2> QED BY <2>1, <1>2, TimeIsOver
<1>13. CASE b.op = "nanosleep" /\ Complete(t, cs, q, "none")
  <2>1. b.on = NoFutex
      BY <1>11, <1>13 DEF CallOK
  <2>2. x.wasTimeout
      BY <2>1, <1>3, <1>9, <1>11, BlockedCallsAssumption
  <2>3. ret'[t] = "none"
      BY <1>6, <1>13 DEF Complete
  <2> QED BY <2>2, <2>3, <1>12 DEF Reason
<1>14. CASE b.op = "poll" /\ Complete(t, cs, q, "none")
  <2>1. b.on = File
      BY <1>11, <1>14 DEF CallOK
  <2>2. x.wasTimeout \/ readable
      BY <2>1, <1>3, <1>9, <1>11, BlockedCallsAssumption
  <2>3. ret'[t] = "none"
      BY <1>6, <1>14 DEF Complete
  <2> QED BY <2>1, <2>2, <2>3, <1>12 DEF Reason
<1>15. CASE b.op = "read" /\ readable /\ Complete(t, cs, q, "none")
    BY <1>11, <1>15 DEF CallOK, Reason
<1>16. CASE /\ b.op \in {"wait", "wait_bitset"}
            /\ Complete(t, cs, q, IF b.timed /\ timer[t].count > 0
                                  THEN "timedout" ELSE "woken")
  <2>1. b.on \in Futexes
      BY <1>11, <1>16 DEF CallOK
  <2>2. ret'[t] = IF b.timed /\ timer[t].count > 0 THEN "timedout" ELSE "woken"
      BY <1>6, <1>16 DEF Complete
  <2>3. CASE b.timed /\ timer[t].count > 0
      BY <2>2, <2>3, <1>2, TimeIsOver DEF Reason
  <2>4. CASE ~(b.timed /\ timer[t].count > 0)
    <3>1. ~(timer[t].count > 0)
        BY <2>4, <1>2, TimeIsOver
    <3>2. old.woken
        BY <3>1, <2>1, <1>7, <1>8, <1>11 DEF WakeOK
    <3>3. ret'[t] = "woken"
        BY <2>2, <2>4
    <3> QED BY <3>2, <3>3, <1>5, <1>11 DEF Reason
  <2> QED BY <2>3, <2>4
<1> QED BY <1>10, <1>13, <1>14, <1>15, <1>16

\* No other step makes a blocked call return.
LEMMA StepReason ==
    ASSUME IInv, [Next]_vars, NEW t \in Threads, Returns(t)
    PROVE  Reason(t)
<1>1. /\ WasBlocked(t) /\ running' = t /\ blocked'[t] # blocked[t]
      /\ running # t /\ t # NoThread
    BY Types DEF Returns, WasBlocked, IInv, TypeOK
<1>2. ASSUME NEW u \in Threads, Plugin(u) PROVE FALSE
  <2>1. ASSUME NEW c \in NewCalls, Call(u, c) PROVE FALSE
    <3>1. running = u /\ MakeSyscall(u, c, cond, tasks)
        BY <2>1 DEF Call, MayCall
    <3>2. running' = NoThread \/ UNCHANGED <<running, blocked>> \/ running' = u
        BY <3>1, CallRuns
    <3> QED BY <3>1, <3>2, <1>1
  <2>2. ASSUME NEW f \in Futexes, NEW n, FutexWake(u, f, n) PROVE FALSE
      BY <2>2, <1>1 DEF FutexWake
  <2>3. ASSUME NEW v \in Threads, Clone(u, v) PROVE FALSE
      BY <2>3, <1>1 DEF Clone
  <2>4. CASE ExitThread(u)
      BY <2>4, <1>1 DEF ExitThread
  <2>5. CASE ExitGroup(u)
      BY <2>5, <1>1 DEF ExitGroup, HandleProcessExit
  <2> QED BY <2>1, <2>2, <2>3, <2>4, <2>5, <1>2 DEF Plugin
<1>3. CASE RunSignal
    BY <1>3, SignalReason
<1>4. CASE RunStart
    BY <1>4, <1>1 DEF RunStart
<1>5. CASE RunStop
    BY <1>5, <1>1 DEF RunStop, HandleProcessExit
<1>6. CASE RunExpire
    BY <1>6, <1>1 DEF RunExpire
<1>7. CASE Arrive
    BY <1>7, <1>1 DEF Arrive
<1>8. CASE Tick
    BY <1>8, <1>1 DEF Tick
<1>9. CASE UNCHANGED vars
    BY <1>9, <1>1 DEF vars
<1> QED BY <1>2, <1>3, <1>4, <1>5, <1>6, <1>7, <1>8, <1>9 DEF Next, RunTask, Over

\* A call that blocked returns only for its reason: its timeout, data to read,
\* or the futex wake that counted its thread.
THEOREM ReturnsForAReason == Spec => ReasonToReturn
<1>1. IInv /\ [Next]_vars =>
         [\A t \in Threads : Returns(t) =>
             \/ blocked[t].timed /\ blocked[t].due <= now /\ ret'[t] # "woken"
             \/ blocked[t].on = File /\ readable
             \/ ret'[t] = "woken" /\ \E c \in Conds : cond[c].thread = t /\ cond[c].woken]_vars
    BY StepReason DEF Reason
<1> QED BY <1>1, Invariance, PTL DEF Spec, ReasonToReturn
=============================================================================
