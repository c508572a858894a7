----------------------- MODULE ChildPidWatcher_proofs -----------------------
(***************************************************************************)
(* Proofs about ChildPidWatcher, for every set of children and of client   *)
(* threads and every number of calls of watch: no exit is forgotten, and   *)
(* the watcher does what ExitNotifier promises.                            *)
(***************************************************************************)
EXTENDS ChildPidWatcher, TLAPS

Watched == {c[1] : c \in callbacks}

\* Between the two halves of watch the child has a pidfd already, and opened
\* says whether another callback had opened it.
TablesInv ==
    /\ epoll = pidfds
    /\ lock = None => pidfds = Watched
    /\ lock # None => /\ pidfds = Watched \cup {arg}
                      /\ opened <=> arg \notin Watched
                      /\ nextHandle <= MaxHandles

\* Only children that have exited are reported, and only drop sends Finish.
ReportsInv ==
    /\ readable \subseteq dead
    /\ events \subseteq dead
    /\ \A k \in DOMAIN commands :
          IF commands[k] = Finish THEN dropping ELSE commands[k] \in dead

\* drop waits for the lock and closes nothing before the thread has ended.
DropInv ==
    /\ lock # None => ~dropping
    /\ closed => dropping /\ tpc = "done"

\* A handle names one callback, and one that has run is not registered.
HandlesInv ==
    /\ \A c \in callbacks : c[2] < nextHandle
    /\ \A c \in ran : c[2] < nextHandle
    /\ callbacks \cap ran = {}

\* NoLostExit with the lock held too: it is not inductive without that case.
ExitsInv ==
    /\ tpc # "done" => \A p \in dead : p \in Watched => p \in readable \cup Executed
    /\ commands # <<>> => notified \/ tpc = "done"

\* The inductive invariant.
IInv == WatcherTypeOK /\ TablesInv /\ ReportsInv /\ DropInv /\ HandlesInv /\ ExitsInv

-----------------------------------------------------------------------------
\* The child of a callback.
LEMMA WatchedDef ==
    ASSUME NEW p
    PROVE  /\ p \in Watched <=> CallbacksOf(p) # {}
           /\ p \in Watched <=> \E c \in callbacks : c[1] = p
    BY DEF Watched, CallbacksOf

\* A command appended without a Finish before it is executed, and nothing that
\* was executed is lost; the commands executed are those of commands.
LEMMA AppendExecuted ==
    ASSUME WatcherTypeOK, NEW cmd \in Pids \cup {Finish}, commands' = Append(commands, cmd)
    PROVE  /\ commands' \in Seq(Pids \cup {Finish})
           /\ commands' # <<>>
           /\ \A k \in DOMAIN commands' :
                 commands'[k] = cmd \/ (k \in DOMAIN commands /\ commands'[k] = commands[k])
           /\ Executed \subseteq Executed'
           /\ cmd # Finish /\ ~Finishes => cmd \in Executed'
<1>1. /\ commands \in Seq(Pids \cup {Finish})
      /\ Len(commands') = Len(commands) + 1 /\ Len(commands) \in Nat
      /\ commands' \in Seq(Pids \cup {Finish})
      /\ DOMAIN commands = 1 .. Len(commands) /\ DOMAIN commands' = 1 .. Len(commands')
      /\ \A k \in 1 .. Len(commands) : commands'[k] = commands[k]
      /\ commands'[Len(commands) + 1] = cmd
    BY DEF WatcherTypeOK
<1>2. commands' # <<>>
    BY <1>1
<1>3. \A k \in DOMAIN commands' :
         commands'[k] = cmd \/ (k \in DOMAIN commands /\ commands'[k] = commands[k])
    BY <1>1
<1>4. Executed \subseteq Executed'
  <2> SUFFICES ASSUME NEW x \in Executed PROVE x \in Executed'
      OBVIOUS
  <2>1. PICK k \in DOMAIN commands : x = commands[k] /\ \A j \in 1 .. k : commands[j] # Finish
      BY DEF Executed
  <2>2. k \in DOMAIN commands' /\ x = commands'[k] /\ \A j \in 1 .. k : commands'[j] # Finish
      BY <1>1, <2>1
  <2> QED BY <2>2 DEF Executed
<1>5. ASSUME cmd # Finish, ~Finishes PROVE cmd \in Executed'
  <2>1. /\ Len(commands') \in DOMAIN commands' /\ commands'[Len(commands')] = cmd
        /\ \A j \in 1 .. Len(commands') : commands'[j] # Finish
      BY <1>1, <1>5 DEF Finishes
  <2> QED BY <2>1 DEF Executed
<1> QED BY <1>1, <1>2, <1>3, <1>4, <1>5

\* What is executed was sent for a child that has exited.
LEMMA ExecutedDead ==
    ASSUME WatcherTypeOK, ReportsInv
    PROVE  /\ Executed \subseteq dead
           /\ Executed \subseteq Pids
    BY DEF WatcherTypeOK, ReportsInv, Executed

-----------------------------------------------------------------------------
\* WatcherInit establishes the invariant.
LEMMA InitInv == WatcherInit => IInv
<1> SUFFICES ASSUME WatcherInit PROVE IInv
    OBVIOUS
<1> USE DEF WatcherInit
<1>1. Watched = {}
    BY DEF Watched
<1>2. WatcherTypeOK
  <2>1. /\ commands \in Seq(Pids \cup {Finish}) /\ tpc \in {"wait", "lock", "done"}
        /\ nextHandle \in 1 .. MaxHandles + 1
      BY WatcherAssumption
  <2>2. notified \in BOOLEAN /\ opened \in BOOLEAN /\ dropping \in BOOLEAN /\ closed \in BOOLEAN
      OBVIOUS
  <2> QED BY <2>1, <2>2 DEF WatcherTypeOK
<1>3. TablesInv
    BY <1>1 DEF TablesInv
<1>4. ReportsInv /\ DropInv /\ HandlesInv
    BY DEF ReportsInv, DropInv, HandlesInv
<1>5. ExitsInv
    BY <1>1 DEF ExitsInv
<1> QED BY <1>2, <1>3, <1>4, <1>5 DEF IInv

\* A child exits: epoll reports it if it is watched.
LEMMA ChildExitsInv ==
    ASSUME IInv, NEW p \in Pids, ChildExits(p)
    PROVE  IInv'
<1> USE DEF ChildExits, innerVars, IInv
<1>0. Watched' = Watched /\ Executed' = Executed
    BY DEF Watched, Executed
<1>1. WatcherTypeOK'
    BY DEF WatcherTypeOK
<1>2. TablesInv' /\ DropInv' /\ HandlesInv'
    BY <1>0 DEF TablesInv, DropInv, HandlesInv
<1>3. ReportsInv'
    BY DEF ReportsInv
<1>4. ExitsInv'
    BY <1>0 DEF ExitsInv, TablesInv
<1> QED BY <1>1, <1>2, <1>3, <1>4

\* watch up to epoll_ctl: the other clients are locked out.
LEMMA WatchOpenInv ==
    ASSUME IInv, NEW c \in Clients, NEW p \in Pids, WatchOpen(c, p)
    PROVE  IInv'
<1> USE DEF WatchOpen, IInv
<1>0. Watched' = Watched /\ Executed' = Executed
    BY DEF Watched, Executed
<1>1. WatcherTypeOK'
    BY DEF WatcherTypeOK
<1>2. TablesInv'
    BY <1>0, WatcherAssumption DEF TablesInv, WatcherTypeOK
<1>3. ReportsInv' /\ DropInv' /\ HandlesInv'
    BY DEF ReportsInv, DropInv, HandlesInv
<1>4. ExitsInv'
    BY <1>0 DEF ExitsInv
<1> QED BY <1>1, <1>2, <1>3, <1>4

\* The rest of watch.  A child that had exited before its pidfd was opened is
\* the case the second look at it is for.
LEMMA WatchRegisterInv ==
    ASSUME IInv, NEW c \in Clients, WatchRegister(c)
    PROVE  IInv'
<1> USE DEF WatchRegister, IInv
<1>0. /\ lock # None /\ ~dropping /\ ~Finishes /\ nextHandle \in Handles
      /\ arg \in Pids /\ arg # Finish
    BY WatcherAssumption DEF DropInv, ReportsInv, Finishes, TablesInv, WatcherTypeOK, Handles
<1>1. /\ commands' \in Seq(Pids \cup {Finish})
      /\ notified' \in BOOLEAN
      /\ Executed \subseteq Executed'
      /\ \A k \in DOMAIN commands' :
            (k \in DOMAIN commands /\ commands'[k] = commands[k])
            \/ (commands'[k] = arg /\ arg \in dead)
      /\ opened /\ arg \in dead => arg \in Executed'
      /\ commands' # <<>> => notified' \/ tpc = "done"
  <2>1. CASE opened /\ arg \in dead
      BY <2>1, <1>0, AppendExecuted DEF CheckZombie, SendCommand
  <2>2. CASE ~(opened /\ arg \in dead)
      BY <2>2 DEF CheckZombie, WatcherTypeOK, ExitsInv, Executed
  <2> QED BY <2>1, <2>2
<1>2. Watched' = Watched \cup {arg}
  <2>1. <<arg, nextHandle>>[1] = arg /\ callbacks' = callbacks \cup {<<arg, nextHandle>>}
      OBVIOUS
  <2> QED BY <2>1 DEF Watched
<1>3. WatcherTypeOK'
  <2>1. /\ lock' \in Clients \cup {None} /\ callbacks' \subseteq Pids \X Handles
        /\ nextHandle' \in 1 .. MaxHandles + 1
      BY <1>0, WatcherAssumption DEF WatcherTypeOK, Handles
  <2> QED BY <1>1, <2>1 DEF WatcherTypeOK
<1>4. TablesInv'
  <2>1. lock' = None /\ pidfds' = Watched \cup {arg} /\ epoll' = pidfds'
      BY <1>0 DEF TablesInv
  <2> QED BY <1>2, <2>1 DEF TablesInv
<1>5. ReportsInv'
    BY <1>0, <1>1 DEF ReportsInv
<1>6. DropInv'
    BY DEF DropInv
<1>7. HandlesInv'
  <2>1. \A d \in callbacks \cup ran : d[2] \in Nat /\ d[2] < nextHandle
      BY DEF HandlesInv, WatcherTypeOK, Handles
  <2>2. nextHandle \in Nat
      BY DEF WatcherTypeOK
  <2>3. <<arg, nextHandle>> \notin ran
      BY <2>1, <2>2
  <2> QED BY <2>1, <2>2, <2>3 DEF HandlesInv
<1>8. ExitsInv'
  <2> SUFFICES ASSUME tpc # "done", NEW q \in dead, q \in Watched'
               PROVE  q \in readable \cup Executed'
      BY <1>1 DEF ExitsInv
  <2>1. CASE q \in Watched
      BY <2>1, <1>1 DEF ExitsInv
  <2>2. CASE q = arg /\ q \notin Watched
      BY <2>2, <1>0, <1>1 DEF TablesInv
  <2> QED BY <2>1, <2>2, <1>2
<1> QED BY <1>3, <1>4, <1>5, <1>6, <1>7, <1>8

\* unwatch closes the pidfd with the last callback.
LEMMA UnwatchInv ==
    ASSUME IInv, NEW p \in Pids, NEW h \in Handles, Unwatch(p, h)
    PROVE  IInv'
<1> USE DEF Unwatch, IInv
<1>0. Executed' = Executed /\ Watched' \subseteq Watched
    BY DEF Watched, Executed
<1>1. WatcherTypeOK'
    BY DEF WatcherTypeOK, UnwatchPids
<1>2. TablesInv' /\ ExitsInv'
  <2>1. CASE CallbacksOf(p) \subseteq {<<p, h>>}
    <3>1. Watched' = Watched \ {p}
        BY <2>1 DEF Watched, CallbacksOf
    <3> QED BY <2>1, <3>1, <1>0 DEF TablesInv, ExitsInv, UnwatchPids
  <2>2. CASE ~(CallbacksOf(p) \subseteq {<<p, h>>})
    <3>1. PICK d \in callbacks : d[1] = p /\ d # <<p, h>>
        BY <2>2 DEF CallbacksOf
    <3>2. Watched' = Watched
        BY <3>1 DEF Watched
    <3> QED BY <2>2, <3>2, <1>0 DEF TablesInv, ExitsInv
  <2> QED BY <2>1, <2>2
<1>3. ReportsInv' /\ DropInv' /\ HandlesInv'
    BY DEF ReportsInv, DropInv, HandlesInv, UnwatchPids
<1> QED BY <1>1, <1>2, <1>3

\* The thread takes events before it takes the lock.
LEMMA EpollWaitInv ==
    ASSUME IInv, EpollWait
    PROVE  IInv'
<1> USE DEF EpollWait, innerVars, IInv
<1>0. Watched' = Watched /\ Executed' = Executed
    BY DEF Watched, Executed
<1>1. WatcherTypeOK'
    BY DEF WatcherTypeOK
<1>2. TablesInv' /\ ReportsInv' /\ HandlesInv'
    BY <1>0 DEF TablesInv, ReportsInv, HandlesInv
<1>3. DropInv'
    BY DEF DropInv
<1>4. ExitsInv'
    BY <1>0 DEF ExitsInv
<1> QED BY <1>1, <1>2, <1>3, <1>4

\* Callbacks and pidfds go together, those of stale events too.
LEMMA ProcessEventsInv ==
    ASSUME IInv, ProcessEvents
    PROVE  IInv'
<1> DEFINE S == events \cup Executed
<1> USE DEF ProcessEvents, IInv
<1>0. /\ callbacks' = {c \in callbacks : c[1] \notin S}
      /\ ran' = ran \cup {c \in callbacks : c[1] \in S}
      /\ pidfds' = pidfds \ S /\ epoll' = epoll \ S /\ readable' = readable \ S
    BY DEF RunCallbacks, UnwatchPids
<1>1. Watched' = Watched \ S
    BY <1>0 DEF Watched
<1> HIDE DEF S
<1>2. WatcherTypeOK'
  <2>1. commands' \in Seq(Pids \cup {Finish}) /\ tpc' \in {"wait", "lock", "done"}
      OBVIOUS
  <2>0. notified' \in BOOLEAN
      OBVIOUS
  <2>2. callbacks' \subseteq Pids \X Handles /\ ran' \subseteq Pids \X Handles
      BY <1>0 DEF WatcherTypeOK
  <2> QED BY <2>0, <2>1, <2>2, <1>0 DEF WatcherTypeOK
<1>3. TablesInv'
    BY <1>0, <1>1 DEF TablesInv
<1>4. ReportsInv'
    BY <1>0 DEF ReportsInv
<1>5. DropInv'
    BY DEF DropInv
<1>6. HandlesInv'
    BY <1>0 DEF HandlesInv
<1>7. ExitsInv'
  <2> SUFFICES ASSUME NEW q \in dead, tpc' # "done", q \in Watched'
               PROVE  q \in readable'
      BY DEF ExitsInv
  <2>1. q \in readable \cup Executed /\ q \notin S
      BY <1>1 DEF ExitsInv
  <2> QED BY <1>0, <2>1 DEF S
<1> QED BY <1>2, <1>3, <1>4, <1>5, <1>6, <1>7

\* drop sends Finish.
LEMMA DropSendInv ==
    ASSUME IInv, DropSend
    PROVE  IInv'
<1> USE DEF DropSend, SendCommand, IInv
<1>0. /\ commands' \in Seq(Pids \cup {Finish})
      /\ \A k \in DOMAIN commands' :
            commands'[k] = Finish \/ (k \in DOMAIN commands /\ commands'[k] = commands[k])
      /\ Executed \subseteq Executed'
    BY AppendExecuted
<1>1. Watched' = Watched
    BY DEF Watched
<1>2. WatcherTypeOK'
    BY <1>0 DEF WatcherTypeOK
<1>3. TablesInv' /\ HandlesInv'
    BY <1>1 DEF TablesInv, HandlesInv
<1>4. ReportsInv'
    BY <1>0 DEF ReportsInv
<1>5. DropInv'
    BY DEF DropInv
<1>6. ExitsInv'
    BY <1>0, <1>1 DEF ExitsInv
<1> QED BY <1>2, <1>3, <1>4, <1>5, <1>6

\* drop closes what is left.
LEMMA DropJoinInv ==
    ASSUME IInv, DropJoin
    PROVE  IInv'
<1> USE DEF DropJoin, UnwatchPids, IInv
<1>1. Watched' = {} /\ Executed' = Executed
    BY DEF Watched, Executed
<1>2. WatcherTypeOK'
    BY DEF WatcherTypeOK
<1>3. TablesInv'
    BY <1>1 DEF TablesInv, DropInv
<1>4. ReportsInv' /\ DropInv' /\ HandlesInv'
    BY DEF ReportsInv, DropInv, HandlesInv
<1>5. ExitsInv'
    BY <1>1 DEF ExitsInv
<1> QED BY <1>2, <1>3, <1>4, <1>5

\* Every step preserves the invariant.
LEMMA StepInv == IInv /\ [WatcherNext]_pidVars => IInv'
<1> SUFFICES ASSUME IInv, [WatcherNext]_pidVars PROVE IInv'
    OBVIOUS
<1>1. CASE UNCHANGED pidVars
    BY <1>1 DEF pidVars, IInv, WatcherTypeOK, TablesInv, ReportsInv, DropInv, HandlesInv, ExitsInv,
       Watched, Executed
<1>2. CASE WatcherNext
    BY <1>2, ChildExitsInv, WatchOpenInv, WatchRegisterInv, UnwatchInv, EpollWaitInv,
       ProcessEventsInv, DropSendInv, DropJoinInv DEF WatcherNext, ThreadStep
<1> QED BY <1>1, <1>2

\* The invariant holds in every state.
THEOREM Invariance == WatcherSpec => []IInv
    BY InitInv, StepInv, PTL DEF WatcherSpec

-----------------------------------------------------------------------------
\* No exit of a watched child is forgotten and no pidfd is left over, wherever
\* the death falls in watch, unwatch, thread_loop and drop.
THEOREM ExitsNotLost == WatcherSpec => []NothingLost
<1>1. IInv => NothingLost
  <2> SUFFICES ASSUME IInv PROVE NothingLost
      OBVIOUS
  <2>1. PidfdsMatchCallbacks
      BY DEF IInv, TablesInv, PidfdsMatchCallbacks, Watched
  <2>2. NoLostExit
      BY WatchedDef DEF IInv, ExitsInv, NoLostExit
  <2> QED BY <2>1, <2>2 DEF IInv, NothingLost
<1> QED BY <1>1, Invariance, PTL

-----------------------------------------------------------------------------
\* Each step of the watcher is a step of ExitNotifier or changes nothing there.
LEMMA StepPromise == IInv /\ [WatcherNext]_pidVars => [Promise!Next]_(Promise!vars)
<1> SUFFICES ASSUME IInv, [WatcherNext]_pidVars PROVE [Promise!Next]_(Promise!vars)
    OBVIOUS
<1> DEFINE same == UNCHANGED <<dead, callbacks, nextHandle, ran, closed>>
<1>s. same => UNCHANGED Promise!vars
    BY DEF Promise!vars
<1>1. ASSUME NEW p \in Pids, ChildExits(p) PROVE Promise!Next
    BY <1>1 DEF ChildExits, innerVars, Promise!Next, Promise!Exit
<1>2. ASSUME NEW c \in Clients, WatchRegister(c) PROVE Promise!Next
  <2>1. /\ ~closed /\ nextHandle \in Handles /\ arg \in Pids
        /\ nextHandle' = nextHandle + 1
        /\ callbacks' = callbacks \cup {<<arg, nextHandle>>}
        /\ UNCHANGED <<dead, ran, closed>>
      BY <1>2, WatcherAssumption DEF WatchRegister, IInv, TablesInv, DropInv, WatcherTypeOK, Handles
  <2>2. /\ nextHandle \notin 1 .. nextHandle - 1
        /\ 1 .. nextHandle' - 1 = (1 .. nextHandle - 1) \cup {nextHandle}
      BY <2>1 DEF IInv, WatcherTypeOK, Handles
  <2>3. Promise!Watch(arg, nextHandle)
      BY <2>1, <2>2 DEF Promise!Watch
  <2> QED BY <2>1, <2>3 DEF Promise!Next
<1>3. ASSUME NEW p \in Pids, NEW h \in Handles, Unwatch(p, h) PROVE Promise!Next
  <2>1. Promise!Unwatch(p, h)
      BY <1>3 DEF Unwatch, IInv, DropInv, Promise!Unwatch
  <2> QED BY <2>1 DEF Promise!Next
<1>4. ASSUME ProcessEvents PROVE Promise!Next \/ same
  <2> DEFINE S == events \cup Executed
  <2>1. /\ S \subseteq dead /\ S \in SUBSET Pids /\ ~closed
        /\ UNCHANGED <<dead, nextHandle, closed>>
      BY <1>4, ExecutedDead DEF ProcessEvents, IInv, ReportsInv, DropInv, WatcherTypeOK
  <2>2. /\ ran' = ran \cup Promise!Of(S)
        /\ callbacks' = callbacks \ Promise!Of(S)
        /\ Promise!Of(S) \cap ran = {}
      BY <1>4 DEF ProcessEvents, RunCallbacks, Promise!Of, IInv, HandlesInv
  <2>3. CASE Promise!Of(S) = {}
      BY <2>1, <2>2, <2>3
  <2>4. CASE Promise!Of(S) # {}
    <3>1. Promise!Notify(S)
        BY <2>1, <2>2, <2>4 DEF Promise!Notify
    <3> QED BY <2>1, <3>1 DEF Promise!Next
  <2> QED BY <2>3, <2>4
<1>5. ASSUME DropJoin PROVE Promise!Next
    BY <1>5 DEF DropJoin, Promise!Next, Promise!Close
<1>6. ASSUME NEW c \in Clients, NEW p \in Pids, WatchOpen(c, p) PROVE same
    BY <1>6 DEF WatchOpen
<1>7. ASSUME EpollWait \/ DropSend \/ UNCHANGED pidVars PROVE same
    BY <1>7 DEF EpollWait, DropSend, innerVars, pidVars
<1> HIDE DEF same
<1> QED BY <1>s, <1>1, <1>2, <1>3, <1>4, <1>5, <1>6, <1>7 DEF WatcherNext, ThreadStep

\* The watcher implements ExitNotifier: a callback runs once, after the child
\* has exited, and not after it was unregistered.
THEOREM WatcherImplementsPromise == WatcherSpec => ImplementsPromise
<1>1. WatcherInit => Promise!Init
    BY DEF WatcherInit, Promise!Init
<1> QED BY <1>1, StepPromise, Invariance, PTL DEF WatcherSpec, ImplementsPromise, Promise!Spec
=============================================================================
