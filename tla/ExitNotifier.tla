---------------------------- MODULE ExitNotifier ----------------------------
(***************************************************************************)
(* What ChildPidWatcher promises (the comments on watch and unwatch,       *)
(* src/phantom/src/main/utility/childpid_watcher.rs): a callback that is   *)
(* registered for a child runs exactly once after the child has exited,    *)
(* "including if it has already exited", and never after unwatch returned. *)
(***************************************************************************)
EXTENDS Naturals

CONSTANTS
    Pids,       \* the children
    Handles     \* the handles watch may return

VARIABLES
    dead,       \* the children that have exited
    callbacks,  \* the registered callbacks, <<child, handle>>
    used,       \* the handles given out
    ran,        \* the callbacks that have run
    closed      \* the watcher has been dropped

vars == <<dead, callbacks, used, ran, closed>>

Init ==
    /\ dead = {}
    /\ callbacks = {}
    /\ used = {}
    /\ ran = {}
    /\ closed = FALSE

Exit(p) ==
    /\ p \notin dead
    /\ dead' = dead \cup {p}
    /\ UNCHANGED <<callbacks, used, ran, closed>>

Watch(p, h) ==
    /\ ~closed
    /\ h \notin used
    /\ used' = used \cup {h}
    /\ callbacks' = callbacks \cup {<<p, h>>}
    /\ UNCHANGED <<dead, ran, closed>>

Unwatch(p, h) ==
    /\ ~closed
    /\ callbacks' = callbacks \ {<<p, h>>}
    /\ UNCHANGED <<dead, used, ran, closed>>

Of(S) == {c \in callbacks : c[1] \in S}

\* The callbacks of some children that have exited run.
Notify(S) ==
    /\ ~closed
    /\ S \subseteq dead
    /\ Of(S) # {}
    /\ Of(S) \cap ran = {}
    /\ ran' = ran \cup Of(S)
    /\ callbacks' = callbacks \ Of(S)
    /\ UNCHANGED <<dead, used, closed>>

\* The callbacks that have not run are dropped with the watcher.
Close ==
    /\ closed' = TRUE
    /\ callbacks' = {}
    /\ UNCHANGED <<dead, used, ran>>

Next ==
    \/ \E p \in Pids : Exit(p)
    \/ \E p \in Pids, h \in Handles : Watch(p, h) \/ Unwatch(p, h)
    \/ \E S \in SUBSET Pids : Notify(S)
    \/ Close

Spec == Init /\ [][Next]_vars
=============================================================================
