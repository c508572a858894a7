----------------------------- MODULE MCRuntime ------------------------------
(***************************************************************************)
(* Four modules about the threads of Shadow itself, checked in one run: a  *)
(* behaviour is one of the subject's module, and the state of the others   *)
(* stays as it was.                                                        *)
(*                                                                         *)
(*   pool       WorkerPool: the workers run a round and report the time of *)
(*              the next event                                             *)
(*   lookahead  Lookahead: the controller takes that time and makes the    *)
(*              next round as long as the paths found allow                *)
(*   process    ShimIpc: a worker runs a managed process; the watcher is   *)
(*              what ExitNotifier promises                                 *)
(*   watcher    ChildPidWatcher, which implements that promise             *)
(***************************************************************************)
EXTENDS WorkerPool, MCLookahead, ShimIpc, ChildPidWatcher

VARIABLE subject
allVars == <<poolVars, lookaheadVars, vars, pidVars, subject>>

RuntimeInit ==
    /\ subject \in {"pool", "lookahead", "process", "watcher"}
    /\ PoolInit /\ LookaheadInit /\ Init /\ WatcherInit
    /\ subject = "watcher" \/ arg = CHOOSE p \in Pids : TRUE

RuntimeNext ==
    /\ UNCHANGED subject
    /\ \/ /\ subject = "pool" /\ PoolNext
          /\ UNCHANGED <<lookaheadVars, vars, pidVars>>
       \/ /\ subject = "lookahead" /\ LookaheadNext
          /\ UNCHANGED <<poolVars, vars, pidVars>>
       \/ /\ subject = "process" /\ Next
          /\ UNCHANGED <<poolVars, lookaheadVars, pidVars>>
       \/ /\ subject = "watcher" /\ WatcherNext
          /\ UNCHANGED <<poolVars, lookaheadVars, vars>>

\* The fairness of each module, for the behaviours that are about it.
RuntimeFairness ==
    /\ WF_poolVars(subject = "pool" /\ MainStep)
    /\ \A w \in Workers : WF_poolVars(subject = "pool" /\ WorkerProgress(w))
    /\ WF_vars(subject = "process" /\ ShadowStep)
    /\ WF_vars(subject = "process" /\ Notify)
    /\ \A t \in Threads : WF_vars(subject = "process" /\ PluginStep(t))
    /\ \A c \in Clients : WF_pidVars(subject = "watcher" /\ WatchRegister(c))
    /\ WF_pidVars(subject = "watcher" /\ ThreadStep)

RuntimeSpec == RuntimeInit /\ [][RuntimeNext]_allVars /\ RuntimeFairness
=============================================================================
