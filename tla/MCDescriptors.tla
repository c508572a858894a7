---------------------------- MODULE MCDescriptors ----------------------------
(* The two modules about descriptors that become ready by themselves,      *)
(* checked in one run: a behaviour is one of Epoll, with two files watched *)
(* by the inner epoll, which the outer one watches, and a thread to serve  *)
(* each epoll; or one of TimerFd.  The state of the other module stays as  *)
(* it was.                                                                 *)
EXTENDS Epoll, TimerFd, TLC

CONSTANTS f1, f2, t1, t2

EachWatchable == (Inner :> {f1, f2}) @@ (Outer :> {Inner})
SomeChanges == {<<f1, "READABLE">>, <<f1, "WRITABLE">>, <<f2, "CLOSED">>,
                <<f2, "READABLE">>}
ServesEpolls == (t1 :> Inner) @@ (t2 :> Outer)

Level == {"IN"}
Edge == {"IN", "OUT", "ET"}
Shot == {"IN", "ONESHOT"}
EachMasks == (f1 :> {Level, Edge, Shot}) @@ (f2 :> {Level}) @@ (Inner :> {{"IN", "ET"}})

VARIABLE subject
allVars == <<vars, timerVars, subject>>

DescriptorsInit ==
    /\ subject \in {"epoll", "timer"}
    /\ Init /\ TimerInit

DescriptorsNext ==
    \/ subject = "epoll" /\ Next /\ UNCHANGED <<timerVars, subject>>
    \/ subject = "timer" /\ TimerNext /\ UNCHANGED <<vars, subject>>

DescriptorsSpec ==
    /\ DescriptorsInit /\ [][DescriptorsNext]_allVars
    /\ subject = "epoll" => Fairness
=============================================================================
