------------------------------- MODULE MCTcp -------------------------------
(* Instances of Tcp that TLC checks: only the client sends, or both do.     *)
EXTENDS Tcp, TLC

ClientSends == ("c" :> 3) @@ ("s" :> 0)
BothSend == ("c" :> 2) @@ ("s" :> 1)
CloseDelays == ("c" :> 2) @@ ("s" :> 1)
=============================================================================
