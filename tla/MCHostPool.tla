----------------------------- MODULE MCHostPool -----------------------------
(* HostPool with Hosts that every machine's selector matches.              *)
EXTENDS HostPool

OneHost  == {1}
TwoHosts == {1, 2}

AnySelector == [m \in Machines |-> Hosts]

Permuted == {[m \in Machines |-> p[m]] : p \in {q \in [Machines -> Machines] :
                \A a, b \in Machines : a # b => q[a] # q[b]}}
=============================================================================
