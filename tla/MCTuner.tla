------------------------------ MODULE MCTuner ------------------------------
(* Small instances of the tuner for TLC.                                    *)
EXTENDS Tuner, TLC

CONSTANTS client1, client2, f1, f2, pat, pmt1, pmt2, es1, es2

MCFreqs == <<f1, f2>>
OneFreq == <<f1>>
MCSiPids == <<pat>>
OneClient == {client1}
TwoClients == {client1, client2}
NoClients == {}
MCPmt == client1 :> pmt1 @@ client2 :> pmt2
\* The two clients are alike, each with its own PIDs.
Swap == (client1 :> client2 @@ client2 :> client1 @@ pmt1 :> pmt2 @@ pmt2 :> pmt1
         @@ es1 :> es2 @@ es2 :> es1)
Symmetry == {Swap, [v \in DOMAIN Swap |-> v]}

MCEs == client1 :> es1 @@ client2 :> es2
=============================================================================
