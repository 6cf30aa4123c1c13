-------------------------- MODULE MCBrokerLifecycle --------------------------
(* BrokerLifecycle with the brokers and demats of the TLC runs: "zerodha" has *)
(* a login page, "mock" a one-shot adapter.                                 *)
EXTENDS BrokerLifecycle, TLC

CONSTANTS zerodha, mock, d1, d2, p, u

MCOneDemat == {d1}
MCTwoDemats == {d1, d2}
MCOneBroker == {zerodha}
MCTwoBrokers == {zerodha, mock}
MCBrokerOne == d1 :> zerodha
MCSameBroker == d1 :> zerodha @@ d2 :> zerodha
MCShot == {mock}
MCNoShot == {}
MCMapped == {p}
MCPositions == {p, u}
MCUnmapped == {u}

Symmetric == Permutations(Conns) \cup Permutations(Accts)
=============================================================================
