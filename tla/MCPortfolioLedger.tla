-------------------------- MODULE MCPortfolioLedger --------------------------
(* Small instances of the manual ledger for TLC. *)
EXTENDS PortfolioLedger, TLC

Entry(t, q, p, c, r) == [type |-> t, qty |-> q, price |-> p, fees |-> c, ratio |-> r]
\* One decimal place: 20 is two shares.  A 1:3 bonus multiplies by 1.3, not by
\* 1.333..., and the charge of a buy comes to 3.5, then 4, digits a share.
MCEntries ==
    {Entry("buy", 20, 32, 7, <<0, 1>>), Entry("sell", 10, 48, 5, <<0, 1>>),
     Entry("sell", 30, 24, 0, <<0, 1>>), Entry("bonus", 0, 0, 0, <<1, 1>>),
     Entry("split", 0, 0, 0, <<1, 3>>)}
MCDates == 1 .. 2
MCSymmetry == Permutations(Accts) \cup Permutations(Slots)
=============================================================================
