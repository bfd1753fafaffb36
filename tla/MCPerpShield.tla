---------------------------- MODULE MCPerpShield ----------------------------
(* PerpShield, and with it PerpMarket, for TLC.                            *)
EXTENDS PerpShield, TLC

\* Traders are interchangeable, and so are the accounts of the market's authority.
TradersSymmetry == Permutations(Owners) \cup Permutations(Vaults)
=============================================================================
