--------------------------- MODULE MCControlPlane ---------------------------
(* Small instances of ControlPlane for TLC. *)
EXTENDS ControlPlane

CONSTANTS m1, b1, master, buddy

MCAccounts == {master, buddy}
MCAccountOf == [t \in Trades |-> IF t = m1 THEN master ELSE buddy]
TwoCmds == 1..2
ThreeCmds == 1..3
HaltKinds == {"halt", "resume"}
MixedKinds == {"halt", "close_trade"}
TradeKinds == {"close_trade", "reset_account"}

=============================================================================
