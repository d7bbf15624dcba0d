--------------------------- MODULE MCBarPipeline ---------------------------
(* Small instances of BarPipeline for TLC. *)
EXTENDS BarPipeline

CONSTANTS btc, eth, master, buddy

============================================================================
