---------------------------- MODULE MCPaperEngine ----------------------------
(* Small instances of PaperEngine for TLC. *)
EXTENDS PaperEngine

CONSTANTS t1, t2, t3, btc, eth

Long(e)  == [dir |-> 1, entry |-> e, sl |-> e - 1, tp1 |-> e + 1, tp2 |-> e + 2, qty |-> 4]
Short(e) == [dir |-> -1, entry |-> e, sl |-> e + 1, tp1 |-> e - 1, tp2 |-> e - 2, qty |-> 4]

BothSides == {Long(4), Short(4)}

\* Quiet at the entry; to the level above or below and back; through the
\* second target of either side; from one level to the other; at the level above.
FewBars == {[high |-> 4, low |-> 4, close |-> 4], [high |-> 5, low |-> 4, close |-> 4],
            [high |-> 4, low |-> 3, close |-> 4], [high |-> 6, low |-> 4, close |-> 5],
            [high |-> 4, low |-> 2, close |-> 3], [high |-> 5, low |-> 3, close |-> 4],
            [high |-> 5, low |-> 5, close |-> 5]}

OneOrTwo == 1..2

TwoReasons == {"manual_close", "operator"}

=============================================================================
