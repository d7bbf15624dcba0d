------------------------- MODULE MCConfigRevisions -------------------------
(* Small instances of ConfigRevisions for TLC. *)
EXTENDS ConfigRevisions

TwoRequests == 1..2
ThreeRequests == 1..3

=============================================================================
