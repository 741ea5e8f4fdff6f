--------------------------- MODULE MCAlertOutbox ---------------------------
(* TLC instance of AlertOutbox: two events, one working and one dead        *)
(* channel, a batch one short of every delivery.                            *)
EXTENDS AlertOutbox

=============================================================================
