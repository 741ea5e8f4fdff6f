--------------------------- MODULE MCRvxSnapshots ---------------------------
(* TLC instance of RvxSnapshots: one small and one large snapshot size, so   *)
(* that the count bound, the byte bound and the page bound all take effect,  *)
(* and a size that is refused.                                              *)
EXTENDS RvxSnapshots

=============================================================================
