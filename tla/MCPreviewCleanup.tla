--------------------------- MODULE MCPreviewCleanup ---------------------------
(* Instances of PreviewCleanup for TLC.                                    *)
EXTENDS PreviewCleanup, TLC

CONSTANTS x1, t1, t2, o1, e1

NoCall == {}
TwoTicks == {t1, t2}
OneOperator == {o1}
OneEvent == {e1}
=============================================================================
