------------------------------- MODULE MCKprintf -------------------------------
(* Widths and precisions, the negative ones given with *.                    *)
EXTENDS Kprintf

MCWidths == {-4, 0, 3, 5, 7}
MCPrecisions == {NULL, -1, 0, 3}
=============================================================================
