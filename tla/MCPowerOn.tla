------------------------------- MODULE MCPowerOn -------------------------------
(* The kernel has the sizes of the real machine: 4 GiB of pages have        *)
(* bitmaps of 64 KiB, 32 KiB, ... 64 bytes, rounded up to pages.  The        *)
(* sectors the boot loader moves are scaled down by eight.                   *)
EXTENDS PowerOn

MCBitmaps == <<16, 8, 4, 2, 1, 1, 1, 1, 1, 1, 1>>
=============================================================================
