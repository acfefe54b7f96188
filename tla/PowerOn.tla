-------------------------------- MODULE PowerOn --------------------------------
(***************************************************************************)
(* From the BIOS to the first interrupt: the loader brings the kernel into *)
(* memory, and the kernel, if that is what the loader jumps to, boots.     *)
(***************************************************************************)
EXTENDS Boot

CONSTANTS Chunk, Sectors, Stage2At, StagingAt, KernelAt, Wrap  \* see Loader

ASSUME LoaderAssumption ==
  /\ {Chunk, Sectors, Stage2At, StagingAt, KernelAt, Wrap} \subseteq Nat \ {0}
  /\ Sectors % Chunk = 0 /\ Sectors < Wrap
  /\ Stage2At + Chunk <= StagingAt /\ StagingAt + Sectors <= KernelAt

VARIABLES loader,  \* the loader's pc
          mem, a20, kbc, cf, left, sector, target, copied, failed

loadVars == <<loader, mem, a20, kbc, cf, left, sector, target, copied, failed>>

Load == INSTANCE Loader WITH pc <- loader, i <- copied

PowerOnInit == Init /\ Load!Init

\* The loader's steps, the last of which jumps to the kernel
Loading == Load!Next /\ UNCHANGED vars

\* What runs at KernelAt is the kernel when all of it is there.
Booting ==
  /\ loader = "kernel" /\ Load!KernelIsThere
  /\ Next
  /\ UNCHANGED loadVars

PowerOnNext == Loading \/ Booting

PowerOnSpec == PowerOnInit /\ [][PowerOnNext]_<<vars, loadVars>>

-----------------------------------------------------------------------------
(* Properties                                                              *)

\* When every read of the loader succeeded, the jump of stage2_cmain finds the
\* whole kernel at 1 MB, in order: address line 20 is on before the copy, no
\* chunk is skipped, read twice or loaded over another, and the loader itself
\* is not overwritten while it runs.
KernelInPlace ==
  /\ Load!TypeOK
  /\ loader = "kernel" /\ ~failed => Load!KernelIsThere
  /\ Load!Stage2Intact

\* "jc load_sector_end # fail" and "jc error" of stage2.s: after a read that
\* failed the loader prints "Failed to load kernel" and halts.
FailureHalts == failed => loader # "kernel"
=============================================================================
