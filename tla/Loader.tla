-------------------------------- MODULE Loader --------------------------------
(***************************************************************************)
(* The boot loader: stage1_bootloader/src/asm/init.s, which loads stage 2, *)
(* and stage2_bootloader, which loads the kernel a chunk at a time below   *)
(* 1 MB, enters protected mode, copies it to 1 MB and jumps there.         *)
(*                                                                         *)
(* Memory is counted in sectors of 512 bytes, and mem tells which sector   *)
(* of the disk each of them holds.  The BIOS and the keyboard controller,  *)
(* which switches address line 20 on, are external.                        *)
(***************************************************************************)
EXTENDS Integers

CONSTANTS Chunk,      \* 64: sectors per BIOS call, and the size of stage 2
          Sectors,    \* 512: sectors of the kernel
          Stage2At,   \* 0x7E00 / 512
          StagingAt,  \* 0x10000 / 512
          KernelAt,   \* 0x100000 / 512: the address with only bit 20 set
          Wrap        \* 2^32: the values of a register

VARIABLES pc,
          mem,      \* the disk sector in each sector of memory; 0: something else
          a20,      \* address line 20 is on
          kbc,      \* the keyboard controller: "ready", "command" (busy with
                    \* 0xd1), "wait" (for the data) or "data" (busy with 0xdf)
          cf,       \* the carry flag
          left,     \* load_sector: [bp - 16]
          sector,   \* load_sector: [bp - 20]
          target,   \* load_sector: [bp - 12]
          i,        \* stage2_cmain: i
          failed    \* auxiliary: a BIOS call has failed

vars == <<pc, mem, a20, kbc, cf, left, sector, target, i, failed>>
loopVars == <<left, sector, target>>

\* The sector of memory an address names: with line 20 off bit 20 is 0.
Physical(at) == IF a20 \/ at < KernelAt THEN at ELSE at - KernelAt

Init ==
  /\ pc = "seta20_1"
  /\ mem = [at \in 0 .. KernelAt + Sectors - 1 |-> 0]
  /\ a20 \in BOOLEAN
  /\ kbc \in {"ready", "command", "data"}
  /\ cf = FALSE
  /\ left = 0 /\ sector = 0 /\ target = 0 /\ i = 0
  /\ failed = FALSE

\* The controller finishes what it was told.
Controller ==
  /\ \/ kbc = "command" /\ kbc' = "wait" /\ UNCHANGED a20
     \/ kbc = "data" /\ kbc' = "ready" /\ a20' = (a20 \/ pc # "seta20_1")
  /\ UNCHANGED <<pc, mem, cf, loopVars, i, failed>>

Busy == kbc \in {"command", "data"}

SetA20Command ==
  /\ pc = "seta20_1" /\ ~Busy
  /\ kbc' = "command"
  /\ pc' = "seta20_2"
  /\ UNCHANGED <<mem, a20, cf, loopVars, i, failed>>

\* Mutant: the second wait is missing, and the data is lost.
SetA20Data_NoWait ==
  /\ pc = "seta20_2"
  /\ kbc' = IF Busy THEN "ready" ELSE "data"
  /\ pc' = "extensions"
  /\ UNCHANGED <<mem, a20, cf, loopVars, i, failed>>

SetA20Data ==
  /\ pc = "seta20_2" /\ ~Busy
  /\ kbc' = "data"
  /\ pc' = "extensions"
  /\ UNCHANGED <<mem, a20, cf, loopVars, i, failed>>

\* Environment: the loader does not wait for the controller after the data byte.
\* The video mode is set and a text printed before the disk is used, and these
\* BIOS calls are taken to last longer than the controller needs.
ControllerDone == ~Busy

\* int 13h, AH = 41h
CheckExtensions ==
  /\ pc = "extensions" /\ ControllerDone
  /\ \/ pc' = "load_stage2" /\ UNCHANGED failed
     \/ pc' = "halt" /\ failed' = TRUE
  /\ UNCHANGED <<mem, a20, kbc, cf, loopVars, i>>

\* int 13h, AH = 42h: count sectors of the disk from first on are read to at.
\* A read that fails sets the carry flag; what it may have read is left out.
Read(at, first, count) ==
  \/ /\ cf' = FALSE
     /\ mem' = [m \in DOMAIN mem |-> IF m \in at .. at + count - 1 THEN first + m - at ELSE mem[m]]
     /\ UNCHANGED failed
  \/ /\ cf' = TRUE
     /\ failed' = TRUE
     /\ UNCHANGED mem

LoadStage2 ==
  /\ pc = "load_stage2"
  /\ Read(Stage2At, 1, Chunk)
  /\ pc' = IF cf' THEN "halt" ELSE "stage2"
  /\ UNCHANGED <<a20, kbc, loopVars, i>>

\* stage2: call load_sector
Stage2 ==
  /\ pc = "stage2"
  /\ target' = StagingAt
  /\ left' = Sectors
  /\ sector' = 1 + Chunk
  /\ pc' = "loop"
  /\ UNCHANGED <<mem, a20, kbc, cf, i, failed>>

\* A turn of load_sector's loop.  The test that should find a last, smaller
\* chunk never does (test clears the carry flag, so jae always jumps).
LoadChunk ==
  /\ pc = "loop"
  /\ Read(target, sector, Chunk)
  /\ left' = (left - Chunk) % Wrap
  /\ sector' = sector + Chunk
  /\ target' = target + Chunk
  /\ pc' = IF cf' \/ left' = 0 THEN "load_sector_end" ELSE "loop"
  /\ UNCHANGED <<a20, kbc, i>>

\* load_sector_end; "add sp, 4" sets the carry flag to the carry of an
\* addition that has none.
LoadSectorEnd ==
  /\ pc = "load_sector_end"
  /\ cf' = FALSE
  /\ pc' = "loaded"
  /\ UNCHANGED <<mem, a20, kbc, loopVars, i, failed>>

\* jc error, or stage2_enter_protected
Loaded ==
  /\ pc = "loaded"
  /\ pc' = IF cf THEN "halt" ELSE "stage2_enter_protected"
  /\ UNCHANGED <<mem, a20, kbc, cf, loopVars, i, failed>>

\* stage2_enter_protected and start32: flat segments reach all of memory.
EnterProtected ==
  /\ pc = "stage2_enter_protected"
  /\ pc' = "copy"
  /\ UNCHANGED <<mem, a20, kbc, cf, loopVars, i, failed>>

\* A sector's worth of stage2_cmain's loop, then the jump to the kernel.
Copy ==
  /\ pc = "copy"
  /\ IF i < Sectors
     THEN /\ mem' = [mem EXCEPT ![Physical(KernelAt + i)] = mem[StagingAt + i]]
          /\ i' = i + 1
          /\ UNCHANGED pc
     ELSE /\ pc' = "kernel"
          /\ UNCHANGED <<mem, i>>
  /\ UNCHANGED <<a20, kbc, cf, loopVars, failed>>

Next ==
  \/ Controller \/ SetA20Command \/ SetA20Data \/ CheckExtensions \/ LoadStage2
  \/ Stage2 \/ LoadChunk \/ LoadSectorEnd \/ Loaded \/ EnterProtected \/ Copy

Spec == Init /\ [][Next]_vars

-----------------------------------------------------------------------------
(* Properties                                                              *)

\* Sectors, counts and flags.
TypeOK ==
  /\ pc \in {"seta20_1", "seta20_2", "extensions", "load_stage2", "stage2", "loop",
             "load_sector_end", "loaded", "stage2_enter_protected", "copy", "kernel", "halt"}
  /\ mem \in [0 .. KernelAt + Sectors - 1 -> 0 .. Chunk + Sectors]
  /\ {a20, cf, failed} \subseteq BOOLEAN
  /\ left \in 0 .. Sectors
  /\ sector \in 0 .. 1 + Chunk + Sectors
  /\ target \in 0 .. StagingAt + Sectors
  /\ i \in 0 .. Sectors

\* The whole kernel is at 1 MB, in order.
KernelIsThere == \A k \in 0 .. Sectors - 1 : mem[KernelAt + k] = 1 + Chunk + k

\* The code that runs is what was loaded: nothing is loaded over stage 2.
Stage2Intact ==
  pc \in {"stage2", "loop", "load_sector_end", "loaded", "stage2_enter_protected", "copy"} =>
    \A k \in 0 .. Chunk - 1 : mem[Stage2At + k] = 1 + k
=============================================================================
