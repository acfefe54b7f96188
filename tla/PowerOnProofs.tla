--------------------------- MODULE PowerOnProofs ----------------------------
(***************************************************************************)
(* The boot, from the BIOS to the first interrupt, for every size of the   *)
(* kernel and of the machine's tables that module Boot and module PowerOn  *)
(* assume.                                                                 *)
(***************************************************************************)
EXTENDS PowerOn, TLAPS

\* The prover of the steps that name no other.
USE ZenonT(30)

-----------------------------------------------------------------------------
(* Boot: what holds where                                                  *)

\* The labels from each step on
FromSched == {"sched_start", "running"}
FromMpmain == {"mpmain"} \cup FromSched
FromUart == {"uart_init", "proc_init"} \cup FromMpmain
FromConsole == {"console_init"} \cup FromUart
FromIoapic == {"ioapic_init", "boot_alloc_disable"} \cup FromConsole
FromInterrupts == {"interrupt_init"} \cup FromIoapic
FromCpu == {"cpu_bsp_init"} \cup FromInterrupts
FromLapic == {"lapic_init"} \cup FromCpu
FromPgalloc == {"pgalloc_init"} \cup FromLapic
FromVmm == {"vmm_init_pml4", "vmm_init_pdp", "vmm_load_ktable"} \cup FromPgalloc
FromKmain == {"boot_alloc_init", "halted"} \cup FromVmm
Labels == {"kentry", "long_start"} \cup FromKmain

\* The labels while the boot allocator is in use
Allocating == FromVmm \ FromConsole

Maps == {"physical", "low", "high"}
Places == [code : Maps, stack : Maps, gdt : Maps]

BootTypes ==
  /\ pc \in Labels
  /\ kern_end \in KernEnd
  /\ low \in Nat /\ high \in Nat /\ touched \in Nat
  /\ using \in Places
  /\ zone \in [begin : Nat, end : Nat]
  /\ blocks \in Seq([at : Nat, size : Nat])
  /\ freed \in [at : Nat, end : Nat]
  /\ lapic \in BOOLEAN /\ cpu \in BOOLEAN /\ idt \in BOOLEAN /\ if \in BOOLEAN
  /\ ready \subseteq Locks /\ masked \subseteq Sources /\ pending \subseteq Sources
  /\ uart \in BOOLEAN
  /\ halted \in {NULL, "panic", "silent"}

\* The maps
Mapped ==
  /\ low \in {0, 1}
  /\ pc = "kentry" => high = 0 /\ touched = 0
  /\ pc # "kentry" => high \in {1, PhysMapGB} /\ (touched = 0 \/ (touched = DeviceGB /\ high = PhysMapGB))
  /\ pc = "long_start" => low = 1 /\ \A x \in DOMAIN using : using[x] = "low"
  /\ pc \in FromKmain => \A x \in DOMAIN using : using[x] = "high"
  /\ pc \in FromPgalloc => high = PhysMapGB

\* The boot allocator: the blocks are in order between the kernel and what is
\* left of the zone, and the bitmaps still to come fit.
Room == zone.begin + (2 + Len(Bitmaps) - Len(blocks)) * Bitmaps[1] <= ZonePages

Allocated ==
  /\ \A i \in 1..Len(blocks) :
       /\ blocks[i].at >= kern_end
       /\ blocks[i].at + blocks[i].size <= kern_end + ZonePages
       /\ \A j \in 1 .. i - 1 : blocks[j].at + blocks[j].size <= blocks[i].at
       /\ pc \in Allocating => blocks[i].at + blocks[i].size <= zone.begin
       /\ pc \in FromConsole => blocks[i].at + blocks[i].size <= freed.at
  /\ pc \in {"kentry", "long_start", "boot_alloc_init", "vmm_init_pml4"} => Len(blocks) = 0
  /\ pc = "vmm_init_pdp" => Len(blocks) = 1
  /\ pc = "vmm_load_ktable" => Len(blocks) = 2
  /\ pc = "pgalloc_init" => Len(blocks) \in 2 .. Len(Bitmaps) + 1
  /\ pc \in FromLapic => Len(blocks) = Len(Bitmaps) + 2
  /\ Len(blocks) <= Len(Bitmaps) + 2
  /\ zone.begin <= zone.end
  /\ pc \in Allocating => zone.begin >= kern_end /\ zone.end = kern_end + ZonePages
  /\ pc = "vmm_init_pml4" => zone.begin = kern_end
  /\ pc = "vmm_init_pdp" => zone.begin = kern_end + 1
  /\ pc = "vmm_load_ktable" => zone.begin = kern_end + 2
  /\ pc \in {"pgalloc_init"} \cup (FromLapic \ FromConsole) => Room
  /\ pc \notin FromConsole => freed.at = freed.end
  /\ pc \in FromConsole => zone.end = 0 /\ freed.at <= freed.end

\* The processor, the locks and the interrupt controllers
Prepared ==
  /\ halted # NULL <=> pc = "halted"
  /\ if <=> pc = "running"
  /\ pc \in FromLapic => "pgalloc" \in ready
  /\ pc \in FromCpu => lapic /\ "pic" \in masked /\ "pic" \notin pending
  /\ pc \in FromInterrupts => cpu
  /\ pc \in FromIoapic => idt
  /\ pc \in FromConsole => "kmalloc" \in ready
  /\ pc \in FromUart => {"console", "console_read"} \subseteq ready
  /\ pc \in FromMpmain => {"ptable", "sched"} \subseteq ready
  /\ "other_line" \in masked /\ "other_line" \notin pending

BootInv == BootTypes /\ Mapped /\ Allocated /\ Prepared

-----------------------------------------------------------------------------
(* Boot: each step keeps the invariant                                     *)

\* The sizes of the boot zone.
LEMMA ZoneSizes == KernEnd \subseteq Nat /\ ZonePages \in Nat /\ GB \in Nat
BY BootAssumption

\* The sizes of the maps.
LEMMA MapSizes ==
  /\ PhysMapGB \in Nat /\ PhysMapGB >= 1 /\ DeviceGB \in Nat /\ DeviceGB >= 1 /\ DeviceGB < PhysMapGB
BY SMT, BootAssumption

\* The sizes of the bitmaps.
LEMMA BitmapSizes ==
  /\ Len(Bitmaps) \in Nat /\ Len(Bitmaps) >= 1 /\ Bitmaps[1] \in Nat
  /\ \A i \in 1..Len(Bitmaps) : Bitmaps[i] \in Nat /\ Bitmaps[i] <= Bitmaps[1]
BY SMT, BootAssumption

\* Kernel, page tables and bitmaps fit in the zone, and it in what kentry maps.
LEMMA Fits ==
  \A e \in KernEnd : e + 2 + Len(Bitmaps) * Bitmaps[1] <= ZonePages /\ e + ZonePages <= GB
BY BootAssumption

LEMMA KentryInv == BootInv /\ Kentry => BootInv'
<1> SUFFICES ASSUME BootInv, Kentry PROVE BootInv'
  OBVIOUS
<1>1. BootTypes'
  BY MapSizes DEF Kentry, Goto, memVars, cpuVars, irqVars, BootInv, BootTypes, Places, Maps, Labels, FromSched, FromMpmain, FromUart, FromConsole, FromIoapic, FromInterrupts, FromCpu, FromLapic, FromPgalloc, FromVmm, FromKmain, Sources, Locks
<1>2. Mapped'
  BY SMT DEF Kentry, Goto, memVars, cpuVars, irqVars, BootInv, BootTypes, Mapped, FromSched, FromMpmain, FromUart, FromConsole, FromIoapic, FromInterrupts, FromCpu, FromLapic, FromPgalloc, FromVmm, FromKmain
<1>3. Allocated'
  BY MapSizes DEF Kentry, Goto, memVars, cpuVars, irqVars, BootInv, BootTypes, Allocated, Allocating, Room, FromSched, FromMpmain, FromUart, FromConsole, FromIoapic, FromInterrupts, FromCpu, FromLapic, FromPgalloc, FromVmm, FromKmain
<1>4. Prepared'
  BY DEF Kentry, Goto, memVars, cpuVars, irqVars, BootInv, BootTypes, Prepared, FromSched, FromMpmain, FromUart, FromConsole, FromIoapic, FromInterrupts, FromCpu, FromLapic, FromPgalloc, FromVmm, FromKmain, NULL
<1>. QED BY <1>1, <1>2, <1>3, <1>4 DEF BootInv

LEMMA LongStartInv == BootInv /\ LongStart => BootInv'
<1> SUFFICES ASSUME BootInv, LongStart PROVE BootInv'
  OBVIOUS
<1>1. BootTypes'
  BY MapSizes DEF LongStart, Goto, memVars, cpuVars, irqVars, BootInv, BootTypes, Places, Maps, Labels, FromSched, FromMpmain, FromUart, FromConsole, FromIoapic, FromInterrupts, FromCpu, FromLapic, FromPgalloc, FromVmm, FromKmain, Sources, Locks
<1>2. Mapped'
  BY SMT DEF LongStart, Goto, memVars, cpuVars, irqVars, BootInv, BootTypes, Mapped, FromSched, FromMpmain, FromUart, FromConsole, FromIoapic, FromInterrupts, FromCpu, FromLapic, FromPgalloc, FromVmm, FromKmain
<1>3. Allocated'
  BY MapSizes DEF LongStart, Goto, memVars, cpuVars, irqVars, BootInv, BootTypes, Allocated, Allocating, Room, FromSched, FromMpmain, FromUart, FromConsole, FromIoapic, FromInterrupts, FromCpu, FromLapic, FromPgalloc, FromVmm, FromKmain
<1>4. Prepared'
  BY DEF LongStart, Goto, memVars, cpuVars, irqVars, BootInv, BootTypes, Prepared, FromSched, FromMpmain, FromUart, FromConsole, FromIoapic, FromInterrupts, FromCpu, FromLapic, FromPgalloc, FromVmm, FromKmain, NULL
<1>. QED BY <1>1, <1>2, <1>3, <1>4 DEF BootInv

LEMMA BootAllocInitInv == BootInv /\ BootAllocInit => BootInv'
<1> SUFFICES ASSUME BootInv, BootAllocInit PROVE BootInv'
  OBVIOUS
<1>0. /\ pc = "boot_alloc_init" /\ pc' = "vmm_init_pml4" /\ zone' = [begin |-> kern_end, end |-> kern_end + ZonePages]
      /\ kern_end' = kern_end /\ blocks' = blocks /\ freed' = freed
      /\ kern_end \in KernEnd
  BY DEF BootAllocInit, Goto, BootInv, BootTypes
<1>5. kern_end \in Nat /\ kern_end + ZonePages \in Nat /\ ZonePages \in Nat /\ kern_end <= kern_end + ZonePages
  BY SMT, <1>0, ZoneSizes
<1>6. zone' \in [begin : Nat, end : Nat]
  BY <1>0, <1>5
<1>1. BootTypes'
  BY <1>6 DEF BootAllocInit, Goto, memVars, cpuVars, irqVars, BootInv, BootTypes, Labels, FromSched, FromMpmain, FromUart, FromConsole, FromIoapic, FromInterrupts, FromCpu, FromLapic, FromPgalloc, FromVmm, FromKmain
<1>2. Mapped'
  BY DEF BootAllocInit, Goto, memVars, cpuVars, irqVars, BootInv, BootTypes, Mapped, FromSched, FromMpmain, FromUart, FromConsole, FromIoapic, FromInterrupts, FromCpu, FromLapic, FromPgalloc, FromVmm, FromKmain
<1>3. Allocated'
  <2>1. Len(blocks) = 0 /\ freed.at = freed.end
    BY <1>0 DEF BootInv, Allocated, FromSched, FromMpmain, FromUart, FromConsole, FromIoapic, FromInterrupts, FromCpu, FromLapic, FromPgalloc, FromVmm, FromKmain
  <2>2. zone'.begin = kern_end /\ zone'.end = kern_end + ZonePages /\ kern_end <= kern_end + ZonePages
    BY <1>0, <1>5
  <2>3. Len(blocks') = 0 /\ 0 <= Len(Bitmaps) + 2
    BY SMT, <1>0, <2>1, BitmapSizes
  <2>4. \A i \in 1..Len(blocks') : FALSE
    BY SMT, <2>3
  <2>. QED BY SMT, <1>0, <1>5, <2>1, <2>2, <2>3, <2>4 DEF Allocated, Allocating, FromSched, FromMpmain, FromUart, FromConsole, FromIoapic, FromInterrupts, FromCpu, FromLapic, FromPgalloc, FromVmm, FromKmain
<1>4. Prepared'
  BY DEF BootAllocInit, Goto, memVars, cpuVars, irqVars, BootInv, BootTypes, Prepared, FromSched, FromMpmain, FromUart, FromConsole, FromIoapic, FromInterrupts, FromCpu, FromLapic, FromPgalloc, FromVmm, FromKmain, NULL
<1>. QED BY <1>1, <1>2, <1>3, <1>4 DEF BootInv

LEMMA VmmLoadKtableInv == BootInv /\ VmmLoadKtable => BootInv'
<1> SUFFICES ASSUME BootInv, VmmLoadKtable PROVE BootInv'
  OBVIOUS
<1>1. BootTypes'
  BY MapSizes DEF VmmLoadKtable, Goto, memVars, cpuVars, irqVars, BootInv, BootTypes, Labels, FromSched, FromMpmain, FromUart, FromConsole, FromIoapic, FromInterrupts, FromCpu, FromLapic, FromPgalloc, FromVmm, FromKmain, Sources, Locks
<1>2. Mapped'
  BY DEF VmmLoadKtable, Goto, memVars, cpuVars, irqVars, BootInv, BootTypes, Mapped, FromSched, FromMpmain, FromUart, FromConsole, FromIoapic, FromInterrupts, FromCpu, FromLapic, FromPgalloc, FromVmm, FromKmain
<1>3. Allocated'
  <2>1. /\ pc = "vmm_load_ktable" /\ pc' = "pgalloc_init" /\ kern_end' = kern_end /\ blocks' = blocks
        /\ freed' = freed /\ zone' = zone /\ kern_end \in KernEnd /\ Allocated
    BY DEF VmmLoadKtable, Goto, BootInv, BootTypes
  <2>2. Len(blocks) = 2 /\ zone.begin = kern_end + 2
    BY <2>1 DEF Allocated
  <2>3. Room
    BY SMT, <2>1, <2>2, ZoneSizes, BitmapSizes, Fits DEF Room
  <2>4. Room'
    BY <2>1, <2>3 DEF Room
  <2>5. Len(blocks) \in 2 .. Len(Bitmaps) + 1
    BY SMT, <2>2, BitmapSizes
  <2>. QED BY <2>1, <2>2, <2>4, <2>5 DEF Allocated, Allocating, FromSched, FromMpmain, FromUart, FromConsole, FromIoapic, FromInterrupts, FromCpu, FromLapic, FromPgalloc, FromVmm, FromKmain
<1>4. Prepared'
  BY DEF VmmLoadKtable, Goto, memVars, cpuVars, irqVars, BootInv, BootTypes, Prepared, FromSched, FromMpmain, FromUart, FromConsole, FromIoapic, FromInterrupts, FromCpu, FromLapic, FromPgalloc, FromVmm, FromKmain, NULL
<1>. QED BY <1>1, <1>2, <1>3, <1>4 DEF BootInv

LEMMA CpuBspInitInv == BootInv /\ CpuBspInit => BootInv'
<1> SUFFICES ASSUME BootInv, CpuBspInit PROVE BootInv'
  OBVIOUS
<1>1. BootTypes'
  BY MapSizes DEF CpuBspInit, Goto, memVars, cpuVars, irqVars, BootInv, BootTypes, Places, Maps, Labels, FromSched, FromMpmain, FromUart, FromConsole, FromIoapic, FromInterrupts, FromCpu, FromLapic, FromPgalloc, FromVmm, FromKmain, Sources, Locks
<1>2. Mapped'
  BY DEF CpuBspInit, Goto, memVars, cpuVars, irqVars, BootInv, BootTypes, Mapped, FromSched, FromMpmain, FromUart, FromConsole, FromIoapic, FromInterrupts, FromCpu, FromLapic, FromPgalloc, FromVmm, FromKmain
<1>3. Allocated'
  BY MapSizes DEF CpuBspInit, Goto, memVars, cpuVars, irqVars, BootInv, BootTypes, Allocated, Allocating, Room, FromSched, FromMpmain, FromUart, FromConsole, FromIoapic, FromInterrupts, FromCpu, FromLapic, FromPgalloc, FromVmm, FromKmain
<1>4. Prepared'
  BY DEF CpuBspInit, Goto, memVars, cpuVars, irqVars, BootInv, BootTypes, Prepared, FromSched, FromMpmain, FromUart, FromConsole, FromIoapic, FromInterrupts, FromCpu, FromLapic, FromPgalloc, FromVmm, FromKmain, NULL
<1>. QED BY <1>1, <1>2, <1>3, <1>4 DEF BootInv

LEMMA InterruptInitInv == BootInv /\ InterruptInit => BootInv'
<1> SUFFICES ASSUME BootInv, InterruptInit PROVE BootInv'
  OBVIOUS
<1>1. BootTypes'
  BY MapSizes DEF InterruptInit, Goto, memVars, cpuVars, irqVars, BootInv, BootTypes, Labels, FromSched, FromMpmain, FromUart, FromConsole, FromIoapic, FromInterrupts, FromCpu, FromLapic, FromPgalloc, FromVmm, FromKmain, Sources, Locks
<1>2. Mapped'
  BY DEF InterruptInit, Goto, memVars, cpuVars, irqVars, BootInv, BootTypes, Mapped, FromSched, FromMpmain, FromUart, FromConsole, FromIoapic, FromInterrupts, FromCpu, FromLapic, FromPgalloc, FromVmm, FromKmain
<1>3. Allocated'
  BY MapSizes DEF InterruptInit, Goto, memVars, cpuVars, irqVars, BootInv, BootTypes, Allocated, Allocating, Room, FromSched, FromMpmain, FromUart, FromConsole, FromIoapic, FromInterrupts, FromCpu, FromLapic, FromPgalloc, FromVmm, FromKmain
<1>4. Prepared'
  BY DEF InterruptInit, Goto, memVars, cpuVars, irqVars, BootInv, BootTypes, Prepared, FromSched, FromMpmain, FromUart, FromConsole, FromIoapic, FromInterrupts, FromCpu, FromLapic, FromPgalloc, FromVmm, FromKmain, NULL
<1>. QED BY <1>1, <1>2, <1>3, <1>4 DEF BootInv

LEMMA IoapicInitInv == BootInv /\ IoapicInit => BootInv'
<1> SUFFICES ASSUME BootInv, IoapicInit PROVE BootInv'
  OBVIOUS
<1>1. BootTypes'
  BY MapSizes DEF IoapicInit, Goto, memVars, cpuVars, irqVars, BootInv, BootTypes, Labels, FromSched, FromMpmain, FromUart, FromConsole, FromIoapic, FromInterrupts, FromCpu, FromLapic, FromPgalloc, FromVmm, FromKmain, Sources, Locks
<1>2. Mapped'
  BY DEF IoapicInit, Goto, memVars, cpuVars, irqVars, BootInv, BootTypes, Mapped, FromSched, FromMpmain, FromUart, FromConsole, FromIoapic, FromInterrupts, FromCpu, FromLapic, FromPgalloc, FromVmm, FromKmain
<1>3. Allocated'
  BY MapSizes DEF IoapicInit, Goto, memVars, cpuVars, irqVars, BootInv, BootTypes, Allocated, Allocating, Room, FromSched, FromMpmain, FromUart, FromConsole, FromIoapic, FromInterrupts, FromCpu, FromLapic, FromPgalloc, FromVmm, FromKmain
<1>4. Prepared'
  BY DEF IoapicInit, Goto, memVars, cpuVars, irqVars, BootInv, BootTypes, Prepared, FromSched, FromMpmain, FromUart, FromConsole, FromIoapic, FromInterrupts, FromCpu, FromLapic, FromPgalloc, FromVmm, FromKmain, NULL
<1>. QED BY <1>1, <1>2, <1>3, <1>4 DEF BootInv

LEMMA UartInitInv == BootInv /\ UartInit => BootInv'
<1> SUFFICES ASSUME BootInv, UartInit PROVE BootInv'
  OBVIOUS
<1>1. BootTypes'
  BY MapSizes DEF UartInit, Goto, memVars, cpuVars, irqVars, BootInv, BootTypes, Labels, FromSched, FromMpmain, FromUart, FromConsole, FromIoapic, FromInterrupts, FromCpu, FromLapic, FromPgalloc, FromVmm, FromKmain, Sources, Locks
<1>2. Mapped'
  BY DEF UartInit, Goto, memVars, cpuVars, irqVars, BootInv, BootTypes, Mapped, FromSched, FromMpmain, FromUart, FromConsole, FromIoapic, FromInterrupts, FromCpu, FromLapic, FromPgalloc, FromVmm, FromKmain
<1>3. Allocated'
  BY MapSizes DEF UartInit, Goto, memVars, cpuVars, irqVars, BootInv, BootTypes, Allocated, Allocating, Room, FromSched, FromMpmain, FromUart, FromConsole, FromIoapic, FromInterrupts, FromCpu, FromLapic, FromPgalloc, FromVmm, FromKmain
<1>4. Prepared'
  BY DEF UartInit, Goto, memVars, cpuVars, irqVars, BootInv, BootTypes, Prepared, FromSched, FromMpmain, FromUart, FromConsole, FromIoapic, FromInterrupts, FromCpu, FromLapic, FromPgalloc, FromVmm, FromKmain, NULL
<1>. QED BY <1>1, <1>2, <1>3, <1>4 DEF BootInv

LEMMA LapicInitInv == BootInv /\ LapicInit => BootInv'
<1> SUFFICES ASSUME BootInv, LapicInit PROVE BootInv'
  OBVIOUS
<1>1. BootTypes'
  BY MapSizes DEF LapicInit, PanicEnds, Goto, memVars, cpuVars, irqVars, BootInv, BootTypes, Prepared, Labels, FromSched, FromMpmain, FromUart, FromConsole, FromIoapic, FromInterrupts, FromCpu, FromLapic, FromPgalloc, FromVmm, FromKmain, Sources, Locks
<1>2. Mapped'
  BY DEF LapicInit, PanicEnds, Goto, memVars, cpuVars, irqVars, BootInv, BootTypes, Mapped, Prepared, FromSched, FromMpmain, FromUart, FromConsole, FromIoapic, FromInterrupts, FromCpu, FromLapic, FromPgalloc, FromVmm, FromKmain
<1>3. Allocated'
  BY DEF LapicInit, PanicEnds, Goto, memVars, cpuVars, irqVars, BootInv, BootTypes, Allocated, Allocating, Room, Prepared, FromSched, FromMpmain, FromUart, FromConsole, FromIoapic, FromInterrupts, FromCpu, FromLapic, FromPgalloc, FromVmm, FromKmain
<1>4. Prepared'
  BY DEF LapicInit, PanicEnds, Goto, memVars, cpuVars, irqVars, BootInv, BootTypes, Prepared, FromSched, FromMpmain, FromUart, FromConsole, FromIoapic, FromInterrupts, FromCpu, FromLapic, FromPgalloc, FromVmm, FromKmain, NULL
<1>. QED BY <1>1, <1>2, <1>3, <1>4 DEF BootInv


LEMMA ConsoleInitInv == BootInv /\ ConsoleInit => BootInv'
<1> SUFFICES ASSUME BootInv, ConsoleInit PROVE BootInv'
  OBVIOUS
<1>1. BootTypes'
  BY MapSizes DEF ConsoleInit, Using, CanLock, Goto, memVars, cpuVars, irqVars, BootInv, BootTypes, Prepared, Labels, FromSched, FromMpmain, FromUart, FromConsole, FromIoapic, FromInterrupts, FromCpu, FromLapic, FromPgalloc, FromVmm, FromKmain, Sources, Locks
<1>2. Mapped'
  BY DEF ConsoleInit, Using, CanLock, Goto, memVars, cpuVars, irqVars, BootInv, BootTypes, Mapped, Prepared, FromSched, FromMpmain, FromUart, FromConsole, FromIoapic, FromInterrupts, FromCpu, FromLapic, FromPgalloc, FromVmm, FromKmain
<1>3. Allocated'
  BY DEF ConsoleInit, Using, CanLock, Goto, memVars, cpuVars, irqVars, BootInv, BootTypes, Allocated, Allocating, Room, Prepared, FromSched, FromMpmain, FromUart, FromConsole, FromIoapic, FromInterrupts, FromCpu, FromLapic, FromPgalloc, FromVmm, FromKmain
<1>4. Prepared'
  BY DEF ConsoleInit, Using, CanLock, Goto, memVars, cpuVars, irqVars, BootInv, BootTypes, Prepared, FromSched, FromMpmain, FromUart, FromConsole, FromIoapic, FromInterrupts, FromCpu, FromLapic, FromPgalloc, FromVmm, FromKmain, NULL
<1>. QED BY <1>1, <1>2, <1>3, <1>4 DEF BootInv


LEMMA ProcInitInv == BootInv /\ ProcInit => BootInv'
<1> SUFFICES ASSUME BootInv, ProcInit PROVE BootInv'
  OBVIOUS
<1>1. BootTypes'
  BY MapSizes DEF ProcInit, Using, CanLock, Goto, memVars, cpuVars, irqVars, BootInv, BootTypes, Prepared, Labels, FromSched, FromMpmain, FromUart, FromConsole, FromIoapic, FromInterrupts, FromCpu, FromLapic, FromPgalloc, FromVmm, FromKmain, Sources, Locks
<1>2. Mapped'
  BY DEF ProcInit, Using, CanLock, Goto, memVars, cpuVars, irqVars, BootInv, BootTypes, Mapped, Prepared, FromSched, FromMpmain, FromUart, FromConsole, FromIoapic, FromInterrupts, FromCpu, FromLapic, FromPgalloc, FromVmm, FromKmain
<1>3. Allocated'
  BY DEF ProcInit, Using, CanLock, Goto, memVars, cpuVars, irqVars, BootInv, BootTypes, Allocated, Allocating, Room, Prepared, FromSched, FromMpmain, FromUart, FromConsole, FromIoapic, FromInterrupts, FromCpu, FromLapic, FromPgalloc, FromVmm, FromKmain
<1>4. Prepared'
  BY DEF ProcInit, Using, CanLock, Goto, memVars, cpuVars, irqVars, BootInv, BootTypes, Prepared, FromSched, FromMpmain, FromUart, FromConsole, FromIoapic, FromInterrupts, FromCpu, FromLapic, FromPgalloc, FromVmm, FromKmain, NULL
<1>. QED BY <1>1, <1>2, <1>3, <1>4 DEF BootInv


LEMMA MpmainInv == BootInv /\ Mpmain => BootInv'
<1> SUFFICES ASSUME BootInv, Mpmain PROVE BootInv'
  OBVIOUS
<1>1. BootTypes'
  BY MapSizes DEF Mpmain, Using, CanLock, Goto, memVars, cpuVars, irqVars, BootInv, BootTypes, Prepared, Labels, FromSched, FromMpmain, FromUart, FromConsole, FromIoapic, FromInterrupts, FromCpu, FromLapic, FromPgalloc, FromVmm, FromKmain, Sources, Locks
<1>2. Mapped'
  BY DEF Mpmain, Using, CanLock, Goto, memVars, cpuVars, irqVars, BootInv, BootTypes, Mapped, Prepared, FromSched, FromMpmain, FromUart, FromConsole, FromIoapic, FromInterrupts, FromCpu, FromLapic, FromPgalloc, FromVmm, FromKmain
<1>3. Allocated'
  BY DEF Mpmain, Using, CanLock, Goto, memVars, cpuVars, irqVars, BootInv, BootTypes, Allocated, Allocating, Room, Prepared, FromSched, FromMpmain, FromUart, FromConsole, FromIoapic, FromInterrupts, FromCpu, FromLapic, FromPgalloc, FromVmm, FromKmain
<1>4. Prepared'
  BY DEF Mpmain, Using, CanLock, Goto, memVars, cpuVars, irqVars, BootInv, BootTypes, Prepared, FromSched, FromMpmain, FromUart, FromConsole, FromIoapic, FromInterrupts, FromCpu, FromLapic, FromPgalloc, FromVmm, FromKmain, NULL
<1>. QED BY <1>1, <1>2, <1>3, <1>4 DEF BootInv


LEMMA SchedStartInv == BootInv /\ SchedStart => BootInv'
<1> SUFFICES ASSUME BootInv, SchedStart PROVE BootInv'
  OBVIOUS
<1>1. BootTypes'
  BY MapSizes DEF SchedStart, Using, CanLock, Goto, memVars, cpuVars, irqVars, BootInv, BootTypes, Prepared, Labels, FromSched, FromMpmain, FromUart, FromConsole, FromIoapic, FromInterrupts, FromCpu, FromLapic, FromPgalloc, FromVmm, FromKmain, Sources, Locks
<1>2. Mapped'
  BY DEF SchedStart, Using, CanLock, Goto, memVars, cpuVars, irqVars, BootInv, BootTypes, Mapped, Prepared, FromSched, FromMpmain, FromUart, FromConsole, FromIoapic, FromInterrupts, FromCpu, FromLapic, FromPgalloc, FromVmm, FromKmain
<1>3. Allocated'
  BY DEF SchedStart, Using, CanLock, Goto, memVars, cpuVars, irqVars, BootInv, BootTypes, Allocated, Allocating, Room, Prepared, FromSched, FromMpmain, FromUart, FromConsole, FromIoapic, FromInterrupts, FromCpu, FromLapic, FromPgalloc, FromVmm, FromKmain
<1>4. Prepared'
  BY DEF SchedStart, Using, CanLock, Goto, memVars, cpuVars, irqVars, BootInv, BootTypes, Prepared, FromSched, FromMpmain, FromUart, FromConsole, FromIoapic, FromInterrupts, FromCpu, FromLapic, FromPgalloc, FromVmm, FromKmain, NULL
<1>. QED BY <1>1, <1>2, <1>3, <1>4 DEF BootInv

\* A device that raises its line.
LEMMA DeviceInv == ASSUME BootInv, NEW s \in Sources, Device(s) PROVE BootInv'
<1>1. BootTypes'
  BY DEF Device, memVars, cpuVars, BootInv, BootTypes, Sources
<1>2. Mapped'
  BY DEF Device, memVars, cpuVars, BootInv, BootTypes, Mapped
<1>3. Allocated'
  BY DEF Device, memVars, cpuVars, BootInv, BootTypes, Allocated, Room
<1>4. Prepared'
  BY DEF Device, memVars, cpuVars, BootInv, BootTypes, Prepared
<1>. QED BY <1>1, <1>2, <1>3, <1>4 DEF BootInv

\* boot_alloc_disable gives the page allocator what is behind every block.
LEMMA BootAllocDisableInv == BootInv /\ BootAllocDisable => BootInv'
<1> SUFFICES ASSUME BootInv, BootAllocDisable PROVE BootInv'
  OBVIOUS
<1>1. /\ pc = "boot_alloc_disable" /\ pc' = "console_init" /\ halted' = halted
      /\ freed' = [at |-> zone.begin, end |-> ZonePages] /\ zone' = [begin |-> 0, end |-> 0]
      /\ ready' = ready \cup {"kmalloc"}
      /\ UNCHANGED <<kern_end, low, high, using, blocks, touched, lapic, cpu, idt, if, irqVars>>
  BY DEF BootAllocDisable, Using, CanLock, Goto, BootInv, Prepared, FromSched, FromMpmain, FromUart, FromConsole, FromIoapic, FromInterrupts, FromCpu, FromLapic, FromPgalloc, FromVmm, FromKmain
<1>2. zone.begin \in Nat /\ ZonePages \in Nat
  BY ZoneSizes DEF BootInv, BootTypes
<1>3. BootTypes'
  <2>1. freed' \in [at : Nat, end : Nat] /\ zone' \in [begin : Nat, end : Nat]
    BY <1>1, <1>2
  <2>. QED BY <1>1, <2>1 DEF irqVars, BootInv, BootTypes, Labels, FromSched, FromMpmain, FromUart, FromConsole, FromIoapic, FromInterrupts, FromCpu, FromLapic, FromPgalloc, FromVmm, FromKmain, Locks
<1>4. Mapped'
  BY <1>1 DEF BootInv, Mapped, FromSched, FromMpmain, FromUart, FromConsole, FromIoapic, FromInterrupts, FromCpu, FromLapic, FromPgalloc, FromVmm, FromKmain
<1>5. Allocated'
  <2>1. Allocated /\ Len(blocks) = Len(Bitmaps) + 2 /\ Room
    BY <1>1 DEF BootInv, Allocated, FromSched, FromMpmain, FromUart, FromConsole, FromIoapic, FromInterrupts, FromCpu, FromLapic, FromPgalloc, FromVmm, FromKmain
  <2>2. (2 + Len(Bitmaps) - Len(blocks)) = 0
    BY SMT, <2>1, BitmapSizes
  <2>3. zone.begin <= ZonePages
    BY SMT, <1>2, <2>1, <2>2, BitmapSizes DEF Room
  <2>4. freed'.at = zone.begin /\ freed'.at <= freed'.end /\ zone'.begin = 0 /\ zone'.end = 0
    BY <1>1, <2>3
  <2>. QED BY SMT, <1>1, <2>1, <2>4 DEF Allocated, Allocating, FromSched, FromMpmain, FromUart, FromConsole, FromIoapic, FromInterrupts, FromCpu, FromLapic, FromPgalloc, FromVmm, FromKmain
<1>6. Prepared'
  BY <1>1 DEF irqVars, BootInv, Prepared, FromSched, FromMpmain, FromUart, FromConsole, FromIoapic, FromInterrupts, FromCpu, FromLapic, FromPgalloc, FromVmm, FromKmain, NULL
<1>. QED BY <1>3, <1>4, <1>5, <1>6 DEF BootInv

\* boot_alloc puts the block behind all the others, and fails when it would not
\* fit.
LEMMA BootAllocStep ==
  ASSUME BootInv, NEW size \in Nat, NEW next, BootAlloc(size, next),
         pc \in {"vmm_init_pml4", "vmm_init_pdp", "pgalloc_init"},
         kern_end' = kern_end, freed' = freed
  PROVE  \/ /\ pc' = "halted" /\ halted' \in {"panic", "silent"} /\ blocks' = blocks /\ zone' = zone
         \/ /\ pc' = next /\ halted' = halted
            /\ zone' \in [begin : Nat, end : Nat] /\ zone'.begin = zone.begin + size /\ zone'.end = zone.end
            /\ zone'.begin <= zone'.end
            /\ blocks' \in Seq([at : Nat, size : Nat]) /\ Len(blocks') = Len(blocks) + 1
            /\ \A i \in 1..Len(blocks') :
                 /\ blocks'[i].at >= kern_end
                 /\ blocks'[i].at + blocks'[i].size <= kern_end + ZonePages
                 /\ \A j \in 1 .. i - 1 : blocks'[j].at + blocks'[j].size <= blocks'[i].at
                 /\ blocks'[i].at + blocks'[i].size <= zone'.begin
<1>1. CASE ~(zone.begin + size < zone.end)
  BY <1>1 DEF BootAlloc, PanicEnds
<1>2. CASE zone.begin + size < zone.end
  <2> DEFINE b == [at |-> zone.begin, size |-> size]
  <2>1. /\ blocks' = Append(blocks, b) /\ zone' = [zone EXCEPT !.begin = zone.begin + size]
        /\ halted' = halted /\ pc' = next
    BY <1>2 DEF BootAlloc
  <2>2. zone \in [begin : Nat, end : Nat] /\ blocks \in Seq([at : Nat, size : Nat])
    BY DEF BootInv, BootTypes
  <2>3. /\ zone' \in [begin : Nat, end : Nat] /\ zone'.begin = zone.begin + size /\ zone'.end = zone.end
        /\ zone'.begin <= zone'.end
    <3>1. zone.begin \in Nat /\ zone.end \in Nat
      BY <2>2
    <3>2. zone' = [begin |-> zone.begin + size, end |-> zone.end]
      BY <2>1, <2>2
    <3>3. zone.begin + size \in Nat /\ zone.begin + size <= zone.end
      BY SMT, <1>2, <3>1
    <3>. QED BY <3>1, <3>2, <3>3
  <2>4. b \in [at : Nat, size : Nat] /\ b.at = zone.begin /\ b.size = size
    BY <2>2
  <2> HIDE DEF b
  <2>5. /\ blocks' \in Seq([at : Nat, size : Nat]) /\ Len(blocks') = Len(blocks) + 1
        /\ Len(blocks) \in Nat
        /\ \A i \in 1..Len(blocks) : blocks'[i] = blocks[i] /\ blocks[i] \in [at : Nat, size : Nat]
        /\ blocks'[Len(blocks) + 1] = b
    <3> DEFINE R == [at : Nat, size : Nat]
    <3>1. b \in R /\ blocks \in Seq(R)
      BY <2>2, <2>4
    <3> HIDE DEF R
    <3>2. /\ blocks' \in Seq(R) /\ Len(blocks') = Len(blocks) + 1
          /\ Len(blocks) \in Nat
          /\ \A i \in 1..Len(blocks) : blocks'[i] = blocks[i] /\ blocks[i] \in R
          /\ blocks'[Len(blocks) + 1] = b
      BY SMT, <2>1, <3>1
    <3>. QED BY <3>2 DEF R
  <2>6. zone.begin >= kern_end /\ zone.end = kern_end + ZonePages
    BY DEF BootInv, Allocated, Allocating, FromSched, FromMpmain, FromUart, FromConsole, FromIoapic, FromInterrupts, FromCpu, FromLapic, FromPgalloc, FromVmm, FromKmain
  <2>7. \A i \in 1..Len(blocks) :
          /\ blocks[i].at >= kern_end
          /\ blocks[i].at + blocks[i].size <= kern_end + ZonePages
          /\ \A j \in 1 .. i - 1 : blocks[j].at + blocks[j].size <= blocks[i].at
          /\ blocks[i].at + blocks[i].size <= zone.begin
    BY DEF BootInv, Allocated, Allocating, FromSched, FromMpmain, FromUart, FromConsole, FromIoapic, FromInterrupts, FromCpu, FromLapic, FromPgalloc, FromVmm, FromKmain
  <2>8. ASSUME NEW i \in 1..Len(blocks')
        PROVE  /\ blocks'[i].at >= kern_end
               /\ blocks'[i].at + blocks'[i].size <= kern_end + ZonePages
               /\ \A j \in 1 .. i - 1 : blocks'[j].at + blocks'[j].size <= blocks'[i].at
               /\ blocks'[i].at + blocks'[i].size <= zone'.begin
    <3>1. CASE i = Len(blocks) + 1
      <4>1. blocks'[i] = b /\ zone'.begin = b.at + b.size
        BY <2>3, <2>4, <2>5, <3>1
      <4>2. \A j \in 1 .. i - 1 : j \in 1..Len(blocks) /\ blocks'[j] = blocks[j]
        <5>1. Len(blocks) \in Nat
          BY <2>5
        <5>2. \A j \in 1 .. i - 1 : j \in 1..Len(blocks)
          BY SMT, <3>1, <5>1
        <5>. QED BY <2>5, <5>2
      <4>3. b.at \in Nat /\ b.size \in Nat /\ kern_end \in Nat /\ ZonePages \in Nat
        BY <2>4, ZoneSizes DEF BootInv, BootTypes
      <4>4. b.at >= kern_end /\ b.at + b.size <= kern_end + ZonePages /\ b.at + b.size <= zone'.begin
        BY SMT, <2>3, <2>4, <2>6, <4>1, <4>3
      <4>5. \A j \in 1 .. i - 1 : blocks'[j].at + blocks'[j].size <= b.at
        BY <2>4, <2>7, <4>2
      <4>. QED BY <4>1, <4>4, <4>5
    <3>2. CASE i # Len(blocks) + 1
      <4>1. i \in 1..Len(blocks) /\ blocks'[i] = blocks[i]
        BY SMT, <2>5, <3>2
      <4>2. \A j \in 1 .. i - 1 : j \in 1..Len(blocks) /\ blocks'[j] = blocks[j]
        <5>1. Len(blocks) \in Nat /\ i \in 1..Len(blocks)
          BY <2>5, <4>1
        <5>2. \A j \in 1 .. i - 1 : j \in 1..Len(blocks)
          BY SMT, <5>1
        <5>. QED BY <2>5, <5>2
      <4>3. blocks[i] \in [at : Nat, size : Nat] /\ blocks[i].at + blocks[i].size <= zone.begin
        BY <2>5, <2>7, <4>1
      <4>4. blocks[i].at + blocks[i].size <= zone'.begin
        BY SMT, <2>2, <2>3, <4>3
      <4>. QED BY <2>7, <4>1, <4>2, <4>4
    <3>. QED BY <3>1, <3>2
  <2>. QED BY <2>1, <2>3, <2>5, <2>8
<1>. QED BY <1>1, <1>2

\* A boot_alloc that returns NULL ends the boot and changes nothing else.
LEMMA AllocFails ==
  ASSUME BootInv, pc \in {"vmm_init_pml4", "vmm_init_pdp", "pgalloc_init"},
         pc' = "halted", halted' \in {"panic", "silent"}, ready' \subseteq Locks,
         UNCHANGED <<kern_end, low, high, using, zone, blocks, freed, touched, lapic, cpu, idt, if, irqVars>>
  PROVE  BootInv'
<1>1. BootTypes'
  BY DEF irqVars, BootInv, BootTypes, Labels, FromSched, FromMpmain, FromUart, FromConsole, FromIoapic, FromInterrupts, FromCpu, FromLapic, FromPgalloc, FromVmm, FromKmain
<1>2. Mapped'
  BY DEF BootInv, Mapped, FromSched, FromMpmain, FromUart, FromConsole, FromIoapic, FromInterrupts, FromCpu, FromLapic, FromPgalloc, FromVmm, FromKmain
<1>3. Allocated'
  BY DEF BootInv, Allocated, Allocating, FromSched, FromMpmain, FromUart, FromConsole, FromIoapic, FromInterrupts, FromCpu, FromLapic, FromPgalloc, FromVmm, FromKmain
<1>4. Prepared'
  BY DEF irqVars, BootInv, Prepared, FromSched, FromMpmain, FromUart, FromConsole, FromIoapic, FromInterrupts, FromCpu, FromLapic, FromPgalloc, FromVmm, FromKmain, NULL
<1>. QED BY <1>1, <1>2, <1>3, <1>4 DEF BootInv

LEMMA VmmInitInv == BootInv /\ VmmInit => BootInv'
<1> SUFFICES ASSUME BootInv, VmmInit PROVE BootInv'
  OBVIOUS
<1>1. UNCHANGED <<kern_end, low, high, using, freed, touched, cpuVars, irqVars>>
  BY DEF VmmInit
<1>2. ASSUME NEW next, BootAlloc(1, next),
             \/ pc = "vmm_init_pml4" /\ next = "vmm_init_pdp"
             \/ pc = "vmm_init_pdp" /\ next = "vmm_load_ktable"
      PROVE  BootInv'
  <2>0. pc \in {"vmm_init_pml4", "vmm_init_pdp", "pgalloc_init"} /\ kern_end' = kern_end /\ freed' = freed
    BY <1>1, <1>2
  <2>1. CASE pc' = "halted" /\ halted' \in {"panic", "silent"} /\ blocks' = blocks /\ zone' = zone
    <3>1. /\ UNCHANGED <<kern_end, low, high, using, zone, blocks, freed, touched, lapic, cpu, idt, if, irqVars>>
          /\ ready' \subseteq Locks
      BY <1>1, <2>1 DEF cpuVars, BootInv, BootTypes
    <3>. QED BY <2>0, <2>1, <3>1, AllocFails
  <2>2. CASE /\ pc' = next /\ halted' = halted
             /\ zone' \in [begin : Nat, end : Nat] /\ zone'.begin = zone.begin + 1 /\ zone'.end = zone.end
             /\ zone'.begin <= zone'.end
             /\ blocks' \in Seq([at : Nat, size : Nat]) /\ Len(blocks') = Len(blocks) + 1
             /\ \A i \in 1..Len(blocks') :
                  /\ blocks'[i].at >= kern_end
                  /\ blocks'[i].at + blocks'[i].size <= kern_end + ZonePages
                  /\ \A j \in 1 .. i - 1 : blocks'[j].at + blocks'[j].size <= blocks'[i].at
                  /\ blocks'[i].at + blocks'[i].size <= zone'.begin
    <3>1. BootTypes'
      BY <1>1, <1>2, <2>2 DEF cpuVars, irqVars, BootInv, BootTypes, Labels, FromSched, FromMpmain, FromUart, FromConsole, FromIoapic, FromInterrupts, FromCpu, FromLapic, FromPgalloc, FromVmm, FromKmain
    <3>2. Mapped'
      BY <1>1, <1>2, <2>2 DEF BootInv, Mapped, FromSched, FromMpmain, FromUart, FromConsole, FromIoapic, FromInterrupts, FromCpu, FromLapic, FromPgalloc, FromVmm, FromKmain
    <3>3. Allocated'
      <4>1. /\ pc = "vmm_init_pml4" => zone.begin = kern_end /\ Len(blocks) = 0
            /\ pc = "vmm_init_pdp" => zone.begin = kern_end + 1 /\ Len(blocks) = 1
            /\ zone.end = kern_end + ZonePages /\ freed.at = freed.end
        BY <1>2 DEF BootInv, Allocated, Allocating, FromSched, FromMpmain, FromUart, FromConsole, FromIoapic, FromInterrupts, FromCpu, FromLapic, FromPgalloc, FromVmm, FromKmain
      <4>2. kern_end \in Nat
        BY ZoneSizes DEF BootInv, BootTypes
      <4>3. /\ next = "vmm_init_pdp" => zone'.begin = kern_end + 1 /\ Len(blocks') = 1
            /\ next = "vmm_load_ktable" => zone'.begin = kern_end + 2 /\ Len(blocks') = 2
            /\ zone'.begin >= kern_end /\ zone'.end = kern_end + ZonePages
            /\ Len(blocks') <= Len(Bitmaps) + 2
        <5>1. zone'.begin = zone.begin + 1 /\ zone'.end = zone.end /\ Len(blocks') = Len(blocks) + 1
          BY <2>2
        <5>2. \/ next = "vmm_init_pdp" /\ zone.begin = kern_end /\ Len(blocks) = 0
              \/ next = "vmm_load_ktable" /\ zone.begin = kern_end + 1 /\ Len(blocks) = 1
          BY <1>2, <4>1
        <5>3. CASE next = "vmm_init_pdp" /\ zone.begin = kern_end /\ Len(blocks) = 0
          <6>1. zone'.begin = kern_end + 1 /\ Len(blocks') = 1 /\ zone'.begin >= kern_end
            BY SMT, <4>2, <5>1, <5>3
          <6>. QED BY SMT, <4>1, <5>1, <5>3, <6>1, BitmapSizes
        <5>4. CASE next = "vmm_load_ktable" /\ zone.begin = kern_end + 1 /\ Len(blocks) = 1
          <6>1. zone'.begin = kern_end + 2 /\ Len(blocks') = 2 /\ zone'.begin >= kern_end
            BY SMT, <4>2, <5>1, <5>4
          <6>. QED BY SMT, <4>1, <5>1, <5>4, <6>1, BitmapSizes
        <5>. QED BY <5>2, <5>3, <5>4
      <4>4. pc' \in {"vmm_init_pdp", "vmm_load_ktable"} /\ pc' = next
        BY <1>2, <2>2
      <4>. QED BY <1>1, <2>2, <4>1, <4>3, <4>4 DEF Allocated, Allocating, FromSched, FromMpmain, FromUart, FromConsole, FromIoapic, FromInterrupts, FromCpu, FromLapic, FromPgalloc, FromVmm, FromKmain
    <3>4. Prepared'
      BY <1>1, <1>2, <2>2 DEF cpuVars, irqVars, BootInv, Prepared, FromSched, FromMpmain, FromUart, FromConsole, FromIoapic, FromInterrupts, FromCpu, FromLapic, FromPgalloc, FromVmm, FromKmain, NULL
    <3>. QED BY <3>1, <3>2, <3>3, <3>4 DEF BootInv
  <2>. QED BY <1>2, <2>0, <2>1, <2>2, BootAllocStep
<1>. QED BY <1>2 DEF VmmInit

\* A bitmap takes no more than its share of the room.
LEMMA Share ==
  ASSUME NEW m \in Nat, NEW n \in Nat, NEW b \in Nat, n < m
  PROVE  (m - n) * b = (m - (n + 1)) * b + b /\ (m - (n + 1)) * b \in Nat
<1>1. (m - n) * b = (m - (n + 1)) * b + b
  BY SMT
<1>2. ASSUME NEW k \in Nat PROVE k * b \in Nat
  BY SMT
<1>3. m - (n + 1) \in Nat
  BY SMT
<1>. QED BY <1>1, <1>2, <1>3

LEMMA PgallocInitInv == BootInv /\ PgallocInit => BootInv'
<1> SUFFICES ASSUME BootInv, PgallocInit PROVE BootInv'
  OBVIOUS
<1> DEFINE n == Len(blocks)
           size == Bitmaps[n - 1]
           next == IF n - 1 = Len(Bitmaps) THEN "lapic_init" ELSE "pgalloc_init"
<1>1. /\ pc = "pgalloc_init" /\ BootAlloc(size, next) /\ ready' = ready \cup {"pgalloc"}
      /\ UNCHANGED <<kern_end, low, high, using, freed, touched, lapic, cpu, idt, if, irqVars>>
  BY DEF PgallocInit
<1>2. n \in 2 .. Len(Bitmaps) + 1 /\ Room /\ zone.end = kern_end + ZonePages
      /\ zone.begin >= kern_end /\ freed.at = freed.end
  BY <1>1 DEF BootInv, Allocated, Allocating, FromSched, FromMpmain, FromUart, FromConsole, FromIoapic, FromInterrupts, FromCpu, FromLapic, FromPgalloc, FromVmm, FromKmain
<1>3. n \in Nat /\ n >= 2 /\ n <= Len(Bitmaps) + 1 /\ n - 1 \in 1..Len(Bitmaps)
  BY SMT, <1>2, BitmapSizes
<1>4. size \in Nat /\ size <= Bitmaps[1]
  BY <1>3, BitmapSizes
<1>5. kern_end \in Nat /\ zone.begin \in Nat /\ ZonePages \in Nat
  BY ZoneSizes DEF BootInv, BootTypes
<1>6. next \in {"lapic_init", "pgalloc_init"} /\ (next = "lapic_init" <=> n = Len(Bitmaps) + 1)
  BY SMT, <1>3, BitmapSizes
<1> HIDE DEF size, next
<1>0. pc \in {"vmm_init_pml4", "vmm_init_pdp", "pgalloc_init"} /\ kern_end' = kern_end /\ freed' = freed
  BY <1>1
<1>7. CASE pc' = "halted" /\ halted' \in {"panic", "silent"} /\ blocks' = blocks /\ zone' = zone
  <2>1. /\ UNCHANGED <<kern_end, low, high, using, zone, blocks, freed, touched, lapic, cpu, idt, if, irqVars>>
        /\ ready' \subseteq Locks
    BY <1>1, <1>7 DEF BootInv, BootTypes, Locks
  <2>. QED BY <1>0, <1>7, <2>1, AllocFails
<1>8. CASE /\ pc' = next /\ halted' = halted
           /\ zone' \in [begin : Nat, end : Nat] /\ zone'.begin = zone.begin + size /\ zone'.end = zone.end
           /\ zone'.begin <= zone'.end
           /\ blocks' \in Seq([at : Nat, size : Nat]) /\ Len(blocks') = Len(blocks) + 1
           /\ \A i \in 1..Len(blocks') :
                /\ blocks'[i].at >= kern_end
                /\ blocks'[i].at + blocks'[i].size <= kern_end + ZonePages
                /\ \A j \in 1 .. i - 1 : blocks'[j].at + blocks'[j].size <= blocks'[i].at
                /\ blocks'[i].at + blocks'[i].size <= zone'.begin
  <2>1. BootTypes'
    BY <1>1, <1>6, <1>8 DEF irqVars, BootInv, BootTypes, Labels, Locks, FromSched, FromMpmain, FromUart, FromConsole, FromIoapic, FromInterrupts, FromCpu, FromLapic, FromPgalloc, FromVmm, FromKmain
  <2>2. Mapped'
    BY <1>1, <1>6, <1>8 DEF BootInv, Mapped, FromSched, FromMpmain, FromUart, FromConsole, FromIoapic, FromInterrupts, FromCpu, FromLapic, FromPgalloc, FromVmm, FromKmain
  <2>3. Room'
    <3>1. Len(blocks') = n + 1 /\ zone'.begin = zone.begin + size
      BY <1>8
    <3>2. /\ (2 + Len(Bitmaps) - n) * Bitmaps[1] = (2 + Len(Bitmaps) - (n + 1)) * Bitmaps[1] + Bitmaps[1]
          /\ (2 + Len(Bitmaps) - (n + 1)) * Bitmaps[1] \in Nat
      <4>1. 2 + Len(Bitmaps) \in Nat /\ n < 2 + Len(Bitmaps)
        BY SMT, <1>3, BitmapSizes
      <4>. QED BY SMT, <1>3, <4>1, Share, BitmapSizes
    <3>3. zone.begin + (2 + Len(Bitmaps) - n) * Bitmaps[1] <= ZonePages
      BY <1>2 DEF Room
    <3> DEFINE rest == (2 + Len(Bitmaps) - (n + 1)) * Bitmaps[1]
    <3>4. zone.begin + (rest + Bitmaps[1]) <= ZonePages /\ rest \in Nat
      BY <3>2, <3>3
    <3>5. zone'.begin + (2 + Len(Bitmaps) - Len(blocks')) * Bitmaps[1] = (zone.begin + size) + rest
      BY <3>1
    <3> HIDE DEF rest, n
    <3>6. (zone.begin + size) + rest <= ZonePages
      BY SMT, <1>4, <1>5, <3>4, BitmapSizes
    <3>. QED BY <3>5, <3>6 DEF Room
  <2>4. Allocated'
    <3>1. /\ next = "pgalloc_init" => Len(blocks') \in 2 .. Len(Bitmaps) + 1
          /\ next = "lapic_init" => Len(blocks') = Len(Bitmaps) + 2
          /\ Len(blocks') <= Len(Bitmaps) + 2
          /\ zone'.begin >= kern_end /\ zone'.end = kern_end + ZonePages
      <4>1. zone'.begin = zone.begin + size /\ zone'.end = zone.end /\ Len(blocks') = n + 1
        BY <1>8
      <4>. QED BY SMTT(30), <1>2, <1>3, <1>4, <1>5, <1>6, <4>1, BitmapSizes
    <3>. QED BY <1>1, <1>2, <1>6, <1>8, <2>3, <3>1 DEF Allocated, Allocating, FromSched, FromMpmain, FromUart, FromConsole, FromIoapic, FromInterrupts, FromCpu, FromLapic, FromPgalloc, FromVmm, FromKmain
  <2>5. Prepared'
    BY <1>1, <1>6, <1>8 DEF irqVars, BootInv, Prepared, FromSched, FromMpmain, FromUart, FromConsole, FromIoapic, FromInterrupts, FromCpu, FromLapic, FromPgalloc, FromVmm, FromKmain, NULL
  <2>. QED BY <2>1, <2>2, <2>4, <2>5 DEF BootInv
<1>. QED BY <1>0, <1>1, <1>4, <1>7, <1>8, BootAllocStep

\* The invariant when the loader jumps to the kernel.
LEMMA InitBootInv == Init => BootInv
<1> SUFFICES ASSUME Init PROVE BootInv
  OBVIOUS
<1> USE DEF Init
<1>1. BootTypes
  <2>1. zone \in [begin : Nat, end : Nat] /\ freed \in [at : Nat, end : Nat]
    OBVIOUS
  <2>2. using \in Places
    BY DEF Places, Maps
  <2>3. blocks \in Seq([at : Nat, size : Nat])
    BY SMT
  <2>. QED BY <2>1, <2>2, <2>3 DEF BootTypes, Labels, Sources, NULL
<1>2. Mapped
  BY DEF Mapped, FromSched, FromMpmain, FromUart, FromConsole, FromIoapic, FromInterrupts, FromCpu, FromLapic, FromPgalloc, FromVmm, FromKmain
<1>3. Allocated
  BY SMT, BitmapSizes DEF Allocated, Allocating, FromSched, FromMpmain, FromUart, FromConsole, FromIoapic, FromInterrupts, FromCpu, FromLapic, FromPgalloc, FromVmm, FromKmain
<1>4. Prepared
  BY DEF Prepared, FromSched, FromMpmain, FromUart, FromConsole, FromIoapic, FromInterrupts, FromCpu, FromLapic, FromPgalloc, FromVmm, FromKmain, NULL
<1>. QED BY <1>1, <1>2, <1>3, <1>4 DEF BootInv

LEMMA UnchangedBootInv == BootInv /\ UNCHANGED vars => BootInv'
<1> SUFFICES ASSUME BootInv, UNCHANGED vars PROVE BootInv'
  OBVIOUS
<1>1. BootTypes'
  BY DEF vars, BootInv, BootTypes
<1>2. Mapped'
  BY DEF vars, BootInv, Mapped
<1>3. Allocated'
  BY DEF vars, BootInv, Allocated, Room
<1>4. Prepared'
  BY DEF vars, BootInv, Prepared
<1>. QED BY <1>1, <1>2, <1>3, <1>4 DEF BootInv

\* Every step of the boot keeps the invariant.
LEMMA NextBootInv == BootInv /\ Next => BootInv'
BY DeviceInv, KentryInv, LongStartInv, BootAllocInitInv, VmmInitInv, VmmLoadKtableInv,
   PgallocInitInv, LapicInitInv, CpuBspInitInv, InterruptInitInv, IoapicInitInv,
   BootAllocDisableInv, ConsoleInitInv, UartInitInv, ProcInitInv, MpmainInv, SchedStartInv
   DEF Next

\* The invariant holds for ever.
LEMMA BootInvariant == PowerOnSpec => []BootInv
<1>1. PowerOnInit => BootInv
  BY InitBootInv DEF PowerOnInit
<1>2. BootInv /\ [PowerOnNext]_<<vars, loadVars>> => BootInv'
  BY NextBootInv, UnchangedBootInv DEF PowerOnNext, Loading, Booting
<1>. QED BY <1>1, <1>2, PTL DEF PowerOnSpec

\* bsp_init.s and vmm_load_ktable: code, stack and GDT are always reached through
\* a map that exists, and the APICs are addressed when they are mapped.
THEOREM MapsInUse == PowerOnSpec => []InUseIsMapped
<1>1. BootInv => InUseIsMapped
  <2> SUFFICES ASSUME BootInv, pc # "kentry"
               PROVE  /\ \A x \in DOMAIN using : (using[x] = "low" /\ low > 0) \/ (using[x] = "high" /\ high > 0)
                      /\ touched < high
    BY DEF InUseIsMapped
  <2>1. high > 0 /\ touched < high
    BY SMT, MapSizes DEF BootInv, BootTypes, Mapped
  <2>2. CASE pc = "long_start"
    BY SMT, <2>1, <2>2 DEF BootInv, Mapped
  <2>3. CASE pc \in FromKmain
    BY <2>1, <2>3 DEF BootInv, Mapped
  <2>. QED BY <2>1, <2>2, <2>3 DEF BootInv, BootTypes, Labels
<1>. QED BY <1>1, BootInvariant, PTL

\* What is mapped has at least the GiB that kentry maps.
LEMMA FirstGB == ASSUME NEW h \in Nat, NEW g \in Nat, h >= 1 PROVE h * g >= g
BY SMT

\* boot_alloc and boot_alloc_disable: no block of the boot allocator overlaps the
\* kernel, another block or what the page allocator gets.
THEOREM BlocksApart == PowerOnSpec => []BlocksStayApart
<1>1. BootInv => BlocksStayApart
  <2> SUFFICES ASSUME BootInv PROVE BlocksStayApart
    OBVIOUS
  <2>1. TypeOK
    <3>1. {low, high, touched} \subseteq 0 .. PhysMapGB
      BY SMT, MapSizes DEF BootInv, BootTypes, Mapped
    <3>2. \A x \in DOMAIN using : using[x] \in {"physical", "low", "high"}
      BY DEF BootInv, BootTypes, Places, Maps
    <3>3. zone.begin <= zone.end /\ Len(blocks) <= 2 + Len(Bitmaps)
      BY SMT, BitmapSizes DEF BootInv, Allocated
    <3>4. freed.at <= freed.end
      BY SMT DEF BootInv, BootTypes, Allocated
    <3>5. {lapic, cpu, idt, if, uart} \subseteq BOOLEAN
      BY DEF BootInv, BootTypes
    <3>. QED BY <3>1, <3>2, <3>3, <3>4, <3>5 DEF TypeOK, BootInv, BootTypes
  <2>2. ASSUME NEW i \in 1..Len(blocks)
        PROVE  /\ blocks[i].at >= kern_end
               /\ blocks[i].at + blocks[i].size <= high * GB
               /\ \A j \in 1 .. i - 1 : blocks[j].at + blocks[j].size <= blocks[i].at
               /\ freed.at < freed.end => blocks[i].at + blocks[i].size <= freed.at
    <3>1. /\ blocks[i].at >= kern_end
          /\ blocks[i].at + blocks[i].size <= kern_end + ZonePages
          /\ \A j \in 1 .. i - 1 : blocks[j].at + blocks[j].size <= blocks[i].at
          /\ pc \in FromConsole => blocks[i].at + blocks[i].size <= freed.at
      BY DEF BootInv, Allocated
    <3>2. blocks[i] \in [at : Nat, size : Nat] /\ Len(blocks) # 0
      <4> DEFINE R == [at : Nat, size : Nat]
      <4>1. blocks \in Seq(R)
        BY DEF BootInv, BootTypes
      <4> HIDE DEF R
      <4>2. blocks[i] \in R /\ Len(blocks) # 0
        BY SMT, <4>1
      <4>. QED BY <4>2 DEF R
    <3>3. pc # "kentry"
      BY <3>2 DEF BootInv, Allocated
    <3>4. high \in Nat /\ high >= 1
      BY SMT, <3>3, MapSizes DEF BootInv, Mapped
    <3>5. high * GB >= GB /\ high * GB \in Nat
      BY SMT, <3>4, FirstGB, ZoneSizes
    <3>6. kern_end + ZonePages <= GB /\ kern_end \in Nat
      BY BootAssumption, ZoneSizes DEF BootInv, BootTypes
    <3>7. blocks[i].at \in Nat /\ blocks[i].size \in Nat
      BY <3>2
    <3>8. blocks[i].at + blocks[i].size <= high * GB
      BY SMT, <3>1, <3>5, <3>6, <3>7, ZoneSizes
    <3>9. freed.at < freed.end => pc \in FromConsole
      BY SMT DEF BootInv, BootTypes, Allocated
    <3>. QED BY <3>1, <3>8, <3>9
  <2>. QED BY <2>1, <2>2 DEF BlocksStayApart
<1>. QED BY <1>1, BootInvariant, PTL

\* kmain: every lock is initialised, and cur_cpu works, before it is taken.
THEOREM LocksReady == PowerOnSpec => []LocksAreReady
<1>1. BootInv => LocksAreReady
  BY DEF BootInv, BootTypes, LocksAreReady, NULL
<1>. QED BY <1>1, BootInvariant, PTL

\* enable_interrupt in sched_start: everything the handlers use is set up, and
\* what can be waiting was let through by lapic_init (the timer and the LAPIC's
\* error interrupt, for which handle_interrupt panics) or by uart_init.
THEOREM InterruptsExpected == PowerOnSpec => []InterruptsAreExpected
<1>1. BootInv => InterruptsAreExpected
  <2> SUFFICES ASSUME BootInv, if
               PROVE  idt /\ zone.end = 0 /\ ready = Locks /\ pending \subseteq {"timer", "com1", "error"}
    BY DEF InterruptsAreExpected
  <2>1. pc = "running"
    BY DEF BootInv, Prepared
  <2>2. /\ idt /\ "pic" \notin pending /\ "other_line" \notin pending
        /\ {"pgalloc", "kmalloc", "console", "console_read", "ptable", "sched"} \subseteq ready
    BY <2>1 DEF BootInv, Prepared, FromSched, FromMpmain, FromUart, FromConsole, FromIoapic, FromInterrupts, FromCpu, FromLapic, FromPgalloc, FromVmm, FromKmain
  <2>3. zone.end = 0
    BY <2>1 DEF BootInv, Allocated, FromSched, FromMpmain, FromUart, FromConsole, FromIoapic, FromInterrupts, FromCpu, FromLapic, FromPgalloc, FromVmm, FromKmain
  <2>. QED BY <2>2, <2>3 DEF BootInv, BootTypes, Locks, Sources
<1>. QED BY <1>1, BootInvariant, PTL

-----------------------------------------------------------------------------
(* Loader: what holds where                                                *)

FromCopy == {"copy", "kernel"}
FromEnd == {"load_sector_end", "loaded", "stage2_enter_protected"} \cup FromCopy
FromStage2 == {"stage2", "loop"} \cup FromEnd
FromLoad == {"load_stage2"} \cup FromStage2
LoadLabels == {"seta20_1", "seta20_2", "extensions", "halt"} \cup FromLoad

LoadTypes ==
  /\ loader \in LoadLabels
  /\ mem \in [0 .. KernelAt + Sectors - 1 -> 0 .. Chunk + Sectors]
  /\ a20 \in BOOLEAN /\ cf \in BOOLEAN /\ failed \in BOOLEAN
  /\ left \in 0 .. Sectors
  /\ sector \in 0 .. 1 + Chunk + Sectors
  /\ target \in 0 .. StagingAt + Sectors
  /\ copied \in 0 .. Sectors

\* Address line 20
Line20 ==
  /\ loader = "seta20_2" => kbc \in {"command", "wait"}
  /\ loader = "extensions" => kbc = "data" \/ (kbc = "ready" /\ a20)
  /\ loader \in FromLoad => kbc = "ready" /\ a20

\* The first n sectors of the kernel from an address on
Holds(at, n) == \A k \in 0 .. n - 1 : mem[at + k] = 1 + Chunk + k

\* The loop is at a multiple of the chunk, and what it has read is in its place,
\* as is what has been copied.
Moved ==
  /\ loader \in FromStage2 => \A k \in 0 .. Chunk - 1 : mem[Stage2At + k] = 1 + k
  /\ loader = "loop" =>
       /\ left > 0 /\ left % Chunk = 0
       /\ sector = 1 + Chunk + (Sectors - left) /\ target = StagingAt + (Sectors - left)
       /\ ~failed => Holds(StagingAt, Sectors - left)
  /\ loader \in FromEnd /\ ~failed => Holds(StagingAt, Sectors)
  /\ loader \notin FromCopy => copied = 0
  /\ loader \in FromCopy /\ ~failed => Holds(KernelAt, copied)
  /\ loader = "kernel" => copied = Sectors

LoadInv == LoadTypes /\ Line20 /\ Moved

-----------------------------------------------------------------------------
(* Loader: each step keeps the invariant                                   *)

\* The layout of the loaders.
LEMMA LoadSizes ==
  /\ Chunk \in Nat /\ Chunk >= 1 /\ Sectors \in Nat /\ Sectors >= 1
  /\ Stage2At \in Nat /\ StagingAt \in Nat /\ KernelAt \in Nat
  /\ Stage2At + Chunk <= StagingAt /\ StagingAt + Sectors <= KernelAt
  /\ Wrap \in Nat /\ Sectors < Wrap /\ Sectors % Chunk = 0
BY SMT, LoaderAssumption

LEMMA ControllerInv == LoadInv /\ Load!Controller => LoadInv'
<1> SUFFICES ASSUME LoadInv, Load!Controller PROVE LoadInv'
  OBVIOUS
<1>1. LoadTypes'
  BY LoadSizes DEF Load!Controller, Load!loopVars, Load!Busy, LoadInv, LoadTypes, LoadLabels, FromCopy, FromEnd, FromStage2, FromLoad
<1>2. Line20'
  BY DEF Load!Controller, Load!Busy, LoadInv, LoadTypes, Line20, FromCopy, FromEnd, FromStage2, FromLoad
<1>3. Moved'
  BY LoadSizes DEF Load!Controller, Load!loopVars, LoadInv, LoadTypes, Moved, Holds, FromCopy, FromEnd, FromStage2, FromLoad
<1>. QED BY <1>1, <1>2, <1>3 DEF LoadInv

LEMMA SetA20CommandInv == LoadInv /\ Load!SetA20Command => LoadInv'
<1> SUFFICES ASSUME LoadInv, Load!SetA20Command PROVE LoadInv'
  OBVIOUS
<1>1. LoadTypes'
  BY LoadSizes DEF Load!SetA20Command, Load!loopVars, Load!Busy, LoadInv, LoadTypes, LoadLabels, FromCopy, FromEnd, FromStage2, FromLoad
<1>2. Line20'
  BY DEF Load!SetA20Command, Load!Busy, LoadInv, LoadTypes, Line20, FromCopy, FromEnd, FromStage2, FromLoad
<1>3. Moved'
  BY LoadSizes DEF Load!SetA20Command, Load!loopVars, LoadInv, LoadTypes, Moved, Holds, FromCopy, FromEnd, FromStage2, FromLoad
<1>. QED BY <1>1, <1>2, <1>3 DEF LoadInv

LEMMA SetA20DataInv == LoadInv /\ Load!SetA20Data => LoadInv'
<1> SUFFICES ASSUME LoadInv, Load!SetA20Data PROVE LoadInv'
  OBVIOUS
<1>1. LoadTypes'
  BY LoadSizes DEF Load!SetA20Data, Load!loopVars, Load!Busy, LoadInv, LoadTypes, LoadLabels, FromCopy, FromEnd, FromStage2, FromLoad
<1>2. Line20'
  BY DEF Load!SetA20Data, Load!Busy, LoadInv, LoadTypes, Line20, FromCopy, FromEnd, FromStage2, FromLoad
<1>3. Moved'
  BY LoadSizes DEF Load!SetA20Data, Load!loopVars, LoadInv, LoadTypes, Moved, Holds, FromCopy, FromEnd, FromStage2, FromLoad
<1>. QED BY <1>1, <1>2, <1>3 DEF LoadInv

LEMMA CheckExtensionsInv == LoadInv /\ Load!CheckExtensions => LoadInv'
<1> SUFFICES ASSUME LoadInv, Load!CheckExtensions PROVE LoadInv'
  OBVIOUS
<1>1. LoadTypes'
  BY LoadSizes DEF Load!CheckExtensions, Load!loopVars, Load!Busy, Load!ControllerDone, LoadInv, LoadTypes, LoadLabels, FromCopy, FromEnd, FromStage2, FromLoad
<1>2. Line20'
  BY DEF Load!CheckExtensions, Load!Busy, Load!ControllerDone, LoadInv, LoadTypes, Line20, FromCopy, FromEnd, FromStage2, FromLoad
<1>3. Moved'
  BY LoadSizes DEF Load!CheckExtensions, Load!loopVars, LoadInv, LoadTypes, Moved, Holds, FromCopy, FromEnd, FromStage2, FromLoad
<1>. QED BY <1>1, <1>2, <1>3 DEF LoadInv

LEMMA LoadSectorEndInv == LoadInv /\ Load!LoadSectorEnd => LoadInv'
<1> SUFFICES ASSUME LoadInv, Load!LoadSectorEnd PROVE LoadInv'
  OBVIOUS
<1>1. LoadTypes'
  BY LoadSizes DEF Load!LoadSectorEnd, Load!loopVars, Load!Busy, LoadInv, LoadTypes, LoadLabels, FromCopy, FromEnd, FromStage2, FromLoad
<1>2. Line20'
  BY DEF Load!LoadSectorEnd, Load!Busy, LoadInv, LoadTypes, Line20, FromCopy, FromEnd, FromStage2, FromLoad
<1>3. Moved'
  BY LoadSizes DEF Load!LoadSectorEnd, Load!loopVars, LoadInv, LoadTypes, Moved, Holds, FromCopy, FromEnd, FromStage2, FromLoad
<1>. QED BY <1>1, <1>2, <1>3 DEF LoadInv

LEMMA LoadedInv == LoadInv /\ Load!Loaded => LoadInv'
<1> SUFFICES ASSUME LoadInv, Load!Loaded PROVE LoadInv'
  OBVIOUS
<1>1. LoadTypes'
  BY LoadSizes DEF Load!Loaded, Load!loopVars, Load!Busy, LoadInv, LoadTypes, LoadLabels, FromCopy, FromEnd, FromStage2, FromLoad
<1>2. Line20'
  BY DEF Load!Loaded, Load!Busy, LoadInv, LoadTypes, Line20, FromCopy, FromEnd, FromStage2, FromLoad
<1>3. Moved'
  BY LoadSizes DEF Load!Loaded, Load!loopVars, LoadInv, LoadTypes, Moved, Holds, FromCopy, FromEnd, FromStage2, FromLoad
<1>. QED BY <1>1, <1>2, <1>3 DEF LoadInv

LEMMA EnterProtectedInv == LoadInv /\ Load!EnterProtected => LoadInv'
<1> SUFFICES ASSUME LoadInv, Load!EnterProtected PROVE LoadInv'
  OBVIOUS
<1>1. LoadTypes'
  BY LoadSizes DEF Load!EnterProtected, Load!loopVars, Load!Busy, LoadInv, LoadTypes, LoadLabels, FromCopy, FromEnd, FromStage2, FromLoad
<1>2. Line20'
  BY DEF Load!EnterProtected, Load!Busy, LoadInv, LoadTypes, Line20, FromCopy, FromEnd, FromStage2, FromLoad
<1>3. Moved'
  BY SMT, LoadSizes DEF Load!EnterProtected, Load!loopVars, LoadInv, LoadTypes, Moved, Holds, FromCopy, FromEnd, FromStage2, FromLoad
<1>. QED BY <1>1, <1>2, <1>3 DEF LoadInv

LEMMA Stage2Inv == LoadInv /\ Load!Stage2 => LoadInv'
<1> SUFFICES ASSUME LoadInv, Load!Stage2 PROVE LoadInv'
  OBVIOUS
<1>1. LoadTypes'
  BY SMT, LoadSizes DEF Load!Stage2, Load!loopVars, Load!Busy, LoadInv, LoadTypes, LoadLabels, FromCopy, FromEnd, FromStage2, FromLoad
<1>2. Line20'
  BY DEF Load!Stage2, Load!Busy, LoadInv, LoadTypes, Line20, FromCopy, FromEnd, FromStage2, FromLoad
<1>3. Moved'
  BY SMT, LoadSizes DEF Load!Stage2, Load!loopVars, LoadInv, LoadTypes, Moved, Holds, FromCopy, FromEnd, FromStage2, FromLoad
<1>. QED BY <1>1, <1>2, <1>3 DEF LoadInv

\* A read that succeeds brings its sectors and leaves the others.
LEMMA ReadStep ==
  ASSUME LoadTypes, NEW at \in Nat, NEW first \in Nat, NEW count \in Nat, Load!Read(at, first, count),
         count >= 1, at + count <= KernelAt, first >= 1, first + count <= 1 + Chunk + Sectors
  PROVE  /\ mem' \in [0 .. KernelAt + Sectors - 1 -> 0 .. Chunk + Sectors]
         /\ cf' \in BOOLEAN
         /\ cf' => failed' /\ mem' = mem
         /\ ~cf' =>
              /\ failed' = failed
              /\ \A k \in 0 .. KernelAt + Sectors - 1 : k < at \/ at + count <= k => mem'[k] = mem[k]
              /\ \A k \in 0 .. count - 1 : mem'[at + k] = first + k
<1>0. /\ mem \in [0 .. KernelAt + Sectors - 1 -> 0 .. Chunk + Sectors]
      /\ DOMAIN mem = 0 .. KernelAt + Sectors - 1
  BY DEF LoadTypes
<1>1. CASE cf' = TRUE /\ failed' = TRUE /\ UNCHANGED mem
  BY <1>0, <1>1
<1>2. CASE /\ cf' = FALSE /\ UNCHANGED failed
           /\ mem' = [m \in DOMAIN mem |-> IF m \in at .. at + count - 1 THEN first + m - at ELSE mem[m]]
  <2>1. \A k \in 0 .. KernelAt + Sectors - 1 : k \notin at .. at + count - 1 => mem'[k] = mem[k]
    BY <1>0, <1>2
  <2>2. ASSUME NEW k \in at .. at + count - 1
        PROVE  mem'[k] = first + k - at /\ mem'[k] \in 0 .. Chunk + Sectors
    <3>1. k \in 0 .. KernelAt + Sectors - 1
      BY SMT, LoadSizes
    <3>2. mem'[k] = first + k - at
      BY <1>0, <1>2, <3>1
    <3>. QED BY SMT, <3>2, LoadSizes
  <2>3. mem' \in [0 .. KernelAt + Sectors - 1 -> 0 .. Chunk + Sectors]
    BY <1>0, <1>2, <2>1, <2>2
  <2>4. ASSUME NEW k \in 0 .. count - 1 PROVE mem'[at + k] = first + k
    <3>1. at + k \in at .. at + count - 1 /\ first + (at + k) - at = first + k
      BY SMT
    <3>. QED BY <2>2, <3>1
  <2>5. ASSUME NEW k \in 0 .. KernelAt + Sectors - 1, k < at \/ at + count <= k
        PROVE  mem'[k] = mem[k]
    BY SMT, <2>1, <2>5
  <2>. QED BY <1>2, <2>3, <2>4, <2>5
<1>. QED BY <1>1, <1>2 DEF Load!Read

LEMMA LoadStage2Inv == LoadInv /\ Load!LoadStage2 => LoadInv'
<1> SUFFICES ASSUME LoadInv, Load!LoadStage2 PROVE LoadInv'
  OBVIOUS
<1>1. /\ loader = "load_stage2" /\ Load!Read(Stage2At, 1, Chunk)
      /\ loader' = IF cf' THEN "halt" ELSE "stage2"
      /\ UNCHANGED <<a20, kbc, left, sector, target, copied>>
  BY DEF Load!LoadStage2, Load!loopVars
<1>2. /\ mem' \in [0 .. KernelAt + Sectors - 1 -> 0 .. Chunk + Sectors]
      /\ cf' \in BOOLEAN
      /\ cf' => failed' /\ mem' = mem
      /\ ~cf' => failed' = failed /\ \A k \in 0 .. Chunk - 1 : mem'[Stage2At + k] = 1 + k
  <2>1. /\ LoadTypes /\ Stage2At \in Nat /\ 1 \in Nat /\ Chunk \in Nat
        /\ Chunk >= 1 /\ Stage2At + Chunk <= KernelAt /\ 1 >= 1 /\ 1 + Chunk <= 1 + Chunk + Sectors
    BY SMT, LoadSizes DEF LoadInv
  <2>. QED BY <1>1, <2>1, ReadStep
<1>3. LoadTypes'
  BY <1>1, <1>2 DEF LoadInv, LoadTypes, LoadLabels, FromCopy, FromEnd, FromStage2, FromLoad
<1>4. Line20'
  BY <1>1, <1>2 DEF LoadInv, Line20, FromCopy, FromEnd, FromStage2, FromLoad
<1>5. Moved'
  BY <1>1, <1>2 DEF LoadInv, Moved, FromCopy, FromEnd, FromStage2, FromLoad
<1>. QED BY <1>3, <1>4, <1>5 DEF LoadInv

\* A positive multiple of the chunk is at least a chunk, and a chunk less is a
\* multiple again.
LEMMA WholeChunks ==
  ASSUME NEW s \in Nat, NEW c \in Nat, c >= 1, s % c = 0, s > 0
  PROVE  s >= c /\ (s - c) % c = 0
<1> DEFINE q == s \div c
<1>1. q \in Nat /\ s = q * c
  BY SMT
<1> HIDE DEF q
<1>2. q >= 1
  BY SMT, <1>1
<1>3. q * c >= c /\ q * c - c = (q - 1) * c /\ q - 1 \in Nat
  BY SMT, <1>2, <1>1
<1>4. ASSUME NEW n \in Nat PROVE (n * c) % c = 0
  BY SMT
<1>. QED BY <1>1, <1>3, <1>4

LEMMA LoadChunkInv == LoadInv /\ Load!LoadChunk => LoadInv'
<1> SUFFICES ASSUME LoadInv, Load!LoadChunk PROVE LoadInv'
  OBVIOUS
<1>1. /\ loader = "loop" /\ Load!Read(target, sector, Chunk)
      /\ left' = (left - Chunk) % Wrap
      /\ sector' = sector + Chunk /\ target' = target + Chunk
      /\ loader' = IF cf' \/ left' = 0 THEN "load_sector_end" ELSE "loop"
      /\ UNCHANGED <<a20, kbc, copied>>
  BY DEF Load!LoadChunk
<1> DEFINE d == Sectors - left
<1>2. /\ left \in Nat /\ left > 0 /\ left % Chunk = 0 /\ left <= Sectors
      /\ sector = 1 + Chunk + d /\ target = StagingAt + d
      /\ ~failed => Holds(StagingAt, d)
      /\ \A k \in 0 .. Chunk - 1 : mem[Stage2At + k] = 1 + k
      /\ copied = 0
  BY SMT, <1>1 DEF LoadInv, LoadTypes, Moved, FromCopy, FromEnd, FromStage2, FromLoad
<1>3. left >= Chunk /\ (left - Chunk) % Chunk = 0
  BY <1>2, WholeChunks, LoadSizes
<1>4. left' = left - Chunk /\ left' \in Nat /\ Sectors - left' = d + Chunk /\ d \in Nat
  <2>1. ASSUME NEW s \in Nat, s < Wrap PROVE s % Wrap = s
    BY SMT, <2>1, LoadSizes
  <2>2. left - Chunk \in Nat /\ left - Chunk < Wrap
    BY SMT, <1>2, <1>3, LoadSizes
  <2>3. left' = left - Chunk
    BY <1>1, <2>1, <2>2
  <2>. QED BY SMT, <1>2, <1>3, <2>3, LoadSizes
<1>5. /\ target \in Nat /\ sector \in Nat /\ Chunk >= 1 /\ target + Chunk <= StagingAt + Sectors
      /\ target + Chunk <= KernelAt
      /\ sector >= 1 /\ sector + Chunk <= 1 + Chunk + Sectors
  BY SMT, <1>2, <1>3, <1>4, LoadSizes
<1>6. /\ mem' \in [0 .. KernelAt + Sectors - 1 -> 0 .. Chunk + Sectors]
      /\ cf' \in BOOLEAN
      /\ cf' => failed' /\ mem' = mem
      /\ ~cf' =>
           /\ failed' = failed
           /\ \A k \in 0 .. KernelAt + Sectors - 1 : k < target \/ target + Chunk <= k => mem'[k] = mem[k]
           /\ \A k \in 0 .. Chunk - 1 : mem'[target + k] = sector + k
  <2>1. LoadTypes /\ Load!Read(target, sector, Chunk) /\ Chunk \in Nat
    BY <1>1, LoadSizes DEF LoadInv
  <2>. QED BY <1>5, <2>1, ReadStep
<1> HIDE DEF d
<1>7. LoadTypes'
  <2>1. left' \in 0 .. Sectors /\ sector' \in 0 .. 1 + Chunk + Sectors /\ target' \in 0 .. StagingAt + Sectors
    BY SMT, <1>1, <1>2, <1>4, <1>5, LoadSizes
  <2>2. failed' \in BOOLEAN
    BY <1>6 DEF LoadInv, LoadTypes
  <2>. QED BY <1>1, <1>6, <2>1, <2>2 DEF LoadInv, LoadTypes, LoadLabels, FromCopy, FromEnd, FromStage2, FromLoad
<1>8. Line20'
  BY <1>1 DEF LoadInv, Line20, FromCopy, FromEnd, FromStage2, FromLoad
<1>9. Moved'
  <2>1. ASSUME NEW k \in 0 .. Chunk - 1 PROVE mem'[Stage2At + k] = 1 + k
    <3>1. CASE cf'
      BY <1>2, <1>6, <3>1
    <3>2. CASE ~cf'
      <4>1. Stage2At + k \in 0 .. KernelAt + Sectors - 1 /\ Stage2At + k < target
        BY SMT, <1>2, <1>4, LoadSizes
      <4>. QED BY <1>2, <1>6, <3>2, <4>1
    <3>. QED BY <3>1, <3>2
  <2>2. ASSUME ~failed' PROVE \A k \in 0 .. (d + Chunk) - 1 : mem'[StagingAt + k] = 1 + Chunk + k
    <3>1. ~cf' /\ ~failed
      BY SMT, <1>6, <2>2
    <3>2. ASSUME NEW k \in 0 .. (d + Chunk) - 1 PROVE mem'[StagingAt + k] = 1 + Chunk + k
      <4>1. CASE k < d
        <5>1. StagingAt + k \in 0 .. KernelAt + Sectors - 1 /\ StagingAt + k < target /\ k \in 0 .. d - 1
          BY SMT, <1>2, <1>4, <4>1, LoadSizes
        <5>2. mem[StagingAt + k] = 1 + Chunk + k
          BY <1>2, <3>1, <5>1 DEF Holds
        <5>. QED BY <1>6, <3>1, <5>1, <5>2
      <4>2. CASE k >= d
        <5>1. k - d \in 0 .. Chunk - 1 /\ target + (k - d) = StagingAt + k /\ sector + (k - d) = 1 + Chunk + k
          BY SMT, <1>2, <1>4, <4>2, LoadSizes
        <5>2. mem'[target + (k - d)] = sector + (k - d)
          BY <1>6, <3>1, <5>1
        <5>. QED BY <5>1, <5>2
      <4>. QED BY SMT, <1>4, <4>1, <4>2, LoadSizes
    <3>. QED BY <3>2
  <2>3. CASE loader' = "loop"
    <3>1. left' # 0 /\ left' > 0 /\ left' % Chunk = 0
      BY SMT, <1>1, <1>3, <1>4, <2>3
    <3>2. /\ sector' = 1 + Chunk + (Sectors - left') /\ target' = StagingAt + (Sectors - left')
      BY SMT, <1>1, <1>2, <1>4, LoadSizes
    <3>3. ~failed' => Holds(StagingAt, Sectors - left)'
      BY <1>4, <2>2 DEF Holds
    <3>. QED BY <1>1, <1>2, <2>1, <2>3, <3>1, <3>2, <3>3 DEF Moved, FromCopy, FromEnd, FromStage2, FromLoad
  <2>4. CASE loader' = "load_sector_end"
    <3>1. ~failed' => left' = 0
      BY <1>1, <1>6, <2>4
    <3>2. ~failed' => Holds(StagingAt, Sectors)'
      BY SMT, <1>4, <2>2, <3>1, LoadSizes DEF Holds
    <3>. QED BY <1>1, <1>2, <2>1, <2>4, <3>2 DEF Moved, FromCopy, FromEnd, FromStage2, FromLoad
  <2>. QED BY <1>1, <2>3, <2>4
<1>. QED BY <1>7, <1>8, <1>9 DEF LoadInv

LEMMA CopyInv == LoadInv /\ Load!Copy => LoadInv'
<1> SUFFICES ASSUME LoadInv, Load!Copy PROVE LoadInv'
  OBVIOUS
<1>1. loader = "copy" /\ UNCHANGED <<a20, kbc, cf, left, sector, target, failed>>
  BY DEF Load!Copy, Load!loopVars
<1>2. /\ a20 /\ copied \in 0 .. Sectors
      /\ mem \in [0 .. KernelAt + Sectors - 1 -> 0 .. Chunk + Sectors]
      /\ \A k \in 0 .. Chunk - 1 : mem[Stage2At + k] = 1 + k
      /\ ~failed => Holds(StagingAt, Sectors) /\ Holds(KernelAt, copied)
  BY <1>1 DEF LoadInv, LoadTypes, Line20, Moved, FromCopy, FromEnd, FromStage2, FromLoad
<1>3. CASE ~(copied < Sectors)
  <2>1. loader' = "kernel" /\ mem' = mem /\ copied' = copied
    BY <1>3 DEF Load!Copy
  <2>2. copied = Sectors
    BY SMT, <1>2, <1>3, LoadSizes
  <2>3. LoadTypes'
    BY <1>1, <2>1 DEF LoadInv, LoadTypes, LoadLabels, FromCopy, FromEnd, FromStage2, FromLoad
  <2>4. Line20'
    BY <1>1, <2>1 DEF LoadInv, Line20, FromCopy, FromEnd, FromStage2, FromLoad
  <2>5. Moved'
    BY <1>1, <2>1, <2>2 DEF LoadInv, Moved, Holds, FromCopy, FromEnd, FromStage2, FromLoad
  <2>. QED BY <2>3, <2>4, <2>5 DEF LoadInv
<1>4. CASE copied < Sectors
  <2>1. /\ loader' = "copy" /\ copied' = copied + 1
        /\ mem' = [mem EXCEPT ![KernelAt + copied] = mem[StagingAt + copied]]
    BY <1>1, <1>2, <1>4 DEF Load!Copy, Load!Physical
  <2>2. copied \in Nat /\ KernelAt + copied \in 0 .. KernelAt + Sectors - 1
        /\ StagingAt + copied \in 0 .. KernelAt + Sectors - 1
    BY SMT, <1>2, <1>4, LoadSizes
  <2>3. /\ mem' \in [0 .. KernelAt + Sectors - 1 -> 0 .. Chunk + Sectors]
        /\ mem'[KernelAt + copied] = mem[StagingAt + copied]
        /\ \A k \in 0 .. KernelAt + Sectors - 1 : k # KernelAt + copied => mem'[k] = mem[k]
    BY <1>2, <2>1, <2>2
  <2>4. LoadTypes'
    <3>1. copied' \in 0 .. Sectors
      BY SMT, <1>4, <2>1, <2>2, LoadSizes
    <3>. QED BY <1>1, <2>1, <2>3, <3>1 DEF LoadInv, LoadTypes, LoadLabels, FromCopy, FromEnd, FromStage2, FromLoad
  <2>5. Line20'
    BY <1>1, <2>1 DEF LoadInv, Line20, FromCopy, FromEnd, FromStage2, FromLoad
  <2>6. ASSUME NEW k \in 0 .. Chunk - 1 PROVE mem'[Stage2At + k] = 1 + k
    <3>1. Stage2At + k \in 0 .. KernelAt + Sectors - 1 /\ Stage2At + k # KernelAt + copied
      BY SMT, <2>2, LoadSizes
    <3>. QED BY <1>2, <2>3, <3>1
  <2>7. ASSUME ~failed, NEW k \in 0 .. Sectors - 1 PROVE mem'[StagingAt + k] = 1 + Chunk + k
    <3>1. StagingAt + k \in 0 .. KernelAt + Sectors - 1 /\ StagingAt + k # KernelAt + copied
      BY SMT, <2>2, LoadSizes
    <3>. QED BY <1>2, <2>3, <2>7, <3>1 DEF Holds
  <2>8. ASSUME ~failed, NEW k \in 0 .. copied' - 1 PROVE mem'[KernelAt + k] = 1 + Chunk + k
    <3>1. CASE k = copied
      <4>1. k \in 0 .. Sectors - 1
        BY SMT, <1>4, <2>2, <3>1, LoadSizes
      <4>. QED BY <1>2, <2>3, <2>8, <3>1, <4>1 DEF Holds
    <3>2. CASE k # copied
      <4>1. k \in 0 .. copied - 1
        BY SMT, <2>1, <2>2, <3>2
      <4>2. KernelAt + k \in 0 .. KernelAt + Sectors - 1 /\ KernelAt + k # KernelAt + copied
        BY SMT, <1>2, <2>2, <4>1, LoadSizes
      <4>. QED BY <1>2, <2>3, <2>8, <4>1, <4>2 DEF Holds
    <3>. QED BY <3>1, <3>2
  <2>9. Moved'
    BY <1>1, <2>1, <2>6, <2>7, <2>8 DEF Moved, Holds, FromCopy, FromEnd, FromStage2, FromLoad
  <2>. QED BY <2>4, <2>5, <2>9 DEF LoadInv
<1>. QED BY <1>3, <1>4

\* The invariant when the BIOS jumps to stage 1.
LEMMA InitLoadInv == Load!Init => LoadInv
<1> SUFFICES ASSUME Load!Init PROVE LoadInv
  OBVIOUS
<1> USE DEF Load!Init
<1>1. LoadTypes
  <2>1. mem \in [0 .. KernelAt + Sectors - 1 -> 0 .. Chunk + Sectors]
    BY SMT, LoadSizes
  <2>2. /\ left \in 0 .. Sectors /\ sector \in 0 .. 1 + Chunk + Sectors
        /\ target \in 0 .. StagingAt + Sectors /\ copied \in 0 .. Sectors
    BY SMT, LoadSizes
  <2>. QED BY <2>1, <2>2 DEF LoadTypes, LoadLabels
<1>2. Line20
  BY DEF Line20, FromCopy, FromEnd, FromStage2, FromLoad
<1>3. Moved
  BY DEF Moved, FromCopy, FromEnd, FromStage2, FromLoad
<1>. QED BY <1>1, <1>2, <1>3 DEF LoadInv

LEMMA UnchangedLoadInv == LoadInv /\ UNCHANGED loadVars => LoadInv'
<1> SUFFICES ASSUME LoadInv, UNCHANGED loadVars PROVE LoadInv'
  OBVIOUS
<1>1. LoadTypes'
  BY DEF loadVars, LoadInv, LoadTypes
<1>2. Line20'
  BY DEF loadVars, LoadInv, Line20
<1>3. Moved'
  BY DEF loadVars, LoadInv, Moved, Holds
<1>. QED BY <1>1, <1>2, <1>3 DEF LoadInv

\* init.s, load_sector and stage2_cmain: when every read succeeded the kernel is
\* at 1 MB, whole and in order, and stage 2 was not overwritten while it ran.
THEOREM KernelLoaded == PowerOnSpec => []KernelInPlace
<1>1. PowerOnInit => LoadInv
  BY InitLoadInv DEF PowerOnInit
<1>2. LoadInv /\ Load!Next => LoadInv'
  BY ControllerInv, SetA20CommandInv, SetA20DataInv, CheckExtensionsInv, LoadStage2Inv,
     Stage2Inv, LoadChunkInv, LoadSectorEndInv, LoadedInv, EnterProtectedInv, CopyInv
     DEF Load!Next
<1>3. LoadInv /\ [PowerOnNext]_<<vars, loadVars>> => LoadInv'
  BY <1>2, UnchangedLoadInv DEF PowerOnNext, Loading, Booting
<1>4. LoadInv => KernelInPlace
  <2> SUFFICES ASSUME LoadInv PROVE KernelInPlace
    OBVIOUS
  <2>1. Load!TypeOK
    BY DEF LoadInv, LoadTypes, LoadLabels, FromCopy, FromEnd, FromStage2, FromLoad, Load!TypeOK
  <2>2. loader = "kernel" /\ ~failed => Load!KernelIsThere
    BY DEF LoadInv, Moved, Holds, FromCopy, FromEnd, FromStage2, FromLoad, Load!KernelIsThere
  <2>3. Load!Stage2Intact
    BY DEF LoadInv, Moved, FromCopy, FromEnd, FromStage2, FromLoad, Load!Stage2Intact
  <2>. QED BY <2>1, <2>2, <2>3 DEF KernelInPlace
<1>. QED BY <1>1, <1>3, <1>4, PTL DEF PowerOnSpec
=============================================================================
