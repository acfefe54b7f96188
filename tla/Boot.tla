---------------------------------- MODULE Boot ----------------------------------
(***************************************************************************)
(* The boot of the kernel, from kentry (bsp_init.s) through kmain to the   *)
(* first sti in sched_start: the address space, the boot allocator, the    *)
(* tables of the processor, the interrupt controllers, the locks and the   *)
(* order in which each of them comes to be usable, with the devices that   *)
(* may raise interrupts all the while.                                     *)
(*                                                                         *)
(* Physical memory is counted in pages.  The kernel maps it twice: at its  *)
(* own addresses ("low") and from KERNBASE on ("high").                    *)
(***************************************************************************)
EXTENDS Integers, Sequences

CONSTANTS KernEnd,       \* the possible ends of the kernel's image, in pages
          ZonePages,     \* 64 MiB, in pages
          Bitmaps,       \* the size of each bitmap of pgalloc_init, in pages
          GB,            \* 1 GiB, in pages
          DeviceGB,      \* the GiB the APICs' registers are in
          PhysMapGB      \* 512: the GiB that vmm_init maps

ASSUME BootAssumption ==
  /\ KernEnd \subseteq Nat \ {0}
  /\ {ZonePages, GB, DeviceGB, PhysMapGB} \subseteq Nat \ {0}
  /\ Bitmaps \in Seq(Nat \ {0}) /\ Bitmaps # <<>>
  \* The APICs are in what vmm_init maps.
  /\ DeviceGB < PhysMapGB
  \* The bitmaps shrink as the order grows, and the kernel, its two page tables
  \* and the bitmaps are small beside the zone, which is in what kentry maps.
  /\ \A i \in DOMAIN Bitmaps : Bitmaps[i] <= Bitmaps[1]
  /\ \A e \in KernEnd :
       e + 2 + Len(Bitmaps) * Bitmaps[1] <= ZonePages /\ e + ZonePages <= GB

Locks == {"pgalloc", "kmalloc", "console", "console_read", "ptable", "sched"}

VARIABLES pc,
          kern_end,
          low, high,     \* the GiB mapped at each address
          using,         \* the map that code, stack and GDT are reached through
          zone,          \* default_zone: [begin, end]
          blocks,        \* what boot_alloc has returned, in order: [at, size]
          freed,         \* the pages given to the page allocator: [at, end]
          touched,       \* the highest GiB addressed so far
          lapic, cpu,    \* the LAPIC is mapped; cpus[0] is set up
          idt,           \* the IDT is loaded
          ready,         \* the locks that are initialised
          if,            \* the interrupt flag
          masked,        \* the interrupt sources that cannot interrupt
          pending,       \* the interrupts that wait for IF
          uart,          \* the UART answers; a board may have none
          halted         \* NULL, or how the boot ended: "panic"; "silent", a panic that
                         \* cannot print; "fault", a lock used before it can be

vars == <<pc, kern_end, low, high, using, zone, blocks, freed, touched, lapic, cpu, idt, ready,
          if, masked, pending, uart, halted>>
memVars == <<kern_end, low, high, using, zone, blocks, freed, touched>>
cpuVars == <<lapic, cpu, idt, ready, if>>
irqVars == <<masked, pending, uart>>

NULL == "null"
Sources == {"timer", "error", "com1", "other_line", "pic"}

Init ==
  /\ pc = "kentry"
  /\ kern_end \in KernEnd
  /\ low = 0 /\ high = 0
  /\ using = [code |-> "physical", stack |-> "physical", gdt |-> "physical"]
  /\ zone = [begin |-> 0, end |-> 0]
  /\ blocks = <<>>
  /\ freed = [at |-> 0, end |-> 0]
  /\ touched = 0
  /\ lapic = FALSE /\ cpu = FALSE /\ idt = FALSE /\ if = FALSE
  /\ ready = {}
  /\ masked = {"timer", "error", "com1", "other_line"}
  /\ pending = {}
  /\ uart \in BOOLEAN
  /\ halted = NULL

Goto(label) == pc' = label /\ UNCHANGED halted

\* A device raises its interrupt; the controllers keep it when it is not masked,
\* and lose an edge when it is.
Device(s) ==
  /\ s \notin masked
  /\ s = "com1" => uart
  /\ pending' = pending \cup {s}
  /\ UNCHANGED <<pc, memVars, cpuVars, masked, uart, halted>>

-----------------------------------------------------------------------------
(* bsp_init.s                                                              *)

\* kentry: page tables that map the first GiB twice, paging, and a GDT at its
\* low address
Kentry ==
  /\ pc = "kentry"
  /\ low' = 1 /\ high' = 1
  /\ using' = [code |-> "low", stack |-> "low", gdt |-> "low"]
  /\ Goto("long_start")
  /\ UNCHANGED <<kern_end, zone, blocks, freed, touched, cpuVars, irqVars>>

\* Mutant: the GDT is not loaded again at its high address.
LongStart_LowGdt ==
  /\ pc = "long_start"
  /\ using' = [using EXCEPT !.stack = "high", !.code = "high"]
  /\ Goto("boot_alloc_init")
  /\ UNCHANGED <<kern_end, low, high, zone, blocks, freed, touched, cpuVars, irqVars>>

\* long_start: the GDT and the stack at their high addresses; call kmain
LongStart ==
  /\ pc = "long_start"
  /\ using' = [code |-> "high", stack |-> "high", gdt |-> "high"]
  /\ Goto("boot_alloc_init")
  /\ UNCHANGED <<kern_end, low, high, zone, blocks, freed, touched, cpuVars, irqVars>>

-----------------------------------------------------------------------------
(* The boot allocator and the address space                                *)

BootAllocInit ==
  /\ pc = "boot_alloc_init"
  /\ zone' = [begin |-> kern_end, end |-> kern_end + ZonePages]
  /\ Goto("vmm_init_pml4")
  /\ UNCHANGED <<kern_end, low, high, using, blocks, freed, touched, cpuVars, irqVars>>

\* panic prints with console_lock, and a lock needs cur_cpu: before lapic_init
\* that reads the LAPIC's id through a null pointer, and before cpu_bsp_init it
\* finds no CPU and panics in turn.
PanicEnds == IF lapic /\ cpu THEN "panic" ELSE "silent"

\* Mutant: the zone is not advanced past the block.
BootAlloc_KeepsBegin(size, next) ==
  IF zone.begin + size < zone.end
  THEN /\ blocks' = Append(blocks, [at |-> zone.begin, size |-> size])
       /\ UNCHANGED <<zone, halted>>
       /\ pc' = next
  ELSE /\ halted' = PanicEnds
       /\ pc' = "halted"
       /\ UNCHANGED <<blocks, zone>>

\* boot_alloc, and the caller's panic when it returns NULL
BootAlloc(size, next) ==
  IF zone.begin + size < zone.end
  THEN /\ blocks' = Append(blocks, [at |-> zone.begin, size |-> size])
       /\ zone' = [zone EXCEPT !.begin = @ + size]
       /\ UNCHANGED halted
       /\ pc' = next
  ELSE /\ halted' = PanicEnds
       /\ pc' = "halted"
       /\ UNCHANGED <<blocks, zone>>

\* vmm_init: the PML4 and, in the first turn of the loop, the one PDP
VmmInit ==
  /\ \/ pc = "vmm_init_pml4" /\ BootAlloc(1, "vmm_init_pdp")
     \/ pc = "vmm_init_pdp" /\ BootAlloc(1, "vmm_load_ktable")
  /\ UNCHANGED <<kern_end, low, high, using, freed, touched, cpuVars, irqVars>>

\* The rest of the loop maps a GiB a turn, high only; vmm_load_ktable.
VmmLoadKtable ==
  /\ pc = "vmm_load_ktable"
  /\ low' = 0 /\ high' = PhysMapGB
  /\ Goto("pgalloc_init")
  /\ UNCHANGED <<kern_end, using, zone, blocks, freed, touched, cpuVars, irqVars>>

\* pgalloc_init: init_lock, then a turn of the loop for each order
PgallocInit ==
  /\ pc = "pgalloc_init"
  /\ LET i == Len(blocks) - 1
     IN BootAlloc(Bitmaps[i], IF i = Len(Bitmaps) THEN "lapic_init" ELSE "pgalloc_init")
  /\ ready' = ready \cup {"pgalloc"}
  /\ UNCHANGED <<kern_end, low, high, using, freed, touched, lapic, cpu, idt, if, irqVars>>

-----------------------------------------------------------------------------
(* The processor and the interrupt controllers                             *)

\* lapic_init: the LAPIC's registers, the timer, LINT0 (the PICs' line) masked,
\* the LAPIC's own error interrupt; a LAPIC that the firmware disabled ends in
\* panic
LapicInit ==
  /\ pc = "lapic_init"
  /\ \/ /\ lapic' = TRUE
        /\ touched' = DeviceGB
        /\ masked' = (masked \ {"timer", "error"}) \cup {"pic"}
        /\ pending' = pending \ {"pic"}
        /\ Goto("cpu_bsp_init")
     \/ /\ halted' = PanicEnds
        /\ pc' = "halted"
        /\ UNCHANGED <<lapic, touched, masked, pending>>
  /\ UNCHANGED <<kern_end, low, high, using, zone, blocks, freed, cpu, idt, ready, if, uart>>

\* cpu_bsp_init and its gdt_setup
CpuBspInit ==
  /\ pc = "cpu_bsp_init"
  /\ cpu' = TRUE
  /\ using' = [using EXCEPT !.gdt = "high"]
  /\ Goto("interrupt_init")
  /\ UNCHANGED <<kern_end, low, high, zone, blocks, freed, touched, lapic, idt, ready, if, irqVars>>

\* interrupt_init and pic_init
InterruptInit ==
  /\ pc = "interrupt_init"
  /\ idt' = TRUE
  /\ masked' = masked \cup {"pic"}
  /\ Goto("ioapic_init")
  /\ UNCHANGED <<memVars, lapic, cpu, ready, if, pending, uart>>

\* ioapic_init: every line is masked
IoapicInit ==
  /\ pc = "ioapic_init"
  /\ touched' = DeviceGB
  /\ masked' = masked \cup {"com1", "other_line"}
  /\ Goto("boot_alloc_disable")
  /\ UNCHANGED <<kern_end, low, high, using, zone, blocks, freed, cpuVars, pending, uart>>

-----------------------------------------------------------------------------
(* The allocators, the console and the process table                       *)

\* Taking a lock: it is initialised, and cur_cpu works, with interrupts off.
CanLock(locks) == locks \subseteq ready /\ lapic /\ cpu /\ ~if

Using(locks, next) ==
  IF CanLock(locks) THEN Goto(next) ELSE halted' = "fault" /\ pc' = "halted"

\* boot_alloc_disable, kmalloc_init and pgalloc_free_range
BootAllocDisable ==
  /\ pc = "boot_alloc_disable"
  /\ freed' = [at |-> zone.begin, end |-> ZonePages]
  /\ zone' = [begin |-> 0, end |-> 0]
  /\ ready' = ready \cup {"kmalloc"}
  /\ Using({"pgalloc"}, "console_init")
  /\ UNCHANGED <<kern_end, low, high, using, blocks, touched, lapic, cpu, idt, if, irqVars>>

\* console_init up to uart_pio_init: two locks and the buffer
ConsoleInit ==
  /\ pc = "console_init"
  /\ ready' = ready \cup {"console", "console_read"}
  /\ Using({"kmalloc", "pgalloc"}, "uart_init")
  /\ UNCHANGED <<memVars, lapic, cpu, idt, if, irqVars>>

\* Mutant: another line is unmasked.
UartInit_WrongLine ==
  /\ pc = "uart_init"
  /\ masked' = IF uart THEN masked \ {"other_line"} ELSE masked
  /\ Goto("proc_init")
  /\ UNCHANGED <<memVars, cpuVars, pending, uart>>

\* uart_init, and ioapic_unmask when it found the UART
UartInit ==
  /\ pc = "uart_init"
  /\ masked' = IF uart THEN masked \ {"com1"} ELSE masked
  /\ Goto("proc_init")
  /\ UNCHANGED <<memVars, cpuVars, pending, uart>>

\* Mutant: the process table is used before its lock is initialised.
ProcInit_NoLock ==
  /\ pc = "proc_init"
  /\ ready' = ready \cup {"sched"}
  /\ Using({}, "mpmain")
  /\ UNCHANGED <<memVars, lapic, cpu, idt, if, irqVars>>

\* systick_init, proc_init and sched_init, which takes the lock it initialised
ProcInit ==
  /\ pc = "proc_init"
  /\ ready' = ready \cup {"ptable", "sched"}
  /\ Using({}, "mpmain")
  /\ UNCHANGED <<memVars, lapic, cpu, idt, if, irqVars>>

\* mpmain: proc_alloc and sched_add
Mpmain ==
  /\ pc = "mpmain"
  /\ Using({"ptable", "pgalloc", "kmalloc", "sched"}, "sched_start")
  /\ UNCHANGED <<memVars, cpuVars, irqVars>>

\* sched_start up to enable_interrupt
SchedStart ==
  /\ pc = "sched_start"
  /\ if' = TRUE
  /\ Using({"pgalloc"}, "running")
  /\ UNCHANGED <<memVars, lapic, cpu, idt, ready, irqVars>>

Next ==
  \/ \E s \in Sources : Device(s)
  \/ Kentry \/ LongStart \/ BootAllocInit \/ VmmInit \/ VmmLoadKtable \/ PgallocInit
  \/ LapicInit \/ CpuBspInit \/ InterruptInit \/ IoapicInit \/ BootAllocDisable
  \/ ConsoleInit \/ UartInit \/ ProcInit \/ Mpmain \/ SchedStart

Spec == Init /\ [][Next]_vars

-----------------------------------------------------------------------------
(* Properties                                                              *)

\* Places, pages and sets of names.
TypeOK ==
  /\ kern_end \in KernEnd
  /\ {low, high, touched} \subseteq 0 .. PhysMapGB
  /\ \A x \in DOMAIN using : using[x] \in {"physical", "low", "high"}
  /\ zone.begin <= zone.end
  /\ Len(blocks) <= 2 + Len(Bitmaps)
  /\ freed.at <= freed.end
  /\ {lapic, cpu, idt, if, uart} \subseteq BOOLEAN
  /\ ready \subseteq Locks /\ masked \subseteq Sources /\ pending \subseteq Sources
  /\ halted \in {NULL, "panic", "silent", "fault"}

\* From the moment paging is on, the code, the stack and the GDT are reached
\* through a map that exists, also when vmm_load_ktable drops the low one, and
\* the APICs are not addressed before vmm_init has mapped them.
InUseIsMapped ==
  pc # "kentry" =>
    /\ \A x \in DOMAIN using : (using[x] = "low" /\ low > 0) \/ (using[x] = "high" /\ high > 0)
    /\ touched < high

\* The blocks of the boot allocator lie behind the kernel and apart from each
\* other, within the memory that is mapped, and the page allocator gets none of
\* them: what boot_alloc_disable returns is behind them all.
BlocksStayApart ==
  TypeOK /\ \A i \in 1..Len(blocks) :
    /\ blocks[i].at >= kern_end
    /\ blocks[i].at + blocks[i].size <= high * GB
    /\ \A j \in 1 .. i - 1 : blocks[j].at + blocks[j].size <= blocks[i].at
    /\ freed.at < freed.end => blocks[i].at + blocks[i].size <= freed.at

\* "Locks should be ready by this point" (kmain.c): no lock is taken before it
\* is initialised, before cur_cpu works, or with interrupts on.
LocksAreReady == halted # "fault"

\* When interrupts are first enabled the IDT is loaded, the boot allocator is
\* disabled ("This MUST be called before interrupt or SMP is enabled"), and
\* nothing can be waiting but what the boot code itself has let through: the
\* timer and the serial port, which handle_interrupt has a case for, and the
\* LAPIC's error interrupt, which lapic_init unmasks and which ends in
\* handle_interrupt's panic, "unhandled 51".
InterruptsAreExpected ==
  if => idt /\ zone.end = 0 /\ ready = Locks /\ pending \subseteq {"timer", "com1", "error"}
=============================================================================
