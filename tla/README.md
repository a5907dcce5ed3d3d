# WeakOS: specifications and proofs

WeakOS is a small 32-bit x86 kernel (C++ and some assembly). This directory
holds TLA+ models of its parts, TLC configurations that check them on small
instances, and proofs that TLAPS checks. The repository has no documentation
besides comments, most of them in Russian, so the models are translated from the
code and the only claims to compare it with are those comments, the test in
`src/malloc_test.inc` and the comments of liballoc. File names below are
relative to the repository's root.

Contents: [the system](#the-system) · [the plan](#the-plan) ·
[modules](#the-modules) · [runs](#the-runs) · [fairness](#fairness) ·
[proofs](#the-proofs) · [disagreements](#where-code-and-comments-disagree) ·
[not modelled](#what-is-not-modelled)

## The system

The boot loader leaves the BIOS memory map at 0xa000 and jumps to the kernel;
`main()` calls `sysinit()` (`src/init.cpp`), which sets up paging, memory,
interrupts, the console, the keyboard and the system calls. The part of `main()` that
then mounts the disk, loads a program and runs it is commented out at this commit.
There is one CPU and one thread of kernel code; what runs concurrently
with it are the interrupt handlers, which run with interrupts off, and the
devices. The kernel is built without optimisation, so that a loop such as
`while (waiting);` reads its variable again each time.

| component | state | operations | talks to | hard behaviour | what makes it correct |
|---|---|---|---|---|---|
| boot loader (`src/bootloader`) | memory map at 0xa000 | load the kernel | memory set-up reads the map | none | the map is what the BIOS says |
| paging set-up (`src/paging.cpp`) | page directory | `init` | leaves page tables to the allocator, uncleared | a 4 MB page in the heap's quarter; frames shifted by 8 MB | every virtual page the allocator hands out goes through a table it writes |
| memory set-up (`src/memory.cpp`, `src/init.cpp`) | `m_pages`, `m_rgns` | `preinit`, `enable_physical`, `disable_physical`, `disable_virtual` | hands the page allocator its initial state | rounding, 32-bit overflow, rewiring a list while walking it | free frames are usable memory and not the kernel's; disabled ranges cannot be allocated |
| page allocator (`src/memory.cpp`) | `m_pages`, `m_rgns`, page tables, TLB | `alloc_virtual`, `free_virtual` | called by liballoc | failing half way, stale translations, long sequences of splits | no page or frame in two places; blocks stay mapped; the TLB is never stale |
| kernel heap (`src/lib/liballoc`) | majors, minors, `l_memRoot`, `l_bestBet`, counters | `kmalloc`, `kfree`, `kcalloc`, `krealloc` | page allocator, through `liballoc-support.cpp` | cached pointer to a major, loop that starts over, size overflow | blocks do not overlap; pages go back; every call returns |
| interrupts (`src/interrupt.cpp`, `src/pic.cpp`) | `m_irqs`, `m_irq_triggered`, the 8259s' registers | handler of a line, `wait_irq`, `map_irq` | calls the drivers' handlers | spurious interrupts, a flag shared with handlers | nothing stays in service; a wait ends for its interrupt only |
| keyboard (`src/keyboard.cpp`) | `waiting`, `chr`, `shift`, the controller | `init`, `kbd_interrupt`, `wait_char` | interrupts; called by `getline` | keys made of several bytes, interrupts at any moment | no byte out of step; no key twice; calls return |
| console (`src/stdio.cpp`, `src/include/ustdio.h`) | cells, cursor | `putchar`, `printf`, `getline` | keyboard; called by system calls | the corner of the screen, the end of the line buffer | the screen is a window on the text; a line is what was typed |
| system calls (`src/syscall.cpp`, `src/include/os/syscall.h`) | the one static `m_task`, the caller's stack | `put_term`, `get_term`, `alloc`, `dirent`, `run_indir` | tasks, console, heap, FAT | arguments, frame and result on one stack, below which interrupts write; waiting for a key inside a call | each caller gets its registers, its stack and its result back |
| tasks (`src/include/os/ctxsw.h`, `process.h`) | saved registers of each task, `cur_task` | `mk_task`, `yield`, `c8_handler_i` | interrupts, system calls | a switch at any instruction, inside the handler of another interrupt | registers of a task survive; every task runs |
| FAT (`src/include/os/fat.h`) | cached FAT sectors with popularity counts, static `m_path`, `found_entry` | `get_next_cluster`, `read_file`, `enumerate_directory`, `traverse_directory` | ATA | a cache, cluster chains, a result that survives the search | a cached entry is the disk's; what is found is what was looked for; a file is read in its order |
| ATA (`src/ata.cpp`) | the drive's registers | `read_sectors` | the drive | polling a status that is not up to date yet; no way out on errors | the sector asked for is read |
| ELF loader (`src/include/os/elf.h`) | none | copy program headers | FAT, process | none | |
| GDT, TSS, time (`src/include/os/gdt.h`, `time.h`) | descriptor tables, a counter | `init` | | none | |
| 64-bit division (`src/abi/cpp/integer.cpp`) | none | `__udivdi3`, `__umoddi3`, `__divdi3`, `__moddi3` | the compiler calls it | top bit, signs, division by zero | quotient and remainder |
| libraries, shell (`src/lib/ownlibc`, `src/libc_userspace`, `src/tools`) | the shell's line and its pointer | `printf`, `strtok`-like parsing | system calls | a pointer that moves away | |

The hazards of each part, at their lines, are in `PROJECT.json`.

## The plan

Done, in this order, because a kernel whose allocator is wrong is wrong
everywhere: `PageGrants`, `Memory` and their proofs, `Boot`, `Liballoc`,
`Interrupts`, `Keyboard`, `Console`; then `Division` with its proofs, `Ata` and
`Fat` with the proof of the cache, `Tasks` with its proofs, `keyboard::init` as
part of `Keyboard`, the proofs of `Interrupts`, `Syscall`, which composes the
console with the program that calls it, with its proofs; then the proofs of
`Liballoc`, of the allocator's list, of the console's screen and lines, of
the keyboard driver, of `Boot`, and of what FAT's searches find and `get_file` reads.

What is left: the directory level of paging (`src/paging.cpp:46`, the 8 MB
offset) below `Memory`; the shell's line and its moving pointer; the proof of
FAT's listings.

Specifications are written to be proved about: constants with named assumptions,
one action per operation or turn of a loop, walks along lists as recursive
functions, no RECURSIVE operator.

## The modules

Definitions carry the source's names where TLA+ allows it; `PROJECT.json` maps
each to its lines. Definitions marked `mutant` are the code with one plausible
bug; nothing refers to them but the table of mutants in `PROJECT.json`, which
says which property catches which bug.

**PageGrants** is what the page allocator promises its caller: a grant is a set
of pages that belongs to the caller until it releases it, each backed by a frame
of its own. Its action `Break` is the honest part: after an allocation has run
out of frames half way the set of free frames may be anything.

**Regions** is the part of `mem_info` that booting and allocating share: the
bitmap `m_pages`, as the set of frames whose bit is set, and `m_rgns`, the array of
regions with its `next` and `prev` pointers as slots; the list through it (`Walk`),
`get_unused`, and the regions that `sysinit()` leaves (`BootRegions`). `Boot` and
`Memory` extend it.

**Memory** is `alloc_virtual` and `free_virtual` as they are. Each is one action
per outcome (`AllocVirtual`, `AllocOutOfFrames`, `AllocNoRegion`, `FreeVirtual`),
because no interrupt handler allocates and a call runs to completion. `tables` is
the page table entry of each page; `tlb` what the CPU may have cached. The rollback
of a failing allocation, which unmaps the wrong page, and the `invlpg` of
`unmap_page`, which flushes the page that has the *frame's* number, are in the model
as they are in the code. `held` and `botched` are history. The page tables start with
arbitrary contents (`BootTables`), since nothing clears them.

**Boot** is `sysinit()` up to the first allocation: `preinit` one region of the
memory map at a time, `disable_physical`, and `disable_virtual` one turn of its
loop at a time with its four cases. Addresses wrap at `AddressSpace`. `MemoryReady`
ties it to `Memory`: it ends in the very regions `Memory` starts with.

**Liballoc** is `kmalloc` one turn of its loop at a time, `kfree` and `krealloc`.
Addresses are numbers and headers are kept in functions from the address they lie
at, so that gaps are found by the same arithmetic as in the code. `alloc_virtual`
is any free run of pages, or a refusal, which is what `PageGrants` promises.

**Interrupts** is the two 8259s, the handler the kernel installs for every line,
and `wait_irq`. A device may lower its line before the CPU acknowledges, which
makes the controller answer with line 7 or 15 and no bit in service.

**Keyboard** is the handler `kbd_interrupt`, which waits inside `ps2_read` for the
rest of a key, one action per byte it reads; the controller's one-byte buffer with
the edge that the 8259 keeps; and the program that is interrupted: first
`keyboard::init`, which connects the handler and then talks to the controller
through the same byte the keys come in, one action per command or answer, and
then `wait_char` in three steps, between any two of which an interrupt may come.
Keys are records of the flags the driver computes and a code, and `Bytes` is how a
keyboard sends them. Until `ps2_initialize` the controller translates; a key that
is typed then is decoded as the codes of the other set (the E key's code there is
that of the left shift), and one that is in transmission when the port is disabled
loses its rest, which `cut` remembers. The tests of the controller and its port
pass and leave its configuration alone; a byte that the CPU takes together with
the command that disables the port is the only one whose interrupt is late.
`AnswersInterrupt` is whether an answer raises interrupt 1: it is FALSE in the
run, and `CallsReturn` claims that `init` returns for such controllers only: with
one that does so the handler can eat the answer, and `init` spins for ever.

**Console** is `putchar`, `process_control` and `scroll`, `printf` of a plain string,
and `getline` on top of a `wait_char` that returns any key. It is checked against
the same text laid out on a page without an end.

**Syscall** extends it by a program that `main()` runs:
`run_indir` builds a frame on the program's stack and enters it; the library's
`syscall()` pushes the arguments and executes `int 0xc9`; the gate pushes its frame;
`save_context_and_go` copies the registers to `m_task`; `syscall_handler`
takes the arguments from fixed distances above the saved stack pointer, runs one of
`put_term`, `get_term`, `alloc` and `dirent` on the same stack with interrupts on,
leaves its result where the number of the call was, and `run_indir` goes back. The
stack is a function from addresses to words. An interrupt, at any moment the flag allows one, and the
kernel's own functions turn all words below the stack pointer into junk (`Irq`).
It is a program in ring 0, which is what `process::run` gives it: the gate has
DPL 0 (`rpl & 3 << 5` at `interrupt.cpp:134`), and in the branch for ring 3 `run_indir`
would read the code segment from below the user's stack pointer. There is one
program. What `alloc`
and `dirent` print is one constant line a time, `malloc` returns any pointer or 0,
and the walk over the directories is `Fat`'s.

**Tasks** is the round robin of `ctxsw.h`: `main` makes the tasks; the first one maps
interrupt 0 to `yield`, whose interrupt 0xc8 saves the registers of the task that runs
and loads those of the next. `stack` holds the frames on each task's own stack.
No file of the kernel includes `ctxsw.h` at this commit, and none could together
with `syscall.h` (both define `task`): it is modelled as the design that it is. FPU
and segment registers are not saved by it and not in the model.

**Ata** is `read_sectors` and the drive it polls, whose status lags behind a command
by up to 400 ns: a driver that looks too early reads the status of the sector
before. A command may fail, and the code waits for ever then. An address is sent
in three bytes (`ata.cpp:36`), hence `LbaLimit`.

**Fat** extends it by the whole of `fat.h`: the mount, the cache of FAT sectors with its
popularity counters that wrap, `get_next_cluster`, the recursion of `read_file` with its one
cluster buffer, `enumerate_directory` with the long names that come last piece
first, and both callbacks: the search for `m_path` with its static `found_entry`, and the
listing of the `dirent` system call, which reads other directories into the same buffer
as it walks. Sizes are in sectors, and names are in pieces of 13 characters, which is what
a long entry holds; a name whose length is a multiple of 13 has no NUL and
is continued by what the buffer held, hence `NamesEnd` in two properties. What
`name_buf` holds before it is first written is undefined, and nondeterministic.
A short name is written without a NUL into a `pde` that is not cleared
(`fat.h:215`): behind its characters stands what lay there, as a rule the end of the name of the
entry before. Therefore nothing is known of its pieces but how the first one starts:
`namecmp` may return either answer for any name that begins with those characters
(`Starts`), and `printf` goes on into what is `Unset`. Only
paths whose directories exist are looked for; a sector that belongs to no directory
begins with a zero.

**Division** is the two loops that all four functions of `integer.cpp` run, a turn at
a time, over words of `2 * Half`.

**MCMemory, MCBoot, MCLiballoc, MCInterrupts, MCKeyboard, MCSyscall, MCDivision,
MCTasks, MCFat** give the constants of the runs. **MemoryProofs,
LiballocProofs, InterruptsProofs, KeyboardProofs, SyscallProofs, TasksProofs, FatProofs,
DivisionProofs** hold the theorems.

## The runs

| run | what it asks | bounds, and why they suffice |
|---|---|---|
| `memory` | the regions partition the heap, the list reaches every region, held blocks are mapped, frames are accounted for, no stale translation of a mapped page, `get_unused` finds a slot, mappings of held blocks never change, `PageGrants` is implemented | 7 pages of heap, 5 frames, requests of 2 and 3 pages: up to four regions, frames exhausted with none and with some left, no region large enough, reuse of split regions; clear and stale page tables; a TLB of one entry, since one stale entry is what could go wrong; frames whose numbers are pages of the heap, so that the wrong `invlpg` sometimes hits |
| `memory_consistent` (violation) | no frame behind two pages in use | as `memory`, without the TLB |
| `boot` | when `sysinit()` is done the bitmap and the regions are what `Memory` starts with (`MemoryReady`); a range is disabled when its `disable_virtual` returns; all of it ends | 12 pages of 4 bytes, every map of at most two regions with ends inside a page, at its end, at and above the top; the calls of `sysinit()`, and any three in a row out of ranges of one, two and four pages: all four cases after each other |
| `liballoc` | blocks do not overlap; the lists are whole and the counters agree with them (`HeapSound`) | words modulo 128, which no request wraps (`RequestsDoNotWrap`); two pages of 27 bytes, blocks of three sizes: three in a small major with gaps in front, between and behind, and one that needs a major of two pages |
| `liballoc_majors` | the best bet does not dangle, pages are asked for only when nothing has room, calls return | up to three majors of two blocks: the loop can begin in the middle, start over, and fail |
| `liballoc_realloc` (violation) | a failed `krealloc` keeps the block | as `liballoc` |
| `interrupts` | no bit stays in service (`IInv`), a wait ends for its own interrupt, requests are served | a line of the master, the master's spurious line, one of the slave; five raises, so that two spurious interrupts can meet a wait and another request |
| `keyboard` | framing, characters and shift, fresh keys, bytes are read, `init` and `wait_char` return | three keys of twelve shapes, all the shapes the driver distinguishes, from before `init` on: a key can be cut by any other and by the set-up, and shift, its release and a letter fit |
| `syscall` | the screen shows the end of the text; `getline` returns the line; the program finds its registers, stack, flag and result when a call is over; calls return | 5 by 2 cells (a tab is 4), six characters: the corner is reached in four; two calls of any kind, known and unknown, one after the other, so that the second meets what the first has left; a stack of 14 words, which is what the deepest call needs; lines of at most 4 characters, so that the limit is met; interrupts at every instruction |
| `division` | the loops keep the balance (`IInv`), results are right, calls return | every pair of five-bit words through each function: both ends of the signed range, the top bit, zero |
| `tasks` | contexts survive, interrupts do not pile up, every task runs | three tasks: the one that runs, the next and one that is neither; two values, to tell whose registers they are; no bound on the ticks |
| `fat` | the cache is sound (`IInv`), `get_next_cluster` follows the FAT, searches, files and listings are right, calls return | three disks with directories three deep, a file over three FAT sectors with two cached, in several orders, so that sectors are evicted and come back; a chain that is shorter than its file and one that is a loop; deleted entries, entries behind the end, a directory that fills its cluster, a short name that is the beginning of a long one in front of it and of one behind it; any sequence of calls |

CHECK_DEADLOCK is off where the system may stop: Boot ends; in Interrupts,
Keyboard and Syscall the devices and the program fall silent when the bound on what
they do is reached, and a program that waits for them waits, as it does in the kernel;
in Fat a drive that has failed stops the driver for good. Memory, Liballoc, Division and
Tasks have no bound on the number of calls.

Properties that hold only with a condition say so. `FramesAccounted` speaks of the time
before an allocation runs out of frames half way (`~botched`); `CharsMatchKeys`
excepts the made-up shift release e0 f0 12, after which the driver believes that
shift is held (`src/keyboard.cpp:152` compares the type with a plain release only);
`FramingKept`, `BytesAreRead` and `CallsReturn` of Keyboard except a key that was
cut in two by `ps2_initialize`; `UsableFramesAreFree` excepts regions in the last page,
where `align_up` wraps; `ResultRight` excepts `__moddi3` by a negative divisor, whose
sign is taken from both arguments (`integer.cpp:86`), and `Returns` division by zero,
which goes round for ever (`integer.cpp:13`). `SearchFinds` is about paths that lead to an
entry with a long name (`Leads`): it excepts names of 13, 26, ... characters, for which no NUL
is on the disk, a short name in front of the entry that is the beginning of the name,
and paths that lead nowhere, for which the code returns what it has found last.
`TreeListed` excepts the first, and of a short name says only that its characters are printed.

## Fairness

* Memory (and PageGrants): none; only safety is checked.
* Boot: weak fairness of `Next`. `sysinit()` runs alone with interrupts off.
* Liballoc, Division: weak fairness of the steps of a call that has begun; a caller
  need never call.
* Interrupts: weak fairness of the CPU's steps (it takes requests between two
  instructions and runs a handler to its end) and of `WaitOver`, the loop of
  `wait_irq`. Devices have none.
* Keyboard: weak fairness of `Present` and `Answer` (a keyboard sends the bytes of a
  key it has begun, a controller answers: the hardware's promise, not the code's), of
  taking the interrupt, of the handler, of the steps of `init`, and of the two last
  steps of `wait_char`. Nobody has to press a key, and `CallReturns` speaks only of
  calls for which one is on its way.
* Syscall: weak fairness of the CPU's steps in a call, of somebody's typing when a
  line is asked for, and of the first line of `dirent` (which is the disk's answer).
  The program need never call.
* Tasks: the timer ticks for ever, and the CPU goes on and takes interrupts (weak
  fairness). `main`'s steps have strong fairness, since an interrupt only postpones
  them: the CPU executes at least one instruction of `main` between two interrupts.
* Fat: weak fairness of the code and the drive, which either answers or fails; liveness
  excepts a drive that has failed (`status = "err"`).

## The proofs

Each theorem is about every value of the constants that the named assumptions
allow; TLC evaluates those in the runs.

### Memory and PageGrants

`MemoryProofs` is about every size of the address space (`Quarter >= 3`), every set of
usable frames, every request of at least two pages, every content of the page
tables and every size of the TLB. That requests are of at least two pages comes
from liballoc's minimum of 16 (`l_pageCount`); with requests of one page the
region of one page that `disable_virtual` leaves behind the end of the address
space could be handed out, and the theorems would be false.

*The inductive invariant.* `IInv == TypeOK /\ RgnInv /\ HeldBlocksBacked /\ TlbCoherent`.
`RegionsPartitionHeap` is not inductive: nothing in it says where a free region
that is about to be split lies, nor that the disabled ones are where `sysinit()` put
them. `RgnInv` says it in arithmetic: each region the allocator can meet lies in the
heap or is the one past the end (`RegionsPlaced`), any two are apart
(`RegionsApart`), each page of the heap is in one (`HeapCovered`), and disabled
regions are as booted (`DisabledAsBooted`). `TlbCoherent` needs the rest of `IInv`:
an entry that `free_virtual` fails to flush does no harm only because the page
is not present, and stays so until `map_page`, which flushes it.

*The argument.* One lemma per action shows that it keeps `IInv`
(`AllocVirtualKeepsIInv`, `AllocOutOfFramesKeepsIInv`, `FreeVirtualKeepsIInv`,
`TlbStepsKeepIInv`), each on lemmas about the two changes of the region list
(`TakeRegionKeepsRgnInv`, `FreeKeepsRgnInv`). The failing allocation is the
interesting one: it unmaps a page of a region that no block holds, so that
`HeldBlocksBacked` survives. From `[]IInv` follow `TypeCorrect`, `RegionsPartition`,
`BlocksStayBacked`, `TlbCoherence`; `MappingsStable` is an action property proved from
the same lemmas. `UnusedSlotsSuffice` counts: regions have at least a page each and
are apart, so their bases are distinct members of the heap, which is smaller than
the array. `TypeOK` is proved, and therefore in no run's list.

*The list.* `NoRegionIsLost` says that the walk of `alloc_virtual` comes by every region.
`RgnInv` alone allows a list that skips one. `ListInOrder` adds that slot 0 is the region with
the least base, and that `next` of a region in use is the one whose base is the next
higher, or null if there is none. A split puts the rest of the region behind it in the
address space and in the list (`TakeRegionInOrder`). The walk therefore climbs in base, at
least a page a step, so it is at the end within `PageCount` steps (`WalkReaches`), and the first region
it had not come by could not have been skipped. `Walk` is a recursive function:
that there is one, and what it returns a step further, is `WalkDef`, by way of
the lemma `Recursion`, which builds the function by iteration from the fact that a set
of numbers has a least member (`Least`).

*The refinement.* `Refinement` proves that `Memory` implements `PageGrants`, with held
used regions as grants and their page table entries as backing: a successful
allocation is a `Grant`, a failing one a `Break` or a stutter, `free_virtual` a
`Release`. `PromiseAccounts` proves on the abstract side that whatever implements `PageGrants`
accounts for its frames and never grants a page twice, from the one assumption that the
usable frames are frames (there the invariant needs the type of `backing` and that grants
are disjoint); `FramesAreAccounted` brings the account back to the code's variables
through the refinement.

### Boot

`MemoryProofs` extends both modules and proves that `sysinit()` leaves what Memory
starts with. `SysinitReady` is about every memory map (any 64-bit bases and lengths,
overlapping or not, in any number), every size of a page and of the address space,
and every size of `kernel_data` that does not end in the last page: there `align_up`
wraps and `disable_physical` would reserve nothing, which the attempt to prove it
brought up; Boot's assumption now says so.

*The argument.* `FramesTouch` says what the rounding does: the frames of a range are
those with a byte in it, and for a range that ends in the last page some of them at
most. The invariant `Bitmap` says of the regions read so far what `MemoryReady` says
in the end. The regions' part is another kind of invariant, `Carved`: the calls of
`sysinit()` can leave the array in five forms only, from the cleared one to
`BootRegions`, and at each of them the position in the list decides which of the cases
of `disable_virtual` is taken (`TouchedAre`). Hence `SysinitDisables`, which is
`RangeDisabled` for the calls that `sysinit()` makes. For other calls it stays with the
run, and does not hold of all: a call for the page behind address 0 leaves a free
region without a page there, whose length the fourth case would make wrap in the call that follows.

### Liballoc

The theorems are about every size of a page and of the headers, every alignment and every set of
requests, with one hypothesis: no request wraps when header and alignment are added
(`SizesFit`; `src/lib/liballoc/liballoc.cpp:258` does not check it, and a request that wraps
gets a block smaller than it asked for). The run's instance states the same of its
requests, so that TLC evaluates it. `alloc_virtual` is any free run of pages, or a refusal.

*The inductive invariant.* Majors have an order that no variable remembers: some numbering
in which `next` and `prev` lead to the neighbours and `l_memRoot` is the least
(`MajorsListed`); what comes before the major that `kmalloc` looks at, once it has begun
at the root, has no room for the block (`PassedBy`). The minors of a major are in the
order of their addresses: `next` of one is the nearest above it (`MinorsListed`). Every
minor belongs to one pointer that is held and lies in its major (`BlocksHeld`,
`MinorsPlaced`). `usage`, `l_inuse` and `l_allocated` are sums (`Counted`). A major without
a block is the one that the call that runs has just been granted (`CallInv`).

*The argument.* A block is put where the code's arithmetic found a gap: in front of the first
minor, between two neighbours, or behind the last, and in each of these cases the nearest
header above is known from the order, so that nothing can lie in between
(`HeapNeverOverlaps`). `HeapIsSound` needs that the sums change by what is added and
removed (`Sum` is a recursive function over addresses; its lemmas are inductions over a
bound), and that `usage` never exceeds the major: the minors fit one behind the other
between its header and its end, which is the packing lemma. From it follows that the
unsigned `size - usage` never wraps and is at least as large as any gap, so that
case 1 (`diff < size + header`) skips only majors that have no gap. `GrowsOnlyForNeed` follows where the loop
ends: it asks for pages at the last major only, having begun at the root or started over
there, and by `PassedBy` no major before that one has room. `BestBetNeverDangles` is a conjunct of the invariant that `kfree` keeps because it
clears `l_bestBet` when that is the major it gives back.

### Keyboard

`KeepsItsPlace`, `StoresTheKeys` and `WaitsForAKey` are about every set of keys whose codes are
what scancode set 2 has (`EventsAssumption`: no byte of a code is a prefix, and F7 alone has
the high bit), every translation of them to bytes below 128, every number of events, and
controllers whose answers interrupt as well as those whose answers do not. `StoresTheKeys` needs no more of
the table of characters than that it has none for shift (`KeysAssumption`).

*The inductive invariant.* `FramingKept` compares events, and says nothing of a key that
is half read. `InPlace` compares bytes: what the handler has taken of the key it reads
(`Taken`, known from where in `ps2_read` it is), what the controller shows and what the
keyboard still holds are the bytes of the events not read yet (`Pending`). While the port is
disabled the same holds of what the keyboard keeps, if the set-up cut no key (`Unsent`).
`Stage` says what the controller's byte can be at each step of `keyboard::init`, so that the
handler never meets an answer once the driver is ready. `AsTyped` adds the shift flag to
`CharsMatchKeys`, and `Fresh` adds that `chr` is the last value stored.

*The argument.* Each byte that the handler reads is the first of what is pending, and the first
bytes of an event tell its type, because no code contains a prefix: one lemma for each place in
`ps2_read` says so (`FirstByte` to `WideBreakHighByte`). A key read to its end is
the first pending event, so it moves to `decoded` and the rest stays pending
(`HandlerInPlace`). What is pressed is appended behind (`PressInPlace`), and `EnableInPlace` is where what
was kept becomes what is pending. `AllBytes`, `Held` and `TypedBy` are recursive functions of the
events: the lemmas prove that each exists and that there is but one, since two would differ
first at some index.

### Console

`ScreenShows` and `GetlineReturns` are about every width, height, text and size of the
line buffer, in the composition with the program that makes the calls. The property compares the screen with the
text on a page without an end, where `Places` gives each character its place by
recursion over the text; there is exactly one such sequence (`PlacesAreUnique`). The invariant `Paged` says
that a sequence of places fits the text, that the cursor is behind the last of them less
the rows that have scrolled away, and that each cell shows the last glyph written
to its place on the page. A character moves the cursor to the place the page gives it, and the window by
one row at most, because a character ends at most one row (`TopMoves`, `WindowMoves`):
that is why `scroll` by one row is enough, and why the tab in the corner is safe. `InLine` says of a
`getline` that is running that what it has stored is what has been typed
since the call, without a line feed, and what has been echoed; it is kept because keys reach `getline` only
through `Key`, and all else that prints does so when no line is being read.
Both stand on top of Syscall's `IInv`, which says who may print when.

### Syscall

`CallerIsKept` is about every size of the stack of 14 words and more, every word, every
text and any interrupts. Its inductive invariant says, for each place the CPU can be at
(`pc`), which words at and above the stack pointer hold what: the arguments and the frame of the
gate until they are consumed, the registers in `m_task` from when they are saved to
when they are loaded. Interrupts write below the stack pointer only, so that each
conjunct speaks of words they cannot reach; the one moment when it does not is when
`run_indir` has moved the stack pointer up and builds a frame below it, and there the
invariant has the interrupt flag clear. `CursorStaysOnScreen` is Console's part of it.

### Tasks

`ContextIsKept` and `NestingIsBounded` are about any number of tasks and any values. The
invariant describes each task that waits by the two frames on its stack: the one of
the timer with the registers of the program, and on top of it the one of
interrupt 0xc8, with what `tasks` has saved of the handler; and the task that runs by
where in the same ascent or descent it is. Interrupts are off in all but the program, which
is why there are never more.

### Fat

The theorems are about every disk whose parameter block is sensible, every cache size and
every wrap of the popularity. `DisksAssumption` says what sensible is: the FAT has room for
all its sectors, an entry of it and of a directory stays inside the FAT or ends the chain,
and the 24 bits of an address reach every cluster, which is so up to 8 GB. Nothing is
said of how chains run: they may meet, end early or have loops.

`NamesAssumption` says what a directory looks like that another system has written: the
pieces of a name stand in front of its entry, the last first, and count down to one; a
piece is full unless it is the last; no two entries have the same name; and a
directory's cluster has entries. Deleted pieces and entries, an end with entries behind it
and short names may be anywhere; a short name that a name begins with spoils the search
only for that name, and only from in front of its entry. A path is a sequence of long names.

`IInv` has four parts; the first three need each other, the fourth needs them.

* `CacheInv`: `CacheSound` needs what is on its way. While a block is being read its index
  is new and its data is not, so `ReadInv` says that the driver reads, or has read, the
  sector the index names; `Stores` says it through the states of the drive, for any
  number of sectors. `FatChainFollowed` follows: a hit returns what a read would have.
* `EntriesInv`: the calls of `enumerate_directory`, however deep, hold entries of the disk,
  and `found_entry` is one, or none, so that its cluster is in the FAT.
* `CallInv`, with `Copied`: at the k-th cluster of a file, the k clusters in front of it in the
  chain have been copied, each to its place, and what is left of the size is the rest.
  `get_next_cluster` is asked for the cluster before, and returns the k-th
  because of `FatChainFollowed`, whose lemma is used here.
* `SearchInv`: with k names behind it, a search is in the directory they lead to, and what
  is left of the path are the others. `Looked` is the loop over the entries: none that it
  has passed has the name or ends the directory, and if long entries are right in front
  of where it stands, `name_buf` has their pieces in their places, whatever else is in it.

`FatSearchFinds` is what that says when no name is left. What it rests on is
`Compared`: if the pieces in `name_buf` are those in front of an entry, `namecmp` returns
true for that entry's name and false for any other, although behind the pieces lies
what an earlier, longer name has left. This is where `NamesEnd` is needed: without a NUL
the comparison runs on into it. For an entry with a short name it returns false
if the name that is looked for does not begin with it, and that is the third part
of `Leads`. A path that exists leads only through directories
(`OnTheWay`), so that the name is there, the loop cannot come to the end without it
and `found_entry` cannot be what the last search has found.

`FatFileRight` is what `Copied` says in the two steps that `get_file` returns with:
the chain has ended, or the last cluster has the end of the file. The arithmetic of
clusters and sectors (`SectorsBehind`, `BeginsMore`) is apart from the steps.

### Interrupts

`InterruptsIInv` is about any lines, handlers and numbers of requests: what is in service is
known from the CPU's place alone (`InService`). The end of interrupt clears the highest
bit; the lemmas show that there is but one to each controller to clear, with the
cascade for lines of the slave, including its spurious one. `WaitsForReal` follows with it.

### Division

`DivisionIInv` is about words of every size. The invariant of the second loop is `Balanced`:
the dividend is what has been subtracted and what is left, which is less than the double
of `shift`. Halving is exact only because all values `shift` takes on the way
down were taken on the way up: `climbed` remembers them, and `ClimbedInDoublings` says
that each but the first is twice another. `DivisionResultRight` derives the meaning
of quotient and remainder, signs included.

Where a property speaks of a recursive function, its value is not computed by the prover:
the proofs use only that it satisfies its equation, which is proved to have a
solution, and induction by way of least elements.

Only model-checked: of Boot, ranges that `sysinit()` does not ask for; of FAT, listings,
which speak of a walk along a tree; and every liveness property,
since fairness and ENABLED are out of the prover's reach.

## Where code and comments disagree

Two runs of expectation `violation` show, with a trace, where the program does not
do what the repository says of it. `PROJECT.json` quotes the sentences.

* `memory.cpp:145`: the rollback of `alloc_virtual` unmaps page `base + i` where it
  means `base + j`. Frames are lost, and a stale one is given back, possibly one
  in use: what `malloc_test.inc` calls "Memory not consistent".
* `liballoc.cpp:828`: `krealloc` frees the block when it gets no memory.

Other things were met while the models were written. They are in the models as they
are in the code, and the properties' conditions or the hazards' notes name them, or
they lie outside what is modelled:

* `memory.cpp:197`: `disable_virtual` makes a free region of one page behind the 4 GB
  address space. `memory.cpp:72`: a region clamped at 4 GB gets no frame whatever its
  base, where the comment expects the overflow at base 0 only.
* `liballoc.cpp:258`: a size near 4 GB wraps when it is made "large enough to align".
* `integer.cpp`: the sign of `__moddi3`, and the loop on a zero divisor, as above.
* `fat.h:215`: a short name is not ended by a NUL. In a directory with todo.txt.bak,
  NOTE.TXT (without a long name) and NOTE.TXT.bak, a search for the last returns the second:
  behind NOTE.TXT the buffer still has ".bak". `dirent` prints NOTE.TXT.bak twice.
* `fat.h:261`: a search for a name that is missing returns what was found before.
* `fat.h`: a name of 20 long entries ends behind `name_buf`, which has room for 19 pieces;
  their checksum is not looked at; of a directory only the first cluster is read; the reserved upper four bits of a
  FAT entry are not masked; clusters above 32 KB do not fit `m_cluster_buffer`.
* `ata.cpp:36`: addresses lose what is above 24 bits.
* `syscall.h`: the result of a call that does not exist is its own number; `xfat`
  is never set as long as the end of `main()` is commented out, and `dirent` uses it.
* `new.cpp`: `operator delete` does nothing.
* `tools/shell/shell.c`: `get_token_and_advance` moves `cmd` itself, so that the next
  line is read further and further behind its 256 bytes.

Every hazard without a property has a note in `PROJECT.json` that says why.

## What is not modelled

* Boot loader, ELF loader, GDT and TSS, kernel entry: straight-line code with no
  state that outlives it. The paging set-up too, but for the directory level, which is
  all constants: its two disagreements with the rest are hazards in `PROJECT.json`.
* `time.h`: its `init` is commented out in `sysinit()`.
* The user-space library and the shell but for `syscall()`: sequential code over a line
  of text, with no state they share; the freestanding library: byte loops.
* System calls from ring 3 and of two programs at once: nothing at this commit
  runs so.
* In the modelled parts: contents of memory blocks, liballoc's statistics and its
  detection of wrong frees, `kcalloc`'s clearing, the encoding of IDT entries, the
  exception handlers (they print and stop), colours, number formatting, `scanf`.
