# A TLA+ verification of the studix kernel

studix is a small i386 kernel written in C. It boots under a multiboot loader,
sets up paging and a heap, a VGA text terminal, a PS/2 keyboard and an ATA
driver, and reads an ext2 file system. This directory holds TLA+ models of its
stateful parts, TLC configurations that check them on small instances, and TLAPS
proofs of the most important properties for all instances. Paths below are
relative to the kernel's source directory `src/`.

## Inventory

| Part | State | Operations | Hard behaviour |
|---|---|---|---|
| Paging (`mem/page.c`, placement allocator of `mem/kmalloc.c`) | frame bitmap, page directory and tables, `placement_addr` | `init_paging`, `alloc_frame`, `free_frame`, `get_page`, `switch_page_dir` | the boot loop moves its own bound; the bitmap is only partly cleared; tables allocated from the heap that is being extended; frames freed and exhausted |
| Heap (`mem/alloc.c`, `mem/heap.c`, `misc/ordered_array.c`) | headers and footers inside the memory, hole index, `end_addr` | `kmalloc*`, `kfree`, `expand`, `contract` | long call sequences; metadata next to callers' data; index ordered by sizes that change under it |
| ext2 files (`fs/ext2.c`, `fs/ext2_vfs.c`) | handle: `pos`, `block_index`, `curr_block_pos`, block buffer | open, read, close | three positions that must agree; block boundaries; limit of 12 direct blocks |
| ext2 layout (`fs/ext2.c`) | superblock, descriptor table | `load_superblock`, `load_bgdt`, `read_inode` | address arithmetic for every volume geometry |
| ext2 paths (`fs/ext2.c`) | open directory, position, the caller's path (temporarily cut) | `ext2_next_dirent`, `ext2_find_in_dir`, `ext2_look_up_path` | entry boundaries, early exits, restoring the path |
| Terminal and keyboard (`term/vga.c`, `devices/ps2.c`, `cpu_setup/interrupt.c`, `isrs.s`) | cursor, screen, CRTC registers, shift flag, handler table | `term_putchar`, `update_cursor`, `ps2_handler`, `irq_handler` | interrupts between any two machine accesses to shared state |
| ATA driver (`devices/pata.c`) | selected drive, drive registers | `init_ata`, `check_drive`, `read_abs_sectors` | polling without timeout, missing and refusing drives, read errors |
| Initial ramdisk (`tools/make_initrd.c`, `fs/initrd.c`, `lib/string.c`) | the image, `root_nodes`, the static `dir_entry` | `make_initrd` on the host; `init_initrd`, `initrd_read`, `initrd_read_dir`, `initrd_find_dir` | a tool that fails half-way; fixed arrays; one shared entry |
| VFS (`fs/vfs.c`, `fs/ext2_vfs.c`) | nodes and the `Ext2_file` behind each | `ext2_mount`, open, close, read, write, `read_dir` | stale handles, freed memory reused |
| Formatted printing (`term/term_printf.c`) | the loops' numbers | `term_printf` | ends of the loops, overflow of the divisor, interrupts in between |
| Interrupts and timer (`cpu_setup/*`, `devices/timer.c`) | GDT, IDT, controllers, handler table, `milli_uptime` | `init_gdt`, `init_idt`, `remap_irq`, `irq_handler`, `isr_handler`, `init_timer`, `timer_handler` | order of initialisation, priorities, resets of two controllers, spurious interrupts, lost ticks |
| Boot, panic and assert (`main.c`, `boot.s`, `misc/panic.c`, `misc/assert.c`) | where the boot is | `kernel_main` | interrupts at every step; a failure at every step |

How they interact: `kernel_main` brings the parts up in a fixed order, with
interrupts on from an early point. Paging uses the placement allocator until the
heap exists; afterwards `get_page` takes page tables from the heap, and the heap
grows through `get_page`. ext2 sits on the ATA driver and allocates from the
heap. The keyboard interrupt shares the terminal with the thread that prints.
There is one thread; concurrency is the thread against interrupt handlers.

The ramdisk is made on the host and loaded by the boot loader; the VFS dispatches
to it or to ext2. What makes each part correct is listed with its runs below; the places where the
code can go wrong are the hazards of `PROJECT.json`.

## Modules

**Paging** follows `init_paging` statement by statement (one action per loop
body) and then lets the heap ask for `expand` and `contract` in any order. A page
is a number, an address a number of bytes; `entry` is the page table entry of
each page, `tables`/`tables_physical` the two views of the directory. The bytes
of the bitmap that `init_paging` does not clear start with arbitrary content.
`expand` may need a new page table; then `get_page` calls `kmalloc_ap`, which
finds a place inside the mapped heap (`GetPageFromHeap`) or recurses without end
(`ExpandRecurses`, after which the kernel is in a state of its own and only
`Recursing` happens). ASSERT and PANIC lead to the halted state.

**Heap** models the allocator on a memory of words in which headers (3 words)
and footers (2 words) really lie, so that the code reads what is at the address
it computes, old metadata and callers' data included. Arithmetic is modulo the
word. `Kmalloc` is the call, `AllocFromHole` and `MakeSpace` are the two branches
of `alloc`, `Kfree` is `free` with both unify functions, contraction and the
final insertion. Growth is one step here: the page tables of the heap are taken to
exist, and the allocation that `expand` makes when one is missing is in Paging.
The index behaves like `ordered_array.c`: removal makes it
longer and brings in zeros. **Allocator** is the abstract specification: blocks
are disjoint, and what a caller stored stays.

**Ext2File** has one action per iteration of `ext2_read`'s loop, the seek check
of `ext2_vfs_read`, open and close. A byte is represented by its position in the
file. **FileStream** is its abstract specification: a read delivers the next
bytes at once.

**Ext2Layout** computes the addresses the driver reads and compares them with
where the ext2 format puts superblock, descriptors and inodes (external
definitions). Products of block numbers and sizes wrap at `WordMod`, the 32 bits of
the code (`Word`).

**Ext2Path** scans directories entry by entry, with the offsets and lengths of
entries as numbers and names as values, and resolves paths component by component.
A scan that reaches `DirectBytes`, the end of the twelfth block, panics in
`ext2_read` (`ScanPanics`).
The reference is a trail: the inodes on the way along the path, each the child of
the one before it (`IsTrail`, `Names`).

**Terminal** interleaves the printing thread and the keyboard handler at single
loads, stores and port writes of `curr_x`, `curr_y` and the CRTC. The handler
itself is not interrupted (the stub executes `cli`). Keys come at any time, before
and after `init_ps2` and at every instruction of the thread. `sheet` is the
reference: what the screen should show, brought up to date when a character is
complete. Two more history variables record what the code has no protection
against: `mixed`, a key echoed while the thread draws a character, and `torn`, a
key echoed between the port writes of the thread's last `update_cursor`.

**Pata** has the drives as environment: they become ready, refuse or fail.

**Printf** is `term_printf`: one action per iteration of the loops over the
format, over the divisor, over digits and over units. The words have `WordBits`
bits and wrap. `ExpectedOut` is the reference: positional notation, defined
without a divisor.

**Interrupts** has the descriptor tables with the values the code stores, the
bytes it sends to the two interrupt controllers and the interval timer, what the
stubs push and what `irq_handler` does. The controllers (`Written`, `Granted`,
`Acknowledged`), with priorities, masks, cascade and spurious interrupts, and the
CPU are external.

**Boot** composes the two: `kernel_main` as a list of steps, each of which calls,
registers a handler, prints or asserts, with timer ticks, device lines, spurious
interrupts and exceptions between any two steps of any message. `panic` and
`assert` print, turn interrupts off and stay.

**Initrd** has `make_initrd` writing the image entry by entry, and the kernel
reading it: cells of the image hold a character, a number or a byte of data at
the offsets the code computes. It may fail at an entry it cannot open, or be
killed; what is on the host's disk then is what the kernel boots with. If it has
written nothing yet (`EmptyFile`), the image ends where it starts, the bitmap of
frames lies there, and the kernel takes its first byte for the number of files
(`InitInitrdEmpty`). Names are
arrays of characters and `strcpy` does what the kernel's does. **Vfs** composes
it with ext2 nodes: mount, open, close, read, write and read_dir through the
function pointers, and the address of each `Ext2_file`, so that a freed address
can be handed out again. The path look-up is that of Ext2Path and the read that of
Ext2File, by their results.

`PagingProofs`, `HeapProofs`, `Ext2Proofs`, `Ext2PathProofs`, `PataProofs`,
`VfsProofs`, `BootProofs` and `TerminalProofs` hold the theorems, each about the
module it is named after; `Ext2Proofs` is about Ext2File and Ext2Layout, `VfsProofs`
about Vfs and Initrd. The `MC*` modules define instances for TLC.

## Runs

| Run | Shows |
|---|---|
| `paging` | Boot ends with a heap (`BootCompletes`); `contract` returns, and `expand` while the page tables it needs exist (`ResizeReturns`); kernel, ramdisk and early allocations are mapped one to one (`KernelIdentityMapped`); the CPU's tables are the kernel's (`TablesTranslate`); frames are exclusive up to the few that the bitmap misreports (`ExclusiveFrames`) |
| `heap` | Blocks and holes tile the heap and each hole is indexed once (`HeapTiled`), no ASSERT fails and nothing unmapped is touched (`NeverStops`), one growth is enough for plain and aligned requests within `GrowthSuits` (`GrowthSuffices`), aligned requests are aligned (`AlignedAsAsked`), and the abstract allocator is implemented (`RefinesAllocator`) |
| `ext2_file` | The three positions of a handle agree (`PositionsAgree`), reads stay in the file (`ReadsStayInFile`), files below 12 blocks never panic (`SmallFilesReadable`), reads return (`ReadReturns`), the stream is implemented (`RefinesStream`) |
| `ext2_layout` | The inode found is the inode asked for if and only if the driver's limits permit (`InodeFound`) |
| `ext2_path` | Look-ups are correct (`LookUpCorrect`), scan at entry boundaries (`AtEntryBoundary`), leave nothing behind (`NothingLeftBehind`) and, where all directories end before the twelfth block does, return (`LookUpReturns`) |
| `terminal` | With keys at every instruction of the boot and afterwards: the screen is right until a key is echoed in the middle of a character (`ScreenShowsText`), the cursor of the idle kernel unless its last update was torn (`CursorShown`), the shift state always (`ShiftReleased`); keys that find their handler are read (`KeysRead`) |
| `pata` | The first ATA drive is selected (`FirstDriveSelected`); sectors arrive in order (`SectorsInOrder`) and complete (`TransferComplete`); initialisation and reads return (`InitReturns`, `ReadReturns`) |
| `vfs` | An image that was begun and not finished shows no file (`AllOrNothing`); the files are all counted (`FilesCounted`) and read back byte for byte (`ReadsRight`); an open node leads to a live handle of its own on the file it names (`HandleOfFile`) |
| `boot` | Interrupts are on only when vectors, gates, controllers and timer are ready (`ReadyForInterrupts`); no controller keeps an interrupt in service (`NothingInService`) and every request is served (`IrqServed`); every tick that was not lost is counted once (`TicksCounted`); messages are right however often they are interrupted (`TextRight`) and end (`PrintReturns`) |
| `paging_freed_frame`, `heap_merge`, `pata_floating` | Disagreements between the code and its comments (`FreedFrameIsFree`, `HolesMerged`, `InitReturns`), see Findings |

### Bounds

- Paging: pages of 8 bytes, 24 frames, 4 entries per table, so that the heap
  crosses table boundaries, memory runs out and the bitmap has a part that is
  not cleared. `ByteBits` and `WordBytes` scale the bitmap's word to 8 frames.
- Heap: pages of 16 words, a heap of 6 pages that shrinks to 5 and grows to 12,
  and `IndexBound`, which stops calls before the index is that long; since every
  removal lengthens it, this bounds the number of calls per behaviour, at a point
  where split, merge, growth and contraction have followed each other. Sizes are
  chosen to fit a small block, one about a page, and one that no hole holds, each
  aligned and not.
- Ext2File: blocks of 4 bytes, 3 direct blocks, all file sizes up to beyond the
  limit, all counts. Ext2Layout uses the real constants on volumes of a few
  groups, one volume with more descriptors than a byte counts sectors, and one that
  is larger than `WordMod`, here 16 MiB. Ext2Path: directories of up to three
  entries, paths of up to three names, two look-ups in a row; `DirectBytes` is 10, so
  that some directories reach the panic.
- Terminal: a screen of 2 rows of 3 cells, registers of 2 bits, three scancodes
  (`MaxKeys`) out of nine. The boot text wraps and scrolls before and after
  `init_ps2`, so that a key can fall into every part of `term_putchar`, and into the
  time between `sti` and `init_ps2`.
- Pata: registers of two values (`ByteMod`, `TopMod`), so that a request crosses every register boundary;
  all combinations of drives.
- Vfs: directories of up to three entries (regular, unreadable and other ones,
  names of different lengths, one called "dev") in an image for two files, so
  that both a full and an overfull image occur; reads of every offset and size. Two
  nodes, two addresses and three paths of which one does not exist: a handle can
  be freed and its address reused by the other node. `ImageSize` is the length of
  the image, large enough for every directory of the instance; `AddFile` stops there.
- Boot: words of 8 bits and kibibytes of 8, so that numbers have up to three
  digits and sizes up to two units. What is printed is 0, 64 and 255 (`DiskValues`),
  10 and 240 (`FileCounts`): zero, powers of the base and of the unit, a negative
  int, and numbers whose divisor overflows. The largest and the least int are not
  among them; `WithinDigits` would leave out both. Lines 0, 1 and 14 are the timer, the keyboard and
  a line of the slave; two ticks, one spurious interrupt, one exception;
  `milli_uptime` wraps at 2.

Deadlock is not checked in `vfs` and `boot`: a kernel that panicked stays
where it is, and so does one that has nothing left to do while no device raises a
line.

### Fairness

The kernel has one thread that never blocks, so weak fairness of its steps says
that the CPU executes (`Kernel` in Boot). Pending interrupts are taken while
enabled (`Delivery`); devices need never raise one. For drives we
assume that a busy drive becomes ready or reports an error eventually; a bus
without a drive does neither. Callers of the heap and of files are under no
fairness; a read or a resize, once begun, goes on. The heap's properties are
safety properties: that alloc's recursion ends is `GrowthSuffices`.

## Findings

Each is a run that TLC refutes:

- `paging_freed_frame`: `free_frame` passes a frame number where `clear_frame`
  expects an address (`mem/page.c:103`); the frame stays taken.
- `heap_merge`: `unify_left` looks 12 bytes back for an 8 byte footer
  (`mem/alloc.c:122`) and does not merge with a hole on the left.
- `pata_floating`: one floating bus hangs `init_ata` (`devices/pata.c:91`).

## Limits the passing runs state

The properties hold within limits that the modules name, where the code has no
check. Setting `WithinLimits = FALSE`, or widening the constants, shows what
happens outside.

- `Reusable` (Paging): `first_frame` never returns -1 (`mem/page.c:73`), so with
  memory exhausted a low frame is mapped twice. The pages `expand` adds are not
  writeable, as `heap->readonly` is passed for `writeable` (`mem/heap.c:112`);
  only because the kernel runs with CR0.WP clear does this go unnoticed.
- `BitsetAssumption` (Paging): the bitmap is given a quarter of the bytes it uses
  (`mem/page.c:179-180`). The initrd is taken to end where the alignment of the page
  directory leaves room for the rest; elsewhere the bits of high frames lie over
  `kernel_dir->tables`.
- `HoleSuits` (Heap): NULL entries of the index count as holes whose size is the
  word at physical address 8; an aligned request may see a hole smaller than its
  offset as large (`mem/heap.c:37`); a gap may be smaller than the header and
  footer written into it (`mem/alloc.c:73-78`).
- `GrowthSuits` (Heap): `make_space` counts how often the address goes up and takes
  the count for a position in the index (`mem/alloc.c:24-33`), so that it may
  enlarge a hole that is not the last, over a block in use; also, when every hole is
  in front of the last block, it enlarges one of them all the same. The heap must
  have room to grow below `max_addr`. An aligned block must leave a gap and a rest
  that are large enough for holes, and some hole must be left: a new one begins a
  page, the gap in front of the block uses up what the heap grew by, one growth is
  not enough, and the second `make_space` takes a NULL entry for a header.
  The page tables of the new pages must exist (Paging has the other case).
- `FreeSuits` (Heap): the header behind the last block may be unmapped
  (`mem/alloc.c:137`), or hold the old header of a hole, with which the block
  would be merged; a hole that is cut off is inserted again
  (`mem/alloc.c:197`); one that is cut short may have no room for its footer
  (`mem/alloc.c:185`).
- Index (Heap): it is not kept sorted, because `make_space`, `unify_left` and
  `unify_right` change the sizes of holes that are in it; `find_smallest_hole` may
  then take a larger one.
- `MayFree` (Heap): a footer left over in a block its owner has not written yet
  can be taken for the footer of a hole.
- `Findable` (Ext2Layout): blocks below 4 KiB (`fs/ext2.c:110`), a shorter last
  group (`fs/ext2.c:94`), descriptors in a table of 256 sectors or more, whose number
  is passed in a byte (`fs/ext2.c:109`), inodes behind the first sector of a block
  (`fs/ext2.c:137-140`, where the comment says "Read however many sectors we need to")
  and inodes from 4 GiB on (`fs/ext2.c:139`) are never found: `InodeFound` says so in
  both directions.
- `DirectTree` (Ext2Path): a scan that comes to the end of the twelfth block of a
  directory panics (`fs/ext2.c:182`), also when nothing follows it.
- `PathAssumption` (Ext2Path): a deleted entry hides a live one of the same name, a
  regular file on the path is parsed as a directory, and a path that ends in a slash
  is not found.
- `PataAssumption` (Pata): callers ask for at least one sector; 0 in the count
  register means 256 to a drive.
- Ext2File: a count near SIZE_MAX wraps in `pos + count` (`fs/ext2.c:158`).
- `mixed`, `torn` (Terminal): a key echoed while the thread draws a character can
  corrupt `curr_x` and `curr_y` (`term/vga.c:103`); `ScreenShowsText` promises nothing
  from then on, and TLC refutes it without that condition. A key between the port
  writes of `update_cursor` sends a byte to the wrong register (`term/vga.c:71`);
  `CursorShown` leaves out the time up to the next update, and is refuted otherwise.
  A key before `init_ps2` is never read and silences the keyboard. With both shift keys
  down, the release of one turns shift off. A backspace at the first cell takes the
  cursor out of the screen (`term/vga.c:93`); `sheet.pos \in Cells` in
  `ScreenShowsText` leaves out what follows.
- `WithinDigits` (Printf): from 10^9 on the divisor overflows, and digits are
  wrong or the loop does not end (`term/term_printf.c:11`); the creation time of the
  root directory is such a number.
- `EmptyFile` (Initrd): an image without a byte, left by a `make_initrd` that stopped
  before its first write, makes the kernel read the bitmap of frames in its place;
  what it does from there on is not modelled.
- `FilesFit` (Initrd): nothing compares the number of files with `MAX_FILES`, and
  the count is stored in one byte.
- `NamesFit` (Initrd): `strcpy` puts the terminator one character too far
  (`lib/string.c:31`). A name keeps what was behind it in the array, in
  `dir_entry` the end of a longer name before it; it is then not found and
  `file_count` reads through a null pointer. A file called "dev" is not counted.
- `ReadsRight` (Initrd): offset plus size may wrap (`fs/initrd.c:26`). The tool and
  the kernel must agree on the width of `size_t`: built for a 64 bit host
  the headers have another size.
- `init_initrd` names the root "dev" instead of the node of `/dev`
  (`fs/initrd.c:91`), and listing `/dev` shows the files of the root.
- Vfs: a failed open and a close leave `impl` as it was. `HandleOfFile` is about a
  client that takes inode 0 for failure, and uses only nodes that are open. The
  VFS never follows `node_ptr` to a mounted volume, `ext2_vfs_read_dir` ignores the
  index, nodes from `find_dir` have no functions, and `type & DIR_NODE` also holds
  for types 3 and 6.
- Interrupts: exceptions before `init_idt` reset the machine; vectors from 19 on
  are printed from behind `interrupt_names`.

## Proofs

All theorems are about the same modules and definitions the runs use.

`PagingProofs` (every page size, table size, memory size and content, within
`PagingAssumption` and `BitsetAssumption`):

- `TypeCorrect`: `TypeOK`, from an inductive strengthening that says between
  which addresses each loop of `init_paging` is and that the heap's end lies
  between its least size and its limit.
- `FramesAreExclusive`: the invariant adds that every frame a page holds is
  marked in the bitmap, unless it is one of `Reusable`, and that nothing is
  mapped before the loops begin. `ExclusiveFrames` alone is not inductive:
  whether `alloc_frame` hands out a fresh frame depends on the bitmap.
- `KernelStaysMapped`: the invariant says that the identity loop has given page
  p frame p for all p so far, because the first clear bit is always that of the
  next page, that tables of the heap's initial pages exist already so that the
  placement allocator is not moved later, and that no later step touches low
  pages.

- `TablesAreTranslated`: the invariant says where each page table is: in a page that
  the placement allocator gave out (`PlacedAt`, whose addresses are equal, and which
  `KernelStaysMapped` keeps mapped to itself), or in a page of the heap (`TranslatedAt`).
  While `contract` runs, no table lies in the pages it gives back: their owner, `alloc`,
  has the block in use below them. `HeapAssumption` puts the heap above the frames whose
  bits are cleared, as 0xC0000000 is.

`HeapProofs` (every word, page and heap size, set of request sizes and content of
low memory, with `Careful`: callers within the limits, as in the run `heap`):

- `HeapStaysTiled`, `HeapNeverStops`, `GrowthIsEnough`, `BlocksAreAligned` and
  `HeapIsAllocator`, all from `HeapInv`. `HeapTiled` alone is not inductive: `free`
  checks and uses the footer of the block, so the invariant adds the footers of blocks
  in use (`Tiled`), that a caller's words end in front of its footer (`LiveInv`), that
  the heap is a whole number of pages, that `end_addr` is at most the end of what
  was ever mapped, and that the call in progress is within the limits also after
  `make_space` (`RequestInv`). For an aligned request that is because the hole that
  grows ends at a page, so that the gap in front of the block lies in what the hole had
  before. Footers of holes are not in it: the code does not
  write all of them and within the limits depends on none.
- The argument has two layers. Lemmas about constants speak of a set of headers whose
  sizes tile an interval (`SplitTiling`, `MergeTiling`, `LastTiling`, `AppendTiling`)
  and of a memory tiled by them (`Carved`, `Freed`, `Grown`, `Appended`). Then each
  action is shown to be one of these operations on the memory (`AllocShape`,
  `SpaceShape`, `FreeShape`: machine arithmetic does not wrap, and what is written
  lies inside one tile) and to do the same to the index (`InsertFacts`,
  `RemoveFacts`, `FindFacts`).
- The refinement: `AllocFromHole` is Give, `MakeSpace` is Prepare, `Kfree` is Release.
  The spans of blocks are apart because their tiles are (`SpanFacts`), and every write
  of the allocator lies between the ends of tiles that are not theirs (`SpanKept`).

`Ext2Proofs` (every block size, number of direct blocks, set of file sizes
and counts, with `NoWrap`: size plus count fits size_t):

- `FileInv` states the handle's consistency, where the copy in progress is, and
  which bytes have been copied. From it follow `HandleConsistent`, `StaysInFile`,
  `SmallFilesNeverPanic`, and `FileIsStream`, the refinement: only the return
  maps to a step of the stream, every iteration of the loop is a stutter.

- `InodesFound`, for every geometry of a volume and every `WordMod`: `LayoutInv` says that `block_size`
  and the number of groups are those of the superblock that was loaded, that the
  sectors of the descriptor table have been read from the block behind it, and that the
  inode last read is the one at the address calculated from these. The rest is arithmetic:
  an inode that begins in a sector of 512 bytes also ends in it (`RemainderBelow`), and
  the sectors read hold the descriptor of every group (`TableRead`). Of the power of two
  in a block size only that it is a positive number is used (`DiskAssumption`): the size
  is a multiple of 1024. The converse goes limit by limit: outside of any one of them the
  driver reads an address that is not the inode's, or bytes it never loaded.

`Ext2PathProofs` (every tree of listings and set of paths within the assumptions):

- `PathInv` says what each step of a look-up has established: the position is that
  of an entry and the name is in none before it (`ScanInv`), the inode found is the
  child (`FoundInv`), the directory searched is the end of a trail along the
  components so far (`TrailInv`), and buffer and slash belong to the step
  (`CallInv`, `CleanInv`). From it follow `LookUpsAreCorrect`, `ScansAtBoundaries` and
  `LeavesNothingBehind`.

`PataProofs` (every set of machines, register size, disk size and requests):

- `FirstDriveIsSelected` from `SelectInv`: the selection is the first ATA disk of the
  drives checked so far, and a drive is probed only while none is selected.
- `SectorsAreInOrder` and `TransfersAreComplete` from `TransferInv`: what the buffer
  has, which address the drive's registers hold (`DriveInv`: their chunks make up the
  address, `ChunksMakeAddress`, and counting carries from one to the next), and how
  many sectors the drive and the loop have left.

`VfsProofs` (any nodes, paths, addresses, directories):

- `HandlesAreOfFiles` from `HandleInv`: every handle is on a file of the volume, and an
  address that is given out belongs to no handle.
- `RamdiskIsAllOrNothing` from `RamdiskInv`: from its first write until `make_initrd`
  finishes, the cell with the number of files is 0, because every other write goes
  behind it. Before the first write there is no such cell (`EmptyFile`).
- `EveryFileIsCounted` and `RamdiskReadsRight` from `ContentInv`, on top of it. The
  number of a file is its place among the regular entries of the directory (`Place`, a
  cardinality). The invariant says that the headers written so far are those of these
  entries, in order, with their data between the last header and the end of the image
  (`AllHeld`), that conversely every number is that of an entry (`AllFound`), that
  `init_initrd` adds the address of the image to each start once and to nothing else
  (`HoldsMoved`), and that `file_count` has found every file up to its index, because
  each name is padded with NULs in `dir_entry` (`CountInv`). The last needs `NamesFit`:
  what a longer name left would stay. The proofs assume what `InitrdAssumption` says:
  `MaxFiles` fits the byte it is stored in, names contain no NUL and leave room for the
  terminator that `strcpy` puts too far.

`BootProofs` (any lines, exceptions and numbers of ticks):

- `KernelIsReady` and `ControllersAreReset` from `BootInv`: how far the boot is
  determines what the tables hold (`TablesInv`), and at most one interrupt is being
  handled, with interrupts off; until `irq_handler` has reset them each controller
  has at most one line in service, and the slave none if it will not be reset
  (`ServiceInv`, `FrameInv`).
- `EveryTickIsCounted` from `TickInv`, on top of `BootInv`: the handler of the timer is
  registered whenever its interrupt is handled, and for no other.

`TerminalProofs` (every screen size, boot text and set of keys):

- `ShiftIsReleased` from `ShiftInv`: unless the code of a shift key
  waits in the controller, shift is on only while a shift key is held.
- `ScreenIsRight` and `CursorIsRight`, for every interleaving of keys and boot text,
  from `TerminalInv`. The two properties speak of moments at which nobody draws or
  sends, so neither is inductive. At most one context draws a character that counts
  (`Drawer`): as long as `mixed` is false, a handler that prints has interrupted the
  thread at a location where no character is in progress (`StackInv`). For each
  location of `term_putchar` the invariant says where screen, `curr_x` and `curr_y` are
  on their way from one sheet to the next (`Drawn`: a row of the scroll at a time), and
  for each location of `update_cursor` which half of the position the registers have
  (`Sent`). A handler that comes while the thread is in `update_cursor` sends the
  position after its own echo, but the thread then goes on sending its own: that is
  `torn`, until the thread, or a handler that finds the thread elsewhere, begins another
  update. `TerminalAssumption` adds only that the
  boot text ends with a newline, as `main.c` does; a text that ended in a letter would
  leave the cursor where it was, since only a newline updates it.

### Only model-checked

- All liveness (`BootCompletes`, `ResizeReturns`, `LookUpReturns`, `ReadReturns`,
  `InitReturns`, `KeysRead`, `IrqServed`, `PrintReturns`): the prover has no support for
  fairness and ENABLED.
- `TextRight`: what the conversions print is compared with positional notation, which
  is made of powers and of a fold over the format. The provers have no laws of powers,
  and what a fold returns for every sequence is an induction over data.

## Not modelled

- The TLB, port instructions, `_start` and `flush.s`: taken to do what they say.
- Colours on the screen, wording of messages.
- `create_ordered_array`, `std_comparer`, `strlen` and `term_set_color` have no
  caller. `memset` is part of the steps that call it.
- Listing `/dev` of the ramdisk; short writes of `make_initrd`, which it ignores.
- Exceptions inside `term_printf`, whose panic would start another message in the
  middle of the first.
- Leaks of names and block buffers in ext2 (`fs/ext2.c:205`, `fs/ext2_vfs.c:32`):
  the heap is not composed with it.

## Plan

1. Done: Paging, Heap over Allocator, Ext2File over FileStream, Ext2Layout,
   Ext2Path, Terminal, Pata; Vfs over Initrd; Boot over Interrupts and Printf;
   proofs of all safety properties of the passing runs but `TextRight`.
2. Composing Ext2Path and Ext2File with Heap, to bound what look-ups and opens leave
   allocated.
3. `TextRight` with the powers of ten as a constant table, as far as the digits of
   one number go.
