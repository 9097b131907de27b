# Verification of csapp-emulator

csapp-emulator is a small machine in C: an x86-64 interpreter with page
tables, interrupts, processes and copy-on-write fork, a cache, a static linker,
and the data structures and experiments that go with a computer systems course.
This directory holds TLA+ models of it, configurations for TLC, and proofs for
TLAPS. Paths below are relative to the repository's inner `src/`; in
`PROJECT.json` they begin with `src/src/`. `PROJECT.json` lists, for every
definition, the lines of C it models (`map`), every run, the hazards the
properties are aimed at, the theorems and the findings.

To repeat a run: `tlc -workers 2 -config MCKernel.cfg MCKernel.tla`.
To repeat a proof: `tlapm CopyOnWrite_proofs.tla`.

## 1. The system

| Component | State | Operations | Hard behaviour |
|---|---|---|---|
| Copy-on-write memory: `process/pagefault.c`, `process/fork.c`, `cpu/mmu.c` | level-4 page table entries of every process, `page_map` (reverse map, counter and saved word of every frame), physical memory | `map_pte4`, `unmapall_pte4`, `copy_on_write`, `fix_pagefault`, `copy_pagetable`, `va2pa` | two structures must stay inverse over long sequences; frames and slots run out; the word of an entry travels through `page_map` |
| Scheduler: `process/schedule.c`, `process/fork.c`, `cpu/isa.c` | circular list of process control blocks, pids, timer | `os_schedule`, `copy_pcb`, `get_newpid`, timer test of `instruction_cycle` | insertion into a ring with stale `prev` links; traps leave the cycle by `longjmp` and skip the timer |
| Context switch: `cpu/interrupt.c`, `process/schedule.c`, `process/fork.c`, `process/syscall.c` | kernel stacks, contexts, TSS, cr3, registers | stack switching, push and pop of trap and user frame, `store_context`, `restore_context`, `fork`, `write` | two processes share each function: one pushes, another pops; a child resumes where it never stopped |
| Kernel as a whole: `cpu/isa.c` with the above | all of it | instructions that store, fault, call | a store is restarted after arbitrary steps of other processes |
| MESI simulator: `test/test_mesi.c` | a state and a value per core, memory | `read`, `write`, `evict` | any order over any cores |
| SRAM cache: `cpu/sram.c`, `memory/dram.c` | state, age, tag and block per line; main memory | `sram_cache_read`, `sram_cache_write`, reset | replacement by ages; dirty victims |
| Virtual memory areas: `process/wmarea.c` | a circular list per process | `vma_add_area`, `copy_vmareas`, `search_vma_vaddr` | sorted insertion in a ring, over an interface that mixes up `next` and `prev` |
| Search trees: `algorithm/rbt.c`, `algorithm/bst.c` | nodes with links and colours | insert, delete, find, find successor, verify | rebalancing loops, null nodes, rotations |
| Linked list: `algorithm/linkedlist.c` | head, count, links | add, insert before and after, delete, index, next, free | deletion and `free` of a ring |
| Static linker: `linker/staticlink.c` | map table, section headers, output buffer | symbol resolution, layout, merging, relocation | three passes that must agree line by line |
| Object files: `linker/elf.c` | line buffer, tables of headers, symbols and relocations | `read_elf`, `parse_elf`, `write_eof` | tables are found by line numbers in which comments do not count |
| Hash table: `algorithm/hashtable.c` | directory, buckets with local depths | construct, get, insert with split and doubling, free | entries are refilled from the hash of one pair; `free` goes over entries that share buckets |
| Instruction set: `cpu/isa.c` | registers, memory, flags, rip | parsing of instructions and operands, eleven handlers | ten forms of operands told apart by counting brackets and commas |
| Name tries: `common/mytrie.c` | nodes with a value | two initialisations, two lookups | a node keeps the value of the first name that passes |
| Number conversion: `common/convert.c` | an automaton | text to number, number to float | overflow, rounding |
| False sharing experiment: `test/falsesharing.c` | shared counters, threads | unlocked additions | threads interleave within an addition |
| Allocators, TLB, swap, array, `trie.c`, log | see section 8 | | not modelled |

How they meet: an instruction of the running process (`instruction_cycle`) is
translated by `va2pa`; a write to a readonly page calls `interrupt_stack_switching`
with the page fault vector, which pushes the frames, lets `fix_pagefault` call
`copy_on_write`, and calls `os_schedule`. A system call and the timer take the
same way. `fork` copies the control block, the kernel stack, the areas and the
page table, and shares the frames. After the pop of the frames the cycle starts
again with whoever is current. There is one thread: what interleaves are the
emulated processes, at every instruction and at every trap.

What makes the parts correct:

- memory: the reverse map is the inverse of the page tables; a frame somebody
  can write belongs to him alone; the assertions of the fault handler cannot
  fail; no process can tell that frames are shared;
- scheduler: the links are one ring, turns are taken in a fixed order, everybody
  gets a turn;
- context switch: TSS, cr3 and thread info agree, the stack pointer is where the
  push and pop functions assert it to be, every waiting process can be resumed,
  and registers are private;
- kernel: a store that faults is done once, and after at most one fault;
- MESI: states of the cores are compatible, no core reads an old value;
- cache: least recently used replacement, invisible to reads and writes;
- trees, lists: order, balance and links at every step of a call; a set, a
  sequence; termination; no use of freed nodes;
- linker: strongest declaration, lines complete and in place, references patched
  where they stand; a file is parsed into the tables it declares;
- hash table: entries, depths and pairs agree; a dictionary; each bucket freed once;
- instructions, names, numbers: what is computed is what is written;
- false sharing: additions are lost only where two threads share a counter.

## 2. Modules

| Module | Models | Abstract specification it implements |
|---|---|---|
| `CopyOnWrite` | virtual memory | `PrivateMemory`: a memory per process, copied at fork (`PrivateToProcess`) |
| `Scheduler` | list, pids, timer | `RoundRobin`: a fair queue (`ImplementsRoundRobin`) |
| `Kernel` | `CopyOnWrite` and `Scheduler` composed, and the store in a trap frame | |
| `ContextSwitch` | an interrupt step by step | `PrivateRegisters`: registers per process, fork returns twice (`RegistersPrivate`) |
| `Mesi` | the MESI simulator | `CoherentMemory`: one value (`CachesCoherent`) |
| `SramCache` | one set of the cache | `LruSet`, `BlockMemory` (`HoldsRecent`, `CacheTransparent`) |
| `RedBlackTree` | `rbt.c`, `bst.c` | `KeyedSet` (`ImplementsSet`) |
| `CircularList`, `LinkedList` | the generic list as operators; its operations as actions | `ListOfNodes` (`ImplementsList`) |
| `AreaList` | `wmarea.c`, over `CircularList` with its mixed-up interface | |
| `Linker`, `LinkerInputs` | `staticlink.c`; the object files of the instances | |
| `ElfFile`, `ElfInputs` | `elf.c`; files of the instance | |
| `HashTable` | `hashtable.c` | `Dictionary`: the first value of a key stays (`ImplementsDictionary`) |
| `Convert` | `convert.c` | |
| `Isa` | one turn of `instruction_cycle` from the text of an instruction | |
| `NameTrie` | `mytrie.c` | |
| `FalseSharing` | `falsesharing.c` | |
| `Structures` | the parts that stand alone side by side, one of them per behaviour | |
| `MCKernel` | instances of `Kernel`, `Scheduler` and `Mesi`, likewise | |
| `MCHardware` | instances of `CopyOnWrite`, `ContextSwitch` and `SramCache`, likewise | |

The other `MC*.tla` and the `.cfg` files are the instances. `*_proofs.tla` hold the proofs:
one module per specification, with the process list of `Scheduler` among those of
`Kernel_proofs` and the search trees of `Structures` in `Trees_proofs`, and
`Orders_proofs` with what several of them need about least numbers, ranks,
sequences, rings of links, division and powers of two. Definitions called "faulty" in the comments are slips the
code might have had: put in the place of the definition behind them, they make
the property they are paired with in `PROJECT.json` fail. They show that the
properties can fail.

How code became actions:

- **CopyOnWrite.** A page table entry is named by process and page; the
  pointers in `page_map[].mapping` are such names. The 63-bit `saddr` shares
  the word with all bits but `present`, so saving and restoring it moves the
  readonly bit, which is what the model keeps of it. One action is one fault
  with everything `copy_on_write` does (`Cow`), one fork with all pages
  (`ForkPages`), or one store. Assertions that can fail are actions
  (`CowAborts`, `ForkAborts`, `SegmentationFault`) that end the emulator.
  `CowFailure` names the first assertion that fails of those in `copy_on_write`
  (`process/pagefault.c:263`, `:290`, `:310`, `:311`) and in `unmapall_pte4`
  (`:216`, `:230`, `:243`; `:217` follows from `:263`).
  `OnlyResourcesRunOut` says that it is never any but `:310`, for want of a frame.
- **Scheduler.** One action is one pass of `instruction_cycle`: `Run` tests the
  timer, `Trap` and `Fork` skip it. Nothing removes a process: `exit`, `wait`
  and `kill` are stubs.
- **ContextSwitch.** One action per function that moves the stack pointer. A
  kernel stack pointer is the process and the number of frames pushed. `rax` is
  apart, other general registers are one value; the flags, which are saved with
  them, move like them.
- **Kernel.** `restart` is the store in a process's trap frame. A store is
  either new or that one.
- **Mesi.** One action per branch of `read`, `write`, `evict`, each called for
  any core, as `main` draws them at random.
- **SramCache.** One action per call; sets do not interact, so one is enough.
- **RedBlackTree.** `NULL_ID` accessors behave as in the code. A call on the red-black tree is
  the plain insertion or deletion, then one action per iteration of the loop
  that floats the red or double black node up, so the invariants speak of the
  tree between iterations as well.
- **LinkedList.** One action per operation, `linkedlist_free` one per node.
- **AreaList.** `vma_add_area` and `copy_vmareas` as they compute on the list,
  assertions included. In the real list `get_node_next` is `get_prev_vma`
  (`process/wmarea.c:128`), which the model keeps.
- **Linker.** A line is named by the file, section and row it comes from, so
  that `MergedExactly` can say where every line went. One action per symbol, per
  section, per relocation entry. Ends other than `done` are named: redeclared,
  undefined, aborted (assertion), overflow (a write behind an array), miscounted
  (the assertion on the line count), bad_entry and crashed (use of a value never
  written).
- **ElfFile.** A file is a sequence of lines, a line one of tokens (blanks,
  `//`, commas, words, newline). One action is one `fgets` (a longer line takes
  several), one row of a table, the end of a table, or writing the file and
  reading it again in another program. Ends other than `parsed` are `refused` (an
  assertion or `exit`) and `undefined` (a row behind the end of the buffer).
- **HashTable.** `Insert` is one step with its split and doubling; a call that
  fails the assertion of `insert_bucket_tail` aborts with the split done. `FreeEntry`
  is one iteration of `hashtable_free`. The hash function is a parameter.
- **Convert.** `string2uint_range` reads one character a step, so every text up
  to the bound is also every prefix; `Width` bits stand for 64. `uint2float` is
  an operator over `IntWidth` bits and `Fraction` bits of a float.
- **Isa.** One action is one instruction: the text is written from an abstract
  instruction in the notation of the assembler, parsed by `Split` and `Operand`
  as the code does, and executed by the handlers, which are reached through
  `Handles`. `InstructionsExact` compares with what the instruction means,
  computed from what was written and not from what was parsed, and says which
  notations end the program or are fetched for ever. Words have `WordBits` bits,
  an address names a word, `rip` moves by one.
- **NameTrie.** A node is named by the letters leading to it; one action inserts
  one element.
- **FalseSharing.** An addition is a load and a store. `main` runs the four
  experiments in turn and joins the threads.

## 3. Runs

A passing run checks several instances one after the other: `MCKernel`, `MCHardware`
and `Structures` put specifications beside each other that share nothing, and in every behaviour
one of them runs while the others stay as they start. A run visits the states of
its parts added up, not multiplied.

| Run | Part | Instance | States | Shows |
|---|---|---|---|---|
| `kernel` | kernel | 3 processes, 3 pages, 4 frames, period 2 | 20,800 | all processes stay in one ring, and the assertion of `copy_pcb` (`LinksSound`); a store that faults finds its page writable when restarted (`FaultFixed`), is done once (`RestartedStoreDone`) and is done eventually (`StoreCompletes`); enough slots and frames are enough (`NoResourceFailure`) |
| | ring | 5 processes, timer period 3 | 10,611 | forks anywhere in the list: everyone runs (`EveryoneRuns`); implements the fair queue (`ImplementsRoundRobin`) |
| | cores | 4 cores, 3 values | 3,630 | `check_state` after every operation; cores see one value, up to the eviction of a modified line (`CachesCoherent`) |
| `hardware` | pages | 4 processes, 4 pages (one outside the areas, one readonly, two writable), 6 frames, 3 slots per frame | 51,392 | page tables and `page_map` agree; writers own their frames; only resources or the program itself end the emulator; readonly pages stay on one frame; implements private memories |
| | switch | 3 processes, one stack word, two code addresses | 293,032 | the stack pointer assertions; one current process; waiting processes can be resumed; registers are private |
| | set | 3 blocks of 2 bytes, 2 lines, 4 ages | 72,656 | least recently used replacement; transparency up to the eviction of a dirty line |
| `structures` | ten | tree of 9 nodes, list of 5, areas in 7 pages, linking of 2 and 3 files, 383 object files, 7 keys in buckets of 2, texts of 5 characters, words of 3 bits, tables of 4 names, 4 additions per thread | 125,619 | see `Structures.tla`: sixteen invariants, three refinements, termination of the loops and threads |

Each of the other nine runs checks one property that a comment, a message or a document of
the repository states and the code does not have, on one of the instances above or a
smaller one; TLC's counterexample is a finding of section 6: `sched_pid`, `ctx_call`,
`sram_evict`, `mesi_evict`, `isa_flags`, `bst_leftmost`, `bst_above`,
`areas_sorted`, `linker_address`.

Why the bounds are enough:

- pages: three slots and four processes make the slots run out, six frames make
  the frames run out, and three sharers are the least for which "the others" is
  more than one entry. Two writable pages let frames of different pages be
  allocated and confused.
- ring: with five processes a fork happens in rings of one to four, behind
  any of them, and stale `prev` links two forks old occur. A period of three
  lets a tick fall on a trap.
- kernel: three processes are the least in which two others fork and fault
  between a store and its second attempt, and in which `prev` is stale; a page outside the areas makes the
  segmentation fault happen.
- switch: three processes let one fork while another waits. A stack of one word
  and two code addresses let `call`, `push` and `int` move. One value of the
  other registers is enough because `rax` has four already.
- set: with two lines and three blocks every access may evict; two bytes tell
  a byte that is written from one that must be kept. `MaxTime` bounds the age,
  an `int` the code increments without a test: with four ages a line may stay
  unused for three accesses to the other, one more than replacement looks back.
- trees: eight keys and a repeated one. All cases of the deletion
  switch occur in this tree, but a red sibling of a double black node that is
  not null needs eleven nodes (red sibling of a null one occurs). Ten nodes
  were explored once (125,000 states), without an error. `Infinite` is a key of
  the instance, so that nodes above it exist. Lists of five have every shape of head, neighbours
  and others. Areas: three disjoint areas are the first to go wrong.
- linker: every pair of files in which a function, a second one and a variable
  are each absent, declared, defined, static or weak, and triples of the more
  telling ones. Table and buffer are small enough for some inputs to overflow.
- object files: nine rows with a section header of each kind, two symbols and
  two relocations; eighteen changes of a row, each of which is a different reason
  to refuse the file or a different layout (two headers of one name, a missing
  table, a table that reaches behind the end, one of a negative size); in every file a line that is no
  row at three places, comments behind all rows, and an open last line.
- hash table: two keys with one hash, hashes that agree in their two low bits,
  buckets of two, so that a split may leave all pairs on one side (abort) and a
  directory of eight entries is reached with buckets of every depth.
- conversion: with six bits, numbers of two digits overflow in both bases, and
  five characters hold blanks, a sign, `0x` and digits. Eight bits with three
  after the point have all roundings, halves both ways, and the carry into the
  exponent.
- instructions: every form of an operand, with and without a blank after the
  comma, and all values of three bits for the operands of arithmetic.
- names: seven names over three letters with common beginnings, in any order.
- false sharing: with four additions each a thread can lose all but one of its
  own, which is the least result (two).

`hardware` uses symmetry: the processes of `ContextSwitch` other than the first,
and the blocks of the cache, are interchangeable, since nothing in the code
asks more of them than whether two are the same. The processes of the page tables have
the names of the blocks. `kernel` has liveness properties and no
symmetry.

No passing run checks deadlock, because each has a part that may stop: a failed assertion
ends the emulator in `kernel` and `hardware`, the bound on the ages stops the set, and
most parts of `structures` end when they are done. That the others go on follows
from the liveness properties, where it matters.

## 4. Fairness

`Scheduler` and `Kernel` assume weak fairness of `Next`: the main loop calls
`instruction_cycle` again and again, and no more. That every process runs and
every faulted store completes follows from the timer and the list, not from a
fairness assumption about a process. `RoundRobin` has weak fairness of its
rotation, which the implementation is shown to provide. `Structures` assumes
weak fairness of the iterations of the tree loops: one thread runs a call until
it returns, and of the threads of the experiment and its `main`, which the
scheduler of the host runs. Nothing is assumed about which operation is called, in which order.
`FalseSharing` states the same of itself. `MCKernel` assumes of its parts what they
assume of themselves.
All other specifications have no fairness and only safety properties.

## 5. Proofs

All theorems hold for every value of the constants under the ASSUMEs of the
modules, which say:

- `SizeAssumption`, `ListAssumption`, and `KernelAssumption`, which is both:
  `NULL` differs from everything else, sizes are positive, the areas fit into
  the frames, processes are finite in number;
- `StructuresAssumption`: null pointers are no nodes, areas are not empty, a name
  is a sequence, a hash is a natural number, buckets have room for a pair (with
  a size of zero the first insertion aborts), runs have two additions at least;
- `TreeAssumption`: the address of a node is not the null pointer, keys and the
  "positive infinite" of `bst_internal_find_succ` are integers (`KeysAreNumbers`);
  nodes may have equal keys, and nothing is assumed about their number;
- `ReaderAssumption`: a file is a sequence of lines, a line one of tokens and not
  empty, a numeral stands for an integer, and the buffer has room for a token and a newline
  (`FilesAreText`); any file whatever satisfies it, the wrong ones included;
- `FilesAssumption`: the linker's files are as a compiler writes them (`Regular`): a global
  symbol is one of those in the table of `symbol_precedence` (staticlink.c:236), a
  local one is defined, and the section of a symbol has a header in its file
  (`merge_section` skips a file that has none); a relocation entry leads to a
  symbol of its file, as the reader asserts (elf.c:371, :398). Nothing is assumed about how many
  symbols there are, which of them have the same name, or which lines they own.

`CopyOnWrite_proofs!ResourcesSuffice` has a hypothesis of its own, finitely many
processes, without which counting frames means nothing; `KernelAssumption`
provides it. The inductive invariants were checked by TLC on the instances
above before they were proved, but for that of the trees, which speaks of places
among all integers; now that they are proved the runs check what follows from them.

| Theorem | Statement |
|---|---|
| `CopyOnWrite_proofs!Invariance`, `TypeCorrect`, `ReverseMapCorrect`, `WriterOwns`, `CowAssertionsHold` | `IInv` and, from it, types, the exact reverse map, exclusive writers, and that none of the assertions of `copy_on_write` and `unmapall_pte4` fails but for want of a frame |
| `CopyOnWrite_proofs!CodeNeverCopied`, `ResourcesSuffice`, `Refinement` | the code stays on one frame; a frame and a slot for every mapping are enough; copy on write implements `PrivateMemory` |
| `Kernel_proofs!MemoryRuns`, `ProcessesInRing` | a behaviour of the machine is one of its memory and one of its process list, which is one ring |
| `Kernel_proofs!StoresFaultOnce`, `StoresDoneOnce`, `ResourcesSuffice` | a restarted store finds its page writable, and is done once; nothing but the program's own faults ends the emulator when there are enough slots and frames |
| `Kernel_proofs!LinksHold`, `TurnsInOrder` | of the process list alone: one ring, and the assertion of `copy_pcb`; the ring is the queue of `RoundRobin` (`Init` and every step) |
| `Mesi_proofs!Invariance`, `CheckStateHolds`, `Coherence` | for any number of cores: the states of the cores agree; every step but the eviction of a modified line is one of `CoherentMemory` |
| `ContextSwitch_proofs!Invariance`, `TypeCorrect`, `StackAssertionsHold`, `CurrentProcessAgreed`, `WaitingAreReady`, `Refinement` | for any number of processes; implements `PrivateRegisters` |
| `SramCache_proofs!Invariance`, `Transparency`, `LeastRecentlyUsed` | for any number of lines and blocks; implements `BlockMemory` and `LruSet` |
| `Trees_proofs!TreeAsserts`, `TreeSorted`, `TreeBalanced` | for any nodes and keys and any sequence of calls, at every iteration of a call: no assertion of `rbt.c` and `bst.c` fails; the nodes are in the order of their keys and the parent links exact; black heights and red nodes |
| `Trees_proofs!LookupsFind`, `TreeIsSet` | `bst_find` finds a node of the key if there is one, `bst_find_succ` a lowest one not below the key unless all of those are above `Infinite`; which of equal nodes is not said, for it is not the leftmost (section 6). Implements `KeyedSet` |
| `Structures_proofs!NodesInRing`, `ListIsSequence` | the linked list is one ring in both directions, for any nodes; implements `ListOfNodes` |
| `Structures_proofs!DirectoryLeads`, `FreedOnce`, `TableIsDictionary` | any hash function, bucket size and number of insertions; implements `Dictionary` |
| `Structures_proofs!LowestFirst` | the lowest area is the head of any list of areas; one or two are sorted and found |
| `Structures_proofs!StrongestWins` | symbol resolution over any files and tables: one entry for a name, no declaration stronger |
| `Structures_proofs!LinesInPlace` | layout and merging over any files and tables: every line of every symbol kept is where the headers say, the sections are full, and the line count is right |
| `Structures_proofs!ReferencesBound` | relocation over any files: every reference to a global symbol of a section of the program is patched, in the line that holds it, and leads to the symbol its name was resolved to |
| `Structures_proofs!FileParsed` | any file: it is parsed into the tables it declares, or refused because it is wrong, and parsed into the same tables when it is written out and read again |
| `Structures_proofs!NamesLead` | the lookups of a trie over any names |
| `Structures_proofs!CountersAddUp` | no addition is lost on counters of their own, at least two count on a shared one; for runs of any length |

**Copy on write.** That the reverse map is exact is not inductive: remapping
moves a slot, so one needs that the slots in use are the first `counter` ones
and distinct; the word given back to the remaining entries comes from
`saddr`, so one needs that it is readonly while a frame is shared; and the
assertion that a faulting frame is shared needs that an entry is readonly
exactly if its area says so or its frame is shared. `IInv` has these, and that
a frame holds one page of a process at most, which is why fork's loop adds one
entry per frame. The proof restates `IInv` frame by frame: `Names` is the set
of entries in a frame's slots, and each list operation has a lemma saying how
it changes that set (`MapFrameAdds`, `RemapFrameRemoves`). `Cow` and `ForkPages`
then differ from identity at two frames and at all frames of one process.
The refinement keeps, with `IInv`, what every page reads.

That resources suffice is a count. A counter is the number of `Names` of its
frame, which belong to different processes, so while there is a process to fork
a slot is left (`SlotLeft`). Every allocated frame is the frame of a code page,
counted once for everybody since code is never copied, or of a process and a
writable page; when a shared frame is written to, two processes have one frame,
so the map from those pairs to frames wastes a pair and a frame is left
(`FrameLeft`).

**Kernel.** `CopyOnWrite_proofs` is instantiated with the variables of the
machine, and the proofs about the process list are stated of its `Sched`. Each step of the machine is a step of each part or
leaves it alone (`StepsMemory`, `StepSchedules`), so `InOrder`, both invariants
together, holds, and all that is proved of a part holds of the machine.
`FaultFixed` is then inductive with one fact more, that only existing processes
have a store to restart: a page that is present and writable can become
readonly only by a fork of its own process, which does not fork while it has a
store to restart, and copy on write takes it from nobody else.

**Scheduler.** One ring is stated over sets closed under `next`. A fork into
the ring keeps it, since a closed set either contains the child and its
parent or neither. The assertion of `copy_pcb` holds although `prev` goes stale:
only the block of the loader ever has itself for `prev`, and only before its first fork.
`TurnsInOrder` reads the ring from the current process on as a sequence: the
walk along `next` meets every process once and ends in front of its start
(`Orders_proofs`), `Run` turns the sequence, and a child is put at its head.

**MESI.** `IInv` says that a modified or exclusive line is alone, that a shared
one has a second sharer, and that clean lines agree with memory. `check_state`
counts states; lemmas connect the counts with the invariant.

**Context switch.** `IInv` says of every waiting process that its context is
below both frames on its own kernel stack, also if it has never run, and of the
running one that it has the frames its phase calls for. Every step has a lemma;
those that only move registers between processor and stack are stutters of
`PrivateRegisters`, through the view `Seen`.

**Cache.** No block in two lines, ages of valid lines different, clean lines
equal to memory. The last one is what makes the loss of a clean victim
invisible; the loss of a dirty one is not, and `BlockMemory` allows it
explicitly (`Evict`), because the code has that error (section 6).
For `LruSet` the rank of a valid line is the number of valid lines that are not
older. Ranks number the lines from one (`Orders_proofs`), and using a line moves
it to rank one and those that were before it back by one (`RanksMove`).

**Search trees.** The difficulty is that "under a node" is a recursion, and every
rotation changes up to six links of a tree of any size. `Trees_proofs` does without
the recursion: a set of nodes is a search tree when each node can be given a place, an
integer, and an interval around it, so that the intervals of the children are
the two halves of their parent's, a missing child is an empty half, and the root
has them all (`Fits`). That is a statement about one node and its children at a
time, and the places need not change when links do: a rotation keeps all of
them and changes the intervals of two or three nodes (`Lifted`, `LiftedTwice`);
exchanging a node with its successor exchanges two neighbouring places
(`Exchanged`); taking out a node with one child closes its place (`Removed`);
an insertion needs a place next to that of the node found (`Inserted`), for
which the others move up by one. Left and right are mirror images (`Mirror`), so each is
proved for one side.

The balance is as local: `Even` gives every node a number, the black nodes on the paths
below, that its two children agree on, where one more may be counted
on one side of one node. `Idle`, `Floating` and `Lacking` say what holds between
calls, while a red node floats up, and while a black node is missing: the
invariant of each loop, with the one place where it is out of balance. Every case
of the switch moves that place up, or restores `Idle`. Three lemmas per
iteration connect this with the code: what the assignments of `Rotate`,
`Replace` and `SetChild` do to the pointers, nulls included (`RotateIs`,
`ReplaceIs`, `SetChildIs`), that the places are kept, and that the colours give the next
invariant. `Consistent` is the invariant, `NextConsistent` that it is inductive.

The properties themselves are recursions of the code or of the specification:
`Find`, `FindSucc`, `InsertionPoint`, `InOrder`, `BlackHeight`, `Under`. For each one
it is shown that the function exists, since every child weighs less than its parent
(`WeightsExist`, from the intervals), and that it has the value meant below
every node, from the leaves up (`FromBelow`): the in-order sequence is the
nodes by their places, and a search goes where the keys at the places say.

**Linked list.** The invariant says of the nodes in the list that `next` and
`prev` undo each other and that no smaller set that is not empty is closed under
`next`, and that they are as many as the count. An insertion puts
a node behind another and a deletion takes it out (`PutBehind`, `TakenOut` in
`Orders_proofs`); both keep a ring, and change the sequence read from the head
along it at one place. `linkedlist_free` unlinks one node after the other, and the
same lemma holds at each.

**Hash table.** `TableOK` says that two entries lead to one bucket exactly when
they agree in the low bits that bucket goes by, that every bucket has an entry,
that a bucket is not over its size, and that each pair is where its hash leads. The code fills the
entries of a bucket it splits from the hash of the last pair it moved. That is
right because all pairs of the bucket agree in the old local depth, and there
is one, because the bucket is full and buckets have room. A doubling is shown
to be a split in the directory written twice (`WideOK`, `DoublingSplits`): the
entries `malloc` leaves open are exactly those the split fills. Each half of a
bucket keeps the order of its pairs, so the first value of a key stays the
first (`HalfExists`, `SameFirst`). While the table is freed, one
bucket has been freed for each entry taken off, and a bucket that is not freed
still has an entry (`FreeingOK`); so the end is reached with every bucket freed,
as many as entries, and an error means that there were fewer.

**Areas.** With three areas the links are wrong (section 6), so nothing about
them is invariant but that they lead from areas in the list to areas in the
list and that the head is the lowest: the loop of `vma_add_area` finds the head
first when a lower area comes. With one or two areas the links are given
exactly (`VmaOK`). The areas the links lead to may be fewer than those added,
and fork copies only those; they are all as long as these are two (`LeadTo`).
The lists in the middle of `copy_vmareas` satisfy the same invariant
(`CopiesOK`).

**Linker.** The passes of the linker are loops over one sequence, the symbol
tables of all files one after another. Its lemmas come first (`JoinsAre`,
`FlattenJoins`): the sequence has every position of every table once. The
invariant says of the map that for the symbols read so far it is what it shall
be at the end for all of them (`MapOK`): one entry for a global name, kept over
every declaration read, and one for every local symbol. `Resolve` keeps it for
each pair of precedences, because no two of the declarations kept or dropped
were definitions, which the code refuses. The ends `redeclared` and
`undefined` remember the declarations that led there.

The header is computed by one loop over the map and the sections are filled by
another one over the symbol tables, so `MergedExactly` is a statement about
sums. `MergeInv` names the sections not yet merged (`InTurn`) and says that the
buffer ends where the lines of the others end (`EndsAt`), that an entry whose
section is merged leads to its row and its lines (`There`), and that no two
entries lead to one row (`Placed`). A section finds each entry of the map in it
once (`FoundAre`): the symbols found are the entries in another order, and a sum
does not depend on the order (`Orders_proofs!SameSum`). So the section ends where
the next one's offset is (`MergedOK`), and the line count in the first line of
the file, written before any section, is the number of lines (`LineCountIs`).

Relocation reads all of that. `BindInv` says that an entry that is not in the
work left is bound as it shall be (`Bound`). The search for the referenced name
goes through the map, where `dst` of a `.bss` symbol was never written; the
entries it can accept are among those the name means, and every one of those
that lies in a section is accepted (`RefsAre`). The line is right because the symbol that
owns the row in the file is an entry of the map that leads to its lines
(`LinePatched`); and a later entry overwrites no earlier one (`WriteBinds`).

**Object files.** `FileExact` compares the tables with `Told`, the rows that the
lines of the whole file say. `FileInv` says of the reader that it has the rows of the
lines it has read (`Heard`), unless the file is irregular, and of the parser how
far each table is done (`PartsOf`, `DoneOK`): a row is accepted with the number of symbols
that the header of `.symtab` says, which is the number of those parsed, since that table
comes before the relocations. The property counts the rows of a table as
a set; `SoundIs` shows that a file is sound exactly if its count is right and
every row of every table can be parsed, so a row that cannot is a reason to refuse it. What
is written out has a line for each row of which all is kept (`CutWritten`),
and says the rows it is written from (`HeardWritten`), so the tables, which are
a function of the rows (`WholeOf`), are the same.

**Name tries.** An inserted name makes the nodes of its prefixes, and a node
keeps the value of the first element that made it (`TrieOK`).

**False sharing.** A result is printed when both threads are done, so `IInv`
speaks of the counters before. `Untouched`: the counters of later runs are
zero. `Idle`: outside the runs with threads nobody holds a loaded value.
`Private`: where the threads have counters of their own, each counter is the
number of its thread's additions, and a loaded value is that number. `Shared`:
with one counter, it is at most the number of all additions, and a thread that
has stored twice has loaded, the second time, a value of at least one; that gives
the least result, two, when the other thread's last store comes last.

Induction. What a recursive function computes for every argument is proved from
least numbers: if a statement failed for some number it would fail for a least
one (`Orders_proofs!LeastExists`), and its predecessor refutes that. So walks
along links, powers of two and the halves of a bucket are proved about, although
no induction theorem of the library can be used.

Only model-checked:

- liveness (`EveryoneRuns`, `StoreCompletes`, `CallReturns`) and with it the fairness of
  `ImplementsRoundRobin`: the prover has no rule for ENABLED;
- `ConversionsExact` and `InstructionsExact`: they compare what a loop over the
  input has made with a definition over the whole input, in formats of which
  the instance lists the cases.

## 6. Findings

Each is a run that ends in a counterexample, quoted in `PROJECT.json`.

1. `process/fork.c:53`: `get_newpid` stops before the last block, so pids repeat (`PidIsMax`).
2. `cpu/isa.c:749`: `call` decrements `rsp` before the translation that may fault, and again when restarted (`FaultRestarts`).
3. `cpu/sram.c:118` and `:195`: a dirty victim is written to the address that missed (`WrittenBack`).
4. `process/wmarea.c:253`: with three areas the list is no longer sorted and loses one (`Sorted`). The repository's programs have two areas, for which `HeadLowest` shows that it works.
5. `linker/staticlink.c:764`: addresses count 88 bytes for an instruction, the machine 64 (`ReachesSymbol`).
6. `test/test_mesi.c:287`: the eviction of a modified line copies memory over the line, where the comment says that data is written back to memory (`ModifiedWrittenBack`).
7. `cpu/isa.c:718` and `:789`: the flags of `add` and `sub` are computed after the destination is overwritten, so they are those of doing it twice; `cmp` is right (`FlagsAsMeant`).
8. `algorithm/bst.c:394`: "the most left node of equals" is returned only as long as no rotation has moved equal keys (`FoundLeftmost`).
9. `algorithm/bst.c:432`: keys above 0x7FFFFFFFFFFFFFFF are no successors, though the null node is promised only "if no node key >= target key" (`AboveFound`).

What the source promises and does not have is stated by these properties without exception;
the properties of the passing runs that touch it say what does hold, and name
the exception: `CachesCoherent` all steps but that eviction, `CacheTransparent` the
eviction of a dirty line, `InstructionsExact` those flags, `LookupsExact` some node among
equal ones and keys up to `Infinite`.

Noticed while modelling, without a run of their own:

- `process/fork.c:295`: the block behind a new child keeps its old `prev`.
- `cpu/sram.c:112`: an eviction by a read is counted as a hit. `cpu/sram.c:47`:
  the reset of a set uses the wrong index and bound, and writes behind the cache
  for the last set.
- `test/test_pagefault.c` expects swapping, which `fix_pagefault` no longer
  reaches.
- `process/wmarea.c:150`: `can_vmas_merge` asserts that two areas do not touch and then
  returns true only for areas that do, so adding an adjacent area aborts
  (`AreaList` has the abort).
- `algorithm/rbt.c:440`: `rbt_find_succ` calls itself without end; nothing calls it.
- `algorithm/linkedlist.c`: `linkedlist_index` returns the node behind the index.
- `linker/staticlink.c`: a reference to a local symbol is not relocated, or is
  bound to a global symbol of that name; the `dst` of a `.bss` symbol is never
  written, against the comment on line 604; the test on line 189 lets one global
  symbol too many through, and `.symtab` is written without a test; the addend
  of a relocation is ignored.
- `linker/elf.c:230`: the test for a white line does not know the newline, so a
  line of blanks, and a comment behind blanks, count as rows, although line 237
  says that the line kept "is not white and contains information". The files of
  the repository have none (`Irregular` in `ElfFile`).
- `linker/elf.c:433`: `write_eof` frees the dictionary of constants and does not
  reset it; a later `parse_elf` would use it. With the nine constants in buckets
  of four a bucket is shared by two entries, and `hashtable_free`
  (`algorithm/hashtable.c:84`) frees it twice, as `FreesExactly` says it must.
- `algorithm/hashtable.c:140`: a key inserted twice is stored twice, and the first
  value stays. When all pairs of a full bucket agree in one more bit, the
  assertion of `insert_bucket_tail` ends the program.
- `common/convert.c:103`: the overflow test compares with the word before, so
  numbers that wrap round to a larger word pass (`JustOver`).
- `cpu/isa.c`: `pop %rsp` adds to the value popped; `(%rax)` is no destination
  for any handler; a blank behind the comma becomes part of the second operand
  and turns a register into a memory operand or ends the program; an operand no
  handler takes prints a message and the same instruction is fetched for ever; an empty
  operator is a `mov`.
- `common/mytrie.c:54`: a digit in the name of a register is an index below zero
  of `next`, so the registers `%r8` to `%r15` of `isa.c` write in front of the array.
- `malloc/`: `pre_block_payload` (`util.c`) reads the word before the footer, so a
  freed block whose data is zero is merged with itself and doubles its size; the
  merge with the next block writes a header where a footer belongs
  (`implicit_malloc.c:39`); `mm_init` puts the epilogue over the prologue's
  footer; `extend_size` takes the smaller of request and chunk; the explicit
  list reads its links as single bytes; the loop of the test ends before its
  first call. The targets are commented out of `CMakeLists.txt`.

## 7. Assumptions of the models

- Reading a page of an area is always allowed (every area of the repository's
  programs is readable); the initial memory, registers and blocks are arbitrary
  values of their types where the C objects are allocated without initialisation.
- The areas of the loaded program fit into the physical memory.
- Relocation entries and symbols of the linker's inputs are those a compiler
  writes: line ranges of symbols do not overlap, an entry lies in a symbol.
- An area is identified by its bounds, and two areas are never mergeable.
- Integers: ages are bounded by `MaxTime`, where the code would overflow an
  `int`; the cycle counter is modelled modulo the timer period; numbers of
  frames, slots and pids have the small ranges of the constants.

## 8. Not modelled, and why

- Upper page table levels, and `dirty` and `time` of frames: nothing that runs
  reads them. `memory/swap.c` and the swapping code of `fix_pagefault` stand
  behind its `return`.
- The allocators: with the faults of section 6 no sequence of calls gets as far
  as a split, and no build has them; a model would have nothing to check but
  those faults.
- The TLB: `va2pa` does not use it.
- Of the instruction set: `int`, which is in `Kernel` and `ContextSwitch`;
  operands in memory go through `va2pa` there, and straight to memory in `Isa`;
  the 32-, 16- and 8-bit registers, which are names only.
- `array.c`, a counter and a table; `algorithm/trie.c`, which nobody calls;
  `free_elf`, and names longer than the buffers they are copied to.
- Printing (`common/log.c`, `headers/color.h`, tree and instruction text), the
  counters and the trace format of the cache test.
- Example programs.

## 9. State of the work

Done: the core (memory, scheduler, kernel, context switch), the MESI simulator,
the cache, the data structures, the reading and linking of object files, single
instructions with the names and numbers in them, the false sharing experiment,
and the proofs of section 5.

Left to prove: `ConversionsExact` of `Convert` and `InstructionsExact` of `Isa`, whose
formats the runs enumerate.

To model more, should the code grow that way: the areas and the page table set-up
composed with `CopyOnWrite`, without the assumption that they fit; the
allocators, once they run.
