---------------------------- MODULE CopyOnWrite ----------------------------
(***************************************************************************)
(* The virtual memory of the emulated processes: level-4 page table        *)
(* entries, the reversed mapping page_map of every physical frame, and the *)
(* frames' contents (process/pagefault.c, process/fork.c, cpu/mmu.c).      *)
(*                                                                         *)
(* A page table entry is named by <<process, virtual page>>; the pointers  *)
(* to entries which page_map[].mapping holds are such names.  The word of  *)
(* an entry is a union in C: the 63 bits of saddr are all its bits but     *)
(* present, so storing saddr in page_map and back moves the readonly bit   *)
(* too.  saddr is that bit here.                                           *)
(*                                                                         *)
(* Which process runs, and when, is left open: see Scheduler and Kernel.   *)
(* A failed assert ends the emulator; halt names the assertion.            *)
(*                                                                         *)
(* A definition called "faulty" is a slip the code might have had.  Nothing *)
(* uses it: put in the place of the definition after it, it shows that the *)
(* runs notice the slip.                                                   *)
(***************************************************************************)
EXTENDS Integers, FiniteSets

CONSTANTS
    Proc,        \* the process control blocks fork may ever allocate
    FirstProc,   \* the process the loader builds
    NPage,       \* virtual pages of a process
    NArea,       \* the first NArea of them are covered by its vm areas
    Writable,    \* those of them whose area has vma_mode.write
    NFrame,      \* MAX_NUM_PHYSICAL_PAGE
    MaxMap,      \* MAX_REVERSED_MAPPING_NUMBER
    Value,       \* the contents of a page
    NULL         \* an empty slot of page_map[].mapping

Page  == 0 .. NPage - 1
Area  == 0 .. NArea - 1
Frame == 0 .. NFrame - 1
Slot  == 1 .. MaxMap
PteId == Proc \X Page

\* setup_pagetable_from_vma drops the result of allocate_physicalframe, so
\* the loader works only when every page of the areas finds a frame.
ASSUME SizeAssumption ==
    /\ FirstProc \in Proc
    /\ NPage \in Nat /\ NArea \in 0 .. NPage /\ Writable \subseteq Area
    /\ NFrame \in Nat \ {0} /\ NArea <= NFrame
    /\ MaxMap \in Nat \ {0}
    /\ NULL \notin PteId

VARIABLES
    procs,       \* the processes whose page tables exist
    pte,         \* pte[<<p, v>>]: the level-4 entry of page v of process p
    pageMap,     \* page_map
    pm,          \* pm[f]: the contents of physical frame f
    halt         \* the assertion that ended the emulator, or "none"

vars == <<procs, pte, pageMap, pm, halt>>

-----------------------------------------------------------------------------
(* Words of page table entries and descriptors of frames.                  *)

Word == [present : BOOLEAN, readonly : BOOLEAN, ppn : Frame]

Descriptor == [allocated : BOOLEAN,
               mapping   : [Slot -> PteId \cup {NULL}],
               counter   : 0 .. MaxMap,
               saddr     : BOOLEAN]

ZeroWord == [present |-> FALSE, readonly |-> FALSE, ppn |-> 0]

\* page_map_init
FreeFrame == [allocated |-> FALSE, mapping |-> [i \in Slot |-> NULL],
              counter |-> 0, saddr |-> FALSE]

Entry(p, v) == pte[<<p, v>>]

Sharers(f) == {pageMap[f].mapping[i] : i \in Slot} \ {NULL}

\* map_pte4 looks for the first empty slot
FirstNull(m) ==
    CHOOSE i \in Slot : m[i] = NULL /\ \A j \in Slot : j < i => m[j] # NULL

\* map_pte4: what becomes of the entry, and of the frame it is mapped to
MapWord(w, f) == [w EXCEPT !.present = TRUE, !.ppn = f]

MapFrame(d, id, w) ==
    [d EXCEPT !.allocated = TRUE,
              !.saddr     = w.readonly,
              !.mapping   = [@ EXCEPT ![FirstNull(d.mapping)] = id],
              !.counter   = @ + 1]

\* unmapall_pte4 leaves an entry with the word kept in page_map[].saddr
UnmapWord(w, d) == [w EXCEPT !.present = FALSE, !.readonly = d.saddr]

\* allocate_physicalframe: the first frame not allocated
FirstFree(f) ==
    /\ ~pageMap[f].allocated
    /\ \A g \in Frame : g < f => pageMap[g].allocated

-----------------------------------------------------------------------------
(* copy_on_write, on the entry id that faulted.                            *)

\* The other entries that map the frame (remaining[], remaining_count)
Remaining(id) == Sharers(pte[id].ppn) \ {id}

\* unmapall_pte4 empties the slots and map_pte4 refills them from the first,
\* in the old order and without id.  The slots in use are the first ones and
\* id is in one of them only (SlotsInUse, SlotsDistinct).
Without(m, id) ==
    LET k == CHOOSE i \in Slot : m[i] = id
    IN  [i \in Slot |-> IF i < k THEN m[i]
                        ELSE IF i < MaxMap THEN m[i + 1] ELSE NULL]

\* Faulty: the counter goes down for every slot that was looked at.
RemapFrameCountsEverySlot(d, id) ==
    [d EXCEPT !.mapping = Without(@, id), !.counter = @ - MaxMap]

\* Faulty: the faulting entry is mapped again together with the others.
RemapFrameKeepsEntry(d, id) == d

RemapFrame(d, id) == [d EXCEPT !.mapping = Without(@, id), !.counter = @ - 1]

\* Faulty: an entry that remains alone stays readonly.
RemainingWordNotUpgraded(id, x) ==
    MapWord(UnmapWord(pte[x], pageMap[pte[id].ppn]), pte[id].ppn)

\* The word of a remaining entry x: remapped, and read/write if it is alone.
RemainingWord(id, x) ==
    LET w == UnmapWord(pte[x], pageMap[pte[id].ppn])
    IN  [MapWord(w, pte[id].ppn) EXCEPT !.readonly = @ /\ Remaining(id) # {x}]

\* Faulty: the entry is mapped to the frame it came from.
PrivateWordNotMoved(id, f) ==
    LET w == UnmapWord(pte[id], pageMap[pte[id].ppn])
    IN  [MapWord(w, pte[id].ppn) EXCEPT !.readonly = FALSE]

\* Faulty: unmapall_pte4 has set readonly from saddr, and it stays set.
PrivateWordReadonly(id, f) ==
    MapWord(UnmapWord(pte[id], pageMap[pte[id].ppn]), f)

\* The word of the faulting entry, moved to frame f.
PrivateWord(id, f) ==
    LET w == UnmapWord(pte[id], pageMap[pte[id].ppn])
    IN  [MapWord(w, f) EXCEPT !.readonly = FALSE]

\* allocate_physicalframe finds the frame of id only if unmapall_pte4 has freed
\* it and no entry remains for which map_pte4 allocates it again.
FreeOnceUnmapped(id, f) ==
    IF f = pte[id].ppn THEN Remaining(id) = {} ELSE ~pageMap[f].allocated

\* The first assertion of copy_on_write and unmapall_pte4 that fails, in the
\* order of the code: lines 263, 216, 230, 243, 290, 310 and 311.  Those on the
\* word of the entry (256, 257) are the condition of WriteFaults, and the one
\* in line 217 follows from that in line 263.  unmapall_pte4 clears the present
\* bits as it goes, so an entry that two slots name fails at the second.  With
\* no free frame copy_physicalframe still returns 1: the entry is left
\* unmapped, and the assertion on its present bit is the one that fails.
CowFailure(id) ==
    LET d     == pageMap[pte[id].ppn]
        m     == d.mapping
        inUse == {i \in Slot : m[i] # NULL}
        Free(f) == FreeOnceUnmapped(id, f)
    IN  IF d.counter <= 1 THEN "not_shared"
        ELSE IF ~d.allocated THEN "not_allocated"
        ELSE IF \E i \in inUse : ~pte[m[i]].present \/ \E j \in inUse : j < i /\ m[j] = m[i]
             THEN "slot_not_present"
        ELSE IF Cardinality(inUse) # d.counter THEN "counter_left"
        ELSE IF Remaining(id) # {} /\ ~d.saddr THEN "remaining_not_readonly"
        ELSE IF \A f \in Frame : ~Free(f) THEN "no_frame"
        ELSE IF Free(pte[id].ppn) /\ \A f \in Frame : f < pte[id].ppn => ~Free(f)
             THEN "same_frame"
        ELSE "none"

\* Faulty: the mode of the area is not looked at.
WriteFaultsAnyArea(p, v) ==
    /\ halt = "none"
    /\ p \in procs
    /\ Entry(p, v).present /\ Entry(p, v).readonly

\* MMU: a write request to a present entry that is readonly faults, and
\* fix_pagefault copies the frame if the area of the page allows a write.
WriteFaults(p, v) ==
    /\ halt = "none"
    /\ p \in procs
    /\ Entry(p, v).present /\ Entry(p, v).readonly
    /\ v \in Writable

Cow(p, v) ==
    LET id  == <<p, v>>
        old == pte[id].ppn
    IN  /\ WriteFaults(p, v)
        /\ CowFailure(id) = "none"
        /\ \E new \in Frame :
              /\ FirstFree(new)
              /\ pte' = [x \in PteId |->
                            IF x = id THEN PrivateWord(id, new)
                            ELSE IF x \in Remaining(id) THEN RemainingWord(id, x)
                            ELSE pte[x]]
              /\ pageMap' = [pageMap EXCEPT
                    ![old] = RemapFrame(@, id),
                    ![new] = MapFrame(@, id, UnmapWord(pte[id], pageMap[old]))]
              /\ pm' = [pm EXCEPT ![new] = pm[old]]
        /\ UNCHANGED <<procs, halt>>

CowAborts(p, v) ==
    /\ WriteFaults(p, v)
    /\ CowFailure(<<p, v>>) # "none"
    /\ halt' = CowFailure(<<p, v>>)
    /\ UNCHANGED <<procs, pte, pageMap, pm>>

-----------------------------------------------------------------------------
(* copy_pagetable, called by fork for every page of the parent p.          *)

PagesOn(p, f) == {v \in Page : Entry(p, v).present /\ Entry(p, v).ppn = f}

\* Faulty: the entries are shared as they are.
CopiedWordWritable(w) == w

\* Both the source and the copy of a present entry become readonly.
CopiedWord(w) == [w EXCEPT !.readonly = w.readonly \/ w.present]

\* Faulty: the child's entry is copied but not entered in page_map.
CopiedFrameUnmapped(p, c, f) == pageMap[f]

\* map_pte4 of the child's entry.  A frame holds one page of a process at
\* most (OnePagePerProcess), so the loop maps one entry of the child to it.
CopiedFrame(p, c, f) ==
    IF PagesOn(p, f) = {} THEN pageMap[f]
    ELSE LET v == CHOOSE v \in PagesOn(p, f) : TRUE
         IN  MapFrame(pageMap[f], <<c, v>>, CopiedWord(Entry(p, v)))

SlotsFull(p) ==
    \E v \in Page : Entry(p, v).present
                    /\ pageMap[Entry(p, v).ppn].counter = MaxMap

ForkPages(p, c) ==
    /\ halt = "none"
    /\ p \in procs /\ c \in Proc \ procs
    /\ ~SlotsFull(p)
    /\ procs' = procs \cup {c}
    /\ pte' = [x \in PteId |-> IF x[1] \in {p, c} THEN CopiedWord(Entry(p, x[2]))
                               ELSE pte[x]]
    /\ pageMap' = [f \in Frame |-> CopiedFrame(p, c, f)]
    /\ UNCHANGED <<pm, halt>>

\* map_pte4 asserts a free slot in page_map[].mapping
ForkAborts(p, c) ==
    /\ halt = "none"
    /\ p \in procs /\ c \in Proc \ procs
    /\ SlotsFull(p)
    /\ halt' = "slots_full"
    /\ UNCHANGED <<procs, pte, pageMap, pm>>

-----------------------------------------------------------------------------
(* Instructions of the program.  A read of a present page changes nothing. *)

Write(p, v, val) ==
    /\ halt = "none"
    /\ p \in procs
    /\ Entry(p, v).present /\ ~Entry(p, v).readonly
    /\ pm' = [pm EXCEPT ![Entry(p, v).ppn] = val]
    /\ UNCHANGED <<procs, pte, pageMap, halt>>

\* fix_pagefault asserts on any access outside the areas, and on a write to
\* a readonly page whose area does not allow it.
SegmentationFault(p, v) ==
    /\ halt = "none"
    /\ p \in procs
    /\ Entry(p, v).present => Entry(p, v).readonly /\ v \notin Writable
    /\ halt' = "segmentation_fault"
    /\ UNCHANGED <<procs, pte, pageMap, pm>>

-----------------------------------------------------------------------------

\* setup_pagetable_from_vma: page v of the areas gets frame v
Init ==
    /\ procs = {FirstProc}
    /\ pte = [x \in PteId |->
                 IF x[1] = FirstProc /\ x[2] \in Area
                 THEN [present |-> TRUE, readonly |-> x[2] \notin Writable,
                       ppn |-> x[2]]
                 ELSE ZeroWord]
    /\ pageMap = [f \in Frame |->
                     IF f \in Area
                     THEN MapFrame(FreeFrame, <<FirstProc, f>>, pte[<<FirstProc, f>>])
                     ELSE FreeFrame]
    /\ pm \in [Frame -> Value]
    /\ halt = "none"

Next ==
    \E p \in Proc :
        \/ \E v \in Page, val \in Value : Write(p, v, val)
        \/ \E v \in Page : Cow(p, v)
        \/ \E v \in Page : CowAborts(p, v)
        \/ \E v \in Page : SegmentationFault(p, v)
        \/ \E c \in Proc : ForkPages(p, c)
        \/ \E c \in Proc : ForkAborts(p, c)

Spec == Init /\ [][Next]_vars

-----------------------------------------------------------------------------
(* Properties.                                                             *)

Assertion == {"none", "segmentation_fault", "slots_full", "no_frame",
              "not_shared", "not_allocated", "slot_not_present", "counter_left",
              "remaining_not_readonly", "same_frame"}

\* The types of the variables; a process that does not exist maps nothing,
\* an existing one maps the pages of its areas and no other.
TypeOK ==
    /\ procs \subseteq Proc
    /\ pte \in [PteId -> Word]
    /\ pageMap \in [Frame -> Descriptor]
    /\ pm \in [Frame -> Value]
    /\ halt \in Assertion

\* Exactly the pages of the areas of an existing process are mapped: neither
\* fork nor copy on write loses a page of anybody, however pages are shared.
AreasMapped ==
    \A p \in Proc, v \in Page :
        Entry(p, v).present <=> p \in procs /\ v \in Area

\* memory.h on pd_t: reversed_counter "must be the number of non-NULL in
\* mapping field".  Here also: those slots are the first ones.
SlotsInUse ==
    \A f \in Frame : \A i \in Slot :
        pageMap[f].mapping[i] # NULL <=> i <= pageMap[f].counter

\* No entry occupies two slots of a frame.
SlotsDistinct ==
    \A f \in Frame : \A i, j \in Slot :
        pageMap[f].mapping[i] = pageMap[f].mapping[j]
        /\ pageMap[f].mapping[i] # NULL => i = j

\* The reversed mapping is the inverse of the page tables: a frame's slots
\* name the present entries with its number, all of them and no others.
ReverseMapExact ==
    \A f \in Frame, x \in PteId :
        x \in Sharers(f) <=> pte[x].present /\ pte[x].ppn = f

\* A frame is allocated as long as an entry maps it, and no longer: copy on
\* write neither frees a frame in use nor leaks one.
AllocatedIffMapped ==
    \A f \in Frame : pageMap[f].allocated <=> pageMap[f].counter > 0

\* The entries that share a frame are the same page of different processes.
OnePagePerProcess ==
    \A x, y \in PteId :
        pte[x].present /\ pte[y].present /\ pte[x].ppn = pte[y].ppn => x[2] = y[2]

\* A page whose area forbids writing is readonly for everybody, and of the
\* others exactly the shared ones are: every sharer of a frame faults on its
\* first write, and the last one left writes without a fault.  Without the
\* second half copy_on_write would run into its assertion on the counter.
ReadonlyIffShared ==
    \A x \in PteId : pte[x].present =>
        (pte[x].readonly <=> x[2] \notin Writable \/ pageMap[pte[x].ppn].counter > 1)

\* While a frame is shared, the word saved for its entries is readonly, so
\* the entries copy_on_write remaps come back readonly.
SavedReadonly ==
    \A f \in Frame : pageMap[f].counter > 1 => pageMap[f].saddr

\* A frame that some process can write is mapped by that process only.
WriterOwnsFrame ==
    \A x, y \in PteId :
        /\ pte[x].present /\ pte[y].present /\ pte[x].ppn = pte[y].ppn
        /\ ~pte[x].readonly
        => x = y

\* Nothing but the program or the lack of slots or frames ends the emulator:
\* of the assertions of copy_on_write (lines 263, 290, 310 and 311) and of
\* unmapall_pte4 (216, 217, 230 and 243), only the one in line 310 ever fails,
\* and that for want of a frame.
OnlyResourcesRunOut ==
    halt \in {"none", "segmentation_fault", "slots_full", "no_frame"}

\* The inductive invariant: the page tables and page_map agree.
IInv ==
    /\ TypeOK
    /\ AreasMapped
    /\ SlotsInUse
    /\ SlotsDistinct
    /\ ReverseMapExact
    /\ AllocatedIffMapped
    /\ OnePagePerProcess
    /\ ReadonlyIffShared
    /\ SavedReadonly
    /\ OnlyResourcesRunOut

\* The pages no area allows to write are never copied: all processes run
\* the one code frame the loader filled.
CodeShared ==
    \A p \in procs, v \in Area \ Writable : Entry(p, v) = Entry(FirstProc, v)

\* With a slot for every process, and a frame for every writable page of
\* every process and for every other page once, fork and copy on write never
\* run out of either.
EnoughFrames ==
    Cardinality(Proc) * Cardinality(Writable) + Cardinality(Area \ Writable) <= NFrame

NoResourceFailure ==
    MaxMap >= Cardinality(Proc) /\ EnoughFrames =>
        halt \in {"none", "segmentation_fault"}

\* What process p reads in page v of its areas
MemView == [p \in Proc |-> [v \in Area |->
               IF p \in procs THEN pm[Entry(p, v).ppn] ELSE NULL]]

Memory == INSTANCE PrivateMemory WITH mem <- MemView, NoValue <- NULL

\* Sharing frames is invisible: the emulator gives every process a memory of
\* its own, copied at fork.
PrivateToProcess == Memory!Spec
=============================================================================
