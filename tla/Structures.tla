----------------------------- MODULE Structures -----------------------------
(***************************************************************************)
(* The parts of the repository that stand alone, beside each other: the    *)
(* search trees, the linked list and the hash table of src/algorithm, the  *)
(* area list of a process, the reader of object files and the static       *)
(* linker, the conversion of numbers, the name tries and the instructions  *)
(* of the processor, and the threads of the false sharing experiment.      *)
(* They share code (AreaList uses the operations of LinkedList) but no     *)
(* state, so a behaviour is about one of them, chosen at the start, and    *)
(* leaves the others as they begin.                                        *)
(***************************************************************************)
EXTENDS Integers, Sequences

CONSTANTS RbtNodes, BstNodes, Key(_), MaxNodes, Infinite,    \* RedBlackTree
          ListNodes, NULL,                                   \* LinkedList
          Areas, MaxAreas,                                   \* AreaList
          Inputs, MaxSymbols, MaxLines, InstructionChar,     \* Linker
          InstructionSize, DataSize, Base,
          Files, Numeral, Constant, MaxRows, MaxWidth,       \* ElfFile
          HashKeys, HashOf(_), BucketSize, MaxPairs, MaxCopies,      \* HashTable
          Width, Alphabet, MaxText, IntWidth, Fraction, Bias,        \* Convert
          WordBits, Starts,                                  \* Isa
          TableNames, MaxElements,                           \* NameTrie
          Length                                             \* FalseSharing

ASSUME StructuresAssumption ==
    /\ NULL \notin ListNodes
    /\ \A a \in Areas : a \in Nat \X Nat /\ 0 < a[1] /\ a[1] < a[2]
    /\ \A k \in HashKeys : HashOf(k) \in Nat
    /\ BucketSize \in Nat \ {0} /\ MaxCopies \in Nat
    /\ \A name \in TableNames : name \in Seq({name[i] : i \in DOMAIN name})
    /\ Length \in Nat /\ Length >= 2

VARIABLES which,
          is_rbt, tree, pc, n, p,
          list, alive, freed, ok,
          vma, added, halt,
          srcs, phase, todo, smap, sht, symt, buffer, patched,
          file, unread, rows, elf, job, written,
          globaldepth, directory, buckets, table,
          text, dfa, uv, sign_bit, number,
          inst, spaced, before, cpu, outcome,
          nodes, elements,
          run, counter, count, loaded, result

Tree  == INSTANCE RedBlackTree
List  == INSTANCE LinkedList WITH Nodes <- ListNodes
Area  == INSTANCE AreaList
Link  == INSTANCE Linker
File  == INSTANCE ElfFile
Hash  == INSTANCE HashTable
Conv  == INSTANCE Convert
Instr == INSTANCE Isa
Trie  == INSTANCE NameTrie
Share == INSTANCE FalseSharing

ASSUME TreeAssumption == Tree!KeysAreNumbers

ASSUME ReaderAssumption == File!FilesAreText

ASSUME FilesAssumption == \A files \in Inputs : Link!Regular(files)

treeVars  == <<is_rbt, tree, pc, n, p>>
listVars  == <<list, alive, freed, ok>>
areaVars  == <<vma, added, halt>>
linkVars  == <<srcs, phase, todo, smap, sht, symt, buffer, patched>>
fileVars  == <<file, unread, rows, elf, job, written>>
hashVars  == <<globaldepth, directory, buckets, table>>
convVars  == <<text, dfa, uv, sign_bit, number>>
instrVars == <<inst, spaced, before, cpu, outcome>>
trieVars  == <<nodes, elements>>
shareVars == <<run, counter, count, loaded, result>>

algorithms == <<treeVars, listVars, areaVars, hashVars>>
machine    == <<linkVars, fileVars, convVars, instrVars, trieVars, shareVars>>
vars == <<which, algorithms, machine>>

Kinds == {"tree", "list", "areas", "linker", "file", "hash", "text", "instruction", "names", "sharing"}

NotLinking ==
    /\ srcs = <<>> /\ phase = "not linking" /\ todo = <<>> /\ smap = <<>>
    /\ sht = <<>> /\ symt = <<>> /\ buffer = <<>> /\ patched = <<>>
NotReading ==
    /\ file = <<>> /\ unread = <<>> /\ rows = <<>>
    /\ elf = <<>> /\ job = "not reading" /\ written = <<>>
NotConverting == text = <<>> /\ dfa = 0 /\ uv = 0 /\ sign_bit = 0 /\ number = 0
NotExecuting ==
    inst = <<>> /\ spaced = FALSE /\ before = <<>> /\ cpu = <<>> /\ outcome = "not executing"

Init ==
    /\ which \in Kinds
    /\ Tree!Init /\ List!Init /\ Area!Init /\ Hash!Init /\ Trie!Init /\ Share!Init
    /\ IF which = "linker" THEN Link!Init ELSE NotLinking
    /\ IF which = "file" THEN File!Init ELSE NotReading
    /\ IF which = "text" THEN Conv!Init ELSE NotConverting
    /\ IF which = "instruction" THEN Instr!Init ELSE NotExecuting
    /\ which # "tree" => is_rbt

TreeIterates ==
    /\ which = "tree"
    /\ Tree!Iterate
    /\ UNCHANGED <<which, listVars, areaVars, hashVars, machine>>

TreeCall ==
    /\ which = "tree"
    /\ \E x \in Tree!Nodes : Tree!Add(x) \/ Tree!Delete(x)
    /\ UNCHANGED <<which, listVars, areaVars, hashVars, machine>>

ListStep ==
    /\ which = "list" /\ List!Next
    /\ UNCHANGED <<which, treeVars, areaVars, hashVars, machine>>

AreasStep ==
    /\ which = "areas" /\ Area!Next
    /\ UNCHANGED <<which, treeVars, listVars, hashVars, machine>>

HashStep ==
    /\ which = "hash" /\ Hash!Next
    /\ UNCHANGED <<which, treeVars, listVars, areaVars, machine>>

LinkerStep ==
    /\ which = "linker" /\ Link!Next
    /\ UNCHANGED <<which, algorithms, fileVars, convVars, instrVars, trieVars, shareVars>>

FileStep ==
    /\ which = "file" /\ File!Next
    /\ UNCHANGED <<which, algorithms, linkVars, convVars, instrVars, trieVars, shareVars>>

TextStep ==
    /\ which = "text" /\ Conv!Next
    /\ UNCHANGED <<which, algorithms, linkVars, fileVars, instrVars, trieVars, shareVars>>

InstructionStep ==
    /\ which = "instruction" /\ Instr!Next
    /\ UNCHANGED <<which, algorithms, linkVars, fileVars, convVars, trieVars, shareVars>>

NamesStep ==
    /\ which = "names" /\ Trie!Next
    /\ UNCHANGED <<which, algorithms, linkVars, fileVars, convVars, instrVars, shareVars>>

SharingMain ==
    /\ which = "sharing" /\ (Share!SingleRun \/ Share!Join)
    /\ UNCHANGED <<which, algorithms, linkVars, fileVars, convVars, instrVars, trieVars>>

SharingWork(t) ==
    /\ which = "sharing" /\ Share!Work(t)
    /\ UNCHANGED <<which, algorithms, linkVars, fileVars, convVars, instrVars, trieVars>>

Next ==
    \/ TreeCall \/ TreeIterates \/ ListStep \/ AreasStep \/ HashStep
    \/ LinkerStep \/ FileStep \/ TextStep \/ InstructionStep \/ NamesStep
    \/ SharingMain \/ \E t \in Share!Thread : SharingWork(t)

\* One thread runs the loop of a call until it returns; the host runs main and
\* the threads of the experiment.
Spec ==
    /\ Init /\ [][Next]_vars
    /\ WF_vars(TreeIterates)
    /\ WF_vars(SharingMain) /\ \A t \in Share!Thread : WF_vars(SharingWork(t))

-----------------------------------------------------------------------------
(* The properties, each stated and explained in the module of its part.    *)

\* RedBlackTree: no assert of rbt.c and bst.c fails.
AssertsHold == Tree!AssertsHold

\* RedBlackTree: keys sorted and parent links exact, also inside a call.
SearchTree == Tree!SearchTree

\* RedBlackTree: black heights and red nodes, also inside a call.
Balanced == Tree!Balanced

\* RedBlackTree: bst_find and bst_find_succ find what is in the tree.
LookupsExact == Tree!LookupsExact

\* RedBlackTree: implements a set of nodes.
ImplementsSet == Tree!ImplementsSet

\* RedBlackTree: the loops of insertion and deletion end.  FalseSharing: so do
\* the threads and main.
CallReturns ==
    /\ Tree!CallReturns
    /\ which = "sharing" ~> run = "end"

\* LinkedList: one ring in both directions, of as many nodes as the count.
OneRing == List!OneRing

\* LinkedList: linkedlist_free frees each node once and touches no freed one.
\* HashTable: hashtable_free frees each bucket once unless entries share one.
FreesExactly == List!FreesExactly /\ Hash!FreesExactly

\* LinkedList: implements a sequence of nodes.
ImplementsList == List!ImplementsList

\* AreaList: the head is the lowest area; two areas are found by addresses.
HeadLowest == Area!HeadLowest

\* Linker: every name is resolved to its strongest declaration.
ResolvedStrongest == which = "linker" => Link!ResolvedStrongest

\* Linker: the sections hold the lines of their symbols, all and in place.
MergedExactly == which = "linker" => Link!MergedExactly

\* Linker: references are patched where they stand, and to the right symbol.
RelocatedRight == which = "linker" => Link!RelocatedRight

\* ElfFile: a file is parsed into the tables it declares, or refused for a
\* reason, and survives being written out.
FileExact == which = "file" => File!FileExact

\* HashTable: the entries lead to the buckets their low bits say, in any order
\* of splits and doublings.
DirectoryExact == Hash!DirectoryExact

\* HashTable: implements a dictionary that keeps the first value of a key.
ImplementsDictionary == Hash!ImplementsDictionary

\* Convert: a text is read as the number it means, and a number is rounded to
\* the nearest float.
ConversionsExact == which = "text" => Conv!ConversionsExact

\* Isa: an instruction does what it means, in every notation of its operands.
InstructionsExact == which = "instruction" => Instr!InstructionsExact

\* NameTrie: the names of the table are found, no others, and prefixes of
\* names as far as the order of the table allows.
NamesFound == Trie!NamesFound

\* FalseSharing: additions get lost only where two threads share a counter.
CountersExact == Share!CountersExact
=============================================================================
