-------------------------------- MODULE Linker --------------------------------
(***************************************************************************)
(* The static linker (linker/staticlink.c): symbol resolution, layout,     *)
(* merging of the sections and relocation.  One thread runs it; a step is  *)
(* one iteration of the outermost loop of a pass.                          *)
(*                                                                         *)
(* A line of a file is named by where it comes from: <<file, section, row  *)
(* in the section>>.  A symbol of a file is a pointer, <<file, index>>:    *)
(* the map table compares pointers, and the pass that makes COMMON symbols *)
(* .bss writes through them.  The text forms are not modelled.             *)
(*                                                                         *)
(* A definition called "faulty" is a slip the code might have had; nothing *)
(* uses it but the tests of the properties.                                *)
(***************************************************************************)
EXTENDS Integers, Sequences, FiniteSets

CONSTANTS
    Inputs,         \* the sequences of files link_elf may be given
    MaxSymbols,     \* MAX_SYMBOL_MAP_LENGTH
    MaxLines,       \* MAX_ELF_FILE_LENGTH
    InstructionChar,\* MAX_INSTRUCTION_CHAR: bytes of an instruction in memory
    InstructionSize,\* sizeof(inst_t)
    DataSize,       \* sizeof(uint64_t)
    Base            \* 0x00400000

VARIABLES
    srcs,       \* the files: section names, symt, reltext and reldata
    phase,      \* the pass of link_elf, or how it ended
    todo,       \* what is left of the pass
    smap,       \* smap_table: src and dst, 0 when dst was never written
    sht,        \* the section header table, .symtab apart
    symt,       \* dst.symt as far as it is written
    buffer,     \* dst.buffer as far as it is written
    patched     \* what relocation wrote: for an entry its line, symbol and value

vars == <<srcs, phase, todo, smap, sht, symt, buffer, patched>>

Section == <<".text", ".rodata", ".data">>

\* the sum of a sequence of numbers
Total(a) ==
    LET sum[n \in 0 .. Len(a)] == IF n = 0 THEN 0 ELSE sum[n - 1] + a[n] IN sum[Len(a)]

\* The elements of a sequence, and sequences one after the other: ToSet and
\* FlattenSeq of SequencesExt, which is left out because an obligation of a
\* proof carries every definition the module extends.
Members(s) == {s[i] : i \in DOMAIN s}

Flattened(ss) ==
    IF Len(ss) = 0 THEN ss ELSE
    LET first[n \in 1 .. Len(ss)] ==
            IF n = 1 THEN ss[n] ELSE first[n-1] \o ss[n]
    IN first[Len(ss)]

\* the members of s that are in S, in their order
Those(s, S) == Flattened([i \in DOMAIN s |-> IF s[i] \in S THEN <<s[i]>> ELSE <<>>])

\* a symbol of a table (st_entry_t)
Symbol == [name : STRING, bind : {"LOCAL", "GLOBAL", "WEAK"}, type : {"NOTYPE", "OBJECT", "FUNC"},
           shndx : {".text", ".rodata", ".data", ".bss", "COMMON", "SHN_UNDEF"},
           size : Nat, value : Nat]

\* a relocation entry of a file with that symbol table (rl_entry_t)
Relocation(table) == [row : Nat, sym : DOMAIN table, type : {"32", "PC32", "PLT32"}]

Symbols == Flattened([i \in DOMAIN srcs |-> [j \in DOMAIN srcs[i].symt |-> <<i, j>>]])
Sym(x) == srcs[x[1]].symt[x[2]]

\* reltext and reldata of one file after the other
Entries == Flattened([i \in DOMAIN srcs |->
               [j \in DOMAIN srcs[i].reltext |-> <<i, ".text", j>>]
            \o [j \in DOMAIN srcs[i].reldata |-> <<i, ".data", j>>]])
Rel(e) == IF e[2] = ".text" THEN srcs[e[1]].reltext[e[3]] ELSE srcs[e[1]].reldata[e[3]]

Init ==
    /\ srcs \in Inputs
    /\ phase = "symbols" /\ todo = Symbols
    /\ smap = <<>> /\ sht = <<>> /\ symt = <<>> /\ buffer = <<>> /\ patched = <<>>

Goto(label, work) == phase' = label /\ todo' = work

-----------------------------------------------------------------------------
(* Symbol resolution.                                                      *)

\* undefined, tentative, defined; -1 ends the program
Precedence(s) ==
    CASE s.shndx = "SHN_UNDEF" /\ s.type = "NOTYPE"                      -> 0
      [] s.shndx = "COMMON" /\ s.type = "OBJECT"                         -> 1
      [] s.shndx = ".text" /\ s.type = "FUNC"                            -> 2
      [] s.shndx \in {".data", ".rodata", ".bss"} /\ s.type = "OBJECT"   -> 2
      [] OTHER                                                           -> -1

\* The files as a compiler writes them: a global symbol is one of these, a
\* local one is defined, and a section that has symbols has a header.  The
\* reader has seen to it that relocation entries lead to symbols.
Regular(files) ==
    /\ files \in Seq(Members(files))
    /\ \A i \in DOMAIN files :
          /\ DOMAIN files[i] = {"symt", "sht", "reltext", "reldata"}
          /\ files[i].symt \in Seq(Symbol)
          /\ files[i].reltext \in Seq(Relocation(files[i].symt))
          /\ files[i].reldata \in Seq(Relocation(files[i].symt))
          /\ \A s \in Members(files[i].symt) :
                /\ s.bind = "GLOBAL" => Precedence(s) \in 0 .. 2
                /\ s.bind = "LOCAL" => Precedence(s) = 2
                /\ s.shndx \in Members(Section) => s.shndx \in files[i].sht

\* Faulty: of two weak symbols the first one stays.
OnlyDefinitionsWin(pre1, pre2) == pre1 = 2 /\ pre2 # 2

\* rules 2 and 3 select the new symbol
Wins(pre1, pre2) == IF pre1 # 2 /\ pre2 # 2 THEN pre1 > pre2 ELSE pre1 = 2

\* the entry whose name the global symbol s has, if any: there is one at most
Candidate(s) ==
    {k \in DOMAIN smap : Sym(smap[k].src).bind = "GLOBAL" /\ Sym(smap[k].src).name = s.name}

SkipWeak ==
    /\ phase = "symbols" /\ todo # <<>>
    /\ Sym(Head(todo)).bind = "WEAK"
    /\ todo' = Tail(todo)
    /\ UNCHANGED <<srcs, phase, smap, sht, symt, buffer, patched>>

\* The assertion lets a global symbol through when the table is full: it is
\* written behind the table's end.
EnterSymbol ==
    /\ phase = "symbols" /\ todo # <<>>
    /\ LET s == Sym(Head(todo))
       IN  /\ \/ s.bind = "LOCAL"
              \/ s.bind = "GLOBAL" /\ Candidate(s) = {}
           /\ IF Len(smap) = MaxSymbols
              THEN Goto(IF s.bind = "LOCAL" THEN "aborted" ELSE "overflow", <<>>) /\ UNCHANGED smap
              ELSE /\ smap' = Append(smap, [src |-> Head(todo), dst |-> 0])
                   /\ Goto("symbols", Tail(todo))
    /\ UNCHANGED <<srcs, sht, symt, buffer, patched>>

\* simple_resolution
Resolve ==
    /\ phase = "symbols" /\ todo # <<>>
    /\ Sym(Head(todo)).bind = "GLOBAL"
    /\ \E k \in Candidate(Sym(Head(todo))) :
          LET pre1 == Precedence(Sym(Head(todo)))
              pre2 == Precedence(Sym(smap[k].src))
          IN  IF -1 \in {pre1, pre2} \/ (pre1 = 2 /\ pre2 = 2)
              THEN Goto("redeclared", <<>>) /\ UNCHANGED smap
              ELSE /\ smap' = IF Wins(pre1, pre2) THEN [smap EXCEPT ![k].src = Head(todo)] ELSE smap
                   /\ Goto("symbols", Tail(todo))
    /\ UNCHANGED <<srcs, sht, symt, buffer, patched>>

InBss(s) == IF s.shndx = "COMMON" THEN [s EXCEPT !.shndx = ".bss", !.value = 0] ELSE s

\* the last loop of symbol_processing: COMMON symbols of the table go to .bss
NoUndefined ==
    /\ phase = "symbols" /\ todo = <<>>
    /\ LET kept == {smap[k].src : k \in DOMAIN smap}
       IN  IF \E x \in kept : Sym(x).shndx = "SHN_UNDEF" \/ Sym(x).type = "NOTYPE"
           THEN Goto("undefined", <<>>) /\ UNCHANGED srcs
           ELSE /\ srcs' = [i \in DOMAIN srcs |-> [srcs[i] EXCEPT !.symt =
                              [j \in DOMAIN @ |-> IF <<i, j>> \in kept THEN InBss(@[j]) ELSE @[j]]]]
                /\ Goto("headers", <<>>)
    /\ UNCHANGED <<smap, sht, symt, buffer, patched>>

-----------------------------------------------------------------------------
(* Layout and merging.                                                     *)

Count(sec) ==
    Total([k \in DOMAIN smap |-> IF Sym(smap[k].src).shndx = sec THEN Sym(smap[k].src).size ELSE 0])

\* the sections laid out before sec
Ahead(sec) ==
    CASE sec = ".text" -> <<>> [] sec = ".rodata" -> <<".text">> [] sec = ".data" -> <<".text", ".rodata">>

\* where sec starts in memory when the sections ahead have so many lines and
\* an instruction has so many bytes
StartOf(sec, lines, instruction) ==
    LET q == Ahead(sec)
    IN  Base + Total([i \in DOMAIN q |-> lines[q[i]] * (IF q[i] = ".text" THEN instruction ELSE DataSize)])

Present == {sec \in Members(Section) : Count(sec) > 0}

\* Sections without lines are left out; .symtab comes last, and has no address.
ComputeSectionHeader ==
    /\ phase = "headers"
    /\ LET first == 2 + Cardinality(Present) + 1
       IN  /\ sht' = [sec \in Present |->
                        [addr   |-> StartOf(sec, [q \in Members(Section) |-> Count(q)], InstructionChar),
                         offset |-> first + Total([i \in DOMAIN Ahead(sec) |-> Count(Ahead(sec)[i])]),
                         size   |-> Count(sec)]]
           /\ buffer' = [l \in 1 .. first |-> <<0, "header", l>>]
           /\ Goto("merge", Those(Section, Present))
    /\ UNCHANGED <<srcs, smap, symt, patched>>

SizeOf(entries) == Total([i \in DOMAIN entries |-> entries[i].size])

\* Faulty: the offset is not reset when a section begins.
OffsetNotReset(found, i) ==
    SizeOf(symt) + SizeOf([h \in 1 .. i - 1 |-> Sym(found[h])])

\* sym_section_offset: the lines of the section written before the i-th symbol
Offset(found, i) == SizeOf([h \in 1 .. i - 1 |-> Sym(found[h])])

\* the symbol is in the map table
Mapped(x) == \E t \in DOMAIN smap : smap[t].src = x

\* one section of merge_section, from all files
MergeSection ==
    /\ phase = "merge" /\ todo # <<>>
    /\ LET sec == Head(todo)
           found == Those(Symbols, {x \in Members(Symbols) :
                        Sym(x).shndx = sec /\ sec \in srcs[x[1]].sht /\ Mapped(x)})
           lines == Flattened([i \in DOMAIN found |->
                        [t \in 1 .. Sym(found[i]).size |->
                            <<found[i][1], sec, Sym(found[i]).value + t - 1>>]])
       IN  IF Len(buffer) + Len(lines) > MaxLines
           THEN Goto("aborted", <<>>) /\ UNCHANGED <<smap, symt, buffer>>
           ELSE /\ buffer' = buffer \o lines
                /\ symt' = symt \o [i \in DOMAIN found |->
                               [Sym(found[i]) EXCEPT !.value = Offset(found, i)]]
                /\ smap' = [k \in DOMAIN smap |->
                               IF smap[k].src \in Members(found)
                               THEN [smap[k] EXCEPT !.dst = Len(symt)
                                        + CHOOSE i \in DOMAIN found : found[i] = smap[k].src]
                               ELSE smap[k]]
                /\ Goto("merge", Tail(todo))
    /\ UNCHANGED <<srcs, sht, patched>>

LineCount == 2 + Cardinality(DOMAIN sht) + 1 + Len(smap)
               + Total([i \in 1 .. 3 |-> IF Section[i] \in DOMAIN sht THEN sht[Section[i]].size ELSE 0])

\* .symtab is written without a look at the buffer's end.  The entries of
\* .bss symbols, which no section has merged, are what malloc returned: to
\* print their bind may end the program.
MergeSymtab ==
    /\ phase = "merge" /\ todo = <<>>
    /\ LET written == Len(buffer) + Len(smap)
       IN  IF written > MaxLines THEN Goto("overflow", <<>>)
           ELSE IF written # LineCount THEN Goto("miscounted", <<>>)
           ELSE \/ Goto("relocate", Entries)
                \/ Len(symt) < Len(smap) /\ Goto("bad_entry", <<>>)
    /\ buffer' = buffer \o [i \in 1 .. Len(smap) |-> <<0, "symtab", i>>]
    /\ UNCHANGED <<srcs, smap, sht, symt, patched>>

-----------------------------------------------------------------------------
(* Relocation.                                                             *)

\* get_symbol_runtime_address
RuntimeAddress(s) ==
    LET lines == [q \in Members(Section) |-> IF q \in DOMAIN sht THEN sht[q].size ELSE 0]
    IN  StartOf(s.shndx, lines, InstructionSize)
          + s.value * (IF s.shndx = ".text" THEN InstructionSize ELSE DataSize)

\* Faulty: the row in the file is taken for the row in the program.
RowInFile(e, s, d) == Rel(e).row

\* the row of the section in the program that the entry patches
RowInProgram(e, s, d) == Rel(e).row - s.value + d.value

\* the symbols of the file that own the row
Referencing(e) ==
    {j \in DOMAIN srcs[e[1]].symt :
        LET s == srcs[e[1]].symt[j]
        IN  s.shndx = e[2] /\ s.value <= Rel(e).row /\ Rel(e).row <= s.value + s.size - 1}

\* the entries of the map table with the name of the symbol referenced
Referenced(e) ==
    {u \in DOMAIN smap :
        /\ smap[u].dst # 0
        /\ symt[smap[u].dst].name = srcs[e[1]].symt[Rel(e).sym].name
        /\ symt[smap[u].dst].bind = "GLOBAL"}

NextEntry == Goto("relocate", Tail(todo)) /\ UNCHANGED patched

\* Line ranges of symbols do not overlap: one symbol at most owns the row.
Relocate ==
    /\ phase = "relocate" /\ todo # <<>>
    /\ LET e == Head(todo)
       IN  \/ /\ \E j \in Referencing(e) : ~Mapped(<<e[1], j>>)
              /\ Goto("aborted", <<>>) /\ UNCHANGED patched
           \/ \* nobody owns the row, or the name is nobody's: nothing is written
              /\ \A j \in Referencing(e) : Mapped(<<e[1], j>>) /\ Referenced(e) = {}
              /\ NextEntry
           \/ \E j \in Referencing(e), t \in DOMAIN smap :
                LET s == srcs[e[1]].symt[j]
                    d == symt[smap[t].dst]
                    row == RowInProgram(e, s, d)
                    rip == Base + (row + 1) * InstructionSize
                IN  /\ smap[t].src = <<e[1], j>>
                    /\ \/ \* the search meets a dst that was never written
                          /\ \E u \in DOMAIN smap : smap[u].dst = 0 /\ \A w \in Referenced(e) : u < w
                          /\ Goto("crashed", <<>>) /\ UNCHANGED patched
                       \/ \E u \in Referenced(e) :
                            LET address == RuntimeAddress(symt[smap[u].dst])
                            IN  /\ \A w \in Referenced(e) : u <= w
                                /\ IF Rel(e).type = "32" \/ e[2] = ".text"
                                   THEN /\ patched' = [x \in DOMAIN patched \cup {e} |->
                                              IF x = e
                                              THEN [line |-> sht[e[2]].offset + row, to |-> u,
                                                    value |-> IF Rel(e).type = "32" THEN address
                                                              ELSE address - rip]
                                              ELSE patched[x]]
                                        /\ Goto("relocate", Tail(todo))
                                   ELSE Goto("aborted", <<>>) /\ UNCHANGED patched
    /\ UNCHANGED <<srcs, smap, sht, symt, buffer>>

Finish ==
    /\ phase = "relocate" /\ todo = <<>>
    /\ Goto("done", <<>>)
    /\ UNCHANGED <<srcs, smap, sht, symt, buffer, patched>>

Next ==
    \/ SkipWeak \/ EnterSymbol \/ Resolve \/ NoUndefined
    \/ ComputeSectionHeader \/ MergeSection \/ MergeSymtab
    \/ Relocate \/ Finish

Spec == Init /\ [][Next]_vars

-----------------------------------------------------------------------------
(* What linking must do.                                                   *)

Declarations(name) ==
    {x \in Members(Symbols) : Sym(x).bind = "GLOBAL" /\ Sym(x).name = name}

Names == {Sym(x).name : x \in Members(Symbols)}

\* The three rules of simple_resolution (staticlink.c:279-281), whatever the
\* order of the files and of the symbols in them: when all symbols are read
\* every global name has one entry, for a declaration no other one is
\* stronger than; at most one of them is a definition; every local symbol
\* has an entry of its own.  Linking stops for two definitions of a name, or
\* for a name nobody defines, and not otherwise.
ResolvedStrongest ==
    /\ phase = "symbols" /\ todo = <<>> =>
          /\ \A name \in Names : Declarations(name) # {} =>
                \E k \in DOMAIN smap :
                    /\ {h \in DOMAIN smap : smap[h].src \in Declarations(name)} = {k}
                    /\ \A x \in Declarations(name) :
                          LET mine == Precedence(Sym(smap[k].src))
                          IN  /\ mine >= Precedence(Sym(x))
                              /\ x # smap[k].src => mine + Precedence(Sym(x)) < 4
          /\ \A x \in Members(Symbols) : Sym(x).bind = "LOCAL" =>
                Cardinality({k \in DOMAIN smap : smap[k].src = x}) = 1
    /\ phase = "redeclared" => \E name \in Names :
          Cardinality({x \in Declarations(name) : Precedence(Sym(x)) = 2}) > 1
    /\ phase = "undefined" => \E name \in Names :
          Declarations(name) # {} /\ \A x \in Declarations(name) : Precedence(Sym(x)) = 0

\* The lines of a symbol of the program are, in order, those of the symbol it
\* was resolved to, at the offset compute_section_header gave the section
\* before a line was copied; the sections are filled to the last line, so no
\* two symbols overlap, and the line count of the header is right.
MergedExactly ==
    /\ phase # "miscounted"
    /\ phase \in {"relocate", "done"} =>
          /\ \A k \in DOMAIN smap :
                LET s == Sym(smap[k].src)
                    d == symt[smap[k].dst]
                IN  IF s.shndx = ".bss" THEN smap[k].dst = 0
                    ELSE \A t \in 0 .. s.size - 1 :
                           buffer[sht[s.shndx].offset + d.value + t + 1]
                               = <<smap[k].src[1], s.shndx, s.value + t>>
          /\ \A sec \in DOMAIN sht :
                Total([i \in DOMAIN symt |-> IF symt[i].shndx = sec THEN symt[i].size ELSE 0])
                    = sht[sec].size
          /\ Len(buffer) = LineCount

\* Every reference from a symbol of the program to a global symbol of one of
\* its sections is patched, in the very line that holds it in the file, and
\* to the symbol its name was resolved to.  (Not so a reference to a local
\* symbol: it stays as it is, or is bound to a global symbol of that name.)
RelocatedRight ==
    phase = "done" => \A e \in Members(Entries) :
        LET name == srcs[e[1]].symt[Rel(e).sym].name
            chosen == {u \in DOMAIN smap : smap[u].src \in Declarations(name)}
        IN  /\ Referencing(e) # {}
            /\ srcs[e[1]].symt[Rel(e).sym].bind = "GLOBAL"
            /\ \A u \in chosen : Sym(smap[u].src).shndx \in DOMAIN sht
            => /\ e \in DOMAIN patched
               /\ patched[e].to \in chosen
               /\ buffer[patched[e].line + 1] = <<e[1], e[2], Rel(e).row>>

\* staticlink.c:757, "get the run-time address of symbol": what is written
\* for a reference leads the processor, which finds the next instruction
\* MAX_INSTRUCTION_CHAR bytes further, to the place the section headers give
\* the symbol.
ReachesSymbol ==
    \A e \in DOMAIN patched :
        LET d == symt[smap[patched[e].to].dst]
            row == patched[e].line - sht[e[2]].offset
            rip == Base + (row + 1) * InstructionChar
            place == sht[d.shndx].addr
                       + d.value * (IF d.shndx = ".text" THEN InstructionChar ELSE DataSize)
        IN  place = patched[e].value + (IF Rel(e).type = "32" THEN 0 ELSE rip)
=============================================================================
