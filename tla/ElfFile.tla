-------------------------------- MODULE ElfFile --------------------------------
(***************************************************************************)
(* The text form of an object file (linker/elf.c): read_elf takes the      *)
(* lines of a file into a buffer, parse_elf makes the tables of an elf_t   *)
(* of it, and write_eof writes the buffer out again.  Two lines of a file  *)
(* are counts: of all effective lines, and of the section headers; a       *)
(* header says at which line the table of its section begins.              *)
(*                                                                         *)
(* A file is a sequence of lines, and a line one of tokens: blanks, "//",  *)
(* ",", "\n" and the words and numbers between them.  A line of the file   *)
(* and one row of a table are a step each.                                 *)
(*                                                                         *)
(* A definition called "faulty" is a slip the code might have had; nothing *)
(* uses it but the tests of the properties.                                *)
(***************************************************************************)
EXTENDS Integers, Sequences, FiniteSets

CONSTANTS
    Files,          \* the files
    Numeral,        \* from the words that are numbers to their values
    Constant,       \* link_constant_dict: from its names to their values
    MaxRows,        \* MAX_ELF_FILE_LENGTH
    MaxWidth        \* MAX_ELF_FILE_WIDTH, in tokens

VARIABLES
    file,           \* what is read
    unread,         \* the lines of it that are not yet read
    rows,           \* buffer: the effective lines
    elf,            \* the tables of the elf_t
    job,            \* "reading", the table that is parsed, "parsed", "refused"
                    \* (an assert or an exit) or "undefined"
    written         \* the tables of the file that was written out, or None

vars == <<file, unread, rows, elf, job, written>>

\* A file has lines, a line has a token at least, and the buffer room for one
\* and a newline.
FilesAreText ==
    LET Lines == UNION {{f[i] : i \in DOMAIN f} : f \in Files}
    IN  /\ \A f \in Files : f \in Seq(Lines)
        /\ \A l \in Lines : l # <<>> /\ l \in Seq({l[i] : i \in DOMAIN l})
        /\ \A w \in DOMAIN Numeral : Numeral[w] \in Int
        /\ MaxRows \in Nat /\ MaxWidth \in Nat /\ MaxWidth > 1

None == <<>>
NoTables == [sht |-> <<>>, symt |-> <<>>, reltext |-> <<>>, reldata |-> <<>>]

Blank == {" ", "\t", "\r"}

Init ==
    /\ file \in Files /\ unread = file /\ rows = <<>>
    /\ elf = NoTables /\ job = "reading" /\ written = None

-----------------------------------------------------------------------------
(* Lines.                                                                  *)

FirstOf(s, tokens, default) ==
    LET is == {i \in DOMAIN s : s[i] \in tokens}
    IN  IF is = {} THEN default ELSE CHOOSE i \in is : \A j \in is : i <= j

\* fgets: the next line, or as much of it as the buffer holds
Fgets == IF Len(unread[1]) < MaxWidth THEN unread[1] ELSE SubSeq(unread[1], 1, MaxWidth - 1)

Left ==
    IF Len(unread[1]) < MaxWidth THEN Tail(unread)
    ELSE <<SubSeq(unread[1], MaxWidth, Len(unread[1]))>> \o Tail(unread)

\* an empty line, a comment, or blanks without a newline
Skipped(line) ==
    \/ line[1] \in {"\n", "\r", "//"}
    \/ \A i \in DOMAIN line : line[i] \in Blank

Cut(line) == SubSeq(line, 1, FirstOf(line, {"\n", "\r", "//"}, Len(line) + 1) - 1)

ReadLine ==
    /\ job = "reading"
    /\ unread # <<>>
    /\ unread' = Left
    /\ \/ /\ Skipped(Fgets)
          /\ UNCHANGED <<rows, job>>
       \/ /\ ~ Skipped(Fgets)
          /\ Len(rows) < MaxRows
          /\ rows' = Append(rows, Cut(Fgets))
          /\ UNCHANGED job
       \/ /\ ~ Skipped(Fgets)
          /\ Len(rows) = MaxRows
          /\ job' = "refused"
          /\ UNCHANGED rows
    /\ UNCHANGED <<file, elf, written>>

-----------------------------------------------------------------------------
(* Columns.                                                                *)

\* parse_table_entry
Columns(row) ==
    LET upto[n \in 0..Len(row)] ==
            IF n = 0 THEN <<<<>>>>
            ELSE LET cols == upto[n - 1]
                 IN  IF row[n] = "," THEN Append(cols, <<>>)
                     ELSE [cols EXCEPT ![Len(cols)] = Append(@, row[n])]
    IN  upto[Len(row)]

\* string2uint: blanks around a number, and blanks alone are a zero
Word(col) == SelectSeq(col, LAMBDA t : t \notin Blank)
IsNumber(col) == Word(col) = <<>> \/ (Len(Word(col)) = 1 /\ Word(col)[1] \in DOMAIN Numeral)
Number(col) == IF Word(col) = <<>> THEN 0 ELSE Numeral[Word(col)[1]]

IsConstant(col) == Len(col) = 1 /\ col[1] \in DOMAIN Constant

\* what parse_sh, parse_symtab and parse_relocation insist on
Accepted(t, cols, symbols) ==
    \/ /\ t = "sht"
       /\ Len(cols) = 4 /\ \A i \in 2..4 : IsNumber(cols[i])
    \/ /\ t = "symt"
       /\ Len(cols) = 6 /\ \A i \in 5..6 : IsNumber(cols[i])
       /\ IsConstant(cols[2]) /\ IsConstant(cols[3])
    \/ /\ t \in {"reltext", "reldata"}
       /\ Len(cols) = 5 /\ \A i \in {1, 2, 4, 5} : IsNumber(cols[i])
       /\ IsConstant(cols[3])
       /\ 0 <= Number(cols[4]) /\ Number(cols[4]) < symbols

Entry(t, cols) ==
    CASE t = "sht" ->
           [name |-> cols[1], addr |-> Number(cols[2]),
            offset |-> Number(cols[3]), size |-> Number(cols[4])]
      [] t = "symt" ->
           [name |-> cols[1], bind |-> Constant[cols[2][1]], type |-> Constant[cols[3][1]],
            shndx |-> cols[4], value |-> Number(cols[5]), size |-> Number(cols[6])]
      [] OTHER ->
           [row |-> Number(cols[1]), col |-> Number(cols[2]), type |-> Constant[cols[3][1]],
            sym |-> Number(cols[4]), addend |-> Number(cols[5])]

-----------------------------------------------------------------------------
(* Tables.                                                                 *)

SectionOf == [symt |-> ".symtab", reltext |-> ".rel.text", reldata |-> ".rel.data"]

Headers(t) == {i \in DOMAIN elf.sht : elf.sht[i].name = <<SectionOf[t]>>}

\* Faulty: of several headers with one name the first one stays.
FirstHeader(t) == elf.sht[CHOOSE i \in Headers(t) : \A j \in Headers(t) : i <= j]

\* of several headers with one name the last one stays
Header(t) == elf.sht[CHOOSE i \in Headers(t) : \A j \in Headers(t) : j <= i]

Size(t) ==
    IF t = "sht" THEN Number(rows[2])
    ELSE IF Headers(t) = {} THEN 0 ELSE Header(t).size

\* Faulty: lines are counted from one.
OffsetFromOne(t) == IF t = "sht" THEN 2 ELSE Header(t).offset - 1

Offset(t) == IF t = "sht" THEN 2 ELSE Header(t).offset

\* there are more than n rows; a size below zero is a huge unsigned number, and
\* the memory for so many entries is taken to be there
More(t, n) == n < Size(t) \/ Size(t) < 0

\* the end of read_elf, and the number of section headers
CheckCount ==
    /\ job = "reading"
    /\ unread = <<>>
    /\ job' = IF rows = <<>> THEN "undefined"
              ELSE IF ~ IsNumber(rows[1]) \/ Number(rows[1]) # Len(rows) THEN "refused"
              ELSE IF Len(rows) = 1 THEN "undefined"
              ELSE IF ~ IsNumber(rows[2]) THEN "refused" ELSE "sht"
    /\ UNCHANGED <<file, unread, rows, elf, written>>

\* a line behind the end is whatever the buffer held
ParseEntry(t) ==
    /\ job = t
    /\ More(t, Len(elf[t]))
    /\ LET line == Offset(t) + Len(elf[t]) + 1
       IN  \/ /\ line \in DOMAIN rows
              /\ Accepted(t, Columns(rows[line]), Len(elf.symt))
              /\ elf' = [elf EXCEPT ![t] = Append(@, Entry(t, Columns(rows[line])))]
              /\ UNCHANGED job
           \/ /\ line \in DOMAIN rows
              /\ ~ Accepted(t, Columns(rows[line]), Len(elf.symt))
              /\ job' = "refused"
              /\ UNCHANGED elf
           \/ /\ line \notin DOMAIN rows
              /\ job' = "undefined"
              /\ UNCHANGED elf
    /\ UNCHANGED <<file, unread, rows, written>>

\* there may be no relocations, but there must be symbols
EndTable(t) ==
    /\ job = t
    /\ ~ More(t, Len(elf[t]))
    /\ job' = CASE t = "sht"     -> IF Headers("symt") = {} THEN "refused" ELSE "symt"
                [] t = "symt"    -> "reltext"
                [] t = "reltext" -> "reldata"
                [] t = "reldata" -> "parsed"
    /\ UNCHANGED <<file, unread, rows, elf, written>>

\* write_eof; the file is read by another program, since write_eof frees
\* link_constant_dict and the next parse_elf would look names up in it
WriteAndReadAgain ==
    /\ job = "parsed"
    /\ written = None
    /\ file' = [i \in DOMAIN rows |-> Append(rows[i], "\n")]
    /\ unread' = file'
    /\ written' = <<elf>>
    /\ rows' = <<>> /\ elf' = NoTables /\ job' = "reading"

Next ==
    \/ ReadLine \/ CheckCount \/ WriteAndReadAgain
    \/ \E t \in DOMAIN NoTables : ParseEntry(t) \/ EndTable(t)

Spec == Init /\ [][Next]_vars

-----------------------------------------------------------------------------
(* What a file says.                                                       *)

\* its lines without comments that say something
Said(line) == \E i \in DOMAIN Cut(line) : Cut(line)[i] \notin Blank
Told ==
    LET upto[n \in 0..Len(file)] ==
            IF n = 0 THEN <<>>
            ELSE IF Said(file[n]) THEN Append(upto[n - 1], Cut(file[n])) ELSE upto[n - 1]
    IN  upto[Len(file)]

\* blanks in an empty line or before a comment, or a line longer than the buffer
Irregular ==
    \E i \in DOMAIN file :
        \/ Len(file[i]) >= MaxWidth
        \/ /\ ~ Said(file[i]) /\ Cut(file[i]) # <<>>
           /\ \E j \in DOMAIN file[i] : file[i][j] \notin Blank

\* the headers of the file, and for a table the last one that has its name
ToldHeaders == LET told == Told IN [i \in 1..Number(told[2]) |-> Entry("sht", Columns(told[2 + i]))]
Declaring(t) ==
    {i \in DOMAIN ToldHeaders :
        /\ ToldHeaders[i].name = <<SectionOf[t]>>
        /\ \A j \in DOMAIN ToldHeaders : j > i => ToldHeaders[j].name # ToldHeaders[i].name}

\* the rows of a table, each as columns
ToldTable(t) ==
    UNION {{<<j, Columns(Told[ToldHeaders[i].offset + j])>> : j \in 1..ToldHeaders[i].size} :
              i \in Declaring(t)}

Sound ==
    /\ Len(Told) \in 2..MaxRows
    /\ \A i \in 1..2 : IsNumber(Told[i])
    /\ Number(Told[1]) = Len(Told)
    /\ Number(Told[2]) >= 0 /\ Number(Told[2]) + 2 <= Len(Told)
    /\ \A i \in 1..Number(Told[2]) : Accepted("sht", Columns(Told[2 + i]), 0)
    /\ Declaring("symt") # {}
    /\ \A t \in DOMAIN SectionOf : \A i \in Declaring(t) :
           \/ ToldHeaders[i].size = 0
           \/ /\ ToldHeaders[i].offset >= 0 /\ ToldHeaders[i].size > 0
              /\ ToldHeaders[i].offset + ToldHeaders[i].size <= Len(Told)
    /\ \A t \in DOMAIN SectionOf : \A x \in ToldTable(t) :
           Accepted(t, x[2], Cardinality(ToldTable("symt")))

\* A file is parsed into the tables it declares, whatever comments and empty
\* lines stand between its rows (elf.c:216), and a file that was written out
\* is parsed into the same tables again; a file is refused, or read behind its
\* end, only when its count, its headers, a row or an index into the symbols
\* is wrong.  Lines of blanks, comments behind blanks and lines longer than
\* the buffer are excepted: these are counted as rows, although elf.c:237
\* says of a line that is kept that it "is not white and contains
\* information".
FileExact ==
    job \in {"parsed", "refused", "undefined"} /\ ~ Irregular =>
        /\ job = "parsed" =>
               /\ Sound
               /\ elf.sht = ToldHeaders
               /\ \A t \in DOMAIN SectionOf :
                      /\ Len(elf[t]) = Cardinality(ToldTable(t))
                      /\ \A x \in ToldTable(t) : elf[t][x[1]] = Entry(t, x[2])
               /\ written # None => written = <<elf>>
        /\ job # "parsed" => ~ Sound
=============================================================================
