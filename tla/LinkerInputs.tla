---------------------------- MODULE LinkerInputs ----------------------------
(***************************************************************************)
(* Object files as a compiler writes them, for the instances of Linker: a  *)
(* function f, a function g and a variable v, each of them absent,         *)
(* declared or defined in a file.  f uses v, g calls f and the initial     *)
(* value of v is the address of g, wherever a file has both.               *)
(***************************************************************************)
EXTENDS Integers, SequencesExt

LOCAL Kind(bind, type, shndx, size) == [bind |-> bind, type |-> type, shndx |-> shndx, size |-> size]

LOCAL Undef == Kind("GLOBAL", "NOTYPE", "SHN_UNDEF", 0)
LOCAL Func == Kind("GLOBAL", "FUNC", ".text", 2)
LOCAL Static == Kind("LOCAL", "FUNC", ".text", 2)
LOCAL Weak == Kind("WEAK", "FUNC", ".text", 2)
LOCAL Data == Kind("GLOBAL", "OBJECT", ".data", 2)
LOCAL Const == Kind("GLOBAL", "OBJECT", ".rodata", 1)
LOCAL Common == Kind("GLOBAL", "OBJECT", "COMMON", 1)

LOCAL None == {}
LOCAL Maybe(kinds) == {None} \cup {{k} : k \in kinds}

\* symbols of one file, given the kinds of f, g and v; g lies behind f
LOCAL Table(f, g, v) ==
    LET entry(name, kinds, value) ==
            SetToSeq({[name |-> name, bind |-> k.bind, type |-> k.type, shndx |-> k.shndx,
                       size |-> k.size, value |-> value] : k \in kinds})
        above == IF \E k \in f : k.shndx = ".text" THEN 2 ELSE 0
    IN  entry("v", v, 0) \o entry("g", g, above) \o entry("f", f, 0)

\* an entry where from has lines and to is in the table
LOCAL Use(table, from, to, sec, type) ==
    SetToSeq({[row |-> table[j].value + table[j].size - 1, sym |-> k, type |-> type] :
        <<j, k>> \in {x \in (DOMAIN table) \X (DOMAIN table) :
            table[x[1]].name = from /\ table[x[1]].shndx = sec /\ table[x[2]].name = to}})

LOCAL File(f, g, v) ==
    LET table == Table(f, g, v)
    IN  [symt |-> table,
         sht |-> {table[j].shndx : j \in DOMAIN table} \cap {".text", ".data", ".rodata"},
         reltext |-> Use(table, "f", "v", ".text", "PC32") \o Use(table, "g", "f", ".text", "PC32"),
         reldata |-> Use(table, "v", "g", ".data", "32")]

LOCAL FilesOf(fs, gs, vs) == {File(f, g, v) : f \in Maybe(fs), g \in Maybe(gs), v \in Maybe(vs)}

\* all pairs of files, and three files with static functions and a variable
MCInputs ==
    LET all == FilesOf({Undef, Func, Static, Weak}, {Undef, Func}, {Undef, Data, Const, Common})
        few == FilesOf({Static}, {}, {Undef, Data, Common}) \cup FilesOf({Func}, {Func}, {})
    IN  {<<a, b>> : a \in all, b \in all} \cup {<<a, b, c>> : a \in few, b \in few, c \in few}
=============================================================================
