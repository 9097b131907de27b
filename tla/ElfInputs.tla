------------------------------- MODULE ElfInputs -------------------------------
(* Files for ElfFile: one object file, changed in a row, with a line that is *)
(* not a row between its rows, comments behind them or an open last line.    *)
EXTENDS Integers, SequencesExt

ElfNumeral ==
    [s \in {"0", "1", "2", "3", "5", "6", "7", "8", "9", "10", "11", "-4"} |->
        CASE s = "0" -> 0 [] s = "1" -> 1 [] s = "2" -> 2 [] s = "3" -> 3 [] s = "5" -> 5
          [] s = "6" -> 6 [] s = "7" -> 7 [] s = "8" -> 8 [] s = "9" -> 9 [] s = "10" -> 10
          [] s = "11" -> 11 [] s = "-4" -> -4]

\* the enumerations of headers/linker.h that the inputs use
ElfConstant ==
    [STB_GLOBAL |-> 1, STB_WEAK |-> 2, STT_OBJECT |-> 1, STT_FUNC |-> 2,
     R_X86_64_32 |-> 0, R_X86_64_PC32 |-> 1]

Object ==
    << <<"9">>, <<"3">>,
       <<".symtab", "0", "5", "2">>,
       <<".rel.text", "0", "7", "1">>,
       <<".rel.data", "0", "8", "1">>,
       <<"a", "STB_GLOBAL", "STT_FUNC", ".text", "0", "1">>,
       <<"b", "STB_WEAK", "STT_OBJECT", ".data", "0", "1">>,
       <<"0", "1", "R_X86_64_32", "1", "-4">>,
       <<"0", "1", "R_X86_64_PC32", "0", "0">> >>

\* a row of Object and what stands there instead
Changes ==
    { <<1, <<"8">> >>, <<1, <<"10">> >>, <<1, <<"main">> >>, <<2, <<"2">> >>, <<2, <<"main">> >>,
      <<3, <<".data", "0", "5", "2">> >>, <<3, <<".symtab", "0", "5">> >>,
      <<3, <<".symtab", "0", "5", "3">> >>,
      <<3, <<".symtab", "0", "5", "-4">> >>, <<5, <<".rel.data", "0", "-4", "1">> >>,
      <<4, <<".rel.text", "0", "7", "2">> >>, <<4, <<".rel.text", "0", "7", "3">> >>,
      <<4, <<".symtab", "0", "6", "1">> >>, <<5, <<".rel.text", "0", "8", "1">> >>,
      <<6, <<"a", "global", "STT_FUNC", ".text", "0", "1">> >>,
      <<8, <<"0", "1", "R_X86_64_32", "2", "-4">> >>,
      <<9, <<"0", "1", "PC32", "0", "0">> >>, <<9, <<"0", "1", "R_X86_64_PC32", "-4", "0">> >> }

TooLong == <<<<"11">>>> \o Tail(Object) \o <<<<"b">>, <<"b">>>>

Tables == {Object, TooLong} \cup {[Object EXCEPT ![c[1]] = c[2]] : c \in Changes}

Line(cells) ==
    FoldLeft(LAMBDA s, c : s \o <<",", c>>, <<cells[1]>>, Tail(cells)) \o <<"\n">>

Commented(cells) == Front(Line(cells)) \o <<" ", "//", "note", "\n">>

Long == <<"//">> \o [i \in 1..15 |-> "note"] \o <<"\n">>

Between == { <<"\n">>, <<"//", "note", "\n">>, <<" ", "\n">>, <<" ", "//", "note", "\n">>, Long }

ElfFiles ==
    UNION { LET lines == [i \in DOMAIN t |-> Line(t[i])]
            IN  { lines,
                  Append(lines, <<" ">>),
                  Append(Front(lines), Front(Last(lines))),
                  [i \in DOMAIN t |-> Commented(t[i])] } \cup
                { InsertAt(lines, i, l) : i \in {1, 3, 7}, l \in Between } :
            t \in Tables } \cup
    { <<>>, <<<<"//", "note", "\n">>>>, <<Line(<<"1">>)>> }
=============================================================================
