------------------------------ MODULE Debugger ------------------------------
(***************************************************************************)
(* The debugger console of the breakpoint trap (kernel/traps.c): what a    *)
(* line does to the saved registers.  A line is a word and, after a blank, *)
(* digits of 0 to 15; JUNK stands for a character that is not a digit.     *)
(***************************************************************************)
EXTENDS Integers, Sequences, Functions

CONSTANT SIZE    \* the values of a size_t: 16^8

ASSUME DebuggerAssumption == SIZE \in Nat \ {0}

JUNK == 16

(* The register commands, in the order of the tests. *)
LongNames == <<"setsi", "setdi", "setsp", "setbp", "setcs", "setss", "setes", "setds", "setfs", "setgs">>
ShortNames == <<"seta", "setb", "setc", "setd", "jump">>
Commands == LongNames \o ShortNames
(* The register of each, by the help text and by the code behind the test. *)
Registers == <<"esi", "edi", "esp", "ebp", "cs", "ss", "es", "ds", "fs", "gs",
               "eax", "ebx", "ecx", "edx", "eip">>

LineWords == Range(Commands) \union {"peek", "help", "cont", "regs"}
Length(word) == IF word \in Range(LongNames) THEN 5 ELSE 4
FirstLetter(word) ==
  CASE word \in Range(Commands) \ {"jump"} -> "s"
    [] word = "jump" -> "j" [] word = "peek" -> "p" [] word = "help" -> "h"
    [] word = "cont" -> "c" [] word = "regs" -> "r"

Digit(d) == IF d = JUNK THEN 0 ELSE d

SkipsJunk(digits) ==                             \* mutant
  LET ptr[i \in 0 .. Len(digits)] ==
        IF i = 0 THEN 0
        ELSE IF digits[i] = JUNK THEN ptr[i - 1] ELSE (ptr[i - 1] * 16 + digits[i]) % SIZE
  IN ptr[Len(digits)]

(* Shifts by a digit for every character, and out of the word at the left. *)
__read_hex(digits) ==
  LET ptr[i \in 0 .. Len(digits)] ==
        IF i = 0 THEN 0 ELSE (ptr[i - 1] * 16 + Digit(digits[i])) % SIZE
  IN ptr[Len(digits)]

(* The characters of a line from place from on, or none: buf is zeroed. *)
Rest(line, from) ==
  LET digits == line.digits
      skipped == from - (Length(line.word) + 1)
  IN SubSeq(digits, skipped + 1, Len(digits))

(* memcmp, which compares first characters only. *)
Matches(line, word) == FirstLetter(line.word) = FirstLetter(word)

(* help, cont and regs are compared with strcmp; peek only reads. *)
Command(regs, line) ==
  LET first == CHOOSE i \in DOMAIN Commands :
                 Matches(line, Commands[i]) /\ \A j \in 1 .. i - 1 : ~Matches(line, Commands[j])
  IN IF line.word \in {"help", "cont", "regs"} \/ Matches(line, "peek") THEN regs
     ELSE [regs EXCEPT ![Registers[first]] = __read_hex(Rest(line, Length(Commands[first]) + 1))]
-----------------------------------------------------------------------------
(* The number that the digits spell, as far as a size_t holds it. *)
Spelled(digits) ==
  LET number[i \in 0 .. Len(digits)] ==
        IF i = 0 THEN 0 ELSE number[i - 1] * 16 + Digit(digits[i])
  IN number[Len(digits)] % SIZE

(***************************************************************************)
(* Whatever the line, no register but esi and eip changes.  jump sets eip  *)
(* to the number that follows; every register command sets esi, to the     *)
(* number that follows or, for the names of four letters, to that number   *)
(* without its first digit; the other commands set nothing.                *)
(***************************************************************************)
DebuggerSetsTwoRegisters(regs, line) ==
  Command(regs, line) =
    CASE line.word = "jump" -> [regs EXCEPT !["eip"] = Spelled(line.digits)]
      [] line.word \in Range(LongNames) -> [regs EXCEPT !["esi"] = Spelled(line.digits)]
      [] line.word \in {"seta", "setb", "setc", "setd"} ->
           [regs EXCEPT !["esi"] = Spelled(SubSeq(line.digits, 2, Len(line.digits)))]
      [] OTHER -> regs
=============================================================================
