---------------------------- MODULE MCAlgorithms ----------------------------
(* The inputs TLC draws, and the bitwise or for the emulator's bytes. *)
EXTENDS Algorithms, Bitwise

ByteOr(a, b) == a | b

(* i386 emulator: bytes of four values, so a dword is 0 .. 255. *)
SomeDwords == {0, 1, 3, 4, 15, 16, 27, 228, 254, 255}
Ram == [a \in Dword |-> (a * 7 + a \div 5) % BYTE]
RegistersWith(eax, ebx, esp) ==
  [n \in RegName |->
     CASE n = "eax" -> eax [] n = "ebx" -> ebx [] n = "esp" -> esp
       [] n = "eflags" -> 2 [] n = "eip" -> 77 [] OTHER -> 16]
Writes == [regs : {[n \in RegName |-> old] : old \in SomeDwords}, id : Ids, value : SomeDwords]
Machines == {[regs |-> RegistersWith(eax, ebx, esp), mem |-> Ram] :
               eax \in {10, 255}, ebx \in {12, 200}, esp \in {2, 14}}
SomeIds == {0, 1, 6, 9, 10, 15, 18, 22, 26}
Places == [type : {"REG", "MEM", "SIB_RRN", "SIB_DRRN", "SIB_DRN"}, v : SomeIds]
Values == Places \union [type : {"IMM"}, v : {0, 5, 254}]

(* Clock: every day of six years around leap years and centuries, and the  *)
(* seconds at which registers roll over, with the update anywhere.         *)
SomeYears == {0, 3, 4, 25, 26, 99}
Days == UNION {{Moment(yy, mon, mday, 12, 0, 0) : mday \in 1 .. DaysIn(2000 + yy, mon)} :
                 yy \in SomeYears, mon \in 1 .. 12}
Turns == {Moment(25, mon, mday, hour, min, sec) :
            hour \in {9, 23}, min \in {9, 59}, sec \in {0, 59}, mday \in {9, 28, 31},
            mon \in {1, 2, 12}}
Readings == {Pass(d, upd, junk) : d \in {t \in Turns : t.mday <= DaysIn(2025, t.mon)},
                                  upd \in 1 .. LEAD + 8, junk \in {0, 255}}

(* The handlers lie in steps of some bytes from some address on. *)
InOrder == <<"idt_nothing", "breakpoint", "int_timer", "int_keyboard", "syscall_handler",
  "divide_by_0", "overflow", "bound", "invalid_opcode", "device_no_avaliable",
  "coprocessor_segment_overrun", "segment_not_present", "stack_segment_fault",
  "general_protection", "page_fault", "x87_error", "alignment", "machine",
  "nmi", "double_fault", "invalid_tss", "SIMD">>
HandlersFrom(from, step) ==
  [h \in HandlerNames |-> from + step * (CHOOSE i \in DOMAIN InOrder : InOrder[i] = h)]

(* Strings: six bytes of three values, the last one NUL. *)
Strings == {[m |-> Append(m, NUL), s1 |-> s1, s2 |-> s2] :
              m \in [1 .. 5 -> 0 .. 2], s1 \in 1 .. 6, s2 \in 1 .. 6}

(* Debugger lines: every word, up to a digit more than a size_t holds. *)
SomeDigits == UNION {[1 .. n -> {0, 1, 15, JUNK}] : n \in 0 .. 3}

SomeInputs ==
  [write |-> Writes,
   instruction |-> [s : Machines, arg0 : Places, arg1 : Values],
   day |-> Days,
   reading |-> Readings,
   segment |-> [id : 1 .. GDT_CAP, limit : DoubleWord, base : {0, 37, 170, 255}],
   places |-> {HandlersFrom(from, step) : from \in {1, 20, 100}, step \in {1, 3, 7}},
   memory |-> Strings,
   line |-> [regs : {[r \in Range(Registers) |-> 3]}, word : LineWords, digits : SomeDigits]]
=============================================================================
