---------------------------- MODULE Descriptors -----------------------------
(***************************************************************************)
(* Segments and gates: gdt_set, gdt_init, idt_set and idt_init             *)
(* (kernel/hw.c), and the gates and interrupt lines that kernel_start      *)
(* (kernel/main.c) sets up.  A dword has eight digits, of 16 values each   *)
(* in the code: a 16-bit field is four of them, a page of 4 KiB is three.  *)
(***************************************************************************)
EXTENDS Integers, Functions

CONSTANTS DIGIT, GDT_CAP

ASSUME DescriptorAssumption == DIGIT \in Nat \ {0, 1} /\ GDT_CAP \in Nat /\ GDT_CAP > 3

(* The values of two, four, six and eight digits. *)
DIGIT2 == DIGIT * DIGIT
DIGIT4 == DIGIT2 * DIGIT2
DIGIT6 == DIGIT4 * DIGIT2
DoubleWord == 0 .. DIGIT4 * DIGIT4 - 1
PAGE == DIGIT2 * DIGIT

(* gdt_desc_t; the fields that never vary are left out. *)
Segment(limit, base, is_executable, is_tss, ring, is_limit_in_pages) ==
  [limit_lo |-> limit % DIGIT4, limit_hi |-> (limit \div DIGIT4) % DIGIT,
   base_lo |-> base % DIGIT4, base_mid |-> (base \div DIGIT4) % DIGIT2,
   base_hi |-> (base \div DIGIT6) % DIGIT2,
   is_executable |-> is_executable, isnt_tss |-> ~is_tss, ring |-> ring,
   is_limit_in_pages |-> is_limit_in_pages]

LimitInBytes(gdt, id, limit, base, is_executable, is_tss, ring) ==          \* mutant
  IF id >= GDT_CAP THEN gdt
  ELSE [gdt EXCEPT ![id] = Segment(limit, base, is_executable, is_tss, ring, TRUE)]

(* The limit comes in bytes and is kept in pages. *)
gdt_set(gdt, id, limit, base, is_executable, is_tss, ring) ==
  IF id >= GDT_CAP THEN gdt
  ELSE [gdt EXCEPT ![id] = Segment(limit \div PAGE, base, is_executable, is_tss, ring, TRUE)]

FULL_LIMIT == DIGIT4 * DIGIT - 1                 \* 0xFFFFF

(* Null (all zero), code, data, the task segment, and data to the end. *)
gdt_init(tss, tss_size) ==
  LET zero == [id \in 0 .. GDT_CAP - 1 |-> Segment(0, 0, FALSE, TRUE, 0, FALSE)]
      data == [id \in 0 .. GDT_CAP - 1 |->
                IF id = 0 THEN zero[0] ELSE gdt_set(zero, id, FULL_LIMIT, 0, FALSE, FALSE, 0)[id]]
      code == gdt_set(data, 1, FULL_LIMIT, 0, TRUE, FALSE, 0)
  IN [code EXCEPT ![3] = Segment(tss_size, tss, TRUE, TRUE, 0, FALSE)]

(* What the processor makes of a descriptor. *)
SegmentBase(d) == d.base_lo + d.base_mid * DIGIT4 + d.base_hi * DIGIT6
SegmentSize(d) ==
  (d.limit_lo + d.limit_hi * DIGIT4 + 1) * (IF d.is_limit_in_pages THEN PAGE ELSE 1)
-----------------------------------------------------------------------------
Vectors == 0 .. 255

(* The gate idt_set writes; the segment and the type are always the same. *)
idt_set(handler, ring) ==
  [offset_1 |-> handler % DIGIT4, offset_2 |-> (handler \div DIGIT4) % DIGIT4, ring |-> ring]

(* The handlers of kernel_start, by vector. *)
TRAPS(v) ==
  CASE v = 0 -> "divide_by_0" [] v = 2 -> "nmi" [] v = 3 -> "breakpoint" [] v = 4 -> "overflow"
    [] v = 5 -> "bound" [] v = 6 -> "invalid_opcode" [] v = 7 -> "device_no_avaliable"
    [] v = 8 -> "double_fault" [] v = 9 -> "coprocessor_segment_overrun"
    [] v = 10 -> "invalid_tss" [] v = 11 -> "segment_not_present"
    [] v = 12 -> "stack_segment_fault" [] v = 13 -> "general_protection"
    [] v = 14 -> "page_fault" [] v = 16 -> "x87_error" [] v = 17 -> "alignment"
    [] v = 18 -> "machine" [] v = 19 -> "SIMD"
DEVICES(v) == CASE v = 32 -> "int_timer" [] v = 33 -> "int_keyboard" [] v = 128 -> "syscall_handler"

(* idt_init and then kernel_start: address says where each handler is. *)
BootIdt(address) ==
  LET nothing == [v \in Vectors |-> idt_set(address["idt_nothing"], 0)]
  IN [v \in Vectors |->
       IF v \in 0 .. 19 \ {1, 15} THEN idt_set(address[TRAPS(v)], 0)
       ELSE IF v \in {32, 33, 128} THEN idt_set(address[DEVICES(v)], IF v = 128 THEN 3 ELSE 0)
       ELSE nothing[v]]

(* The interrupt controllers as kernel_start programs them. *)
LinesLeftAtBoot(irq) == IF irq < 8 THEN 8 + irq ELSE 112 + (irq - 8)       \* mutant
IrqVector(irq) == IF irq < 8 THEN 32 + irq ELSE 40 + (irq - 8)

(* Where the processor goes. *)
Target(gate) == gate.offset_1 + gate.offset_2 * DIGIT4

(* The handlers that end the task they interrupt, or the machine. *)
Ends == {"divide_by_0", "overflow", "bound", "invalid_opcode", "device_no_avaliable",
         "coprocessor_segment_overrun", "segment_not_present", "stack_segment_fault",
         "general_protection", "page_fault", "x87_error", "alignment", "machine",
         "nmi", "double_fault", "invalid_tss", "SIMD"}
Resumes == {"idt_nothing", "breakpoint", "int_timer", "int_keyboard", "syscall_handler"}

HandlerNames == Ends \union Resumes

(* The vectors for which an i386 pushes an error code. *)
ErrorCode == {8, 10, 11, 12, 13, 14, 17}
-----------------------------------------------------------------------------
(***************************************************************************)
(* A segment is where gdt_set was told and holds every byte up to the      *)
(* limit and less than a page more; only its own entry changes; and the    *)
(* task segment of gdt_init holds the task state it is for.                *)
(***************************************************************************)
SegmentsHoldTheirLimit(id, limit, base) ==
  LET before == gdt_init(base, PAGE)
      gdt == gdt_set(before, id, limit, base, FALSE, FALSE, 0)
  IN /\ id < GDT_CAP => /\ SegmentBase(gdt[id]) = base
                        /\ SegmentSize(gdt[id]) \in limit + 1 .. limit + PAGE
     /\ \A other \in DOMAIN gdt \ {id} : gdt[other] = before[other]
     /\ SegmentBase(before[3]) = base /\ SegmentSize(before[3]) >= PAGE
     /\ \A flat \in {1, 2} : SegmentBase(before[flat]) = 0 /\ SegmentSize(before[flat]) = FULL_LIMIT + 1

(***************************************************************************)
(* Wherever the handlers lie, each gate leads to one.  A trap that leaves  *)
(* an error code on the stack, which no handler takes off, leads to one    *)
(* that does not resume the program; an interrupt line never leads to one  *)
(* that ends it, and only lines 0 and 1 reach the timer and the keyboard.  *)
(***************************************************************************)
GatesLeadHome(address) ==
  LET idt == BootIdt(address)
      Handlers(v) == {h \in DOMAIN address : address[h] = Target(idt[v])}
  IN /\ \A v \in Vectors : Handlers(v) # {}
     /\ \A v \in ErrorCode : Handlers(v) \subseteq Ends
     /\ \A irq \in 0 .. 15 : LET hs == Handlers(IrqVector(irq)) IN
          /\ hs \subseteq Resumes
          /\ "int_timer" \in hs <=> irq = 0
          /\ "int_keyboard" \in hs <=> irq = 1
     /\ \A v \in Vectors : idt[v].ring = 3 <=> "syscall_handler" \in Handlers(v)
=============================================================================
