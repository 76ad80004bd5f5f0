------------------------------ MODULE Emulator ------------------------------
(***************************************************************************)
(* The instructions of kernel/i386_emulator.c, on a register set r (an     *)
(* int_regs_t or a regs_t: the functions ending in _IR and in _TR are the  *)
(* same on both) and the memory.  A byte has BYTE values, 256 in the code, *)
(* and BitOr is the bitwise or of two; a dword has four bytes, the lowest  *)
(* first.                                                                  *)
(***************************************************************************)
EXTENDS Integers, Sequences

CONSTANTS BYTE, BitOr(_, _)

Byte == 0 .. BYTE - 1

ASSUME EmulatorAssumption == BYTE \in Nat \ {0, 1} /\ \A a, b \in Byte : BitOr(a, b) \in Byte

WORD == BYTE * BYTE
DWORD == WORD * WORD
Dword == 0 .. DWORD - 1

(* i386_reg_t: the registers of 32 bits and their halves in its order. *)
Main == <<"eax", "ebx", "ecx", "edx", "esi", "edi", "esp", "ebp", "eip">>
Special == <<"eflags", "cs", "ds", "ss", "es", "fs", "gs">>

Ids == 0 .. 32
Words == 9 .. 17
Lows == 18 .. 21
Highs == 22 .. 25

RegName == {Main[i] : i \in DOMAIN Main} \union {Special[i] : i \in DOMAIN Special}
RegisterSets == [RegName -> Dword]

(* The register of the set that id is, or is a part of. *)
Base(id) ==
  CASE id < 9 -> Main[id + 1]
    [] id \in Words -> Main[id - 8]
    [] id \in Lows -> Main[id - 17]
    [] id \in Highs -> Main[id - 21]
    [] OTHER -> Special[id - 25]

(* The lowest byte of a dword, the one above it, and the word above that. *)
Low(x) == x % BYTE
High(x) == (x % WORD) \div BYTE
Upper(x) == x - (x % WORD)

READ_REG_BY_ID(r, id) ==
  LET e == r[Base(id)] IN
  CASE id \in Words -> e % WORD
    [] id \in Lows -> Low(e)
    [] id \in Highs -> High(e)
    [] OTHER -> e

UpperHalfLost(r, id, value) ==                   \* mutant
  [r EXCEPT ![Base(id)] =
    CASE id \in Words -> value % WORD
      [] id \in Lows -> Upper(@) + BitOr(High(@), High(value)) * BYTE
      [] id \in Highs -> Upper(@) + BitOr(Low(@), Low(value))
      [] OTHER -> value]

(* The mask of a low byte keeps the second byte of the value, that of a    *)
(* high byte the first, and neither is shifted.                            *)
WRITE_REG_BY_ID(r, id, value) ==
  [r EXCEPT ![Base(id)] =
    CASE id \in Words -> Upper(@) + (value % WORD)
      [] id \in Lows -> Upper(@) + BitOr(High(@), High(value)) * BYTE
      [] id \in Highs -> Upper(@) + BitOr(Low(@), Low(value))
      [] OTHER -> value]

(* I386EM_M32: four bytes from an address on, round the end of memory. *)
M32(mem, a) ==
  LET b(i) == mem[(a + i) % DWORD]
  IN b(0) + (b(1) * BYTE) + (b(2) * WORD) + (b(3) * (WORD * BYTE))

ByteOf(value, i) == (value \div <<1, BYTE, WORD, WORD * BYTE>>[i + 1]) % BYTE

Store32(mem, a, value) ==
  [x \in DOMAIN mem |->
    LET i == (x - a) % DWORD IN IF i < 4 THEN ByteOf(value, i) ELSE mem[x]]

(***************************************************************************)
(* Operands.  reg1, reg2, imm1 and imm2 are members of one union, so an    *)
(* operand has one number v: a memory operand goes through the register it *)
(* names, and an indexed one has that register as base, index, scale and   *)
(* displacement.                                                           *)
(***************************************************************************)
LOperands == [type : {"REG", "MEM", "SIB_RRN", "SIB_DRRN", "SIB_DRN"}, v : Ids]
ROperands == LOperands \union [type : {"IMM"}, v : Dword]

Address(r, op) ==
  LET x == READ_REG_BY_ID(r, op.v)
  IN CASE op.type = "MEM" -> x
       [] op.type = "SIB_RRN" -> (x + x * op.v) % DWORD
       [] op.type = "SIB_DRRN" -> (x + x * op.v + op.v) % DWORD
       [] op.type = "SIB_DRN" -> (x * op.v + op.v) % DWORD

LEGET(s, op) ==
  IF op.type = "REG" THEN READ_REG_BY_ID(s.regs, op.v) ELSE M32(s.mem, Address(s.regs, op))

REGET(s, op) == IF op.type = "IMM" THEN op.v ELSE LEGET(s, op)

LESET(s, op, value) ==
  IF op.type = "REG" THEN [s EXCEPT !.regs = WRITE_REG_BY_ID(@, op.v, value)]
  ELSE [s EXCEPT !.mem = Store32(@, Address(s.regs, op), value)]

ESP(s) == s.regs["esp"]
MoveESP(s, by) == [s EXCEPT !.regs["esp"] = (@ + by) % DWORD]

States == [regs : RegisterSets, mem : [Dword -> Byte]]

(* The five instructions, on a state s of registers and memory. *)
add(s, arg0, arg1) == LESET(s, arg0, (LEGET(s, arg0) + REGET(s, arg1)) % DWORD)

SubBorrowsAtTheWord(s, arg0, arg1) ==            \* mutant
  LESET(s, arg0, (LEGET(s, arg0) - REGET(s, arg1)) % WORD)

sub(s, arg0, arg1) == LESET(s, arg0, (LEGET(s, arg0) - REGET(s, arg1)) % DWORD)

jmp_far(s, arg1) == [s EXCEPT !.regs["eip"] = REGET(s, arg1)]

StoresThenMoves(s, arg1) ==                      \* mutant
  MoveESP([s EXCEPT !.mem = Store32(@, ESP(s), REGET(s, arg1))], -4)

(* The operand is evaluated after esp has moved. *)
push(s, arg1) ==
  LET m == MoveESP(s, -4) IN [m EXCEPT !.mem = Store32(@, ESP(m), REGET(m, arg1))]

(* esp moves after the destination, which may be esp, has been written. *)
pop(s, arg0) == MoveESP(LESET(s, arg0, M32(s.mem, ESP(s))), 4)
-----------------------------------------------------------------------------
IsByte(op) == op.type = "REG" /\ op.v \in Lows \union Highs

(***************************************************************************)
(* A write to a register by its number changes no other register, and a    *)
(* write to a part of one no bit above its lower half.  A dword or a word  *)
(* reads back; a byte reads back 0 and, by a misplaced mask, what was      *)
(* written ends up ORed to its neighbour.                                  *)
(***************************************************************************)
WritesStayInPlace(r, id, value) ==
  LET q == WRITE_REG_BY_ID(r, id, value)
      back == READ_REG_BY_ID(q, id)
      b == Base(id)
  IN /\ \A n \in DOMAIN r \ {b} : q[n] = r[n]
     /\ id \in Words \union Lows \union Highs => q[b] \div WORD = r[b] \div WORD
     /\ back = CASE id \in Words -> value % WORD
                 [] id \in Lows \union Highs -> 0
                 [] OTHER -> value
     /\ id \in Lows =>
          READ_REG_BY_ID(q, id + 4) = BitOr(READ_REG_BY_ID(r, id + 4), High(value))
     /\ id \in Highs =>
          READ_REG_BY_ID(q, id - 4) = BitOr(READ_REG_BY_ID(r, id - 4), Low(value))

(***************************************************************************)
(* sub takes back what add did, wherever the operands lie, unless the      *)
(* result was written over the source or the address, or to a byte.        *)
(***************************************************************************)
SubUndoesAdd(s, arg0, arg1) ==
  LET t == add(s, arg0, arg1)
  IN ~IsByte(arg0) /\ REGET(t, arg1) = REGET(s, arg1) => sub(t, arg0, arg1) = s

(***************************************************************************)
(* A push and a pop move a value from arg1 to a register or to memory the  *)
(* way a 386 does, unless an operand depends on esp or is a byte: nothing  *)
(* but the destination and the four bytes below the stack has changed.     *)
(***************************************************************************)
UsesESP(op) == op.type # "IMM" /\ Base(op.v) = "esp"

PushThenPopMoves(s, arg0, arg1) ==
  ~UsesESP(arg0) /\ ~UsesESP(arg1) /\ ~IsByte(arg0) =>
    LET below == {(ESP(s) - i) % DWORD : i \in 1 .. 4}
        under == [s EXCEPT !.mem = Store32(@, (ESP(s) - 4) % DWORD, REGET(s, arg1))]
        t == pop(push(s, arg1), arg0)
    IN t = LESET(under, arg0, REGET(s, arg1))
       /\ \A a \in DOMAIN s.mem \ below :
            t.mem[a] # s.mem[a] => arg0.type # "REG" /\ (a - Address(s.regs, arg0)) % DWORD < 4
=============================================================================
