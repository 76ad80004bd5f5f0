----------------------------- MODULE Algorithms -----------------------------
(***************************************************************************)
(* The pure parts of the kernel: a step draws an input for one of them,    *)
(* and each property is about the inputs of one kind.  Inputs says which   *)
(* inputs of a kind are drawn, any that the kernel can meet.               *)
(***************************************************************************)
EXTENDS Emulator, Clock, Descriptors, CLib, Debugger

CONSTANT Inputs

Kinds == {"write", "instruction", "day", "reading", "segment", "places", "memory", "line"}

(* A register of the clock is a byte, and so is what it reads as junk. *)
ASSUME InputAssumption ==
  /\ Inputs["write"] \subseteq [regs : RegisterSets, id : Ids, value : Dword]
  /\ Inputs["instruction"] \subseteq [s : States, arg0 : LOperands, arg1 : ROperands]
  /\ Inputs["day"] \subseteq Moments
  /\ Inputs["reading"] \subseteq [old : Moments, upd : Nat, junk : 0 .. 255]
  /\ Inputs["segment"] \subseteq [id : Nat, limit : DoubleWord, base : DoubleWord]
  /\ Inputs["places"] \subseteq Injection(HandlerNames, DoubleWord)
  /\ \A i \in Inputs["memory"] :
       i.m \in Memories /\ i.s1 \in 1 .. Len(i.m) /\ i.s2 \in 1 .. Len(i.m)
  /\ Inputs["line"] \subseteq [regs : [Range(Registers) -> 0 .. SIZE - 1],
                               word : LineWords, digits : Seq(0 .. JUNK)]

VARIABLES kind, input

Init == kind = "none" /\ input = <<>>

Draw ==
  /\ kind = "none"
  /\ \E k \in Kinds : \E i \in Inputs[k] : kind' = k /\ input' = i

Spec == Init /\ [][Draw]_<<kind, input>>
-----------------------------------------------------------------------------
(* A write through a register number stays in its register. *)
RegisterWrites == kind = "write" => WritesStayInPlace(input.regs, input.id, input.value)

(* sub takes back what add did, for each pair of operands. *)
AddAndSub == kind = "instruction" => SubUndoesAdd(input.s, input.arg0, input.arg1)

(* push and pop move a value, for each pair of operands. *)
PushAndPop == kind = "instruction" => PushThenPopMoves(input.s, input.arg0, input.arg1)

(* time reads the clock at one moment, wherever the update falls. *)
ClockReadings == kind = "reading" => ReadsOneMoment(input)

(* The days mktime counts, against a calendar. *)
DayCounts == kind = "day" => DaysAreRightOrOneBehind(input)

(* Where the day number does not go forward. *)
NewYears == kind = "day" => RepeatsOnlyNewYear(input)

(* Descriptors hold the segment they were asked for. *)
Segments == kind = "segment" => SegmentsHoldTheirLimit(input.id, input.limit, input.base)

(* The gates of the boot lead where they must. *)
Gates == kind = "places" => GatesLeadHome(input)

(* memcpy and memset scroll a picture over itself. *)
Scrolls ==
  kind = "memory" =>
    \A n \in 0 .. Len(input.m) + 1 - input.s2 : ScrollMovesUp(input.m, input.s1, input.s2, n)

(* What strcpy leaves behind its copy. *)
Strcpys == kind = "memory" => StrcpyKeepsTheOldEnd(input.m, input.s1, input.s2)

(* strcmp finds equal strings equal, and no others. *)
Strcmps == kind = "memory" => StrcmpTellsApart(input.m, input.s1, input.s2)

(* What a line of the debugger console sets. *)
DebuggerLines == kind = "line" => DebuggerSetsTwoRegisters(input.regs, input)
=============================================================================
