--------------------------- MODULE HardwareProofs ---------------------------
(***************************************************************************)
(* The emulator, the descriptor tables and the debugger console, for bytes *)
(* and digits of any number of values.                                     *)
(***************************************************************************)
EXTENDS Emulator, Descriptors, Debugger, SequenceTheorems, WellFoundedInduction, TLAPS

-----------------------------------------------------------------------------
(* Quotient and remainder, and the number they make.                       *)
LEMMA DivMod ==
  ASSUME NEW w \in Nat \ {0}, NEW x \in Int
  PROVE  x \div w \in Int /\ x % w \in 0 .. w - 1 /\ x = (x \div w) * w + (x % w)
  OBVIOUS

LEMMA DivModIs ==
  ASSUME NEW w \in Nat \ {0}, NEW k \in Int, NEW r \in 0 .. w - 1
  PROVE  (k * w + r) % w = r /\ (k * w + r) \div w = k
  OBVIOUS

LEMMA QuotientBelow ==
  ASSUME NEW w \in Nat \ {0}, NEW n \in Nat, NEW x \in 0 .. n * w - 1
  PROVE  x \div w \in 0 .. n - 1
  <1>1. x \div w \in Int /\ x % w \in 0 .. w - 1 /\ x = (x \div w) * w + (x % w)
    BY DivMod
  <1> DEFINE q == x \div w
             r == x % w
  <1> HIDE DEF q, r
  <1>2. ~(q < 0)
    <2> SUFFICES ASSUME q <= -1 PROVE FALSE
      BY <1>1 DEF q
    <2>1. q * w <= -w
      BY <1>1 DEF q, r
    <2> QED BY <1>1, <2>1 DEF q, r
  <1>3. ~(q >= n)
    <2> SUFFICES ASSUME q >= n PROVE FALSE
      OBVIOUS
    <2>1. q * w >= n * w
      BY <1>1 DEF q, r
    <2> QED BY <1>1, <2>1 DEF q, r
  <1> QED BY <1>1, <1>2, <1>3 DEF q

(* A multiple of the modulus makes no difference.                          *)
LEMMA ModShift ==
  ASSUME NEW w \in Nat \ {0}, NEW x \in Int, NEW k \in Int
  PROVE  (x + k * w) % w = x % w
  <1> DEFINE q == x \div w
             r == x % w
  <1>1. q \in Int /\ r \in 0 .. w - 1 /\ x = q * w + r
    BY DivMod
  <1> HIDE DEF q, r
  <1>2. x + k * w = (q + k) * w + r
    BY <1>1
  <1>3. q + k \in Int
    BY <1>1
  <1>4. ((q + k) * w + r) % w = r
    BY <1>1, <1>3, DivModIs
  <1> QED BY <1>2, <1>4 DEF r

LEMMA ModIs ==
  ASSUME NEW w \in Nat \ {0}, NEW x \in 0 .. w - 1
  PROVE  x % w = x
  OBVIOUS
-----------------------------------------------------------------------------
LEMMA Sizes ==
  /\ BYTE \in Nat \ {0} /\ BYTE >= 2
  /\ WORD \in Nat \ {0} /\ WORD >= 4 /\ WORD = BYTE * BYTE
  /\ DWORD \in Nat \ {0} /\ DWORD >= 16 /\ DWORD = WORD * WORD
  <1>1. BYTE \in Nat \ {0} /\ BYTE >= 2
    BY EmulatorAssumption
  <1>2. WORD \in Nat \ {0} /\ WORD >= 4 /\ WORD = BYTE * BYTE
    BY <1>1 DEF WORD
  <1>3. DWORD \in Nat \ {0} /\ DWORD >= 16 /\ DWORD = WORD * WORD
    BY <1>2 DEF DWORD
  <1> QED BY <1>1, <1>2, <1>3

LEMMA Bases ==
  ASSUME NEW id \in Ids
  PROVE  /\ Base(id) \in RegName
         /\ id \in Lows => id + 4 \in Highs /\ Base(id + 4) = Base(id)
         /\ id \in Highs => id - 4 \in Lows /\ Base(id - 4) = Base(id)
  <1>1. id \in 0 .. 32
    BY DEF Ids
  <1>2. /\ DOMAIN Main = 1 .. 9 /\ DOMAIN Special = 1 .. 7
    BY DEF Main, Special
  <1>3. CASE id < 9
    <2>1. Base(id) = Main[id + 1] /\ id + 1 \in 1 .. 9
      BY <1>1, <1>3 DEF Base, Words, Lows, Highs
    <2> QED BY <1>2, <1>3, <2>1 DEF RegName, Lows, Highs
  <1>4. CASE id \in Words
    <2>1. Base(id) = Main[id - 8] /\ id - 8 \in 1 .. 9
      BY <1>1, <1>4 DEF Base, Words, Lows, Highs
    <2> QED BY <1>2, <1>4, <2>1 DEF RegName, Lows, Highs, Words
  <1>5. CASE id \in Lows
    <2>1. Base(id) = Main[id - 17] /\ id - 17 \in 1 .. 9
      BY <1>1, <1>5 DEF Base, Words, Lows, Highs
    <2>2. Base(id + 4) = Main[id - 17]
      BY <1>1, <1>5 DEF Base, Words, Lows, Highs
    <2> QED BY <1>2, <1>5, <2>1, <2>2 DEF RegName, Lows, Highs
  <1>6. CASE id \in Highs
    <2>1. Base(id) = Main[id - 21] /\ id - 21 \in 1 .. 9
      BY <1>1, <1>6 DEF Base, Words, Lows, Highs
    <2>2. Base(id - 4) = Main[id - 21]
      BY <1>1, <1>6 DEF Base, Words, Lows, Highs
    <2> QED BY <1>2, <1>6, <2>1, <2>2 DEF RegName, Lows, Highs
  <1>7. CASE id > 25
    <2>1. Base(id) = Special[id - 25] /\ id - 25 \in 1 .. 7
      BY <1>1, <1>7 DEF Base, Words, Lows, Highs
    <2> QED BY <1>2, <1>7, <2>1 DEF RegName, Lows, Highs
  <1> QED BY <1>1, <1>3, <1>4, <1>5, <1>6, <1>7 DEF Words, Lows, Highs

(* The part of a register of value x that id reads, and the value that     *)
(* writing it leaves.                                                      *)
Part(x, id) ==
  CASE id \in Words -> x % WORD
    [] id \in Lows -> Low(x)
    [] id \in Highs -> High(x)
    [] OTHER -> x

Put(x, id, value) ==
  CASE id \in Words -> Upper(x) + (value % WORD)
    [] id \in Lows -> Upper(x) + BitOr(High(x), High(value)) * BYTE
    [] id \in Highs -> Upper(x) + BitOr(Low(x), Low(value))
    [] OTHER -> value

LEMMA ReadIs ==
  ASSUME NEW r, NEW id
  PROVE  READ_REG_BY_ID(r, id) = Part(r[Base(id)], id)
  BY DEF READ_REG_BY_ID, Part

LEMMA WriteIs ==
  ASSUME NEW r \in RegisterSets, NEW id \in Ids, NEW value
  PROVE  WRITE_REG_BY_ID(r, id, value) = [r EXCEPT ![Base(id)] = Put(r[Base(id)], id, value)]
  <1>1. Base(id) \in DOMAIN r
    BY Bases DEF RegisterSets
  <1> QED BY <1>1, Zenon DEF WRITE_REG_BY_ID, Put

(* A byte, a word and what is above it.                                    *)
LEMMA Parts ==
  ASSUME NEW x \in Dword
  PROVE  /\ x \div WORD \in 0 .. WORD - 1 /\ x % WORD \in 0 .. WORD - 1
         /\ Upper(x) = (x \div WORD) * WORD /\ x = Upper(x) + (x % WORD)
         /\ Low(x) \in Byte /\ High(x) \in Byte
         /\ x % WORD = High(x) * BYTE + Low(x)
  <1>1. x \in Nat /\ x \in 0 .. WORD * WORD - 1
    BY Sizes DEF Dword
  <1>2. x \div WORD \in 0 .. WORD - 1
    BY <1>1, Sizes, QuotientBelow
  <1>0. WORD \in Nat \ {0} /\ BYTE \in Nat \ {0}
    BY Sizes
  <1>3. x % WORD \in 0 .. WORD - 1 /\ x = (x \div WORD) * WORD + (x % WORD)
    BY <1>0, <1>1, DivMod
  <1>4. Upper(x) = (x \div WORD) * WORD /\ x = Upper(x) + (x % WORD)
    BY <1>1, <1>2, <1>3, Sizes DEF Upper
  <1> DEFINE l == x % WORD
             k == x \div WORD
  <1>5. l \in 0 .. BYTE * BYTE - 1
    BY <1>3, Sizes
  <1> HIDE DEF l, k
  <1>6. l \div BYTE \in 0 .. BYTE - 1 /\ l % BYTE \in 0 .. BYTE - 1 /\ l = (l \div BYTE) * BYTE + (l % BYTE)
    <2>1. l \div BYTE \in 0 .. BYTE - 1
      BY <1>0, <1>5, QuotientBelow
    <2>2. l \in Int
      BY <1>0, <1>5
    <2> QED BY <1>0, <2>1, <2>2, DivMod
  <1>7. k \in Int /\ x = l + (k * BYTE) * BYTE /\ k * BYTE \in Int
    BY <1>2, <1>3, <1>5, Sizes DEF k, l
  <1>8. x % BYTE = l % BYTE
    <2> DEFINE j == k * BYTE
    <2>1. j \in Int /\ l \in Int /\ x = l + j * BYTE
      BY <1>0, <1>5, <1>7
    <2> HIDE DEF j
    <2>2. (l + j * BYTE) % BYTE = l % BYTE
      BY <1>0, <2>1, ModShift
    <2> QED BY <2>1, <2>2
  <1> QED BY <1>2, <1>3, <1>4, <1>6, <1>8 DEF Low, High, Byte, l

(* A word put below what is above x.                                       *)
LEMMA PutWord ==
  ASSUME NEW x \in Dword, NEW h \in Byte, NEW l \in Byte
  PROVE  LET y == Upper(x) + (h * BYTE + l)
         IN /\ y \in Dword /\ y \div WORD = x \div WORD /\ y % WORD = h * BYTE + l
            /\ Upper(y) = Upper(x) /\ Low(y) = l /\ High(y) = h
  <1> DEFINE k == x \div WORD
             v == h * BYTE + l
             y == Upper(x) + v
  <1>1. k \in 0 .. WORD - 1 /\ Upper(x) = k * WORD
    BY Parts
  <1>2. h \in 0 .. BYTE - 1 /\ l \in 0 .. BYTE - 1
    BY DEF Byte
  <1>3. v \in 0 .. WORD - 1
    <2>1. h * BYTE <= (BYTE - 1) * BYTE /\ h * BYTE \in Nat
      BY <1>2, Sizes
    <2> QED BY <1>2, <2>1, Sizes
  <1>4. v % BYTE = l /\ v \div BYTE = h
    BY <1>2, Sizes, DivModIs
  <1> HIDE DEF k, v
  <1>5. y = k * WORD + v
    BY <1>1
  <1>6. y % WORD = v /\ y \div WORD = k
    BY <1>1, <1>3, <1>5, Sizes, DivModIs
  <1>7. y \in Dword
    <2>1. k * WORD <= (WORD - 1) * WORD /\ k * WORD \in Nat
      BY <1>1, Sizes
    <2> QED BY <1>3, <1>5, <2>1, Sizes DEF Dword
  <1>8. Low(y) = l /\ High(y) = h
    <2> HIDE DEF y
    <2>1. High(y) = h
      BY <1>4, <1>6 DEF High
    <2>2. Low(y) \in 0 .. BYTE - 1 /\ v = h * BYTE + Low(y)
      BY <1>6, <1>7, <2>1, Parts DEF Byte
    <2>3. Low(y) = l
      BY <1>2, <2>2, Sizes DEF v
    <2> QED BY <2>1, <2>3
  <1>9. Upper(y) = Upper(x)
    BY <1>1, <1>3, <1>5, <1>6, Sizes DEF Upper
  <1> QED BY <1>6, <1>7, <1>8, <1>9 DEF v, k

LEMMA PutPart ==
  ASSUME NEW x \in Dword, NEW value \in Dword, NEW id \in Ids, NEW y, y = Put(x, id, value)
  PROVE  /\ y \in Dword
         /\ id \in Words => Part(y, id) = value % WORD /\ y \div WORD = x \div WORD
                            /\ Upper(y) = Upper(x)
         /\ id \in Lows => Part(y, id) = 0 /\ y \div WORD = x \div WORD
                           /\ High(y) = BitOr(High(x), High(value))
         /\ id \in Highs => Part(y, id) = 0 /\ y \div WORD = x \div WORD
                            /\ Low(y) = BitOr(Low(x), Low(value))
         /\ id \notin Words \union Lows \union Highs => y = value /\ Part(y, id) = value
  <1>1. /\ High(x) \in Byte /\ Low(x) \in Byte /\ High(value) \in Byte /\ Low(value) \in Byte
        /\ value % WORD = High(value) * BYTE + Low(value)
    BY Parts
  <1>2. Upper(x) \in Int /\ BYTE \in Nat \ {0} /\ 0 \in Byte
    BY Parts, Sizes DEF Byte
  <1>3. CASE id \in Words
    <2>1. y = Upper(x) + (High(value) * BYTE + Low(value))
      BY <1>1, <1>3 DEF Put, Words, Lows, Highs
    <2>2. Part(y, id) = y % WORD
      BY <1>3 DEF Part, Words, Lows, Highs
    <2>3. /\ y \in Dword /\ y \div WORD = x \div WORD /\ y % WORD = value % WORD
          /\ Upper(y) = Upper(x)
      BY <1>1, <2>1, PutWord
    <2>4. id \notin Lows /\ id \notin Highs
      BY <1>3 DEF Words, Lows, Highs
    <2> QED BY <1>3, <2>2, <2>3, <2>4
  <1>4. CASE id \in Lows
    <2> DEFINE h == BitOr(High(x), High(value))
    <2>1. h \in Byte
      BY <1>1, EmulatorAssumption
    <2>2. id \notin Words /\ id \notin Highs
      BY <1>4 DEF Words, Lows, Highs
    <2>3. y = Upper(x) + h * BYTE
      BY <1>4, <2>2 DEF Put
    <2>4. Part(y, id) = Low(y)
      BY <1>4, <2>2 DEF Part
    <2> HIDE DEF h
    <2>5. y = Upper(x) + (h * BYTE + 0)
      BY <1>2, <2>1, <2>3 DEF Byte
    <2>6. y \in Dword /\ y \div WORD = x \div WORD /\ Low(y) = 0 /\ High(y) = h
      BY <1>2, <2>1, <2>5, PutWord
    <2> QED BY <1>4, <2>2, <2>4, <2>6 DEF h
  <1>5. CASE id \in Highs
    <2> DEFINE l == BitOr(Low(x), Low(value))
    <2>1. l \in Byte
      BY <1>1, EmulatorAssumption
    <2>2. id \notin Words /\ id \notin Lows
      BY <1>5 DEF Words, Lows, Highs
    <2>3. y = Upper(x) + l
      BY <1>5, <2>2 DEF Put
    <2>4. Part(y, id) = High(y)
      BY <1>5, <2>2 DEF Part
    <2> HIDE DEF l
    <2>5. y = Upper(x) + (0 * BYTE + l)
      BY <1>2, <2>1, <2>3 DEF Byte
    <2>6. y \in Dword /\ y \div WORD = x \div WORD /\ Low(y) = l /\ High(y) = 0
      BY <1>2, <2>1, <2>5, PutWord
    <2> QED BY <1>5, <2>2, <2>4, <2>6 DEF l
  <1>6. CASE id \notin Words \union Lows \union Highs
    <2>1. y = value /\ Part(y, id) = y
      BY <1>6 DEF Put, Part
    <2> QED BY <1>6, <2>1
  <1> QED BY <1>3, <1>4, <1>5, <1>6

(* A write stays in its register and, for a part of one, below its upper   *)
(* half; a byte register reads back 0 and its neighbour holds the value,   *)
(* ORed (I386EM_WRITE_REG_BY_ID_IR, i386_emulator.c).                      *)
THEOREM WritesStay ==
  \A r \in RegisterSets, id \in Ids, value \in Dword : WritesStayInPlace(r, id, value)
  <1> SUFFICES ASSUME NEW r \in RegisterSets, NEW id \in Ids, NEW value \in Dword
               PROVE  WritesStayInPlace(r, id, value)
    OBVIOUS
  <1> DEFINE b == Base(id)
             q == WRITE_REG_BY_ID(r, id, value)
  <1>x. PICK x : x = r[b]
    OBVIOUS
  <1>y. PICK y : y = Put(x, id, value)
    OBVIOUS
  <1>1. b \in RegName /\ x \in Dword /\ DOMAIN r = RegName
    BY <1>x, Bases DEF RegisterSets
  <1>2. q = [r EXCEPT ![b] = y]
    BY <1>x, <1>y, WriteIs
  <1>3. q[b] = y /\ \A n \in DOMAIN r \ {b} : q[n] = r[n]
    BY <1>1, <1>2
  <1>4. READ_REG_BY_ID(q, id) = Part(y, id)
    BY <1>3, ReadIs
  <1>5. /\ id \in Words => Part(y, id) = value % WORD /\ y \div WORD = x \div WORD
        /\ id \in Lows => Part(y, id) = 0 /\ y \div WORD = x \div WORD
                          /\ High(y) = BitOr(High(x), High(value))
        /\ id \in Highs => Part(y, id) = 0 /\ y \div WORD = x \div WORD
                           /\ Low(y) = BitOr(Low(x), Low(value))
        /\ id \notin Words \union Lows \union Highs => Part(y, id) = value
    <2> HIDE DEF b, q
    <2>0. x \in Dword
      BY <1>1
    <2>1. id \in Words => Part(y, id) = value % WORD /\ y \div WORD = x \div WORD
      BY <2>0, <1>y, PutPart
    <2>2. id \in Lows => Part(y, id) = 0 /\ y \div WORD = x \div WORD
                         /\ High(y) = BitOr(High(x), High(value))
      BY <2>0, <1>y, PutPart
    <2>3. id \in Highs => Part(y, id) = 0 /\ y \div WORD = x \div WORD
                          /\ Low(y) = BitOr(Low(x), Low(value))
      BY <2>0, <1>y, PutPart
    <2>4. id \notin Words \union Lows \union Highs => Part(y, id) = value
      BY <2>0, <1>y, PutPart
    <2> QED BY <2>1, <2>2, <2>3, <2>4
  <1>6. id \in Lows =>
          /\ READ_REG_BY_ID(q, id + 4) = High(y) /\ READ_REG_BY_ID(r, id + 4) = High(x)
    <2> SUFFICES ASSUME id \in Lows
                 PROVE  /\ READ_REG_BY_ID(q, id + 4) = High(y)
                        /\ READ_REG_BY_ID(r, id + 4) = High(x)
      OBVIOUS
    <2>1. Base(id + 4) = b /\ id + 4 \in Highs
      BY Bases
    <2>2. \A v : Part(v, id + 4) = High(v)
      BY <2>1 DEF Part, Words, Lows, Highs
    <2> QED BY <1>3, <1>x, <2>1, <2>2, ReadIs
  <1>7. id \in Highs =>
          /\ READ_REG_BY_ID(q, id - 4) = Low(y) /\ READ_REG_BY_ID(r, id - 4) = Low(x)
    <2> SUFFICES ASSUME id \in Highs
                 PROVE  /\ READ_REG_BY_ID(q, id - 4) = Low(y)
                        /\ READ_REG_BY_ID(r, id - 4) = Low(x)
      OBVIOUS
    <2>1. Base(id - 4) = b /\ id - 4 \in Lows
      BY Bases
    <2>2. \A v : Part(v, id - 4) = Low(v)
      BY <2>1 DEF Part, Words, Lows, Highs
    <2> QED BY <1>3, <1>x, <2>1, <2>2, ReadIs
  <1>8. id \notin Words \/ (id \notin Lows /\ id \notin Highs)
    BY DEF Words, Lows, Highs
  <1> HIDE DEF b, q
  <1>9. READ_REG_BY_ID(q, id) = CASE id \in Words -> value % WORD
                                  [] id \in Lows \union Highs -> 0
                                  [] OTHER -> value
    BY <1>4, <1>5, <1>8
  <1>10. id \in Words \union Lows \union Highs => q[b] \div WORD = r[b] \div WORD
    BY <1>3, <1>5, <1>x
  <1> QED BY <1>3, <1>5, <1>6, <1>7, <1>9, <1>10, Zenon DEF WritesStayInPlace, b, q
-----------------------------------------------------------------------------
(* Four bytes and the dword they make.                                     *)
LEMMA Assembled ==
  ASSUME NEW b0 \in Byte, NEW b1 \in Byte, NEW b2 \in Byte, NEW b3 \in Byte,
         NEW v, v = b0 + (b1 * BYTE) + (b2 * WORD) + (b3 * (WORD * BYTE))
  PROVE  /\ v \in Dword
         /\ ByteOf(v, 0) = b0 /\ ByteOf(v, 1) = b1 /\ ByteOf(v, 2) = b2 /\ ByteOf(v, 3) = b3
  <1> DEFINE B == BYTE
             W == WORD
             k == b3 * B + b2
             r == b1 * B + b0
             q == b1 + k * B
             top == WORD * BYTE
             low == b2 * W + r
  <1>0. B \in Nat \ {0} /\ W \in Nat \ {0} /\ W = B * B /\ WORD = W /\ BYTE = B
    BY Sizes
  <1>1. /\ b0 \in 0 .. B - 1 /\ b1 \in 0 .. B - 1 /\ b2 \in 0 .. B - 1 /\ b3 \in 0 .. B - 1
        /\ b0 \in Int /\ b1 \in Int /\ b2 \in Int /\ b3 \in Int
    BY <1>0 DEF Byte
  <1>2. DWORD = W * W
    BY DEF DWORD
  <1> HIDE DEF B, W
  <1>3. k \in 0 .. W - 1 /\ k \in Int /\ r \in 0 .. W - 1 /\ r \in Int
    <2>1. /\ b3 * B <= (B - 1) * B /\ b3 * B \in Nat
          /\ b1 * B <= (B - 1) * B /\ b1 * B \in Nat
      BY <1>0, <1>1
    <2> QED BY <1>0, <1>1, <2>1
  <1>4. v = k * W + r
    BY <1>0, <1>1, <1>3
  <1>5. v = q * B + b0 /\ q \in Int /\ q = k * B + b1
    BY <1>0, <1>1, <1>3, <1>4
  <1>6. top \in Nat \ {0} /\ v = b3 * top + low
    BY <1>0, <1>1, <1>3, <1>4
  <1>7. low \in 0 .. top - 1
    <2>1. b2 * W <= (B - 1) * W /\ b2 * W \in Nat
      BY <1>0, <1>1
    <2> QED BY <1>0, <1>1, <1>3, <2>1
  <1>8. v \in Dword
    <2>1. k * W <= (W - 1) * W /\ k * W \in Nat
      BY <1>0, <1>3
    <2> QED BY <1>0, <1>2, <1>3, <1>4, <2>1 DEF Dword
  <1>9. /\ ByteOf(v, 0) = (v \div 1) % B /\ ByteOf(v, 1) = (v \div B) % B
        /\ ByteOf(v, 2) = (v \div W) % B /\ ByteOf(v, 3) = (v \div top) % B
    BY DEF ByteOf, B, W
  <1>10. v \div 1 = v /\ v \in Int
    BY <1>0, <1>3, <1>4
  <1>11. k % B = b2
    BY <1>0, <1>1, DivModIs
  <1> HIDE DEF k, r, q, top, low
  <1>12. v % B = b0 /\ v \div B = q
    BY <1>0, <1>1, <1>5, DivModIs
  <1>13. q % B = b1
    BY <1>0, <1>1, <1>3, <1>5, DivModIs
  <1>14. v \div W = k
    BY <1>0, <1>3, <1>4, DivModIs
  <1>15. v \div top = b3
    BY <1>1, <1>6, <1>7, DivModIs
  <1>16. b3 % B = b3
    BY <1>0, <1>1, ModIs
  <1> QED BY <1>8, <1>9, <1>10, <1>11, <1>12, <1>13, <1>14, <1>15, <1>16

LEMMA Splits ==
  ASSUME NEW v \in Dword
  PROVE  \E b0, b1, b2, b3 \in Byte :
           v = b0 + (b1 * BYTE) + (b2 * WORD) + (b3 * (WORD * BYTE))
  <1> DEFINE k == v \div WORD
             b0 == Low(v)
             b1 == High(v)
             b2 == k % BYTE
             b3 == k \div BYTE
  <1>0. BYTE \in Nat \ {0} /\ WORD \in Nat \ {0} /\ WORD = BYTE * BYTE
    BY Sizes
  <1>1. /\ k \in 0 .. WORD - 1 /\ v = k * WORD + (b1 * BYTE + b0)
        /\ b0 \in Byte /\ b1 \in Byte /\ b0 \in Int /\ b1 \in Int
    BY <1>0, Parts DEF Byte
  <1>2. k \in 0 .. BYTE * BYTE - 1 /\ k \in Int
    BY <1>0, <1>1
  <1> HIDE DEF k, b0, b1
  <1>3. b3 \in 0 .. BYTE - 1
    BY <1>0, <1>2, QuotientBelow
  <1>4. b2 \in 0 .. BYTE - 1 /\ k = b3 * BYTE + b2
    BY <1>0, <1>2, DivMod
  <1>5. b2 \in Byte /\ b3 \in Byte /\ b2 \in Int /\ b3 \in Int
    BY <1>3, <1>4, <1>0 DEF Byte
  <1> HIDE DEF b2, b3
  <1>6. v = b0 + (b1 * BYTE) + (b2 * WORD) + (b3 * (WORD * BYTE))
    BY <1>0, <1>1, <1>4, <1>5
  <1> QED BY <1>1, <1>5, <1>6

LEMMA BytesOf ==
  ASSUME NEW v \in Dword
  PROVE  /\ \A i \in 0 .. 3 : ByteOf(v, i) \in Byte
         /\ v = ByteOf(v, 0) + (ByteOf(v, 1) * BYTE) + (ByteOf(v, 2) * WORD)
                + (ByteOf(v, 3) * (WORD * BYTE))
  <1>1. PICK b0 \in Byte, b1 \in Byte, b2 \in Byte, b3 \in Byte :
          v = b0 + (b1 * BYTE) + (b2 * WORD) + (b3 * (WORD * BYTE))
    BY Splits
  <1>2. ByteOf(v, 0) = b0 /\ ByteOf(v, 1) = b1 /\ ByteOf(v, 2) = b2 /\ ByteOf(v, 3) = b3
    BY <1>1, Assembled
  <1>3. \A i \in 0 .. 3 : i = 0 \/ i = 1 \/ i = 2 \/ i = 3
    OBVIOUS
  <1> QED BY <1>1, <1>2, <1>3

(* The memory is a ring of addresses.                                      *)
LEMMA Around ==
  ASSUME NEW a \in Dword, NEW x \in Dword
  PROVE  (x - a) % DWORD \in Dword /\ x = (a + ((x - a) % DWORD)) % DWORD
  BY Sizes DEF Dword

LEMMA AroundBack ==
  ASSUME NEW a \in Dword, NEW i \in Dword
  PROVE  (a + i) % DWORD \in Dword /\ (((a + i) % DWORD) - a) % DWORD = i
  BY Sizes DEF Dword

Memory == [Dword -> Byte]

LEMMA StoredBytes ==
  ASSUME NEW mem \in Memory, NEW a \in Dword, NEW value \in Dword
  PROVE  /\ Store32(mem, a, value) \in Memory
         /\ \A x \in Dword : Store32(mem, a, value)[x] =
              IF (x - a) % DWORD < 4 THEN ByteOf(value, (x - a) % DWORD) ELSE mem[x]
  <1>1. DOMAIN mem = Dword /\ \A x \in Dword : mem[x] \in Byte
    BY DEF Memory
  <1>2. Store32(mem, a, value) =
          [x \in Dword |-> IF (x - a) % DWORD < 4 THEN ByteOf(value, (x - a) % DWORD) ELSE mem[x]]
    BY <1>1, Zenon DEF Store32
  <1>3. ASSUME NEW x \in Dword, (x - a) % DWORD < 4
        PROVE  ByteOf(value, (x - a) % DWORD) \in Byte
    <2> DEFINE i == (x - a) % DWORD
    <2>1. i \in Dword
      BY Around
    <2> HIDE DEF i
    <2>2. i \in 0 .. 3
      BY <1>3, <2>1 DEF Dword, i
    <2>3. ByteOf(value, i) \in Byte
      BY <2>2, BytesOf
    <2> QED BY <2>3 DEF i
  <1> QED BY <1>1, <1>2, <1>3, Zenon DEF Memory

LEMMA LoadIs ==
  ASSUME NEW mem \in Memory, NEW a \in Dword
  PROVE  /\ \A i \in 0 .. 3 : mem[(a + i) % DWORD] \in Byte
         /\ M32(mem, a) \in Dword
         /\ \A i \in 0 .. 3 : ByteOf(M32(mem, a), i) = mem[(a + i) % DWORD]
  <1>1. \A i \in 0 .. 3 : i \in Dword
    BY Sizes DEF Dword
  <1>2. \A i \in 0 .. 3 : mem[(a + i) % DWORD] \in Byte
    BY <1>1, AroundBack DEF Memory
  <1> DEFINE b(i) == mem[(a + i) % DWORD]
             v == M32(mem, a)
  <1>3. b(0) \in Byte /\ b(1) \in Byte /\ b(2) \in Byte /\ b(3) \in Byte
    BY <1>2
  <1>4. v = b(0) + (b(1) * BYTE) + (b(2) * WORD) + (b(3) * (WORD * BYTE))
    BY DEF M32
  <1> HIDE DEF b, v
  <1>5. v \in Dword /\ ByteOf(v, 0) = b(0) /\ ByteOf(v, 1) = b(1) /\ ByteOf(v, 2) = b(2)
        /\ ByteOf(v, 3) = b(3)
    BY <1>3, <1>4, Assembled
  <1>6. \A i \in 0 .. 3 : ByteOf(v, i) = b(i)
    <2>1. \A i \in 0 .. 3 : i = 0 \/ i = 1 \/ i = 2 \/ i = 3
      OBVIOUS
    <2> QED BY <1>5, <2>1
  <1> QED BY <1>2, <1>5, <1>6 DEF b, v

(* What was stored is loaded, and storing what was there puts it back.     *)
LEMMA LoadsTheStored ==
  ASSUME NEW mem \in Memory, NEW a \in Dword, NEW value \in Dword
  PROVE  M32(Store32(mem, a, value), a) = value
  <1> DEFINE new == Store32(mem, a, value)
             b(i) == new[(a + i) % DWORD]
  <1>1. ASSUME NEW i \in 0 .. 3 PROVE b(i) = ByteOf(value, i)
    <2> DEFINE x == (a + i) % DWORD
    <2>1. i \in Dword
      BY Sizes DEF Dword
    <2>2. x \in Dword /\ (x - a) % DWORD = i
      BY <2>1, AroundBack
    <2> HIDE DEF x
    <2>3. new[x] = IF (x - a) % DWORD < 4 THEN ByteOf(value, (x - a) % DWORD) ELSE mem[x]
      BY <2>2, StoredBytes
    <2>4. new[x] = ByteOf(value, i)
      BY <2>2, <2>3
    <2> QED BY <2>4 DEF x
  <1>2. M32(new, a) = b(0) + (b(1) * BYTE) + (b(2) * WORD) + (b(3) * (WORD * BYTE))
    BY DEF M32
  <1> HIDE DEF b
  <1>3. b(0) = ByteOf(value, 0) /\ b(1) = ByteOf(value, 1) /\ b(2) = ByteOf(value, 2)
        /\ b(3) = ByteOf(value, 3)
    BY <1>1
  <1> QED BY <1>2, <1>3, BytesOf

LEMMA StoringBack ==
  ASSUME NEW mem \in Memory, NEW a \in Dword, NEW value \in Dword
  PROVE  Store32(Store32(mem, a, value), a, M32(mem, a)) = mem
  <1> DEFINE new == Store32(mem, a, value)
             old == M32(mem, a)
             back == Store32(new, a, old)
  <1>1. /\ new \in Memory
        /\ \A x \in Dword : ~((x - a) % DWORD < 4) => new[x] = mem[x]
    BY StoredBytes
  <1>2. /\ old \in Dword
        /\ \A i \in 0 .. 3 : ByteOf(old, i) = mem[(a + i) % DWORD]
    BY LoadIs
  <1> HIDE DEF new, old
  <1>3. /\ back \in Memory
        /\ \A x \in Dword : back[x] =
             IF (x - a) % DWORD < 4 THEN ByteOf(old, (x - a) % DWORD) ELSE new[x]
    BY <1>1, <1>2, StoredBytes
  <1>4. ASSUME NEW x \in Dword PROVE back[x] = mem[x]
    <2> DEFINE i == (x - a) % DWORD
    <2>1. i \in Dword /\ x = (a + i) % DWORD
      BY Around
    <2>2. back[x] = IF i < 4 THEN ByteOf(old, i) ELSE new[x]
      BY <1>3
    <2>3. ~(i < 4) => new[x] = mem[x]
      BY <1>1
    <2> HIDE DEF i, back
    <2>4. i < 4 => i \in 0 .. 3
      BY <2>1 DEF Dword
    <2> QED BY <1>2, <2>1, <2>2, <2>3, <2>4
  <1> HIDE DEF back
  <1>5. back = mem
    BY <1>3, <1>4 DEF Memory
  <1> QED BY <1>5 DEF back, new, old
-----------------------------------------------------------------------------
LEMMA PartType ==
  ASSUME NEW x \in Dword, NEW id \in Ids
  PROVE  Part(x, id) \in Dword
  <1>1. x % WORD \in 0 .. WORD - 1 /\ Low(x) \in 0 .. BYTE - 1 /\ High(x) \in 0 .. BYTE - 1
    BY Parts DEF Byte
  <1>2. WORD <= DWORD /\ BYTE <= DWORD
    BY Sizes
  <1>3. x % WORD \in Dword /\ Low(x) \in Dword /\ High(x) \in Dword
    BY <1>1, <1>2, Sizes DEF Dword
  <1> QED BY <1>3 DEF Part, Words, Lows, Highs

LEMMA RegisterTypes ==
  ASSUME NEW r \in RegisterSets, NEW id \in Ids, NEW value \in Dword
  PROVE  /\ r[Base(id)] \in Dword /\ Base(id) \in DOMAIN r
         /\ READ_REG_BY_ID(r, id) \in Dword
         /\ WRITE_REG_BY_ID(r, id, value) \in RegisterSets
  <1>1. Base(id) \in RegName /\ r \in [RegName -> Dword]
    BY Bases DEF RegisterSets
  <1>2. r[Base(id)] \in Dword /\ Base(id) \in DOMAIN r
    BY <1>1
  <1>3. READ_REG_BY_ID(r, id) \in Dword
    BY <1>2, ReadIs, PartType
  <1>4. PICK y : y = Put(r[Base(id)], id, value)
    OBVIOUS
  <1>5. y \in Dword
    BY <1>2, <1>4, PutPart
  <1>6. WRITE_REG_BY_ID(r, id, value) = [r EXCEPT ![Base(id)] = y]
    BY <1>4, WriteIs
  <1> QED BY <1>1, <1>2, <1>3, <1>5, <1>6 DEF RegisterSets

LEMMA OperandIs ==
  ASSUME NEW op \in LOperands
  PROVE  op.v \in Ids /\ op.type \in {"REG", "MEM", "SIB_RRN", "SIB_DRRN", "SIB_DRN"}
  BY DEF LOperands

LEMMA AddressType ==
  ASSUME NEW r \in RegisterSets, NEW op \in LOperands, op.type # "REG"
  PROVE  Address(r, op) \in Dword
  <1>1. /\ op.v \in Ids /\ op.v \in 0 .. 32
        /\ op.type \in {"MEM", "SIB_RRN", "SIB_DRRN", "SIB_DRN"}
    BY OperandIs DEF Ids
  <1> DEFINE x == READ_REG_BY_ID(r, op.v)
             n == op.v
  <1>2. x \in Dword /\ x \in Int
    <2>1. 0 \in Dword
      BY Sizes DEF Dword
    <2> QED BY <1>1, <2>1, RegisterTypes DEF Dword
  <1>3. Address(r, op) \in {x, (x + x * n) % DWORD, (x + x * n + n) % DWORD, (x * n + n) % DWORD}
    BY <1>1 DEF Address
  <1>4. n \in Int
    BY <1>1
  <1> HIDE DEF x, n
  <1>5. x + x * n \in Int /\ x + x * n + n \in Int /\ x * n + n \in Int
    BY <1>2, <1>4
  <1>6. \A z \in Int : z % DWORD \in Dword
    BY Sizes, DivMod DEF Dword
  <1> QED BY <1>2, <1>3, <1>5, <1>6

LEMMA OperandTypes ==
  ASSUME NEW s \in States
  PROVE  /\ s.regs \in RegisterSets /\ s.mem \in Memory
         /\ s = [regs |-> s.regs, mem |-> s.mem]
         /\ \A op \in LOperands : LEGET(s, op) \in Dword
         /\ \A op \in ROperands : REGET(s, op) \in Dword
  <1>1. s.regs \in RegisterSets /\ s.mem \in Memory /\ s = [regs |-> s.regs, mem |-> s.mem]
    BY DEF States, Memory
  <1>2. ASSUME NEW op \in LOperands PROVE LEGET(s, op) \in Dword
    <2>1. op.v \in Ids
      BY OperandIs
    <2>2. CASE op.type = "REG"
      <3>1. 0 \in Dword
        BY Sizes DEF Dword
      <3> QED BY <1>1, <2>1, <2>2, <3>1, RegisterTypes DEF LEGET
    <2>3. CASE op.type # "REG"
      BY <1>1, <2>3, AddressType, LoadIs DEF LEGET
    <2> QED BY <2>2, <2>3
  <1>3. ASSUME NEW op \in ROperands PROVE REGET(s, op) \in Dword
    <2>1. CASE op.type = "IMM"
      <3>1. op \notin LOperands
        BY <2>1 DEF LOperands
      <3>2. op.v \in Dword
        BY <3>1 DEF ROperands
      <3> QED BY <2>1, <3>2 DEF REGET
    <2>2. CASE op.type # "IMM"
      <3>1. op \in LOperands
        BY <2>2 DEF ROperands
      <3> QED BY <1>2, <2>2, <3>1 DEF REGET
    <2> QED BY <2>1, <2>2
  <1> QED BY <1>1, <1>2, <1>3

(* A state of registers and memory, and what writing an operand makes of it. *)
StateOf(regs, mem) == [regs |-> regs, mem |-> mem]

LEMMA StateOfIs ==
  ASSUME NEW regs \in RegisterSets, NEW mem \in Memory
  PROVE  /\ StateOf(regs, mem) \in States
         /\ StateOf(regs, mem).regs = regs /\ StateOf(regs, mem).mem = mem
  BY DEF StateOf, States, Memory

LEMMA SetsRegister ==
  ASSUME NEW s \in States, NEW op \in LOperands, NEW value \in Dword, op.type = "REG"
  PROVE  LESET(s, op, value) = StateOf(WRITE_REG_BY_ID(s.regs, op.v, value), s.mem)
  <1>1. s = [regs |-> s.regs, mem |-> s.mem]
    BY OperandTypes
  <1>2. \A x : [s EXCEPT !.regs = x] = StateOf(x, s.mem)
    BY <1>1 DEF StateOf
  <1>3. LESET(s, op, value) = [s EXCEPT !.regs = WRITE_REG_BY_ID(s.regs, op.v, value)]
    BY <1>1, Zenon DEF LESET
  <1> QED BY <1>2, <1>3

LEMMA SetsMemory ==
  ASSUME NEW s \in States, NEW op \in LOperands, NEW value \in Dword, op.type # "REG"
  PROVE  LESET(s, op, value) = StateOf(s.regs, Store32(s.mem, Address(s.regs, op), value))
  <1>1. s = [regs |-> s.regs, mem |-> s.mem]
    BY OperandTypes
  <1>2. \A x : [s EXCEPT !.mem = x] = StateOf(s.regs, x)
    BY <1>1 DEF StateOf
  <1>3. LESET(s, op, value) = [s EXCEPT !.mem = Store32(s.mem, Address(s.regs, op), value)]
    BY <1>1, Zenon DEF LESET
  <1> QED BY <1>2, <1>3

(* Adding and taking back, in a dword and through a word of it.            *)
LEMMA DwordBack ==
  ASSUME NEW l \in Dword, NEW n \in Dword
  PROVE  (l + n) % DWORD \in Dword /\ (((l + n) % DWORD) - n) % DWORD = l
  BY Sizes DEF Dword

LEMMA ModMod ==
  ASSUME NEW z \in Int
  PROVE  (z % DWORD) % WORD = z % WORD /\ z % DWORD \in Int
  <1> DEFINE q == z \div DWORD
             m == z % DWORD
  <1>0. WORD \in Nat \ {0} /\ DWORD \in Nat \ {0} /\ DWORD = WORD * WORD
    BY Sizes
  <1>1. q \in Int /\ m \in Int /\ z = q * DWORD + m
    <2>1. DWORD \in Nat \ {0}
      BY Sizes
    <2> QED BY <2>1, DivMod
  <1> HIDE DEF q, m
  <1>2. z = m + (q * WORD) * WORD /\ q * WORD \in Int
    BY <1>0, <1>1
  <1>3. (m + (q * WORD) * WORD) % WORD = m % WORD
    BY <1>0, <1>1, <1>2, ModShift
  <1> QED BY <1>1, <1>2, <1>3 DEF m

LEMMA WordBack ==
  ASSUME NEW l \in 0 .. WORD - 1, NEW n \in Dword
  PROVE  ((((((l + n) % DWORD) % WORD) - n) % DWORD) % WORD) = l
  <1> DEFINE sum == (l + n) % DWORD
             w == sum % WORD
             j == sum \div WORD
             k == (l + n) \div DWORD
  <1>0. WORD \in Nat \ {0} /\ DWORD \in Nat \ {0} /\ DWORD = WORD * WORD /\ l \in Int /\ n \in Int
    BY Sizes DEF Dword
  <1>1. k \in Int /\ sum \in Int /\ l + n = k * DWORD + sum
    <2>1. DWORD \in Nat \ {0}
      BY Sizes
    <2> DEFINE z == l + n
    <2>2. z \in Int
      BY <1>0
    <2> HIDE DEF z
    <2>3. z \div DWORD \in Int /\ z % DWORD \in Int /\ z = (z \div DWORD) * DWORD + (z % DWORD)
      BY <2>1, <2>2, DivMod
    <2> QED BY <2>3 DEF z
  <1> HIDE DEF k, sum
  <1>2. j \in Int /\ w \in Int /\ sum = j * WORD + w
    BY <1>0, <1>1, DivMod
  <1> HIDE DEF j, w
  <1>3. ((w - n) % DWORD) % WORD = (w - n) % WORD
    <2> DEFINE z == w - n
    <2>1. z \in Int
      BY <1>0, <1>2
    <2> HIDE DEF z
    <2>2. (z % DWORD) % WORD = z % WORD
      BY <2>1, ModMod
    <2> QED BY <2>2 DEF z
  <1> DEFINE m == -(j + k * WORD)
  <1>4. m \in Int /\ w - n = l + m * WORD
    BY <1>0, <1>1, <1>2
  <1> HIDE DEF m
  <1>5. (l + m * WORD) % WORD = l % WORD
    BY <1>0, <1>4, ModShift
  <1>6. l % WORD = l
    BY <1>0, ModIs
  <1> QED BY <1>3, <1>4, <1>5, <1>6 DEF w, sum

(* In a register that is not a byte, sub takes back what add put.          *)
LEMMA PutBack ==
  ASSUME NEW x \in Dword, NEW n \in Dword, NEW id \in Ids, id \notin Lows \union Highs,
         NEW y, y = Put(x, id, (Part(x, id) + n) % DWORD)
  PROVE  Put(y, id, (Part(y, id) - n) % DWORD) = x
  <1>1. CASE id \in Words
    <2> DEFINE l == x % WORD
               sum == (l + n) % DWORD
               diff == (Part(y, id) - n) % DWORD
    <2>1. Part(x, id) = l /\ \A v : Put(y, id, v) = Upper(y) + (v % WORD)
      BY <1>1 DEF Part, Put, Words, Lows, Highs
    <2>2. l \in 0 .. WORD - 1 /\ x = Upper(x) + l
      BY Parts
    <2>3. l \in Dword /\ sum \in Dword
      <3>1. l \in Dword
        BY <2>1, PartType
      <3> QED BY <3>1, DwordBack
    <2>4. y = Put(x, id, sum)
      BY <2>1
    <2> HIDE DEF sum
    <2>5. Part(y, id) = sum % WORD /\ Upper(y) = Upper(x)
      BY <1>1, <2>3, <2>4, PutPart
    <2> HIDE DEF l
    <2>6. diff % WORD = l
      BY <2>2, <2>5, WordBack DEF sum
    <2> QED BY <2>1, <2>2, <2>5, <2>6
  <1>2. CASE id \notin Words
    <2>1. Part(x, id) = x /\ Part(y, id) = y /\ \A v, z : Put(z, id, v) = v
      BY <1>2 DEF Part, Put
    <2>2. y = (x + n) % DWORD
      BY <2>1
    <2> QED BY <2>1, <2>2, DwordBack
  <1> QED BY <1>1, <1>2

(* sub takes back what add did unless the source or the address changed or *)
(* the destination is a byte (i386_emu_int_regs_add and _sub).             *)
THEOREM SubTakesBack ==
  \A s \in States, arg0 \in LOperands, arg1 \in ROperands : SubUndoesAdd(s, arg0, arg1)
  <1> SUFFICES ASSUME NEW s \in States, NEW arg0 \in LOperands, NEW arg1 \in ROperands,
                      ~IsByte(arg0), REGET(add(s, arg0, arg1), arg1) = REGET(s, arg1)
               PROVE  sub(add(s, arg0, arg1), arg0, arg1) = s
    BY DEF SubUndoesAdd
  <1> DEFINE n == REGET(s, arg1)
             l == LEGET(s, arg0)
             t == add(s, arg0, arg1)
             sum == (l + n) % DWORD
             r == s.regs
             id == arg0.v
  <1>1. /\ r \in RegisterSets /\ s.mem \in Memory /\ s = StateOf(r, s.mem)
        /\ n \in Dword /\ l \in Dword /\ id \in Ids
    BY OperandTypes, OperandIs DEF StateOf
  <1>2. sum \in Dword
    BY <1>1, DwordBack
  <1>3. t = LESET(s, arg0, sum)
    BY DEF add
  <1>4. sub(t, arg0, arg1) = LESET(t, arg0, (LEGET(t, arg0) - n) % DWORD)
    BY DEF sub
  <1> HIDE DEF n, l, t, sum
  <1>5. ASSUME arg0.type = "REG" PROVE sub(t, arg0, arg1) = s
    <2> DEFINE b == Base(id)
               x == r[b]
    <2>1. id \notin Lows \union Highs
      BY <1>5 DEF IsByte
    <2>2. x \in Dword /\ b \in DOMAIN r
      BY <1>1, RegisterTypes
    <2>3. PICK y : y = Put(x, id, sum)
      OBVIOUS
    <2> DEFINE q == [r EXCEPT ![b] = y]
    <2>4. q = WRITE_REG_BY_ID(r, id, sum)
      BY <1>1, <2>3, WriteIs
    <2>5. q \in RegisterSets /\ q[b] = y
      BY <1>1, <1>2, <2>2, <2>4, RegisterTypes
    <2>6. t = StateOf(q, s.mem)
      BY <1>2, <1>3, <1>5, <2>4, SetsRegister
    <2>7. t \in States /\ t.regs = q /\ t.mem = s.mem
      BY <1>1, <2>5, <2>6, StateOfIs
    <2>8. l = Part(x, id)
      BY <1>5, ReadIs DEF LEGET, l
    <2>9. LEGET(t, arg0) = Part(y, id)
      BY <1>5, <2>5, <2>7, ReadIs DEF LEGET
    <2> DEFINE back == (Part(y, id) - n) % DWORD
    <2> HIDE DEF x, b, q
    <2>10. y = Put(x, id, (Part(x, id) + n) % DWORD)
      BY <2>3, <2>8 DEF sum
    <2>11. Put(y, id, back) = x
      BY <1>1, <2>1, <2>2, <2>10, PutBack
    <2>12. back \in Dword
      <3>1. Part(y, id) \in Dword
        BY <2>7, <2>9, OperandTypes
      <3> QED BY <1>1, <3>1, Sizes DEF Dword
    <2> HIDE DEF back
    <2>13. LESET(t, arg0, back) = StateOf(WRITE_REG_BY_ID(q, id, back), s.mem)
      BY <1>5, <2>7, <2>12, SetsRegister
    <2>14. WRITE_REG_BY_ID(q, id, back) = [q EXCEPT ![b] = x]
      BY <1>1, <2>5, <2>11, WriteIs DEF b
    <2>15. [q EXCEPT ![b] = x] = r
      BY <1>1, <2>2, <2>5 DEF q, x, RegisterSets
    <2> QED BY <1>1, <1>4, <2>9, <2>13, <2>14, <2>15 DEF back
  <1>6. ASSUME arg0.type # "REG" PROVE sub(t, arg0, arg1) = s
    <2> DEFINE a == Address(r, arg0)
               mem == Store32(s.mem, a, sum)
    <2>1. a \in Dword
      BY <1>1, <1>6, AddressType
    <2>2. mem \in Memory
      BY <1>1, <1>2, <2>1, StoredBytes
    <2>3. t = StateOf(r, mem)
      BY <1>2, <1>3, <1>6, SetsMemory
    <2> HIDE DEF a, mem
    <2>4. t \in States /\ t.regs = r /\ t.mem = mem
      BY <1>1, <2>2, <2>3, StateOfIs
    <2>5. l = M32(s.mem, a) /\ LEGET(t, arg0) = M32(mem, a)
      BY <1>6, <2>4 DEF LEGET, l, a
    <2>6. M32(mem, a) = sum
      BY <1>1, <1>2, <2>1, LoadsTheStored DEF mem
    <2>7. (sum - n) % DWORD = l
      BY <1>1, DwordBack DEF sum
    <2>8. LESET(t, arg0, l) = StateOf(r, Store32(mem, a, l))
      BY <1>1, <1>6, <2>4, SetsMemory DEF a
    <2>9. Store32(mem, a, l) = s.mem
      BY <1>1, <1>2, <2>1, <2>5, StoringBack DEF mem
    <2> QED BY <1>1, <1>4, <2>5, <2>6, <2>7, <2>8, <2>9
  <1>7. sub(t, arg0, arg1) = s
    BY <1>5, <1>6
  <1> QED BY <1>7 DEF t
-----------------------------------------------------------------------------
LEMMA StackPointer ==
  ASSUME NEW r \in RegisterSets, NEW x \in Dword
  PROVE  /\ "esp" \in RegName /\ r["esp"] \in Dword
         /\ [r EXCEPT !["esp"] = x] \in RegisterSets /\ [r EXCEPT !["esp"] = x]["esp"] = x
  <1>1. Main[7] = "esp" /\ 7 \in DOMAIN Main
    BY DEF Main
  <1>2. "esp" \in RegName
    BY <1>1 DEF RegName
  <1> QED BY <1>2 DEF RegisterSets

LEMMA MovesStack ==
  ASSUME NEW r \in RegisterSets, NEW mem \in Memory, NEW by \in Int
  PROVE  MoveESP(StateOf(r, mem), by) =
           StateOf([r EXCEPT !["esp"] = (r["esp"] + by) % DWORD], mem)
  <1> DEFINE s == StateOf(r, mem)
  <1>1. s = [regs |-> r, mem |-> mem] /\ s.regs = r
    BY DEF StateOf
  <1>2. \A x : [s EXCEPT !.regs = x] = StateOf(x, mem)
    BY <1>1 DEF StateOf
  <1>3. "esp" \in DOMAIN r
    <2>1. 0 \in Dword
      BY Sizes DEF Dword
    <2> QED BY <2>1, StackPointer DEF RegisterSets
  <1> HIDE DEF s
  <1>4. MoveESP(s, by) = [s EXCEPT !.regs = [r EXCEPT !["esp"] = (r["esp"] + by) % DWORD]]
    BY <1>1, <1>3, Zenon DEF MoveESP
  <1> QED BY <1>2, <1>4 DEF s

(* Four down and four up again; the four bytes in between.                 *)
LEMMA FourDown ==
  ASSUME NEW e \in Dword
  PROVE  /\ (e - 4) % DWORD \in Dword /\ (e + (-4)) % DWORD = (e - 4) % DWORD
         /\ (((e - 4) % DWORD) + 4) % DWORD = e
         /\ \A x \in Dword : (x - ((e - 4) % DWORD)) % DWORD < 4 =>
              \E i \in 1 .. 4 : x = (e - i) % DWORD
  <1> DEFINE f == (e - 4) % DWORD
  <1>1. f \in Dword /\ (e + (-4)) % DWORD = f /\ (f + 4) % DWORD = e
    BY Sizes DEF Dword
  <1>2. f = e - 4 \/ f = e - 4 + DWORD
    BY Sizes DEF Dword
  <1> HIDE DEF f
  <1>3. ASSUME NEW x \in Dword, (x - f) % DWORD < 4
        PROVE  \E i \in 1 .. 4 : x = (e - i) % DWORD
    <2> DEFINE j == (x - f) % DWORD
               i == 4 - j
    <2>1. j \in Dword /\ x = (f + j) % DWORD
      BY <1>1, Around
    <2>2. j \in 0 .. 3
      BY <1>3, <2>1 DEF Dword
    <2> HIDE DEF j
    <2>3. i \in 1 .. 4 /\ i \in Int
      BY <2>2
    <2>4. (f + j) % DWORD = (e - i) % DWORD
      <3>1. CASE f = e - 4
        <4>1. f + j = e - i
          BY <3>1, <2>2, Sizes DEF Dword
        <4> QED BY <4>1
      <3>2. CASE f = e - 4 + DWORD
        <4> DEFINE z == e - i
        <4>1. f + j = z + 1 * DWORD /\ z \in Int
          BY <3>2, <2>2, Sizes DEF Dword
        <4> HIDE DEF z
        <4>2. (z + 1 * DWORD) % DWORD = z % DWORD
          <5>1. DWORD \in Nat \ {0} /\ 1 \in Int
            BY Sizes
          <5> QED BY <4>1, <5>1, ModShift
        <4> QED BY <4>1, <4>2 DEF z
      <3> QED BY <1>2, <3>1, <3>2
    <2> QED BY <2>1, <2>3, <2>4
  <1> QED BY <1>1, <1>3 DEF f

(* What an operand is depends on its register and the memory alone.        *)
LEMMA OperandDependsOnItsRegister ==
  ASSUME NEW r \in RegisterSets, NEW q \in RegisterSets, NEW mem \in Memory,
         \A n \in RegName \ {"esp"} : q[n] = r[n]
  PROVE  /\ \A op \in LOperands : ~UsesESP(op) =>
              /\ q[Base(op.v)] = r[Base(op.v)] /\ Base(op.v) # "esp"
              /\ Address(q, op) = Address(r, op)
         /\ \A op \in ROperands : ~UsesESP(op) =>
              REGET(StateOf(q, mem), op) = REGET(StateOf(r, mem), op)
  <1>1. ASSUME NEW op \in LOperands, ~UsesESP(op)
        PROVE  /\ q[Base(op.v)] = r[Base(op.v)] /\ Base(op.v) # "esp"
               /\ Address(q, op) = Address(r, op)
               /\ REGET(StateOf(q, mem), op) = REGET(StateOf(r, mem), op)
    <2>1. op.type # "IMM" /\ op.v \in Ids
      BY OperandIs
    <2>2. Base(op.v) # "esp" /\ Base(op.v) \in RegName
      BY <1>1, <2>1, Bases DEF UsesESP
    <2>3. q[Base(op.v)] = r[Base(op.v)]
      BY <2>2
    <2>4. READ_REG_BY_ID(q, op.v) = READ_REG_BY_ID(r, op.v)
      BY <2>3, ReadIs
    <2>5. Address(q, op) = Address(r, op)
      BY <2>4, Zenon DEF Address
    <2>6. /\ StateOf(q, mem).regs = q /\ StateOf(q, mem).mem = mem
          /\ StateOf(r, mem).regs = r /\ StateOf(r, mem).mem = mem
      BY StateOfIs
    <2>7. REGET(StateOf(q, mem), op) = REGET(StateOf(r, mem), op)
      BY <2>1, <2>4, <2>5, <2>6, Zenon DEF REGET, LEGET
    <2> QED BY <2>2, <2>3, <2>5, <2>7
  <1>2. ASSUME NEW op \in ROperands, ~UsesESP(op)
        PROVE  REGET(StateOf(q, mem), op) = REGET(StateOf(r, mem), op)
    <2>1. CASE op.type = "IMM"
      BY <2>1 DEF REGET
    <2>2. CASE op.type # "IMM"
      <3>1. op \in LOperands
        BY <2>2 DEF ROperands
      <3> QED BY <1>1, <1>2, <3>1
    <2> QED BY <2>1, <2>2
  <1> QED BY <1>1, <1>2

(* push and pop move a value and change nothing else but what lies below   *)
(* the stack (i386_emu_int_regs_push and _pop).                            *)
THEOREM PushAndPopMove ==
  \A s \in States, arg0 \in LOperands, arg1 \in ROperands : PushThenPopMoves(s, arg0, arg1)
  <1> SUFFICES ASSUME NEW s \in States, NEW arg0 \in LOperands, NEW arg1 \in ROperands,
                      ~UsesESP(arg0), ~UsesESP(arg1), ~IsByte(arg0)
               PROVE  PushThenPopMoves(s, arg0, arg1)
    BY DEF PushThenPopMoves
  <1> DEFINE r == s.regs
             mem == s.mem
             n == REGET(s, arg1)
             e == r["esp"]
             f == (e - 4) % DWORD
             q == [r EXCEPT !["esp"] = f]
             id == arg0.v
             mem1 == Store32(mem, f, n)
             a == Address(r, arg0)
             t == pop(push(s, arg1), arg0)
             under == [s EXCEPT !.mem = Store32(@, (ESP(s) - 4) % DWORD, REGET(s, arg1))]
             below == {(ESP(s) - i) % DWORD : i \in 1 .. 4}
  <1>1. /\ r \in RegisterSets /\ mem \in Memory /\ s = StateOf(r, mem) /\ n \in Dword /\ id \in Ids
        /\ s.regs = r /\ s.mem = mem /\ ESP(s) = e
    BY OperandTypes, OperandIs DEF StateOf, ESP
  <1>2. e \in Dword
    BY <1>1, StackPointer
  <1>3. f \in Dword /\ (e + (-4)) % DWORD = f /\ (f + 4) % DWORD = e
    BY <1>2, FourDown
  <1>4. q \in RegisterSets /\ q["esp"] = f /\ "esp" \in RegName
    BY <1>1, <1>3, StackPointer
  <1>5. \A m \in RegName \ {"esp"} : q[m] = r[m]
    BY <1>1 DEF RegisterSets
  <1>6. [q EXCEPT !["esp"] = e] = r
    BY <1>1, <1>2, <1>4 DEF RegisterSets
  <1>7. mem1 \in Memory /\ M32(mem1, f) = n
    BY <1>1, <1>3, StoredBytes, LoadsTheStored
  <1>8. under = StateOf(r, mem1)
    <2>1. [s EXCEPT !.mem = mem1] = StateOf(r, mem1)
      BY <1>1 DEF StateOf
    <2> QED BY <1>1, <2>1
  <1> HIDE DEF r, mem, n, e, f, mem1, under
  <1>9. push(s, arg1) = StateOf(q, mem1)
    <2> DEFINE m == MoveESP(s, -4)
    <2>1. m = StateOf(q, mem)
      <3>1. MoveESP(StateOf(r, mem), -4) = StateOf([r EXCEPT !["esp"] = (e + (-4)) % DWORD], mem)
        BY <1>1, MovesStack DEF e
      <3> QED BY <1>1, <1>3, <3>1
    <2> HIDE DEF m, q
    <2>2. m.regs = q /\ m.mem = mem /\ ESP(m) = f
      BY <1>1, <1>4, <2>1, StateOfIs DEF ESP
    <2>3. REGET(m, arg1) = n
      BY <1>1, <1>4, <1>5, <2>1, OperandDependsOnItsRegister DEF n
    <2>4. push(s, arg1) = [m EXCEPT !.mem = Store32(m.mem, ESP(m), REGET(m, arg1))]
      BY <2>1, Zenon DEF push, m, StateOf
    <2>5. [m EXCEPT !.mem = mem1] = StateOf(q, mem1)
      BY <2>1 DEF StateOf
    <2> QED BY <2>2, <2>3, <2>4, <2>5 DEF mem1
  <1> DEFINE p == StateOf(q, mem1)
  <1>10. p \in States /\ p.regs = q /\ p.mem = mem1 /\ ESP(p) = f
    BY <1>4, <1>7, StateOfIs DEF ESP
  <1>11. t = MoveESP(LESET(p, arg0, n), 4)
    BY <1>7, <1>9, <1>10 DEF pop
  <1>12. under \in States /\ under.regs = r /\ under.mem = mem1
    BY <1>1, <1>7, <1>8, StateOfIs
  <1>13. q[Base(id)] = r[Base(id)] /\ Base(id) # "esp" /\ Address(q, arg0) = a
    BY <1>1, <1>4, <1>5, OperandDependsOnItsRegister
  <1> HIDE DEF p, q, t, a
  <1>14. ASSUME arg0.type = "REG"
         PROVE  t = LESET(under, arg0, n) /\ t.mem = mem1
    <2> DEFINE b == Base(id)
    <2>1. PICK y : y = Put(r[b], id, n)
      OBVIOUS
    <2> DEFINE w == WRITE_REG_BY_ID(q, id, n)
               v == WRITE_REG_BY_ID(r, id, n)
    <2>2. w \in RegisterSets /\ v \in RegisterSets /\ b \in RegName
      BY <1>1, <1>4, RegisterTypes, Bases
    <2>3. w = [q EXCEPT ![b] = y] /\ v = [r EXCEPT ![b] = y]
      BY <1>1, <1>4, <1>13, <2>1, WriteIs
    <2> HIDE DEF w, v, b
    <2>4. b # "esp"
      BY <1>13 DEF b
    <2>5. w["esp"] = f
      BY <1>4, <2>3, <2>4 DEF RegisterSets
    <2>6. [w EXCEPT !["esp"] = e] = v
      BY <1>1, <1>4, <1>5, <1>6, <2>2, <2>3, <2>4 DEF RegisterSets
    <2>7. LESET(p, arg0, n) = StateOf(w, mem1) /\ LESET(under, arg0, n) = StateOf(v, mem1)
      BY <1>1, <1>10, <1>12, <1>14, SetsRegister DEF w, v
    <2>8. t = StateOf(v, mem1)
      BY <1>3, <1>7, <1>11, <2>2, <2>5, <2>6, <2>7, MovesStack
    <2>9. t.mem = mem1
      BY <1>7, <2>2, <2>8, StateOfIs
    <2> QED BY <2>7, <2>8, <2>9
  <1>15. ASSUME arg0.type # "REG"
         PROVE  t = LESET(under, arg0, n) /\ t.mem = Store32(mem1, a, n)
    <2>1. a \in Dword
      BY <1>1, <1>15, AddressType DEF a
    <2> DEFINE mem2 == Store32(mem1, a, n)
    <2>2. mem2 \in Memory
      BY <1>1, <1>7, <2>1, StoredBytes
    <2> HIDE DEF mem2
    <2>3. LESET(p, arg0, n) = StateOf(q, mem2) /\ LESET(under, arg0, n) = StateOf(r, mem2)
      BY <1>1, <1>10, <1>12, <1>13, <1>15, SetsMemory DEF mem2, a
    <2>4. t = StateOf(r, mem2)
      BY <1>3, <1>4, <1>6, <1>11, <2>2, <2>3, MovesStack
    <2>5. t.mem = mem2
      BY <1>1, <2>2, <2>4, StateOfIs
    <2> QED BY <2>3, <2>4, <2>5 DEF mem2
  <1>16. ASSUME NEW x \in Dword \ below, t.mem[x] # mem[x]
         PROVE  arg0.type # "REG" /\ (x - a) % DWORD < 4
    <2>1. ~((x - f) % DWORD < 4)
      BY <1>1, <1>2, <1>16, FourDown DEF f
    <2>2. mem1[x] = mem[x]
      BY <1>1, <1>3, <2>1, StoredBytes DEF mem1
    <2>3. arg0.type # "REG"
      BY <1>14, <1>16, <2>2
    <2>4. a \in Dword
      BY <1>1, <2>3, AddressType DEF a
    <2>5. Store32(mem1, a, n)[x] # mem1[x]
      BY <1>15, <1>16, <2>2, <2>3
    <2>6. (x - a) % DWORD < 4
      BY <1>1, <1>7, <2>4, <2>5, StoredBytes
    <2> QED BY <2>3, <2>6
  <1>17. t = LESET(under, arg0, n)
    BY <1>14, <1>15
  <1>18. DOMAIN mem = Dword
    BY <1>1 DEF Memory
  <1> QED BY <1>1, <1>16, <1>17, <1>18, Zenon DEF PushThenPopMoves, t, under, n, a, r, mem
-----------------------------------------------------------------------------
LEMMA DigitSizes ==
  /\ DIGIT \in Nat \ {0} /\ DIGIT2 \in Nat \ {0} /\ DIGIT4 \in Nat \ {0} /\ DIGIT6 \in Nat \ {0}
  /\ PAGE \in Nat \ {0}
  /\ DIGIT4 = DIGIT2 * DIGIT2 /\ DIGIT6 = DIGIT4 * DIGIT2 /\ PAGE = DIGIT2 * DIGIT
  /\ DIGIT >= 2 /\ DIGIT2 >= DIGIT /\ PAGE < DIGIT4 * DIGIT
  <1>1. DIGIT \in Nat \ {0} /\ DIGIT >= 2
    BY DescriptorAssumption
  <1>2. DIGIT2 \in Nat \ {0} /\ DIGIT2 >= DIGIT /\ DIGIT2 >= 2
    BY <1>1 DEF DIGIT2
  <1>3. DIGIT4 \in Nat \ {0} /\ DIGIT4 = DIGIT2 * DIGIT2 /\ DIGIT4 > DIGIT2
    BY <1>2 DEF DIGIT4
  <1>4. DIGIT6 \in Nat \ {0} /\ DIGIT6 = DIGIT4 * DIGIT2
    BY <1>2, <1>3 DEF DIGIT6
  <1>5. PAGE \in Nat \ {0} /\ PAGE = DIGIT2 * DIGIT
    BY <1>1, <1>2 DEF PAGE
  <1>6. PAGE < DIGIT4 * DIGIT
    BY <1>1, <1>2, <1>3, <1>5
  <1> QED BY <1>1, <1>2, <1>3, <1>4, <1>5, <1>6

(* The number in the fields of a base, and of a limit, is the one put in.  *)
LEMMA BaseIs ==
  ASSUME NEW base \in DoubleWord
  PROVE  (base % DIGIT4) + ((base \div DIGIT4) % DIGIT2) * DIGIT4
           + ((base \div DIGIT6) % DIGIT2) * DIGIT6 = base
  <1> DEFINE k == base \div DIGIT4
             lo == base % DIGIT4
             hi == k \div DIGIT2
             mid == k % DIGIT2
             rest == mid * DIGIT4 + lo
  <1>0. /\ DIGIT2 \in Nat \ {0} /\ DIGIT4 \in Nat \ {0} /\ DIGIT6 \in Nat \ {0}
        /\ DIGIT4 = DIGIT2 * DIGIT2 /\ DIGIT6 = DIGIT4 * DIGIT2
    BY DigitSizes
  <1>1. base \in 0 .. DIGIT4 * DIGIT4 - 1 /\ base \in Int
    BY <1>0 DEF DoubleWord
  <1>2. k \in 0 .. DIGIT4 - 1
    BY <1>0, <1>1, QuotientBelow
  <1>3. lo \in 0 .. DIGIT4 - 1 /\ base = k * DIGIT4 + lo
    BY <1>0, <1>1, DivMod
  <1>4. k \in 0 .. DIGIT2 * DIGIT2 - 1 /\ k \in Int
    BY <1>0, <1>2
  <1> HIDE DEF k, lo
  <1>5. hi \in 0 .. DIGIT2 - 1
    BY <1>0, <1>4, QuotientBelow
  <1>6. mid \in 0 .. DIGIT2 - 1 /\ k = hi * DIGIT2 + mid
    BY <1>0, <1>4, DivMod
  <1> HIDE DEF hi, mid
  <1>7. hi \in Int /\ mid \in Int /\ lo \in Int
    BY <1>0, <1>3, <1>5, <1>6
  <1>8. rest \in 0 .. DIGIT6 - 1
    <2>1. mid * DIGIT4 <= (DIGIT2 - 1) * DIGIT4 /\ mid * DIGIT4 \in Nat
      BY <1>0, <1>6
    <2> QED BY <1>0, <1>3, <2>1
  <1>9. base = hi * DIGIT6 + rest
    BY <1>0, <1>3, <1>6, <1>7
  <1> HIDE DEF rest
  <1>10. base \div DIGIT6 = hi
    BY <1>0, <1>7, <1>8, <1>9, DivModIs
  <1>11. hi % DIGIT2 = hi
    BY <1>0, <1>5, ModIs
  <1> QED BY <1>9, <1>10, <1>11, <1>7, <1>8, <1>0 DEF rest, mid, lo, k

LEMMA LimitIs ==
  ASSUME NEW n \in 0 .. DIGIT4 * DIGIT - 1
  PROVE  (n % DIGIT4) + ((n \div DIGIT4) % DIGIT) * DIGIT4 = n
  <1> DEFINE k == n \div DIGIT4
  <1>0. DIGIT \in Nat \ {0} /\ DIGIT4 \in Nat \ {0} /\ n \in Int /\ n \in 0 .. DIGIT * DIGIT4 - 1
    BY DigitSizes
  <1>1. k \in 0 .. DIGIT - 1
    BY <1>0, QuotientBelow
  <1> DEFINE lo == n % DIGIT4
  <1>2. lo \in Int /\ n = k * DIGIT4 + lo
    BY <1>0, DivMod
  <1> HIDE DEF k, lo
  <1>3. k % DIGIT = k
    BY <1>0, <1>1, ModIs
  <1>4. lo + (k % DIGIT) * DIGIT4 = n
    BY <1>0, <1>1, <1>2, <1>3
  <1> QED BY <1>4 DEF k, lo

(* What a descriptor holds of the segment it is for.                       *)
Describes(d, n, base, pages) ==
  /\ d.limit_lo = n % DIGIT4 /\ d.limit_hi = (n \div DIGIT4) % DIGIT
  /\ d.base_lo = base % DIGIT4 /\ d.base_mid = (base \div DIGIT4) % DIGIT2
  /\ d.base_hi = (base \div DIGIT6) % DIGIT2
  /\ d.is_limit_in_pages = pages

LEMMA SegmentIs ==
  ASSUME NEW n \in 0 .. DIGIT4 * DIGIT - 1, NEW base \in DoubleWord, NEW d
  PROVE  /\ Describes(d, n, base, TRUE) =>
              SegmentBase(d) = base /\ SegmentSize(d) = (n + 1) * PAGE
         /\ Describes(d, n, base, FALSE) =>
              SegmentBase(d) = base /\ SegmentSize(d) = n + 1
  <1>1. /\ (n % DIGIT4) + ((n \div DIGIT4) % DIGIT) * DIGIT4 = n
        /\ (base % DIGIT4) + ((base \div DIGIT4) % DIGIT2) * DIGIT4
           + ((base \div DIGIT6) % DIGIT2) * DIGIT6 = base
    BY BaseIs, LimitIs
  <1>2. n \in Int /\ PAGE \in Int
    BY DigitSizes
  <1> DEFINE nl == n % DIGIT4
             nh == (n \div DIGIT4) % DIGIT
             bl == base % DIGIT4
             bm == (base \div DIGIT4) % DIGIT2
             bh == (base \div DIGIT6) % DIGIT2
  <1>3. ASSUME NEW pages, Describes(d, n, base, pages)
        PROVE  /\ d.limit_lo = nl /\ d.limit_hi = nh /\ d.base_lo = bl /\ d.base_mid = bm
               /\ d.base_hi = bh /\ d.is_limit_in_pages = pages
    BY <1>3, Zenon DEF Describes
  <1>4. nl + nh * DIGIT4 = n /\ bl + bm * DIGIT4 + bh * DIGIT6 = base
    BY <1>1
  <1> HIDE DEF nl, nh, bl, bm, bh
  <1>5. ASSUME Describes(d, n, base, TRUE)
        PROVE  SegmentBase(d) = base /\ SegmentSize(d) = (n + 1) * PAGE
    BY <1>2, <1>3, <1>4, <1>5 DEF SegmentBase, SegmentSize
  <1>6. ASSUME Describes(d, n, base, FALSE)
        PROVE  SegmentBase(d) = base /\ SegmentSize(d) = n + 1
    <2>1. /\ d.limit_lo = nl /\ d.limit_hi = nh /\ d.base_lo = bl /\ d.base_mid = bm
          /\ d.base_hi = bh /\ d.is_limit_in_pages = FALSE
      BY <1>3, <1>6
    <2>2. SegmentSize(d) = (nl + nh * DIGIT4 + 1) * 1
      BY <2>1, Zenon DEF SegmentSize
    <2> QED BY <1>2, <1>4, <2>1, <2>2 DEF SegmentBase
  <1> QED BY <1>5, <1>6

GdtIds == 0 .. GDT_CAP - 1

(* The table that gdt_init leaves.                                         *)
LEMMA InitIs ==
  ASSUME NEW tss, NEW size, NEW gdt, gdt = gdt_init(tss, size)
  PROVE  /\ DOMAIN gdt = GdtIds
         /\ Describes(gdt[1], FULL_LIMIT \div PAGE, 0, TRUE)
         /\ Describes(gdt[2], FULL_LIMIT \div PAGE, 0, TRUE)
         /\ Describes(gdt[3], size, tss, FALSE)
  <1> DEFINE zero == [id \in GdtIds |-> Segment(0, 0, FALSE, TRUE, 0, FALSE)]
             flat == Segment(FULL_LIMIT \div PAGE, 0, FALSE, FALSE, 0, TRUE)
             Data(id) == IF id >= GDT_CAP THEN zero ELSE [zero EXCEPT ![id] = flat]
             data == [id \in GdtIds |-> IF id = 0 THEN zero[0] ELSE Data(id)[id]]
             first == Segment(FULL_LIMIT \div PAGE, 0, TRUE, FALSE, 0, TRUE)
             code == IF 1 >= GDT_CAP THEN data ELSE [data EXCEPT ![1] = first]
             task == Segment(size, tss, TRUE, TRUE, 0, FALSE)
  <1>1. gdt = [code EXCEPT ![3] = task]
    BY Zenon DEF gdt_init, gdt_set, GdtIds
  <1>2. 1 \in GdtIds /\ 2 \in GdtIds /\ 3 \in GdtIds /\ ~(2 >= GDT_CAP) /\ ~(1 >= GDT_CAP)
    BY DescriptorAssumption DEF GdtIds
  <1>3. DOMAIN zero = GdtIds /\ DOMAIN data = GdtIds /\ data[2] = Data(2)[2]
    BY <1>2
  <1>6. /\ Describes(first, FULL_LIMIT \div PAGE, 0, TRUE)
        /\ Describes(flat, FULL_LIMIT \div PAGE, 0, TRUE)
        /\ Describes(task, size, tss, FALSE)
    BY Zenon DEF Segment, Describes
  <1> HIDE DEF zero, flat, first, task
  <1>4. data[2] = flat
    BY <1>2, <1>3
  <1> HIDE DEF data
  <1>5. DOMAIN code = GdtIds /\ code[2] = flat /\ code[1] = first
    BY <1>2, <1>3, <1>4
  <1> HIDE DEF code
  <1>7. DOMAIN gdt = GdtIds /\ gdt[1] = first /\ gdt[2] = flat /\ gdt[3] = task
    BY <1>1, <1>2, <1>5
  <1> QED BY <1>6, <1>7

LEMMA Pages ==
  ASSUME NEW limit \in DoubleWord
  PROVE  /\ limit \div PAGE \in 0 .. DIGIT4 * DIGIT - 1
         /\ ((limit \div PAGE) + 1) * PAGE \in limit + 1 .. limit + PAGE
  <1> DEFINE n == limit \div PAGE
             rest == limit % PAGE
             top == DIGIT4 * DIGIT
  <1>0. /\ PAGE \in Nat \ {0} /\ DIGIT \in Nat /\ DIGIT2 \in Nat /\ DIGIT4 \in Nat /\ DIGIT >= 2
        /\ PAGE = DIGIT2 * DIGIT /\ DIGIT4 = DIGIT2 * DIGIT2
    BY DigitSizes
  <1>1. top \in Nat
    BY <1>0
  <1>2. DIGIT4 * DIGIT4 <= top * PAGE
    <2>1. top * PAGE = DIGIT4 * (DIGIT2 * (DIGIT * DIGIT))
      BY <1>0
    <2>2. DIGIT2 <= DIGIT * DIGIT
      BY <1>0 DEF DIGIT2
    <2> DEFINE sq == DIGIT * DIGIT
    <2>3. sq \in Nat
      BY <1>0
    <2> HIDE DEF sq
    <2>4. DIGIT2 * DIGIT2 <= DIGIT2 * sq
      BY <1>0, <2>2, <2>3 DEF sq
    <2> DEFINE u == DIGIT2 * sq
    <2>5. u \in Nat /\ DIGIT4 <= u
      BY <1>0, <2>3, <2>4
    <2> HIDE DEF u
    <2>6. DIGIT4 * DIGIT4 <= DIGIT4 * u
      BY <1>0, <2>5
    <2> QED BY <2>1, <2>6 DEF u, sq
  <1>3. limit \in Int /\ limit \in 0 .. top * PAGE - 1
    BY <1>0, <1>1, <1>2 DEF DoubleWord
  <1> HIDE DEF top
  <1>4. n \in 0 .. top - 1
    BY <1>0, <1>1, <1>3, QuotientBelow
  <1>5. rest \in 0 .. PAGE - 1 /\ limit = n * PAGE + rest
    BY <1>0, <1>3, DivMod
  <1> HIDE DEF n, rest
  <1>6. (n + 1) * PAGE = limit - rest + PAGE
    BY <1>0, <1>1, <1>4, <1>5
  <1>7. (n + 1) * PAGE \in limit + 1 .. limit + PAGE
    BY <1>0, <1>3, <1>5, <1>6
  <1> QED BY <1>4, <1>7 DEF n, top

LEMMA FullLimit ==
  /\ FULL_LIMIT \div PAGE \in 0 .. DIGIT4 * DIGIT - 1
  /\ ((FULL_LIMIT \div PAGE) + 1) * PAGE = FULL_LIMIT + 1
  <1> DEFINE k == DIGIT2 - 1
             r == PAGE - 1
  <1>0. /\ PAGE \in Nat \ {0} /\ DIGIT \in Nat /\ DIGIT2 \in Nat \ {0} /\ DIGIT4 \in Nat
        /\ DIGIT >= 2 /\ PAGE = DIGIT2 * DIGIT /\ DIGIT4 = DIGIT2 * DIGIT2
    BY DigitSizes
  <1>1. k \in Int /\ r \in 0 .. PAGE - 1
    BY <1>0
  <1>2. FULL_LIMIT = k * PAGE + r /\ FULL_LIMIT + 1 = (k + 1) * PAGE
    BY <1>0 DEF FULL_LIMIT
  <1>3. k \in 0 .. DIGIT4 * DIGIT - 1
    <2>1. DIGIT2 <= DIGIT4 /\ DIGIT4 <= DIGIT4 * DIGIT
      BY <1>0
    <2> QED BY <1>0, <2>1
  <1> HIDE DEF k, r
  <1>4. FULL_LIMIT \div PAGE = k
    BY <1>0, <1>1, <1>2, DivModIs
  <1> QED BY <1>2, <1>3, <1>4

(* A segment is where it was asked for and as long, to a page, and setting *)
(* one leaves the others alone (gdt_set and gdt_init, hw.c).               *)
THEOREM SegmentsAreAsAsked ==
  \A id \in Nat, limit, base \in DoubleWord : SegmentsHoldTheirLimit(id, limit, base)
  <1> SUFFICES ASSUME NEW id \in Nat, NEW limit \in DoubleWord, NEW base \in DoubleWord
               PROVE  SegmentsHoldTheirLimit(id, limit, base)
    OBVIOUS
  <1>1. PICK before : before = gdt_init(base, PAGE)
    OBVIOUS
  <1>2. PICK gdt : gdt = gdt_set(before, id, limit, base, FALSE, FALSE, 0)
    OBVIOUS
  <1>3. /\ DOMAIN before = GdtIds
        /\ Describes(before[1], FULL_LIMIT \div PAGE, 0, TRUE)
        /\ Describes(before[2], FULL_LIMIT \div PAGE, 0, TRUE)
        /\ Describes(before[3], PAGE, base, FALSE)
    BY <1>1, InitIs
  <1>a. PICK asked : asked = Segment(limit \div PAGE, base, FALSE, FALSE, 0, TRUE)
    OBVIOUS
  <1>b. gdt = IF id >= GDT_CAP THEN before ELSE [before EXCEPT ![id] = asked]
    BY <1>2, <1>a, Zenon DEF gdt_set
  <1>c. Describes(asked, limit \div PAGE, base, TRUE)
    BY <1>a, Zenon DEF Segment, Describes
  <1>4. /\ DOMAIN gdt = GdtIds
        /\ id < GDT_CAP => Describes(gdt[id], limit \div PAGE, base, TRUE)
        /\ \A other \in GdtIds \ {id} : gdt[other] = before[other]
    <2>1. /\ DOMAIN gdt = GdtIds
          /\ id < GDT_CAP => gdt[id] = asked
          /\ \A other \in GdtIds \ {id} : gdt[other] = before[other]
      <3>1. DOMAIN before = GdtIds
        BY <1>3
      <3>2. CASE id >= GDT_CAP
        <4>1. ~(id < GDT_CAP) /\ gdt = before
          BY <1>b, <3>2, DescriptorAssumption
        <4> QED BY <3>1, <4>1
      <3>3. CASE ~(id >= GDT_CAP)
        <4>1. id \in GdtIds
          BY <3>3, DescriptorAssumption DEF GdtIds
        <4>2. gdt = [before EXCEPT ![id] = asked]
          BY <1>b, <3>3
        <4> QED BY <3>1, <4>1, <4>2
      <3> QED BY <3>2, <3>3
    <2> QED BY <1>c, <2>1
  <1>5. 0 \in DoubleWord /\ PAGE \in 0 .. DIGIT4 * DIGIT - 1 /\ PAGE + 1 >= PAGE
    BY DigitSizes DEF DoubleWord
  <1>6. id < GDT_CAP => SegmentBase(gdt[id]) = base /\ SegmentSize(gdt[id]) \in limit + 1 .. limit + PAGE
    <2> SUFFICES ASSUME id < GDT_CAP
                 PROVE  SegmentBase(gdt[id]) = base
                        /\ SegmentSize(gdt[id]) \in limit + 1 .. limit + PAGE
      OBVIOUS
    <2>1. PICK n : n = limit \div PAGE
      OBVIOUS
    <2>2. n \in 0 .. DIGIT4 * DIGIT - 1 /\ (n + 1) * PAGE \in limit + 1 .. limit + PAGE
      BY <2>1, Pages
    <2>3. Describes(gdt[id], n, base, TRUE)
      BY <1>4, <2>1
    <2>4. SegmentBase(gdt[id]) = base /\ SegmentSize(gdt[id]) = (n + 1) * PAGE
      BY <2>2, <2>3, SegmentIs
    <2> QED BY <2>2, <2>4
  <1>7. SegmentBase(before[3]) = base /\ SegmentSize(before[3]) = PAGE + 1
    BY <1>3, <1>5, SegmentIs
  <1>8. \A flat \in {1, 2} :
          SegmentBase(before[flat]) = 0 /\ SegmentSize(before[flat]) = FULL_LIMIT + 1
    <2>1. PICK n : n = FULL_LIMIT \div PAGE
      OBVIOUS
    <2>2. n \in 0 .. DIGIT4 * DIGIT - 1 /\ (n + 1) * PAGE = FULL_LIMIT + 1
      BY <2>1, FullLimit
    <2>3. /\ Describes(before[1], n, 0, TRUE)
          /\ Describes(before[2], n, 0, TRUE)
      BY <1>3, <2>1
    <2>4. /\ SegmentBase(before[1]) = 0 /\ SegmentSize(before[1]) = (n + 1) * PAGE
          /\ SegmentBase(before[2]) = 0 /\ SegmentSize(before[2]) = (n + 1) * PAGE
      BY <1>5, <2>2, <2>3, SegmentIs
    <2> QED BY <2>2, <2>4
  <1>9. SegmentSize(before[3]) >= PAGE
    BY <1>5, <1>7
  <1> QED BY <1>1, <1>2, <1>4, <1>6, <1>7, <1>8, <1>9, Zenon DEF SegmentsHoldTheirLimit
-----------------------------------------------------------------------------
(* The handler that the gate of a vector is for.                           *)
Leads(v) ==
  IF v \in 0 .. 19 \ {1, 15} THEN TRAPS(v)
  ELSE IF v \in {32, 33, 128} THEN DEVICES(v) ELSE "idt_nothing"

GateRing(v) == IF v = 128 THEN 3 ELSE 0

LEMMA TrapsEnd ==
  \A v \in 0 .. 19 \ {1, 15} :
    TRAPS(v) \in Ends \union {"breakpoint"} /\ (v # 3 => TRAPS(v) \in Ends)
  <1> SUFFICES ASSUME NEW v \in 0 .. 19 \ {1, 15}
               PROVE  TRAPS(v) \in Ends \union {"breakpoint"} /\ (v # 3 => TRAPS(v) \in Ends)
    OBVIOUS
  <1>1. CASE v = 0
    <2>1. TRAPS(0) = "divide_by_0"
      BY DEF TRAPS
    <2> QED BY <1>1, <2>1 DEF Ends
  <1>2. CASE v = 2
    <2>1. TRAPS(2) = "nmi"
      BY DEF TRAPS
    <2> QED BY <1>2, <2>1 DEF Ends
  <1>3. CASE v = 3
    <2>1. TRAPS(3) = "breakpoint"
      BY DEF TRAPS
    <2> QED BY <1>3, <2>1 DEF Ends
  <1>4. CASE v = 4
    <2>1. TRAPS(4) = "overflow"
      BY DEF TRAPS
    <2> QED BY <1>4, <2>1 DEF Ends
  <1>5. CASE v = 5
    <2>1. TRAPS(5) = "bound"
      BY DEF TRAPS
    <2> QED BY <1>5, <2>1 DEF Ends
  <1>6. CASE v = 6
    <2>1. TRAPS(6) = "invalid_opcode"
      BY DEF TRAPS
    <2> QED BY <1>6, <2>1 DEF Ends
  <1>7. CASE v = 7
    <2>1. TRAPS(7) = "device_no_avaliable"
      BY DEF TRAPS
    <2> QED BY <1>7, <2>1 DEF Ends
  <1>8. CASE v = 8
    <2>1. TRAPS(8) = "double_fault"
      BY DEF TRAPS
    <2> QED BY <1>8, <2>1 DEF Ends
  <1>9. CASE v = 9
    <2>1. TRAPS(9) = "coprocessor_segment_overrun"
      BY DEF TRAPS
    <2> QED BY <1>9, <2>1 DEF Ends
  <1>10. CASE v = 10
    <2>1. TRAPS(10) = "invalid_tss"
      BY DEF TRAPS
    <2> QED BY <1>10, <2>1 DEF Ends
  <1>11. CASE v = 11
    <2>1. TRAPS(11) = "segment_not_present"
      BY DEF TRAPS
    <2> QED BY <1>11, <2>1 DEF Ends
  <1>12. CASE v = 12
    <2>1. TRAPS(12) = "stack_segment_fault"
      BY DEF TRAPS
    <2> QED BY <1>12, <2>1 DEF Ends
  <1>13. CASE v = 13
    <2>1. TRAPS(13) = "general_protection"
      BY DEF TRAPS
    <2> QED BY <1>13, <2>1 DEF Ends
  <1>14. CASE v = 14
    <2>1. TRAPS(14) = "page_fault"
      BY DEF TRAPS
    <2> QED BY <1>14, <2>1 DEF Ends
  <1>15. CASE v = 16
    <2>1. TRAPS(16) = "x87_error"
      BY DEF TRAPS
    <2> QED BY <1>15, <2>1 DEF Ends
  <1>16. CASE v = 17
    <2>1. TRAPS(17) = "alignment"
      BY DEF TRAPS
    <2> QED BY <1>16, <2>1 DEF Ends
  <1>17. CASE v = 18
    <2>1. TRAPS(18) = "machine"
      BY DEF TRAPS
    <2> QED BY <1>17, <2>1 DEF Ends
  <1>18. CASE v = 19
    <2>1. TRAPS(19) = "SIMD"
      BY DEF TRAPS
    <2> QED BY <1>18, <2>1 DEF Ends
  <1> QED BY <1>1, <1>2, <1>3, <1>4, <1>5, <1>6, <1>7, <1>8, <1>9, <1>10, <1>11, <1>12, <1>13, <1>14, <1>15, <1>16, <1>17, <1>18

LEMMA DevicesResume ==
  DEVICES(32) = "int_timer" /\ DEVICES(33) = "int_keyboard" /\ DEVICES(128) = "syscall_handler"
  BY DEF DEVICES

LEMMA LeadsToOne ==
  \A v \in Vectors : Leads(v) \in HandlerNames
  BY TrapsEnd, DevicesResume DEF Leads, HandlerNames, Resumes

LEMMA GateIs ==
  ASSUME NEW address \in [HandlerNames -> DoubleWord], NEW v \in Vectors
  PROVE  BootIdt(address)[v] = idt_set(address[Leads(v)], GateRing(v))
  BY DEF BootIdt, Leads, GateRing

LEMMA TargetIs ==
  ASSUME NEW h \in DoubleWord, NEW ring, NEW gate, gate = idt_set(h, ring)
  PROVE  Target(gate) = h /\ gate.ring = ring
  <1> DEFINE lo == h % DIGIT4
             hi == h \div DIGIT4
  <1>1. DIGIT4 \in Nat \ {0} /\ h \in Int /\ h \in 0 .. DIGIT4 * DIGIT4 - 1
    BY DigitSizes DEF DoubleWord
  <1>2. lo \in Int /\ h = hi * DIGIT4 + lo /\ hi \in Int
    BY <1>1, DivMod
  <1>3. hi \in 0 .. DIGIT4 - 1
    BY <1>1, QuotientBelow
  <1>4. hi % DIGIT4 = hi
    BY <1>1, <1>3, ModIs
  <1>5. gate.offset_1 = lo /\ gate.offset_2 = hi % DIGIT4 /\ gate.ring = ring
    BY Zenon DEF idt_set
  <1> HIDE DEF lo, hi
  <1>6. Target(gate) = lo + hi * DIGIT4
    BY <1>4, <1>5 DEF Target
  <1> QED BY <1>1, <1>2, <1>3, <1>5, <1>6

(* Wherever the handlers lie, the gates of the boot lead where they must   *)
(* (idt_set and idt_init, hw.c; kernel_start, main.c).                     *)
THEOREM GatesLead ==
  \A address \in Injection(HandlerNames, DoubleWord) : GatesLeadHome(address)
  <1> SUFFICES ASSUME NEW address \in Injection(HandlerNames, DoubleWord)
               PROVE  GatesLeadHome(address)
    OBVIOUS
  <1>1. /\ address \in [HandlerNames -> DoubleWord]
        /\ \A a, b \in HandlerNames : address[a] = address[b] => a = b
    BY DEF Injection, IsInjective
  <1> DEFINE idt == BootIdt(address)
             Handlers(v) == {h \in DOMAIN address : address[h] = Target(idt[v])}
  <1>2. ASSUME NEW v \in Vectors PROVE Handlers(v) = {Leads(v)} /\ idt[v].ring = GateRing(v)
    <2>1. PICK h : h = Leads(v)
      OBVIOUS
    <2>2. h \in HandlerNames
      BY <2>1, LeadsToOne
    <2>3. PICK place \in DoubleWord : place = address[h]
      BY <1>1, <2>2
    <2>4. idt[v] = idt_set(place, GateRing(v))
      BY <1>1, <2>1, <2>3, GateIs
    <2> HIDE DEF idt
    <2>5. Target(idt[v]) = place /\ idt[v].ring = GateRing(v)
      BY <2>4, TargetIs
    <2>6. Handlers(v) = {h}
      BY <1>1, <2>2, <2>3, <2>5
    <2> QED BY <2>1, <2>5, <2>6
  <1> HIDE DEF idt, Handlers
  <1>3. \A v \in Vectors : Handlers(v) # {}
    BY <1>2
  <1>4. \A v \in ErrorCode : Handlers(v) \subseteq Ends
    <2>1. ASSUME NEW v \in ErrorCode PROVE v \in Vectors /\ Leads(v) \in Ends
      <3>1. v \in 0 .. 19 \ {1, 15} /\ v # 3 /\ v \in Vectors
        BY DEF ErrorCode, Vectors
      <3> QED BY <3>1, TrapsEnd DEF Leads
    <2> QED BY <1>2, <2>1
  <1>5. ASSUME NEW irq \in 0 .. 15
        PROVE  /\ Handlers(IrqVector(irq)) \subseteq Resumes
               /\ "int_timer" \in Handlers(IrqVector(irq)) <=> irq = 0
               /\ "int_keyboard" \in Handlers(IrqVector(irq)) <=> irq = 1
    <2>1. PICK v : v = IrqVector(irq)
      OBVIOUS
    <2>2. v = 32 + irq /\ v \in Vectors
      BY <2>1 DEF IrqVector, Vectors
    <2>3. /\ Leads(v) = IF irq = 0 THEN "int_timer" ELSE IF irq = 1 THEN "int_keyboard"
                        ELSE "idt_nothing"
      BY <2>2, DevicesResume DEF Leads
    <2>4. Handlers(v) = {Leads(v)}
      BY <1>2, <2>2
    <2> QED BY <2>1, <2>3, <2>4 DEF Resumes
  <1>6. ASSUME NEW v \in Vectors
        PROVE  idt[v].ring = 3 <=> "syscall_handler" \in Handlers(v)
    <2>1. Leads(v) = "syscall_handler" <=> v = 128
      BY TrapsEnd, DevicesResume DEF Leads, Ends
    <2> QED BY <1>2, <2>1 DEF GateRing
  <1> QED BY <1>3, <1>4, <1>5, <1>6 DEF GatesLeadHome, idt, Handlers
-----------------------------------------------------------------------------
(* A set of naturals that is not empty has a least element. *)
LEMMA LeastOf ==
  ASSUME NEW S, S \subseteq Nat, S # {}
  PROVE  \E x \in S : \A y \in S : x <= y
  <1> DEFINE R == {p \in Nat \X Nat : p[1] < p[2]}
  <1>1. IsWellFoundedOn(R, Nat)
    BY NatLessThanWellFounded DEF OpToRel
  <1>2. PICK x \in S : \A y \in S : ~ (<<y, x>> \in R)
    BY <1>1, WFMin
  <1>3. ASSUME NEW y \in S PROVE x <= y
    <2>1. <<y, x>> \in Nat \X Nat /\ ~ (<<y, x>> \in R)
      BY <1>2
    <2>2. ~ (y < x)
      BY <2>1, <<y, x>>[1] = y, <<y, x>>[2] = x
    <2> QED BY <2>2
  <1> QED BY <1>3

(* The recursions of Spelled and __read_hex.  The first has a solution     *)
(* among the numbers, the second the remainders of that.                   *)
NumberRule(digits, f) ==
  [i \in 0 .. Len(digits) |-> IF i = 0 THEN 0 ELSE f[i - 1] * 16 + Digit(digits[i])]

HexRule(digits, f) ==
  [i \in 0 .. Len(digits) |->
    IF i = 0 THEN 0 ELSE (f[i - 1] * 16 + Digit(digits[i])) % SIZE]

LEMMA DigitType ==
  ASSUME NEW digits \in Seq(0 .. JUNK), NEW i \in 1 .. Len(digits)
  PROVE  Digit(digits[i]) \in 0 .. 15
  BY DEF Digit, JUNK

Counts(digits, k, f) ==
  /\ f \in [0 .. k -> Nat] /\ f[0] = 0
  /\ \A i \in 1 .. k : f[i] = f[i - 1] * 16 + Digit(digits[i])

LEMMA NumberExists ==
  ASSUME NEW digits \in Seq(0 .. JUNK), NEW n \in 0 .. Len(digits)
  PROVE  \E f : Counts(digits, n, f)
  <1> DEFINE Wrong == {k \in 0 .. Len(digits) : ~\E f : Counts(digits, k, f)}
  <1> SUFFICES ASSUME Wrong # {} PROVE FALSE
    OBVIOUS
  <1>1. Wrong \subseteq Nat
    BY LenProperties
  <1>2. PICK k \in Wrong : \A j \in Wrong : k <= j
    BY <1>1, LeastOf
  <1>3. k \in 0 .. Len(digits) /\ Len(digits) \in Nat
    BY LenProperties
  <1>4. Counts(digits, 0, [i \in 0 .. 0 |-> 0])
    BY DEF Counts
  <1>5. k # 0
    BY <1>4
  <1>6. k - 1 \in 0 .. Len(digits) /\ ~(k <= k - 1) /\ k \in 1 .. Len(digits)
    BY <1>3, <1>5
  <1>7. PICK f : Counts(digits, k - 1, f)
    BY <1>2, <1>6
  <1> DEFINE last == f[k - 1] * 16 + Digit(digits[k])
             g == [i \in 0 .. k |-> IF i = k THEN last ELSE f[i]]
  <1>8. last \in Nat
    <2>1. f[k - 1] \in Nat
      BY <1>6, <1>7 DEF Counts
    <2>2. Digit(digits[k]) \in 0 .. 15
      BY <1>6, DigitType
    <2>3. \A a \in Nat, d \in 0 .. 15 : a * 16 + d \in Nat
      OBVIOUS
    <2> QED BY <2>1, <2>2, <2>3
  <1>9. Counts(digits, k, g)
    <2>1. g \in [0 .. k -> Nat] /\ g[0] = 0
      BY <1>3, <1>6, <1>7, <1>8 DEF Counts
    <2>2. ASSUME NEW i \in 1 .. k PROVE g[i] = g[i - 1] * 16 + Digit(digits[i])
      <3>1. i - 1 \in 0 .. k - 1 /\ i - 1 # k /\ i \in 0 .. k /\ i - 1 \in 0 .. k
        BY <1>6
      <3>2. g[i - 1] = f[i - 1]
        BY <3>1
      <3>3. CASE i = k
        BY <3>1, <3>2, <3>3
      <3>4. CASE i # k
        <4>1. i \in 1 .. k - 1
          BY <1>6, <3>4
        <4>2. f[i] = f[i - 1] * 16 + Digit(digits[i])
          BY <1>7, <4>1 DEF Counts
        <4> QED BY <3>1, <3>2, <3>4, <4>2
      <3> QED BY <3>3, <3>4
    <2> HIDE DEF g
    <2> QED BY <2>1, <2>2 DEF Counts
  <1> QED BY <1>2, <1>9

LEMMA NumberIs ==
  ASSUME NEW digits \in Seq(0 .. JUNK), NEW number,
         number = CHOOSE f : f = NumberRule(digits, f)
  PROVE  /\ number = NumberRule(digits, number)
         /\ \A i \in 0 .. Len(digits) : number[i] \in Nat
  <1>0. Len(digits) \in Nat
    BY LenProperties
  <1>1. PICK f : Counts(digits, Len(digits), f)
    BY <1>0, NumberExists
  <1>2. f = NumberRule(digits, f)
    BY <1>0, <1>1 DEF Counts, NumberRule
  <1>3. number = NumberRule(digits, number)
    BY <1>2, Zenon
  <1> DEFINE Wrong == {k \in 0 .. Len(digits) : number[k] # f[k]}
  <1>4. ASSUME Wrong # {} PROVE FALSE
    <2>1. Wrong \subseteq Nat
      BY <1>0
    <2>2. PICK k \in Wrong : \A j \in Wrong : k <= j
      BY <1>4, <2>1, LeastOf
    <2>3. k \in 0 .. Len(digits) /\ number[k] # f[k]
      OBVIOUS
    <2>4. \A i \in 0 .. Len(digits) :
            number[i] = IF i = 0 THEN 0 ELSE number[i - 1] * 16 + Digit(digits[i])
      BY <1>3, Zenon DEF NumberRule
    <2>5. k # 0
      BY <1>1, <2>3, <2>4 DEF Counts
    <2>6. k - 1 \in 0 .. Len(digits) /\ ~(k <= k - 1) /\ k \in 1 .. Len(digits)
      BY <1>0, <2>3, <2>5
    <2>7. number[k - 1] = f[k - 1]
      BY <2>2, <2>6
    <2> QED BY <1>1, <2>3, <2>4, <2>5, <2>6, <2>7 DEF Counts
  <1>5. \A i \in 0 .. Len(digits) : number[i] = f[i]
    BY <1>4
  <1> QED BY <1>1, <1>3, <1>5 DEF Counts

LEMMA HexStep ==
  ASSUME NEW a \in Nat, NEW d \in 0 .. 15
  PROVE  ((a % SIZE) * 16 + d) % SIZE = (a * 16 + d) % SIZE
  <1>0. SIZE \in Nat \ {0}
    BY DebuggerAssumption
  <1> DEFINE q == a \div SIZE
             r == a % SIZE
  <1>1. q \in Int /\ r \in Int /\ a = q * SIZE + r
    BY <1>0, DivMod
  <1> HIDE DEF q, r
  <1> DEFINE x == r * 16 + d
             k == q * 16
  <1>2. x \in Int /\ k \in Int /\ a * 16 + d = k * SIZE + x
    BY <1>0, <1>1
  <1> HIDE DEF x, k
  <1>3. (x + k * SIZE) % SIZE = x % SIZE
    BY <1>0, <1>2, ModShift
  <1>4. a * 16 + d = x + k * SIZE
    BY <1>0, <1>2
  <1> QED BY <1>3, <1>4 DEF x, r

(* The number a line spells is the one read from it, also where its digits *)
(* leave the size_t (__read_hex, traps.c).                                 *)
THEOREM ReadHexReadsWhatIsSpelled ==
  \A digits \in Seq(0 .. JUNK) : __read_hex(digits) = Spelled(digits)
  <1> SUFFICES ASSUME NEW digits \in Seq(0 .. JUNK)
               PROVE  __read_hex(digits) = Spelled(digits)
    OBVIOUS
  <1>0. Len(digits) \in Nat /\ SIZE \in Nat \ {0}
    BY LenProperties, DebuggerAssumption
  <1>1. PICK number : number = CHOOSE f : f = NumberRule(digits, f)
    OBVIOUS
  <1>2. /\ number = NumberRule(digits, number)
        /\ \A i \in 0 .. Len(digits) : number[i] \in Nat
    BY <1>1, NumberIs
  <1>3. \A i \in 0 .. Len(digits) :
          number[i] = IF i = 0 THEN 0 ELSE number[i - 1] * 16 + Digit(digits[i])
    BY <1>2, Zenon DEF NumberRule
  <1> DEFINE closed == [i \in 0 .. Len(digits) |-> number[i] % SIZE]
  <1>4. ASSUME NEW i \in 1 .. Len(digits)
        PROVE  number[i] % SIZE = ((number[i - 1] % SIZE) * 16 + Digit(digits[i])) % SIZE
    <2>1. i \in 0 .. Len(digits) /\ i # 0 /\ i - 1 \in 0 .. Len(digits)
      BY <1>0
    <2>2. number[i] = number[i - 1] * 16 + Digit(digits[i]) /\ number[i - 1] \in Nat
      BY <1>2, <1>3, <2>1
    <2>3. Digit(digits[i]) \in 0 .. 15
      BY DigitType
    <2> QED BY <2>2, <2>3, HexStep
  <1>5. number[0] % SIZE = 0
    BY <1>0, <1>3
  <1>6. ASSUME NEW i \in 0 .. Len(digits)
        PROVE  closed[i] = IF i = 0 THEN 0
                           ELSE (closed[i - 1] * 16 + Digit(digits[i])) % SIZE
    <2>1. CASE i = 0
      BY <1>5, <2>1
    <2>2. CASE i # 0
      <3>1. i \in 1 .. Len(digits) /\ i - 1 \in 0 .. Len(digits)
        BY <1>0, <2>2
      <3>2. closed[i] = number[i] % SIZE /\ closed[i - 1] = number[i - 1] % SIZE
        BY <3>1
      <3> HIDE DEF closed
      <3> QED BY <1>4, <2>2, <3>1, <3>2
    <2> QED BY <2>1, <2>2
  <1>7. closed = [i \in 0 .. Len(digits) |-> closed[i]]
    OBVIOUS
  <1>8. closed[Len(digits)] = number[Len(digits)] % SIZE
    BY <1>0
  <1>9. \A i \in 0 .. Len(digits) : closed[i] = number[i] % SIZE
    OBVIOUS
  <1> HIDE DEF closed
  <1>10. closed = HexRule(digits, closed)
    BY <1>6, <1>7, Zenon DEF HexRule
  <1>11. PICK ptr : ptr = CHOOSE f : f = HexRule(digits, f)
    OBVIOUS
  <1>12. ptr = HexRule(digits, ptr)
    BY <1>10, <1>11, Zenon
  <1>13. \A i \in 0 .. Len(digits) :
           ptr[i] = IF i = 0 THEN 0 ELSE (ptr[i - 1] * 16 + Digit(digits[i])) % SIZE
    BY <1>12, Zenon DEF HexRule
  <1> DEFINE Wrong == {k \in 0 .. Len(digits) : ptr[k] # closed[k]}
  <1>14. ASSUME Wrong # {} PROVE FALSE
    <2>1. Wrong \subseteq Nat
      BY <1>0
    <2>2. PICK k \in Wrong : \A j \in Wrong : k <= j
      BY <1>14, <2>1, LeastOf
    <2>3. k \in 0 .. Len(digits) /\ ptr[k] # closed[k]
      OBVIOUS
    <2>4. k # 0
      BY <1>6, <1>13, <2>3
    <2>5. k - 1 \in 0 .. Len(digits) /\ ~(k <= k - 1)
      BY <1>0, <2>3, <2>4
    <2>6. ptr[k - 1] = closed[k - 1]
      BY <2>2, <2>5
    <2> QED BY <1>6, <1>13, <2>3, <2>4, <2>6
  <1>15. ptr[Len(digits)] = number[Len(digits)] % SIZE
    BY <1>0, <1>8, <1>14
  <1>16. __read_hex(digits) = ptr[Len(digits)]
    BY <1>11, Zenon DEF __read_hex, HexRule
  <1>17. Spelled(digits) = number[Len(digits)] % SIZE
    BY <1>1, Zenon DEF Spelled, NumberRule
  <1> QED BY <1>15, <1>16, <1>17

-----------------------------------------------------------------------------
(* The commands in the order of the tests. *)
LEMMA CommandsAre ==
  /\ DOMAIN Commands = 1 .. 15
  /\ Commands[1] = "setsi" /\ Commands[2] = "setdi" /\ Commands[3] = "setsp"
  /\ Commands[4] = "setbp" /\ Commands[5] = "setcs" /\ Commands[6] = "setss"
  /\ Commands[7] = "setes" /\ Commands[8] = "setds" /\ Commands[9] = "setfs"
  /\ Commands[10] = "setgs" /\ Commands[11] = "seta" /\ Commands[12] = "setb"
  /\ Commands[13] = "setc" /\ Commands[14] = "setd" /\ Commands[15] = "jump"
  BY DEF Commands, LongNames, ShortNames

LEMMA NamesAre ==
  /\ Range(LongNames) = {"setsi", "setdi", "setsp", "setbp", "setcs", "setss", "setes",
                         "setds", "setfs", "setgs"}
  /\ Range(Commands) = Range(LongNames) \union {"seta", "setb", "setc", "setd", "jump"}
  <1>1. DOMAIN LongNames = 1 .. 10
    BY DEF LongNames
  <1>2. /\ LongNames[1] = "setsi" /\ LongNames[2] = "setdi" /\ LongNames[3] = "setsp"
        /\ LongNames[4] = "setbp" /\ LongNames[5] = "setcs" /\ LongNames[6] = "setss"
        /\ LongNames[7] = "setes" /\ LongNames[8] = "setds" /\ LongNames[9] = "setfs"
        /\ LongNames[10] = "setgs"
    BY DEF LongNames
  <1>3. Range(LongNames) = {"setsi", "setdi", "setsp", "setbp", "setcs", "setss", "setes",
                            "setds", "setfs", "setgs"}
    BY <1>1, <1>2 DEF Range
  <1>4. Range(Commands) = {"setsi", "setdi", "setsp", "setbp", "setcs", "setss", "setes",
                           "setds", "setfs", "setgs", "seta", "setb", "setc", "setd", "jump"}
    BY CommandsAre DEF Range
  <1> QED BY <1>3, <1>4

LEMMA LettersAre ==
  /\ \A word \in Range(Commands) \ {"jump"} : FirstLetter(word) = "s"
  /\ FirstLetter("jump") = "j" /\ FirstLetter("peek") = "p" /\ FirstLetter("help") = "h"
  /\ FirstLetter("cont") = "c" /\ FirstLetter("regs") = "r"
  <1>1. \A word \in Range(Commands) \ {"jump"} : FirstLetter(word) = "s"
    BY NamesAre DEF FirstLetter
  <1>2. FirstLetter("jump") = "j" /\ FirstLetter("peek") = "p" /\ FirstLetter("help") = "h"
        /\ FirstLetter("cont") = "c" /\ FirstLetter("regs") = "r"
    BY NamesAre DEF FirstLetter
  <1> QED BY <1>1, <1>2

(* Whatever the line of the console, no register but esi and eip changes   *)
(* (the register commands of x86_trap_breakpoint_impl, traps.c).           *)
THEOREM LinesSetTwoRegisters ==
  \A regs : \A line : line.word \in LineWords /\ line.digits \in Seq(0 .. JUNK)
                       => DebuggerSetsTwoRegisters(regs, line)
  <1> SUFFICES ASSUME NEW regs, NEW line,
                      line.word \in LineWords, line.digits \in Seq(0 .. JUNK)
               PROVE  DebuggerSetsTwoRegisters(regs, line)
    OBVIOUS
  <1> DEFINE word == line.word
             digits == line.digits
             First(i) == Matches(line, Commands[i]) /\ \A j \in 1 .. i - 1 : ~Matches(line, Commands[j])
             shorter == SubSeq(digits, 2, Len(digits))
  <1>0. Len(digits) \in Nat
    BY LenProperties
  <1>1. SubSeq(digits, 1, Len(digits)) = digits
    BY <1>0
  <1>2. shorter \in Seq(0 .. JUNK)
    <2> DEFINE d == digits
               n == Len(d)
    <2>1. n \in Nat /\ d \in [1 .. n -> 0 .. JUNK]
      BY LenProperties
    <2> HIDE DEF d, n
    <2>2. \A i \in 2 .. n : d[i] \in 0 .. JUNK
      BY <2>1
    <2>3. SubSeq(d, 2, n) \in Seq(0 .. JUNK)
      BY <2>1, <2>2, SubSeqProperties
    <2> QED BY <2>3 DEF d, n
  <1>3. __read_hex(digits) = Spelled(digits) /\ __read_hex(shorter) = Spelled(shorter)
    BY <1>2, ReadHexReadsWhatIsSpelled
  <1>4. \A i \in 1 .. 14 : Commands[i] \in Range(Commands) \ {"jump"}
    BY CommandsAre, NamesAre
  <1>5. CASE word \in {"help", "cont", "regs"}
    <2>1. Command(regs, line) = regs
      BY <1>5 DEF Command
    <2> QED BY <1>5, <2>1, NamesAre DEF DebuggerSetsTwoRegisters
  <1>6. CASE word = "peek"
    <2>1. Command(regs, line) = regs
      BY <1>6 DEF Command, Matches
    <2> QED BY <1>6, <2>1, NamesAre DEF DebuggerSetsTwoRegisters
  <1>7. ASSUME NEW first \in 1 .. 15, First(first),
               ~(word \in {"help", "cont", "regs"}), ~Matches(line, "peek"), NEW reg, reg = Registers[first],
               NEW value, value = __read_hex(Rest(line, Length(Commands[first]) + 1))
        PROVE  Command(regs, line) = [regs EXCEPT ![reg] = value]
    <2>1. \A i \in 1 .. 15 : First(i) => i = first
      BY <1>7
    <2>2. first = CHOOSE i \in DOMAIN Commands : First(i)
      BY <1>7, <2>1, CommandsAre
    <2> QED BY <1>7, <2>2 DEF Command
  <1>8. CASE word \in Range(Commands) \ {"jump"}
    <2>1. First(1) /\ ~Matches(line, "peek")
      BY <1>4, <1>8, LettersAre DEF Matches
    <2>2. Commands[1] = "setsi" /\ Length("setsi") = 5 /\ Registers[1] = "esi"
      BY CommandsAre, NamesAre DEF Length, Registers
    <2>3. ~(word \in {"help", "cont", "regs"})
      BY <1>8, NamesAre
    <2>4. Command(regs, line) = [regs EXCEPT !["esi"] = __read_hex(Rest(line, 6))]
      BY <1>7, <2>1, <2>2, <2>3
    <2>5. CASE word \in Range(LongNames)
      <3>1. Rest(line, 6) = digits
        BY <1>1, <2>5 DEF Rest, Length
      <3> QED BY <1>3, <2>4, <2>5, <3>1, NamesAre DEF DebuggerSetsTwoRegisters
    <2>6. CASE word \in {"seta", "setb", "setc", "setd"}
      <3>0. Length(word) = 4
        BY <2>6, NamesAre DEF Length
      <3>1. Rest(line, 6) = shorter
        <4>1. 6 - (4 + 1) + 1 = 2
          OBVIOUS
        <4>2. Rest(line, 6) = SubSeq(digits, 6 - (4 + 1) + 1, Len(digits))
          BY <3>0, Zenon DEF Rest
        <4> QED BY <4>1, <4>2
      <3> QED BY <1>3, <2>4, <2>6, <3>1, NamesAre DEF DebuggerSetsTwoRegisters
    <2> QED BY <1>8, <2>5, <2>6, NamesAre
  <1>9. CASE word = "jump"
    <2>1. First(15) /\ ~Matches(line, "peek")
      BY <1>4, <1>9, CommandsAre, LettersAre DEF Matches
    <2>2. Commands[15] = "jump" /\ Length("jump") = 4 /\ Registers[15] = "eip"
      BY CommandsAre, NamesAre DEF Length, Registers
    <2>3. Command(regs, line) = [regs EXCEPT !["eip"] = __read_hex(Rest(line, 5))]
      BY <1>7, <1>9, <2>1, <2>2
    <2>4. Rest(line, 5) = digits
      <3>1. 5 - (4 + 1) + 1 = 1
        OBVIOUS
      <3>2. Rest(line, 5) = SubSeq(digits, 5 - (4 + 1) + 1, Len(digits))
        BY <1>9, <2>2, Zenon DEF Rest
      <3> QED BY <1>1, <3>1, <3>2
    <2> QED BY <1>3, <1>9, <2>3, <2>4, NamesAre DEF DebuggerSetsTwoRegisters
  <1> QED BY <1>5, <1>6, <1>8, <1>9 DEF LineWords
=============================================================================
