------------------------- MODULE SequenceStoreProofs -------------------------
(***************************************************************************)
(* Theorems about SequenceStore, for any number of slots a byte can tell   *)
(* apart, any room in a slot and any number of power failures, bus         *)
(* failures and calls.                                                     *)
(***************************************************************************)
EXTENDS SequenceStore, TLAPS, SequenceTheorems

-----------------------------------------------------------------------------
(* The cells.                                                              *)

(* What a CRC in a slot or in the staging area was computed over: a        *)
(* program as one of the firmwares writes it, or, cut short, something     *)
(* else.                                                                   *)
StorePayloads ==
    {PayloadV1(p) : p \in Legacy} \cup {PayloadV2(p) : p \in Legacy \cup Programs}
        \cup {<<>>}

CellBytes == {Byte(n) : n \in Nat}
SlotCells == CellBytes \cup {CrcOf(s) : s \in StorePayloads}
JournalCells == CellBytes \cup {CrcOf(s) : s \in [1..SizeV1 -> SlotCells]}
AllCells == SlotCells \cup JournalCells

\* The CRC of the journal is never taken for one of a slot.
CellWrites == {w \in Addresses \X AllCells : w[1] < JournalAt => w[2] \in SlotCells}

MemoryOK ==
    /\ fram \in [Addresses -> AllCells]
    /\ \A a \in Addresses : a < JournalAt => fram[a] \in SlotCells

Names == {"none", "init", "info", "save", "load", "delete"}

CallsOK ==
    /\ request \in [name : Names, slot : Slots, program : Programs \cup {<<>>}]
    /\ request.name = "save" => request.program \in Programs
    /\ loaded \in {<<>>} \cup Legacy \cup Programs

StoreTypes ==
    /\ MemoryOK /\ pending \in Seq(CellWrites) /\ CallsOK
    /\ pc \in {"off", "idle", "layout", "resume", "staged", "advance", "finish", "body"}
    /\ pc \in {"off", "layout"} => pending = <<>>
    /\ slot \in Slots
    /\ crashes \in 0..MaxCrashes /\ failures \in 0..MaxFailures
    /\ requests \in 0..MaxRequests
-----------------------------------------------------------------------------
(* Writes in progress: the first of them are in the memory, the others are *)
(* pending.                                                                *)

Progress(f, rest, writes) ==
    LET done == Len(writes) - Len(rest)
    IN  /\ done >= 0
        /\ \A i \in 1..Len(rest) : rest[i] = writes[done + i]
        /\ \A i \in 1..done : f[writes[i][1]] = writes[i][2]

InFlight(writes) == Progress(fram, pending, writes)

SaveWrites(s, p) == Cells(At(s), SlotV2(p))

\* The version of the new layout is in the memory or on its way there.
VersionComes ==
    /\ \A i \in 1..Len(pending) : pending[i][1] = VersionAt => pending[i][2] = V2
    /\ Len(pending) < 3 => fram[VersionAt] = V2
    /\ Len(pending) >= 3 => pending[Len(pending) - 2][1] = VersionAt

(* A call works on slots of the new layout only.                           *)
Calling ==
    /\ pc = "body" => VersionComes
    /\ pc = "idle" /\ pending # <<>> =>
          /\ fram[VersionAt] = V2
          /\ \/ request.name = "save" /\ InFlight(SaveWrites(request.slot, request.program))
             \/ request.name = "delete" /\ pending = <<<<At(request.slot), Byte(0)>>>>

StoreInv == StoreTypes /\ Calling
-----------------------------------------------------------------------------
(* The migration, from a memory an undisturbed old firmware left, and with *)
(* reads that do not fail.                                                 *)
Sound == ~Spoiled /\ ~Blank /\ ~ReadErrors

OldImage(s) == Image(fram, AtV1(s), SizeV1)
StageImage == Image(fram, StageAt, SizeV1)

RestageWrites(s, source) ==
    Cells(StageAt, source) \o Cells(JournalAt, <<Byte(Magic), Byte(s), CrcOf(source)>>)

ConvertWrites(s, held) ==
    IF held = Nothing THEN Cells(At(s), <<Byte(0), Byte(0)>>)
    ELSE Cells(At(s), SlotV2(held.program))

HeaderWrites == Cells(0, Header(V2, 0))
NextWrite(s) == <<<<NextAt, Byte(Following(s))>>>>

\* The header keeps its magic number and its count, and its progress byte
\* is that of a slot or of the end.
HeaderOK ==
    /\ fram[MagicAt] = Byte(Magic) /\ fram[CountAt] = Byte(SlotCount)
    /\ fram[VersionAt] \in {V1, Migrating, V2}
    /\ \E k \in Slots \cup {Finished} : fram[NextAt] = Byte(k)

Next_ == fram[NextAt].n

\* Slot s is converted: both layouts, and the staging area, tell the same.
Converted(s) ==
    /\ Staged(fram, s)
    /\ Decoded(fram, At(s), 2) = Decoded(fram, StageAt, 1)

StoreResting == pc \in {"off", "idle", "layout"} /\ pending = <<>>

OldPhase ==
    /\ fram[JournalAt] # Byte(Magic)
    /\ \/ StoreResting
       \/ /\ pc = "resume" /\ pending # <<>> /\ slot = SlotCount - 1
          /\ InFlight(BeginWrites)

(* A staging area whose journal names the slot, but whose CRC is not there *)
(* yet, holds the slot.                                                    *)
StageTrue(s) ==
    fram[JournalAt] = Byte(Magic) /\ fram[JournalAt + 1] = Byte(s) =>
        Staged(fram, s) \/ StageImage = OldImage(s)

MovingPhase ==
    /\ Next_ \in Slots => StageTrue(Next_)
    /\ \/ StoreResting
       \/ /\ pc = "resume" /\ pending = <<>> /\ slot = Next_
       \/ /\ pc = "staged" /\ slot = Next_
          /\ InFlight(RestageWrites(slot, OldImage(slot)))
          /\ Staged(fram, slot) => StageImage = OldImage(slot)
       \/ /\ pc = "advance" /\ slot = Next_ /\ Staged(fram, slot)
          /\ Decoded(fram, StageAt, 1) # Spoilt
          /\ InFlight(ConvertWrites(slot, Decoded(fram, StageAt, 1)))
       \/ /\ pc = "resume" /\ Next_ = slot + 1 /\ Converted(Next_)
          /\ pending = NextWrite(Next_)
       \/ /\ pc = "finish" /\ Next_ = 0 /\ Converted(0)
          /\ pending = NextWrite(0)
       \/ /\ pc = "finish" /\ Next_ = Finished /\ pending = <<>>
       \/ /\ pc = "body" /\ Next_ = Finished /\ pending # <<>>
          /\ InFlight(HeaderWrites)

NewPhase ==
    \/ StoreResting
    \/ pc = "body" /\ (pending # <<>> => InFlight(HeaderWrites))
    \/ pc = "idle"

Phases ==
    /\ HeaderOK
    /\ fram[VersionAt] = V1 => OldPhase
    /\ fram[VersionAt] = Migrating => MovingPhase
    /\ fram[VersionAt] = V2 => NewPhase

MigrationInv == StoreInv /\ Phases
-----------------------------------------------------------------------------
(* Where the slots lie.                                                    *)

LEMMA Products == \A a, b, c \in Nat : a < b => a * c + c <= b * c
<1> SUFFICES ASSUME NEW a \in Nat, NEW b \in Nat, NEW c \in Nat, a < b
             PROVE  a * c + c <= b * c
  OBVIOUS
<1> DEFINE d == b - a - 1
<1>1. d \in Nat /\ b = a + 1 + d
  OBVIOUS
<1> HIDE DEF d
<1>2. b * c = a * c + c + d * c
  BY <1>1
<1>3. d * c \in Nat /\ a * c \in Nat
  BY <1>1
<1> QED BY <1>2, <1>3

LEMMA Larger == \A a, b, c \in Nat : b <= c => a * b <= a * c
<1> SUFFICES ASSUME NEW a \in Nat, NEW b \in Nat, NEW c \in Nat, b <= c
             PROVE  a * b <= a * c
  OBVIOUS
<1> DEFINE d == c - b
<1>1. d \in Nat /\ c = b + d
  OBVIOUS
<1> HIDE DEF d
<1>2. a * c = a * b + a * d
  BY <1>1
<1>3. a * d \in Nat /\ a * b \in Nat
  BY <1>1
<1> QED BY <1>2, <1>3

LEMMA Sizes ==
    ASSUME StoreConstants
    PROVE  /\ MaxCount \in Nat /\ MaxCount >= 1
           /\ SizeV1 \in Nat /\ SizeV1 = 3 + MaxCount
           /\ SizeV2 \in Nat /\ SizeV2 = 3 + 2 * MaxCount
           /\ SlotCount \in Nat /\ SlotCount >= 1 /\ SlotCount <= 254
<1>1. SlotCount \in 1..(Finished - 1) /\ MaxCount \in Nat \ {0}
  BY DEF StoreConstants
<1> QED BY <1>1 DEF SizeV1, SizeV2, Finished

\* The slots of a layout follow one another, those of the old layout end
\* before the later ones of the new, and the staging area follows both.
LEMMA HeaderPlaces ==
    ASSUME StoreConstants
    PROVE  /\ \A s \in Slots :
                 /\ At(s) \in Nat /\ AtV1(s) \in Nat
                 /\ HeaderSize <= AtV1(s) /\ AtV1(s) <= At(s)
                 /\ At(s) + SizeV2 <= StageAt
           /\ \A s, t \in Slots : s < t => /\ At(s) + SizeV2 <= At(t)
                                           /\ AtV1(s) + SizeV1 <= AtV1(t)
                                           /\ AtV1(s) + SizeV1 <= At(t)
           /\ StageAt \in Nat /\ JournalAt = StageAt + SizeV1 /\ JournalAt \in Nat
           /\ Addresses = 0..(JournalAt + 2) /\ HeaderSize <= StageAt
<1>1. Slots = 0..(SlotCount - 1) /\ HeaderSize = 4 /\ SlotCount \in Nat
      /\ SizeV1 \in Nat /\ SizeV2 \in Nat /\ SizeV1 <= SizeV2
  BY Sizes DEF Slots, HeaderSize
<1>2. \A s \in Nat : s * SizeV1 \in Nat /\ s * SizeV2 \in Nat /\ s * SizeV1 <= s * SizeV2
  BY <1>1, Larger
<1>3. \A s \in Slots : At(s) = 4 + s * SizeV2 /\ AtV1(s) = 4 + s * SizeV1 /\ s \in Nat
  BY <1>1 DEF At, AtV1
<1>4. \A s \in Slots : s * SizeV2 + SizeV2 <= SlotCount * SizeV2
  <2> SUFFICES ASSUME NEW s \in Slots PROVE s * SizeV2 + SizeV2 <= SlotCount * SizeV2
    OBVIOUS
  <2>1. s \in Nat /\ s < SlotCount
    BY <1>1
  <2> QED BY <1>1, <2>1, Products
<1>5. StageAt = 4 + SlotCount * SizeV2
  BY <1>1 DEF StageAt, At
<1>6. \A s, t \in Slots : s < t => /\ s * SizeV2 + SizeV2 <= t * SizeV2
                                   /\ s * SizeV1 + SizeV1 <= t * SizeV1
  <2>1. \A s \in Slots : s \in Nat
    BY <1>1
  <2> QED BY <1>1, <2>1, Products
<1>7. \A s \in Slots : /\ At(s) \in Nat /\ AtV1(s) \in Nat
                       /\ HeaderSize <= AtV1(s) /\ AtV1(s) <= At(s)
                       /\ At(s) + SizeV2 <= StageAt
  <2> SUFFICES ASSUME NEW s \in Slots
               PROVE  /\ At(s) \in Nat /\ AtV1(s) \in Nat
                      /\ HeaderSize <= AtV1(s) /\ AtV1(s) <= At(s)
                      /\ At(s) + SizeV2 <= StageAt
    OBVIOUS
  <2> DEFINE old == s * SizeV1
             new == s * SizeV2
             end == SlotCount * SizeV2
  <2>1. /\ old \in Nat /\ new \in Nat /\ end \in Nat
        /\ old <= new /\ new + SizeV2 <= end
    BY <1>1, <1>2, <1>3, <1>4
  <2>2. At(s) = 4 + new /\ AtV1(s) = 4 + old /\ StageAt = 4 + end
    BY <1>3, <1>5
  <2> HIDE DEF old, new, end
  <2> QED BY <1>1, <2>1, <2>2
<1>8. \A s, t \in Slots : s < t => /\ At(s) + SizeV2 <= At(t)
                                   /\ AtV1(s) + SizeV1 <= AtV1(t)
                                   /\ AtV1(s) + SizeV1 <= At(t)
  <2> SUFFICES ASSUME NEW s \in Slots, NEW t \in Slots, s < t
               PROVE  /\ At(s) + SizeV2 <= At(t)
                      /\ AtV1(s) + SizeV1 <= AtV1(t)
                      /\ AtV1(s) + SizeV1 <= At(t)
    OBVIOUS
  <2> DEFINE s1 == s * SizeV1
             s2 == s * SizeV2
             t1 == t * SizeV1
             t2 == t * SizeV2
  <2>1. s2 + SizeV2 <= t2 /\ s1 + SizeV1 <= t1
    BY <1>6
  <2>2. t1 <= t2 /\ s1 \in Nat /\ s2 \in Nat /\ t1 \in Nat /\ t2 \in Nat
    BY <1>2, <1>3
  <2>3. At(s) = 4 + s2 /\ At(t) = 4 + t2 /\ AtV1(s) = 4 + s1 /\ AtV1(t) = 4 + t1
    BY <1>3
  <2> HIDE DEF s1, s2, t1, t2
  <2> QED BY <1>1, <2>1, <2>2, <2>3
<1>9. StageAt \in Nat /\ HeaderSize <= StageAt
  <2>1. SlotCount * SizeV2 \in Nat
    BY <1>1, <1>2
  <2> QED BY <1>1, <1>5, <2>1
<1>10. JournalAt = StageAt + SizeV1 /\ JournalAt \in Nat
  BY <1>1, <1>9 DEF JournalAt
<1>11. Addresses = 0..(JournalAt + 2)
  BY <1>10 DEF Addresses, JournalSize
<1> QED BY <1>7, <1>8, <1>9, <1>10, <1>11
-----------------------------------------------------------------------------
(* Blocks of cells.                                                        *)

\* The same, of the places that belong to no slot.
LEMMA Spaces ==
    ASSUME StoreConstants
    PROVE  /\ SizeV1 \in Nat /\ SizeV2 \in Nat /\ SizeV1 <= SizeV2
           /\ StageAt \in Nat /\ JournalAt \in Nat /\ JournalAt = StageAt + SizeV1
           /\ StageAt <= JournalAt /\ Addresses = 0..(JournalAt + 2)
           /\ 0 \in Addresses /\ 1 \in Addresses /\ 2 \in Addresses /\ 3 \in Addresses
           /\ 3 < StageAt /\ 3 < JournalAt
<1>1. SizeV1 \in Nat /\ SizeV2 \in Nat /\ SizeV1 <= SizeV2
  BY Sizes
<1>2. /\ StageAt \in Nat /\ JournalAt = StageAt + SizeV1 /\ JournalAt \in Nat
      /\ Addresses = 0..(JournalAt + 2) /\ HeaderSize <= StageAt
  BY HeaderPlaces
<1> QED BY <1>1, <1>2 DEF HeaderSize

LEMMA ImageIs ==
    ASSUME NEW f, NEW at \in Nat, NEW n \in Nat, NEW S,
           \A i \in 1..n : f[at + i - 1] \in S
    PROVE  /\ Image(f, at, n) \in [1..n -> S]
           /\ Image(f, at, n) \in Seq(S) /\ Len(Image(f, at, n)) = n
           /\ \A i \in 1..n : Image(f, at, n)[i] = f[at + i - 1]
<1>1. Image(f, at, n) \in [1..n -> S] /\ \A i \in 1..n : Image(f, at, n)[i] = f[at + i - 1]
  BY DEF Image
<1>2. Image(f, at, n) \in Seq(S)
  BY <1>1, SeqDef
<1>3. Len(Image(f, at, n)) = n
  BY <1>1, <1>2, LenProperties
<1> QED BY <1>1, <1>2, <1>3

\* Images of equal cells are equal.
LEMMA ImageSame ==
    ASSUME NEW f, NEW g, NEW at \in Nat, NEW bt \in Nat, NEW n \in Nat,
           \A i \in 1..n : f[at + i - 1] = g[bt + i - 1]
    PROVE  Image(f, at, n) = Image(g, bt, n)
BY DEF Image

LEMMA CellsIs ==
    ASSUME NEW S, NEW at \in Nat, NEW block \in Seq(S)
    PROVE  /\ Cells(at, block) \in Seq(Nat \X S) /\ Len(Cells(at, block)) = Len(block)
           /\ \A i \in 1..Len(block) : /\ Cells(at, block)[i] = <<at + i - 1, block[i]>>
                                       /\ Cells(at, block)[i][1] = at + i - 1
                                       /\ Cells(at, block)[i][2] = block[i]
<1> DEFINE c == Cells(at, block)
           n == Len(block)
<1>1. n \in Nat /\ \A i \in 1..n : block[i] \in S
  BY ElementOfSeq, LenProperties
<1>2. c = [i \in 1..n |-> <<at + i - 1, block[i]>>]
  BY DEF Cells
<1> HIDE DEF c, n
<1>3. \A i \in 1..n : c[i] = <<at + i - 1, block[i]>> /\ at + i - 1 \in Nat
  BY <1>1, <1>2
<1>4. c \in [1..n -> Nat \X S]
  BY <1>1, <1>2, <1>3
<1>5. c \in Seq(Nat \X S)
  BY <1>1, <1>4, SeqDef
<1>6. Len(c) = n
  BY <1>1, <1>4, <1>5, LenProperties
<1> QED BY <1>3, <1>5, <1>6 DEF c, n

LEMMA CellFacts ==
    /\ \A m, n : Byte(m) = Byte(n) => m = n
    /\ \A n : Byte(n).n = n
    /\ \A n, s : Byte(n) # CrcOf(s)
    /\ \A s, t : CrcOf(s) = CrcOf(t) => s = t
    /\ \A n \in Nat : Byte(n) \in CellBytes
    /\ CellBytes \subseteq SlotCells /\ SlotCells \subseteq AllCells /\ CellBytes \subseteq JournalCells
    /\ JournalCells \subseteq AllCells
BY DEF Byte, CrcOf, CellBytes, SlotCells, JournalCells, AllCells
-----------------------------------------------------------------------------
(* Programs and what is written for them.                                  *)

LEMMA ProgramIs ==
    ASSUME StoreConstants, NEW p \in Legacy \cup Programs
    PROVE  /\ p = [i \in 1..Len(p) |-> <<p[i][1], p[i][2]>>]
           /\ Len(p) \in Nat /\ Len(p) \in 1..MaxCount
           /\ \A i \in 1..Len(p) : p[i][1] \in Nat /\ p[i][2] \in Nat
           /\ p \in Legacy => \A i \in 1..Len(p) : p[i][2] = 0
<1>1. Len(p) \in 1..MaxCount /\ p = [i \in 1..Len(p) |-> <<p[i][1], p[i][2]>>]
  BY DEF StoreConstants
<1>2. \A i \in 1..Len(p) : p[i][1] \in Nat \ {0} /\ p[i][2] \in Nat
  BY DEF StoreConstants
<1>3. p \in Legacy => \A i \in 1..Len(p) : p[i][2] = 0
  BY DEF StoreConstants
<1>4. Len(p) \in Nat
  BY <1>1, Sizes
<1> QED BY <1>1, <1>2, <1>3, <1>4

LEMMA PayloadV1Is ==
    ASSUME StoreConstants, NEW p \in Legacy \cup Programs
    PROVE  LET payload == PayloadV1(p) IN
           /\ payload \in Seq(CellBytes) /\ Len(payload) = 2 + Len(p)
           /\ payload[1] = Byte(1) /\ payload[2] = Byte(Len(p))
           /\ \A i \in 1..Len(p) : payload[2 + i] = Byte(p[i][1])
<1> DEFINE n == Len(p)
           head == <<Byte(1), Byte(n)>>
           rest == [i \in 1..n |-> Byte(p[i][1])]
           payload == PayloadV1(p)
<1>1. n \in Nat /\ \A i \in 1..n : p[i][1] \in Nat
  BY ProgramIs
<1>2. payload = head \o rest
  BY DEF PayloadV1
<1>3. head \in Seq(CellBytes) /\ Len(head) = 2 /\ head[1] = Byte(1) /\ head[2] = Byte(n)
  <2>1. Byte(1) \in CellBytes /\ Byte(n) \in CellBytes
    BY <1>1, CellFacts
  <2> QED BY <2>1
<1> HIDE DEF n
<1>4. \A i \in 1..n : rest[i] = Byte(p[i][1]) /\ rest[i] \in CellBytes
  BY <1>1, CellFacts
<1>5. rest \in [1..n -> CellBytes]
  BY <1>4
<1> HIDE DEF rest, head, payload
<1>6. rest \in Seq(CellBytes) /\ Len(rest) = n
  BY <1>1, <1>5, SeqDef, LenProperties
<1>7. /\ payload \in Seq(CellBytes) /\ Len(payload) = 2 + n
      /\ \A i \in 1..(2 + n) : payload[i] = IF i <= 2 THEN head[i] ELSE rest[i - 2]
  <2>1. /\ head \o rest \in Seq(CellBytes) /\ Len(head \o rest) = Len(head) + Len(rest)
        /\ \A i \in 1..(Len(head) + Len(rest)) :
              (head \o rest)[i] = IF i <= Len(head) THEN head[i] ELSE rest[i - Len(head)]
    BY ONLY <1>3, <1>6, ConcatProperties
  <2> QED BY <1>2, <1>3, <1>6, <2>1
<1>8. payload[1] = Byte(1) /\ payload[2] = Byte(n)
  BY <1>1, <1>3, <1>7
<1>9. \A i \in 1..n : payload[2 + i] = rest[i]
  <2> TAKE i \in 1..n
  <2>1. 2 + i \in 1..(2 + n) /\ ~(2 + i <= 2) /\ (2 + i) - 2 = i
    BY <1>1
  <2> QED BY <1>7, <2>1
<1> QED BY <1>4, <1>7, <1>8, <1>9 DEF n, payload

LEMMA PayloadV2Is ==
    ASSUME StoreConstants, NEW p \in Legacy \cup Programs
    PROVE  LET payload == PayloadV2(p) IN
           /\ payload \in Seq(CellBytes) /\ Len(payload) = 2 + 2 * Len(p)
           /\ payload[1] = Byte(1) /\ payload[2] = Byte(Len(p))
           /\ \A i \in 1..Len(p) : /\ payload[1 + 2 * i] = Byte(p[i][1])
                                   /\ payload[2 + 2 * i] = Byte(p[i][2])
<1> DEFINE n == Len(p)
           head == <<Byte(1), Byte(n)>>
           rest == [i \in 1..(2 * n) |-> Byte(p[(i + 1) \div 2][2 - (i % 2)])]
           payload == PayloadV2(p)
<1>1. n \in Nat /\ \A i \in 1..n : p[i][1] \in Nat /\ p[i][2] \in Nat
  BY ProgramIs
<1>2. payload = head \o rest
  BY DEF PayloadV2
<1>3. head \in Seq(CellBytes) /\ Len(head) = 2 /\ head[1] = Byte(1) /\ head[2] = Byte(n)
  <2>1. Byte(1) \in CellBytes /\ Byte(n) \in CellBytes
    BY <1>1, CellFacts
  <2> QED BY <2>1
<1> HIDE DEF n
<1>4. \A i \in 1..n : /\ 2 * i - 1 \in 1..(2 * n) /\ 2 * i \in 1..(2 * n)
                      /\ ((2 * i - 1) + 1) \div 2 = i /\ 2 - ((2 * i - 1) % 2) = 1
                      /\ ((2 * i) + 1) \div 2 = i /\ 2 - ((2 * i) % 2) = 2
  BY <1>1
<1>5. \A i \in 1..n : rest[2 * i - 1] = Byte(p[i][1]) /\ rest[2 * i] = Byte(p[i][2])
  BY <1>4
<1>6. \A j \in 1..(2 * n) : rest[j] \in CellBytes
  <2> TAKE j \in 1..(2 * n)
  <2>1. (j + 1) \div 2 \in 1..n /\ 2 - (j % 2) \in {1, 2}
    BY <1>1
  <2>2. p[(j + 1) \div 2][2 - (j % 2)] \in Nat
    BY <1>1, <2>1
  <2> QED BY <2>2, CellFacts
<1>7. rest \in [1..(2 * n) -> CellBytes]
  BY <1>6
<1> HIDE DEF rest, head, payload
<1>8. rest \in Seq(CellBytes) /\ Len(rest) = 2 * n
  BY <1>1, <1>7, SeqDef, LenProperties
<1>9. /\ payload \in Seq(CellBytes) /\ Len(payload) = 2 + 2 * n
      /\ \A i \in 1..(2 + 2 * n) : payload[i] = IF i <= 2 THEN head[i] ELSE rest[i - 2]
  <2>1. /\ head \o rest \in Seq(CellBytes) /\ Len(head \o rest) = Len(head) + Len(rest)
        /\ \A i \in 1..(Len(head) + Len(rest)) :
              (head \o rest)[i] = IF i <= Len(head) THEN head[i] ELSE rest[i - Len(head)]
    BY ONLY <1>3, <1>8, ConcatProperties
  <2> QED BY <1>2, <1>3, <1>8, <2>1
<1>10. payload[1] = Byte(1) /\ payload[2] = Byte(n)
  BY <1>1, <1>3, <1>9
<1>11. \A i \in 1..n : payload[1 + 2 * i] = rest[2 * i - 1] /\ payload[2 + 2 * i] = rest[2 * i]
  <2> TAKE i \in 1..n
  <2>1. /\ 1 + 2 * i \in 1..(2 + 2 * n) /\ ~(1 + 2 * i <= 2) /\ (1 + 2 * i) - 2 = 2 * i - 1
        /\ 2 + 2 * i \in 1..(2 + 2 * n) /\ ~(2 + 2 * i <= 2) /\ (2 + 2 * i) - 2 = 2 * i
    BY <1>1
  <2> QED BY <1>9, <2>1
<1> QED BY <1>5, <1>9, <1>10, <1>11 DEF n, payload

\* A payload tells its layout: one of the old layout is shorter.
LEMMA PayloadsAre ==
    ASSUME StoreConstants, NEW s \in StorePayloads
    PROVE  /\ s \in Seq(CellBytes)
           /\ s = <<>> \/ (\E p \in Legacy : s = PayloadV1(p))
                       \/ (\E p \in Legacy \cup Programs : s = PayloadV2(p))
<1>1. CASE s = <<>>
  BY <1>1
<1>2. CASE s # <<>>
  BY <1>2, PayloadV1Is, PayloadV2Is DEF StorePayloads
<1> QED BY <1>1, <1>2

LEMMA SlotV2Is ==
    ASSUME StoreConstants, NEW p \in Legacy \cup Programs
    PROVE  /\ SlotV2(p) \in Seq(SlotCells)
           /\ Len(SlotV2(p)) = 3 + 2 * Len(p) /\ Len(SlotV2(p)) <= SizeV2
           /\ \A i \in 1..(2 + 2 * Len(p)) : SlotV2(p)[i] = PayloadV2(p)[i]
           /\ SlotV2(p)[3 + 2 * Len(p)] = CrcOf(PayloadV2(p))
<1> DEFINE payload == PayloadV2(p)
           n == Len(p)
<1>1. n \in Nat /\ n <= MaxCount
  BY ProgramIs, Sizes
<1>2. payload \in Seq(SlotCells) /\ Len(payload) = 2 + 2 * n
  BY PayloadV2Is, CellFacts, SeqMonotonic
<1>3. CrcOf(payload) \in SlotCells
  BY DEF SlotCells, StorePayloads
<1>4. SlotV2(p) = Append(payload, CrcOf(payload))
  BY DEF SlotV2, WithCrc
<1> HIDE DEF payload, n
<1>5. /\ SlotV2(p) \in Seq(SlotCells) /\ Len(SlotV2(p)) = 3 + 2 * n
      /\ \A i \in 1..(2 + 2 * n) : SlotV2(p)[i] = payload[i]
      /\ SlotV2(p)[3 + 2 * n] = CrcOf(payload)
  BY <1>1, <1>2, <1>3, <1>4, AppendProperties
<1>6. Len(SlotV2(p)) <= SizeV2
  BY <1>1, <1>5, Sizes
<1> QED BY <1>5, <1>6 DEF payload, n

LEMMA SlotV1Is ==
    ASSUME StoreConstants, NEW p \in Legacy, NEW s \in StorePayloads
    PROVE  LET old == Append(PayloadV1(p), CrcOf(s)) IN
           /\ old \in Seq(SlotCells)
           /\ Len(old) = 3 + Len(p) /\ Len(old) <= SizeV1
           /\ \A i \in 1..(2 + Len(p)) : old[i] = PayloadV1(p)[i]
           /\ old[3 + Len(p)] = CrcOf(s)
<1> DEFINE payload == PayloadV1(p)
           n == Len(p)
           old == Append(payload, CrcOf(s))
<1>1. n \in Nat /\ n <= MaxCount
  BY ProgramIs, Sizes
<1>2. payload \in Seq(SlotCells) /\ Len(payload) = 2 + n
  BY PayloadV1Is, CellFacts, SeqMonotonic
<1>3. CrcOf(s) \in SlotCells
  BY DEF SlotCells
<1> HIDE DEF payload, n
<1>5. /\ old \in Seq(SlotCells) /\ Len(old) = 3 + n
      /\ \A i \in 1..(2 + n) : old[i] = payload[i]
      /\ old[3 + n] = CrcOf(s)
  BY <1>1, <1>2, <1>3, AppendProperties
<1>6. Len(old) <= SizeV1
  BY <1>1, <1>5, Sizes
<1> QED BY <1>5, <1>6 DEF payload, n
-----------------------------------------------------------------------------
(* What slots hold.                                                        *)

LEMMA HoldsFacts ==
    /\ Nothing # Spoilt /\ Nothing.kind # "program" /\ Spoilt.kind # "program"
    /\ \A p : Holds(p) # Nothing /\ Holds(p) # Spoilt
    /\ \A p : Holds(p).program = p /\ Holds(p).kind = "program"
BY DEF Nothing, Spoilt, Holds

\* The last cell a slot may have is within the slot.
LEMMA SlotRoom ==
    ASSUME StoreConstants, NEW size \in {1, 2}, NEW count \in 1..MaxCount
    PROVE  /\ count \in Nat /\ size * count \in Nat /\ size * count <= size * MaxCount
           /\ 2 + size * count \in Nat /\ size * MaxCount \in Nat
BY Sizes

\* What a slot holds depends on nothing but its cells, wherever it lies.
LEMMA DecodedSame ==
    ASSUME StoreConstants, NEW f, NEW g, NEW at \in Nat, NEW bt \in Nat, NEW size \in {1, 2},
           \A i \in 0..(2 + size * MaxCount) : f[at + i] = g[bt + i]
    PROVE  Decoded(f, at, size) = Decoded(g, bt, size)
<1> DEFINE count == f[at + 1].n
<1>0. 0 \in 0..(2 + size * MaxCount) /\ 1 \in 0..(2 + size * MaxCount)
      /\ at + 0 = at /\ bt + 0 = bt
  BY Sizes
<1>1. f[at] = g[bt] /\ g[bt + 1].n = count
  BY <1>0
<1> HIDE DEF count
<1>2. CASE f[at] # Byte(1)
  BY <1>1, <1>2 DEF Decoded
<1>3. CASE f[at] = Byte(1) /\ count \notin 1..MaxCount
  BY <1>1, <1>3 DEF Decoded, count
<1>4. CASE count \in 1..MaxCount
  <2>1. 2 + size * count \in Nat /\ size * count <= size * MaxCount /\ size * MaxCount \in Nat
        /\ size * count \in Nat
    BY <1>4, SlotRoom
  <2>2. f[at + 2 + size * count] = g[bt + 2 + size * count]
    <3>1. 2 + size * count \in 0..(2 + size * MaxCount)
      BY <2>1
    <3>2. at + (2 + size * count) = at + 2 + size * count
          /\ bt + (2 + size * count) = bt + 2 + size * count
      BY <2>1
    <3> QED BY <3>1, <3>2
  <2>3. \A i \in 1..(2 + size * count) : f[at + i - 1] = g[bt + i - 1]
    <3> TAKE i \in 1..(2 + size * count)
    <3>1. i - 1 \in 0..(2 + size * MaxCount) /\ at + (i - 1) = at + i - 1
          /\ bt + (i - 1) = bt + i - 1
      BY <2>1
    <3> QED BY <3>1
  <2>4. Image(f, at, 2 + size * count) = Image(g, bt, 2 + size * count)
    <3> DEFINE n == 2 + size * count
    <3>1. n \in Nat /\ \A i \in 1..n : f[at + i - 1] = g[bt + i - 1]
      BY <2>1, <2>3
    <3> HIDE DEF n
    <3>2. Image(f, at, n) = Image(g, bt, n)
      BY <3>1 DEF Image
    <3> QED BY <3>2 DEF n
  <2> QED BY <1>1, <2>2, <2>4 DEF Decoded, count
<1> QED BY <1>2, <1>3, <1>4

LEMMA ProgramOfV2 ==
    ASSUME StoreConstants, NEW p \in Legacy \cup Programs
    PROVE  LET payload == PayloadV2(p) IN
           [i \in 1..Len(p) |-> <<payload[3 + 2 * (i - 1)].n, payload[4 + 2 * (i - 1)].n>>] = p
<1> DEFINE payload == PayloadV2(p)
<1>1. Len(p) \in Nat /\ p = [i \in 1..Len(p) |-> <<p[i][1], p[i][2]>>]
  BY ProgramIs
<1>2. \A i \in 1..Len(p) : payload[1 + 2 * i] = Byte(p[i][1]) /\ payload[2 + 2 * i] = Byte(p[i][2])
  BY PayloadV2Is
<1> HIDE DEF payload
<1>3. \A i \in 1..Len(p) : /\ payload[3 + 2 * (i - 1)].n = p[i][1]
                           /\ payload[4 + 2 * (i - 1)].n = p[i][2]
  <2> TAKE i \in 1..Len(p)
  <2>1. 3 + 2 * (i - 1) = 1 + 2 * i /\ 4 + 2 * (i - 1) = 2 + 2 * i
    BY <1>1
  <2> QED BY <1>2, <2>1, CellFacts
<1>4. [i \in 1..Len(p) |-> <<payload[3 + 2 * (i - 1)].n, payload[4 + 2 * (i - 1)].n>>]
        = [i \in 1..Len(p) |-> <<p[i][1], p[i][2]>>]
  BY <1>3
<1> QED BY <1>1, <1>4 DEF payload

LEMMA ProgramOfV1 ==
    ASSUME StoreConstants, NEW p \in Legacy
    PROVE  LET payload == PayloadV1(p) IN
           [i \in 1..Len(p) |-> <<payload[3 + 1 * (i - 1)].n, 0>>] = p
<1> DEFINE payload == PayloadV1(p)
<1>1. /\ Len(p) \in Nat /\ p = [i \in 1..Len(p) |-> <<p[i][1], p[i][2]>>]
      /\ \A i \in 1..Len(p) : p[i][2] = 0
  BY ProgramIs
<1>2. \A i \in 1..Len(p) : payload[2 + i] = Byte(p[i][1])
  BY PayloadV1Is
<1> HIDE DEF payload
<1>3. \A i \in 1..Len(p) : payload[3 + 1 * (i - 1)].n = p[i][1]
  <2> TAKE i \in 1..Len(p)
  <2>1. 3 + 1 * (i - 1) = 2 + i
    BY <1>1
  <2> QED BY <1>2, <2>1, CellFacts
<1>4. [i \in 1..Len(p) |-> <<payload[3 + 1 * (i - 1)].n, 0>>]
        = [i \in 1..Len(p) |-> <<p[i][1], p[i][2]>>]
  BY <1>1, <1>3
<1> QED BY <1>1, <1>4 DEF payload

(* Whatever a slot of the new layout is found to hold was stored there as  *)
(* a whole: its CRC was computed over it.                                  *)
LEMMA DecodedV2Known ==
    ASSUME StoreConstants, NEW f, NEW at \in Nat,
           \A i \in 0..(2 + 2 * MaxCount) : f[at + i] \in SlotCells
    PROVE  \/ Decoded(f, at, 2) \in {Nothing, Spoilt}
           \/ \E p \in Legacy \cup Programs : Decoded(f, at, 2) = Holds(p)
<1> DEFINE count == f[at + 1].n
           payload == Image(f, at, 2 + 2 * count)
<1> SUFFICES ASSUME f[at] = Byte(1), count \in 1..MaxCount,
                    f[at + 2 + 2 * count] = CrcOf(payload)
             PROVE  \E p \in Legacy \cup Programs : Decoded(f, at, 2) = Holds(p)
  BY DEF Decoded
<1>1. 2 + 2 * count \in Nat /\ count \in Nat /\ 2 * count <= 2 * MaxCount
      /\ 2 * MaxCount \in Nat
  BY SlotRoom
<1> HIDE DEF count
<1>2. payload \in Seq(SlotCells) /\ Len(payload) = 2 + 2 * count
  <2>1. \A i \in 1..(2 + 2 * count) : f[at + i - 1] \in SlotCells
    <3> TAKE i \in 1..(2 + 2 * count)
    <3>1. i - 1 \in 0..(2 + 2 * MaxCount) /\ at + (i - 1) = at + i - 1
      BY <1>1
    <3> QED BY <3>1
  <2> QED BY <1>1, <2>1, ImageIs
<1>3. payload[2].n = count
  <2>1. 2 \in 1..(2 + 2 * count) /\ at + 2 - 1 = at + 1
    BY <1>1
  <2> QED BY <2>1 DEF Image, count
<1>4. CrcOf(payload) \in SlotCells
  <2>1. 2 + 2 * count \in 0..(2 + 2 * MaxCount) /\ at + (2 + 2 * count) = at + 2 + 2 * count
    BY <1>1
  <2> QED BY <2>1
<1> HIDE DEF payload
<1>5. payload \in StorePayloads
  BY <1>4, CellFacts DEF SlotCells, CellBytes
<1>6. payload # <<>>
  BY <1>1, <1>2, EmptySeq
<1>7. ASSUME NEW p \in Legacy, payload = PayloadV1(p) PROVE FALSE
  <2>1. Len(payload) = 2 + Len(p) /\ payload[2] = Byte(Len(p)) /\ Len(p) \in Nat
    BY <1>7, PayloadV1Is, ProgramIs
  <2>2. count = Len(p)
    BY <1>3, <2>1, CellFacts
  <2> QED BY <1>1, <1>2, <2>1, <2>2
<1>8. PICK p \in Legacy \cup Programs : payload = PayloadV2(p)
  BY <1>5, <1>6, <1>7, PayloadsAre
<1>9. count = Len(p)
  <2>1. payload[2] = Byte(Len(p))
    BY <1>8, PayloadV2Is
  <2> QED BY <1>3, <2>1, CellFacts
<1>10. Decoded(f, at, 2)
         = Holds([i \in 1..count |-> <<payload[3 + 2 * (i - 1)].n, payload[4 + 2 * (i - 1)].n>>])
  BY DEF Decoded, count, payload
<1>11. [i \in 1..count |-> <<payload[3 + 2 * (i - 1)].n, payload[4 + 2 * (i - 1)].n>>] = p
  BY <1>8, <1>9, ProgramOfV2
<1> QED BY <1>10, <1>11

LEMMA DecodedV1Known ==
    ASSUME StoreConstants, NEW f, NEW at \in Nat,
           \A i \in 0..(2 + 1 * MaxCount) : f[at + i] \in SlotCells
    PROVE  \/ Decoded(f, at, 1) \in {Nothing, Spoilt}
           \/ \E p \in Legacy : Decoded(f, at, 1) = Holds(p)
<1> DEFINE count == f[at + 1].n
           payload == Image(f, at, 2 + 1 * count)
<1> SUFFICES ASSUME f[at] = Byte(1), count \in 1..MaxCount,
                    f[at + 2 + 1 * count] = CrcOf(payload)
             PROVE  \E p \in Legacy : Decoded(f, at, 1) = Holds(p)
  BY DEF Decoded
<1>1. 2 + 1 * count \in Nat /\ count \in Nat /\ 1 * count <= 1 * MaxCount
      /\ 1 * MaxCount \in Nat /\ count >= 1
  BY SlotRoom
<1> HIDE DEF count
<1>2. payload \in Seq(SlotCells) /\ Len(payload) = 2 + 1 * count
  <2>1. \A i \in 1..(2 + 1 * count) : f[at + i - 1] \in SlotCells
    <3> TAKE i \in 1..(2 + 1 * count)
    <3>1. i - 1 \in 0..(2 + 1 * MaxCount) /\ at + (i - 1) = at + i - 1
      BY <1>1
    <3> QED BY <3>1
  <2> QED BY <1>1, <2>1, ImageIs
<1>3. payload[2].n = count
  <2>1. 2 \in 1..(2 + 1 * count) /\ at + 2 - 1 = at + 1
    BY <1>1
  <2> QED BY <2>1 DEF Image, count
<1>4. CrcOf(payload) \in SlotCells
  <2>1. 2 + 1 * count \in 0..(2 + 1 * MaxCount) /\ at + (2 + 1 * count) = at + 2 + 1 * count
    BY <1>1
  <2> QED BY <2>1
<1> HIDE DEF payload
<1>5. payload \in StorePayloads
  BY <1>4, CellFacts DEF SlotCells, CellBytes
<1>6. payload # <<>>
  BY <1>1, <1>2, EmptySeq
<1>7. ASSUME NEW p \in Legacy \cup Programs, payload = PayloadV2(p) PROVE FALSE
  <2>1. Len(payload) = 2 + 2 * Len(p) /\ payload[2] = Byte(Len(p)) /\ Len(p) \in Nat
    BY <1>7, PayloadV2Is, ProgramIs
  <2>2. count = Len(p)
    BY <1>3, <2>1, CellFacts
  <2> QED BY <1>1, <1>2, <2>1, <2>2
<1>8. PICK p \in Legacy : payload = PayloadV1(p)
  BY <1>5, <1>6, <1>7, PayloadsAre
<1>9. count = Len(p)
  <2>1. payload[2] = Byte(Len(p))
    BY <1>8, PayloadV1Is
  <2> QED BY <1>3, <2>1, CellFacts
<1>10. Decoded(f, at, 1) = Holds([i \in 1..count |-> <<payload[3 + 1 * (i - 1)].n, 0>>])
  BY DEF Decoded, count, payload
<1>11. [i \in 1..count |-> <<payload[3 + 1 * (i - 1)].n, 0>>] = p
  BY <1>8, <1>9, ProgramOfV1
<1> QED BY <1>10, <1>11

\* What was written as a whole is found again.
LEMMA DecodedV2Written ==
    ASSUME StoreConstants, NEW f, NEW at \in Nat, NEW p \in Legacy \cup Programs,
           \A i \in 1..Len(SlotV2(p)) : f[at + i - 1] = SlotV2(p)[i]
    PROVE  Decoded(f, at, 2) = Holds(p)
<1> DEFINE count == Len(p)
           payload == PayloadV2(p)
<1>1. count \in Nat /\ count \in 1..MaxCount
  BY ProgramIs
<1>2. /\ payload \in Seq(CellBytes) /\ Len(payload) = 2 + 2 * count
      /\ payload[1] = Byte(1) /\ payload[2] = Byte(count)
  BY PayloadV2Is
<1>3. /\ Len(SlotV2(p)) = 3 + 2 * count
      /\ \A i \in 1..(2 + 2 * count) : SlotV2(p)[i] = payload[i]
      /\ SlotV2(p)[3 + 2 * count] = CrcOf(payload)
  BY SlotV2Is
<1>4. [i \in 1..count |-> <<payload[3 + 2 * (i - 1)].n, payload[4 + 2 * (i - 1)].n>>] = p
  BY ProgramOfV2
<1> HIDE DEF count, payload
<1>5. \A i \in 1..(2 + 2 * count) : f[at + i - 1] = payload[i]
  BY <1>1, <1>3
<1>6. f[at] = Byte(1) /\ f[at + 1] = Byte(count)
  <2>1. 1 \in 1..(2 + 2 * count) /\ 2 \in 1..(2 + 2 * count) /\ at + 1 - 1 = at /\ at + 2 - 1 = at + 1
    BY <1>1
  <2>2. f[at + 1 - 1] = payload[1] /\ f[at + 2 - 1] = payload[2]
    BY <1>5, <2>1
  <2> QED BY <1>2, <2>1, <2>2
<1>7. f[at + 2 + 2 * count] = CrcOf(payload)
  <2>1. 3 + 2 * count \in 1..(3 + 2 * count) /\ at + (3 + 2 * count) - 1 = at + 2 + 2 * count
    BY <1>1
  <2> QED BY <1>3, <2>1
<1>8. Image(f, at, 2 + 2 * count) = payload
  <2>1. payload = [i \in 1..(2 + 2 * count) |-> payload[i]]
    BY <1>2, LenProperties
  <2> QED BY <1>5, <2>1 DEF Image
<1>9. f[at + 1].n = count
  BY <1>6, CellFacts
<1> QED BY <1>1, <1>4, <1>6, <1>7, <1>8, <1>9 DEF Decoded

LEMMA DecodedV1Written ==
    ASSUME StoreConstants, NEW f, NEW at \in Nat, NEW p \in Legacy,
           \A i \in 1..(3 + Len(p)) : f[at + i - 1] = WithCrc(PayloadV1(p))[i]
    PROVE  Decoded(f, at, 1) = Holds(p)
<1> DEFINE count == Len(p)
           payload == PayloadV1(p)
           old == WithCrc(payload)
<1>1. count \in Nat /\ count \in 1..MaxCount
  BY ProgramIs
<1>2. /\ payload \in Seq(CellBytes) /\ Len(payload) = 2 + count
      /\ payload[1] = Byte(1) /\ payload[2] = Byte(count)
  BY PayloadV1Is
<1>3. /\ \A i \in 1..(2 + count) : old[i] = payload[i]
      /\ old[3 + count] = CrcOf(payload)
  <2>1. payload \in StorePayloads
    BY DEF StorePayloads
  <2> QED BY <2>1, SlotV1Is DEF WithCrc
<1>4. [i \in 1..count |-> <<payload[3 + 1 * (i - 1)].n, 0>>] = p
  BY ProgramOfV1
<1>a. \A i \in 1..(3 + count) : f[at + i - 1] = old[i]
  OBVIOUS
<1> HIDE DEF count, payload, old
<1>5. \A i \in 1..(2 + count) : f[at + i - 1] = payload[i]
  BY <1>1, <1>3, <1>a
<1>6. f[at] = Byte(1) /\ f[at + 1] = Byte(count)
  <2>1. 1 \in 1..(2 + count) /\ 2 \in 1..(2 + count) /\ at + 1 - 1 = at /\ at + 2 - 1 = at + 1
    BY <1>1
  <2>2. f[at + 1 - 1] = payload[1] /\ f[at + 2 - 1] = payload[2]
    BY <1>5, <2>1
  <2> QED BY <1>2, <2>1, <2>2
<1>7. f[at + 2 + 1 * count] = CrcOf(payload)
  <2>1. 3 + count \in 1..(3 + count) /\ at + (3 + count) - 1 = at + 2 + 1 * count
    BY <1>1
  <2> QED BY <1>3, <1>a, <2>1
<1>8. Image(f, at, 2 + 1 * count) = payload
  <2>1. payload = [i \in 1..(2 + 1 * count) |-> payload[i]]
    BY <1>1, <1>2, LenProperties
  <2>2. 2 + 1 * count = 2 + count
    BY <1>1
  <2> QED BY <1>5, <2>1, <2>2 DEF Image
<1>9. f[at + 1].n = count
  BY <1>6, CellFacts
<1> DEFINE c == f[at + 1].n
           read == Image(f, at, 2 + 1 * c)
<1>10. c \in 1..MaxCount /\ f[at + 2 + 1 * c] = CrcOf(read) /\ c = count /\ read = payload
  BY <1>1, <1>7, <1>8, <1>9
<1>11. Decoded(f, at, 1) = Holds([i \in 1..c |-> <<read[3 + 1 * (i - 1)].n, 0>>])
  BY <1>6, <1>10 DEF Decoded
<1> HIDE DEF c, read
<1> QED BY <1>4, <1>10, <1>11
-----------------------------------------------------------------------------
(* Series of single-cell writes.                                           *)

LEMMA SequenceIs ==
    ASSUME NEW S, NEW T, NEW c \in Seq(S), \A i \in 1..Len(c) : c[i] \in T
    PROVE  c \in Seq(T)
<1>1. Len(c) \in Nat /\ c \in [1..Len(c) -> S]
  BY LenProperties
<1>2. c \in [1..Len(c) -> T]
  BY <1>1
<1> QED BY <1>1, <1>2, SeqDef

\* A write of a block that ends before the journal.
LEMMA BlockWrites ==
    ASSUME StoreConstants, NEW at \in Nat, NEW block \in Seq(SlotCells),
           at + Len(block) <= JournalAt
    PROVE  /\ Cells(at, block) \in Seq(CellWrites) /\ Len(Cells(at, block)) = Len(block)
           /\ Len(block) \in Nat
           /\ \A i \in 1..Len(block) : /\ Cells(at, block)[i] = <<at + i - 1, block[i]>>
                                       /\ Cells(at, block)[i][1] = at + i - 1
                                       /\ Cells(at, block)[i][2] = block[i]
<1> DEFINE c == Cells(at, block)
           n == Len(block)
<1>1. /\ c \in Seq(Nat \X SlotCells) /\ Len(c) = n
      /\ \A i \in 1..n : c[i] = <<at + i - 1, block[i]>> /\ c[i][1] = at + i - 1
                         /\ c[i][2] = block[i]
  <2>1. at \in Nat /\ block \in Seq(SlotCells)
    OBVIOUS
  <2>2. /\ c \in Seq(Nat \X SlotCells) /\ Len(c) = n
        /\ \A i \in 1..n : c[i] = <<at + i - 1, block[i]>>
    BY ONLY <2>1, CellsIs DEF c, n
  <2> QED BY <2>2
<1>2. n \in Nat /\ \A i \in 1..n : block[i] \in SlotCells
  BY ElementOfSeq, LenProperties
<1>3. JournalAt \in Nat /\ Addresses = 0..(JournalAt + 2)
  BY HeaderPlaces
<1> HIDE DEF c
<1>4. \A i \in 1..n : c[i] \in CellWrites
  <2> TAKE i \in 1..n
  <2>1. at + i - 1 \in Addresses
    BY <1>2, <1>3
  <2>2. block[i] \in SlotCells /\ block[i] \in AllCells
    BY <1>2, CellFacts
  <2> QED BY <1>1, <2>1, <2>2 DEF CellWrites
<1> HIDE DEF n
<1>5. c \in Seq(CellWrites)
  BY <1>1, <1>4, SequenceIs
<1> QED BY <1>1, <1>2, <1>5 DEF c, n

LEMMA HeaderIs ==
    ASSUME StoreConstants, NEW a \in SlotCells, NEW b \in SlotCells, NEW c \in SlotCells,
           NEW d \in SlotCells, NEW writes, writes = Cells(0, <<a, b, c, d>>)
    PROVE  /\ writes \in Seq(CellWrites) /\ Len(writes) = 4
           /\ writes[1] = <<MagicAt, a>> /\ writes[2] = <<VersionAt, b>>
           /\ writes[3] = <<CountAt, c>> /\ writes[4] = <<NextAt, d>>
<1> DEFINE block == <<a, b, c, d>>
<1>1. /\ block \in Seq(SlotCells) /\ Len(block) = 4
      /\ block[1] = a /\ block[2] = b /\ block[3] = c /\ block[4] = d
  OBVIOUS
<1> HIDE DEF block
<1>2. 0 + Len(block) <= JournalAt
  BY <1>1, Spaces
<1>3. /\ Cells(0, block) \in Seq(CellWrites) /\ Len(Cells(0, block)) = 4
      /\ \A i \in 1..4 : Cells(0, block)[i] = <<0 + i - 1, block[i]>>
  <2>1. 0 \in Nat
    OBVIOUS
  <2>2. /\ Cells(0, block) \in Seq(CellWrites) /\ Len(Cells(0, block)) = Len(block)
        /\ \A i \in 1..Len(block) : Cells(0, block)[i] = <<0 + i - 1, block[i]>>
    BY <1>1, <1>2, <2>1, BlockWrites
  <2> QED BY <1>1, <2>2
<1>4. /\ Cells(0, block)[1] = <<0, a>> /\ Cells(0, block)[2] = <<1, b>>
      /\ Cells(0, block)[3] = <<2, c>> /\ Cells(0, block)[4] = <<3, d>>
  BY <1>1, <1>3
<1> QED BY <1>3, <1>4 DEF block, MagicAt, VersionAt, CountAt, NextAt

LEMMA HeaderCells ==
    ASSUME StoreConstants
    PROVE  /\ Byte(Magic) \in SlotCells /\ V1 \in SlotCells /\ V2 \in SlotCells
           /\ Migrating \in SlotCells /\ Byte(SlotCount) \in SlotCells
           /\ Byte(0) \in SlotCells /\ Byte(1) \in SlotCells
           /\ \A s \in Slots : Byte(s) \in SlotCells /\ Following(s) \in Nat
                               /\ Byte(Following(s)) \in SlotCells
           /\ V1 # V2 /\ V1 # Migrating /\ V2 # Migrating /\ Byte(0) # Byte(Magic)
           /\ MagicAt \in Addresses /\ VersionAt \in Addresses /\ CountAt \in Addresses
           /\ NextAt \in Addresses
<1>1. \A n \in Nat : Byte(n) \in SlotCells
  BY CellFacts
<1>2. SlotCount \in Nat /\ \A s \in Slots : s \in Nat /\ Following(s) \in Nat
  BY Sizes DEF Slots, Following, Finished
<1>3. Magic \in Nat
  BY DEF Magic
<1>4. V1 # V2 /\ V1 # Migrating /\ V2 # Migrating /\ Byte(0) # Byte(Magic)
  <2>1. Byte(1) # Byte(2) /\ Byte(1) # Byte(3) /\ Byte(2) # Byte(3) /\ Byte(0) # Byte(77)
    BY CellFacts
  <2> QED BY <2>1 DEF V1, V2, Migrating, Magic
<1>5. /\ MagicAt \in Addresses /\ VersionAt \in Addresses /\ CountAt \in Addresses
      /\ NextAt \in Addresses
  BY Spaces DEF MagicAt, VersionAt, CountAt, NextAt
<1> QED BY <1>1, <1>2, <1>3, <1>4, <1>5 DEF V1, V2, Migrating

LEMMA ShortWrites ==
    ASSUME StoreConstants
    PROVE  /\ BeginWrites \in Seq(CellWrites) /\ Len(BeginWrites) = 2
           /\ BeginWrites[1] = <<NextAt, Byte(SlotCount - 1)>>
           /\ BeginWrites[2] = <<VersionAt, Migrating>>
           /\ \A a, c : /\ Len(<<<<a, c>>>>) = 1 /\ <<<<a, c>>>>[1] = <<a, c>>
                        /\ <<<<a, c>>>> # <<>>
           /\ \A s \in Slots : NextWrite(s) \in Seq(CellWrites)
           /\ \A s \in Slots : <<<<At(s), Byte(0)>>>> \in Seq(CellWrites)
<1>1. \A w \in CellWrites : <<w>> \in Seq(CellWrites)
  OBVIOUS
<1>2. \A a \in Addresses, c \in SlotCells : <<a, c>> \in CellWrites
  BY CellFacts DEF CellWrites
<1>3. SlotCount - 1 \in Slots
  BY Sizes DEF Slots
<1>4. <<NextAt, Byte(SlotCount - 1)>> \in CellWrites /\ <<VersionAt, Migrating>> \in CellWrites
  BY <1>2, <1>3, HeaderCells
<1>5. /\ BeginWrites \in Seq(CellWrites) /\ Len(BeginWrites) = 2
      /\ BeginWrites[1] = <<NextAt, Byte(SlotCount - 1)>>
      /\ BeginWrites[2] = <<VersionAt, Migrating>>
  <2> DEFINE v == <<NextAt, Byte(SlotCount - 1)>>
             w == <<VersionAt, Migrating>>
  <2>1. v \in CellWrites /\ w \in CellWrites
    BY <1>4
  <2>2. BeginWrites = <<v, w>>
    BY DEF BeginWrites
  <2> HIDE DEF v, w
  <2>3. <<v, w>> \in Seq(CellWrites) /\ Len(<<v, w>>) = 2 /\ <<v, w>>[1] = v /\ <<v, w>>[2] = w
    BY <2>1
  <2> QED BY <2>2, <2>3 DEF v, w
<1>6. \A s \in Slots : NextWrite(s) \in Seq(CellWrites)
  <2> TAKE s \in Slots
  <2>1. <<NextAt, Byte(Following(s))>> \in CellWrites
    BY <1>2, HeaderCells
  <2> QED BY <1>1, <2>1 DEF NextWrite
<1>7. \A s \in Slots : <<<<At(s), Byte(0)>>>> \in Seq(CellWrites)
  <2> TAKE s \in Slots
  <2>1. At(s) \in Addresses
    <3>1. At(s) \in Nat /\ At(s) + SizeV2 <= StageAt
      BY HeaderPlaces
    <3> QED BY <3>1, Spaces
  <2>2. <<At(s), Byte(0)>> \in CellWrites
    BY <1>2, <2>1, HeaderCells
  <2> QED BY <1>1, <2>2
<1>8. \A a, c : /\ Len(<<<<a, c>>>>) = 1 /\ <<<<a, c>>>>[1] = <<a, c>>
                /\ <<<<a, c>>>> # <<>>
  OBVIOUS
<1> QED BY <1>5, <1>6, <1>7, <1>8

LEMMA SaveWritesIs ==
    ASSUME StoreConstants, NEW s \in Slots, NEW p \in Legacy \cup Programs
    PROVE  LET writes == SaveWrites(s, p) IN
           /\ writes \in Seq(CellWrites) /\ Len(writes) = 3 + 2 * Len(p)
           /\ Len(writes) = Len(SlotV2(p)) /\ Len(writes) <= SizeV2 /\ Len(writes) \in Nat
           /\ writes # <<>>
           /\ \A i \in 1..Len(writes) : /\ writes[i] = <<At(s) + i - 1, SlotV2(p)[i]>>
                                        /\ writes[i][1] = At(s) + i - 1
                                        /\ writes[i][2] = SlotV2(p)[i]
<1>1. /\ SlotV2(p) \in Seq(SlotCells) /\ Len(SlotV2(p)) = 3 + 2 * Len(p)
      /\ Len(SlotV2(p)) <= SizeV2
  BY SlotV2Is
<1>2. At(s) \in Nat /\ At(s) + SizeV2 <= StageAt /\ StageAt <= JournalAt /\ StageAt \in Nat
      /\ JournalAt \in Nat /\ SizeV2 \in Nat /\ Len(p) \in Nat
  <2>1. SizeV1 \in Nat /\ SizeV2 \in Nat
    BY Sizes
  <2>2. Len(p) \in Nat
    BY ProgramIs
  <2>3. At(s) \in Nat /\ At(s) + SizeV2 <= StageAt
    BY HeaderPlaces
  <2>4. StageAt \in Nat /\ JournalAt = StageAt + SizeV1 /\ JournalAt \in Nat
    BY HeaderPlaces
  <2>5. StageAt <= JournalAt
    BY <2>1, <2>4
  <2> QED BY <2>1, <2>2, <2>3, <2>4, <2>5
<1>3. At(s) + Len(SlotV2(p)) <= JournalAt /\ Len(SlotV2(p)) \in Nat /\ Len(SlotV2(p)) # 0
  BY <1>1, <1>2
<1>4. /\ SaveWrites(s, p) \in Seq(CellWrites) /\ Len(SaveWrites(s, p)) = Len(SlotV2(p))
      /\ \A i \in 1..Len(SlotV2(p)) : /\ SaveWrites(s, p)[i] = <<At(s) + i - 1, SlotV2(p)[i]>>
                                      /\ SaveWrites(s, p)[i][1] = At(s) + i - 1
                                      /\ SaveWrites(s, p)[i][2] = SlotV2(p)[i]
  BY <1>1, <1>2, <1>3, BlockWrites DEF SaveWrites
<1>5. SaveWrites(s, p) # <<>>
  BY <1>3, <1>4, EmptySeq
<1> QED BY <1>1, <1>3, <1>4, <1>5

LEMMA RestageWritesIs ==
    ASSUME StoreConstants, NEW s \in Slots, NEW source \in [1..SizeV1 -> SlotCells]
    PROVE  LET writes == RestageWrites(s, source) IN
           /\ writes \in Seq(CellWrites) /\ Len(writes) = SizeV1 + 3
           /\ \A i \in 1..SizeV1 : writes[i] = <<StageAt + i - 1, source[i]>>
           /\ writes[SizeV1 + 1] = <<JournalAt, Byte(Magic)>>
           /\ writes[SizeV1 + 2] = <<JournalAt + 1, Byte(s)>>
           /\ writes[SizeV1 + 3] = <<JournalAt + 2, CrcOf(source)>>
<1> DEFINE journal == <<Byte(Magic), Byte(s), CrcOf(source)>>
           first == Cells(StageAt, source)
           second == Cells(JournalAt, journal)
<1>1. /\ SizeV1 \in Nat /\ StageAt \in Nat /\ JournalAt \in Nat
      /\ JournalAt = StageAt + SizeV1 /\ Addresses = 0..(JournalAt + 2)
  BY Sizes, HeaderPlaces
<1>2. source \in Seq(SlotCells) /\ Len(source) = SizeV1
  BY <1>1, SeqDef, LenProperties
<1>3. /\ first \in Seq(CellWrites) /\ Len(first) = SizeV1
      /\ \A i \in 1..SizeV1 : first[i] = <<StageAt + i - 1, source[i]>>
  BY <1>1, <1>2, BlockWrites
<1>4. Byte(Magic) \in AllCells /\ Byte(s) \in AllCells /\ CrcOf(source) \in AllCells
  <2>1. Byte(Magic) \in AllCells /\ Byte(s) \in AllCells
    BY HeaderCells, CellFacts
  <2>2. CrcOf(source) \in AllCells
    BY DEF AllCells, JournalCells
  <2> QED BY <2>1, <2>2
<1> DEFINE k == CrcOf(source)
<1>5. /\ journal \in Seq(AllCells) /\ Len(journal) = 3
      /\ journal[1] = Byte(Magic) /\ journal[2] = Byte(s) /\ journal[3] = k
  <2>1. k \in AllCells
    BY <1>4
  <2> HIDE DEF k
  <2>2. <<Byte(Magic), Byte(s), k>> \in Seq(AllCells) /\ Len(<<Byte(Magic), Byte(s), k>>) = 3
    BY <1>4, <2>1
  <2> QED BY <2>2 DEF k
<1> HIDE DEF journal, k
<1>6. /\ second \in Seq(Nat \X AllCells) /\ Len(second) = 3
      /\ \A i \in 1..3 : second[i] = <<JournalAt + i - 1, journal[i]>>
  <2>1. second = [i \in 1..3 |-> <<JournalAt + i - 1, journal[i]>>]
    BY <1>5 DEF Cells
  <2>2. \A i \in 1..3 : JournalAt + i - 1 \in Nat
    BY <1>1
  <2>3. \A i \in 1..3 : journal[i] \in AllCells
    BY <1>5, ElementOfSeq
  <2> HIDE DEF second
  <2>4. second \in [1..3 -> Nat \X AllCells]
    BY <2>1, <2>2, <2>3
  <2> DEFINE S == Nat \X AllCells
  <2>5. second \in [1..3 -> S] /\ 3 \in Nat
    BY <2>4
  <2> HIDE DEF S
  <2>6. second \in Seq(S)
    BY <2>5, SeqDef
  <2>7. Len(second) = 3
    BY <2>5, <2>6, LenProperties
  <2> QED BY <2>1, <2>6, <2>7 DEF S
<1> HIDE DEF second, first
<1>7. /\ second[1] = <<JournalAt, Byte(Magic)>> /\ second[2] = <<JournalAt + 1, Byte(s)>>
      /\ second[3] = <<JournalAt + 2, k>>
  BY <1>1, <1>5, <1>6
<1>8. second \in Seq(CellWrites)
  <2>1. \A i \in 1..3 : second[i] \in CellWrites
    <3> TAKE i \in 1..3
    <3>1. JournalAt + i - 1 \in Addresses /\ ~(JournalAt + i - 1 < JournalAt)
      BY <1>1
    <3>2. journal[i] \in AllCells
      <4>1. i \in 1..Len(journal)
        BY <1>5
      <4> QED BY <1>5, <4>1, ElementOfSeq
    <3>3. <<JournalAt + i - 1, journal[i]>> \in CellWrites
      BY <3>1, <3>2 DEF CellWrites
    <3> QED BY <1>6, <3>3
  <2> QED BY <1>6, <2>1, SequenceIs
<1>9. RestageWrites(s, source) = first \o second
  BY DEF RestageWrites, first, second, journal
<1>10. /\ first \o second \in Seq(CellWrites) /\ Len(first \o second) = SizeV1 + 3
       /\ \A i \in 1..(SizeV1 + 3) :
             (first \o second)[i] = IF i <= SizeV1 THEN first[i] ELSE second[i - SizeV1]
  <2>1. /\ first \o second \in Seq(CellWrites)
        /\ Len(first \o second) = Len(first) + Len(second)
        /\ \A i \in 1..(Len(first) + Len(second)) :
             (first \o second)[i] = IF i <= Len(first) THEN first[i] ELSE second[i - Len(first)]
    BY ONLY <1>3, <1>8, ConcatProperties
  <2> QED BY <1>3, <1>6, <2>1
<1>11. \A i \in 1..3 : (first \o second)[SizeV1 + i] = second[i]
  <2> TAKE i \in 1..3
  <2>1. SizeV1 + i \in 1..(SizeV1 + 3) /\ ~(SizeV1 + i <= SizeV1) /\ (SizeV1 + i) - SizeV1 = i
    BY <1>1
  <2> QED BY <1>10, <2>1
<1>12. \A i \in 1..SizeV1 : (first \o second)[i] = first[i]
  BY <1>1, <1>10
<1>13. /\ (first \o second)[SizeV1 + 1] = second[1] /\ (first \o second)[SizeV1 + 2] = second[2]
       /\ (first \o second)[SizeV1 + 3] = second[3]
  <2>1. 1 \in 1..3 /\ 2 \in 1..3 /\ 3 \in 1..3
    OBVIOUS
  <2> DEFINE both == first \o second
  <2>2. \A i \in 1..3 : both[SizeV1 + i] = second[i]
    BY <1>11
  <2> HIDE DEF both
  <2>3. both[SizeV1 + 1] = second[1] /\ both[SizeV1 + 2] = second[2] /\ both[SizeV1 + 3] = second[3]
    BY ONLY <2>1, <2>2
  <2> QED BY <2>3 DEF both
<1> QED BY <1>3, <1>7, <1>9, <1>10, <1>12, <1>13 DEF k

\* The next cell is written, and nothing else.
LEMMA OneWrite ==
    ASSUME StoreConstants, StoreTypes, WriteCell
    PROVE  /\ pending[1] \in CellWrites /\ Len(pending) \in Nat /\ Len(pending) >= 1
           /\ pending' \in Seq(CellWrites) /\ Len(pending') = Len(pending) - 1
           /\ \A i \in 1..Len(pending') : pending'[i] = pending[i + 1]
           /\ fram' = [fram EXCEPT ![pending[1][1]] = pending[1][2]]
           /\ \A a \in Addresses :
                  fram'[a] = IF a = pending[1][1] THEN pending[1][2] ELSE fram[a]
           /\ MemoryOK'
           /\ UNCHANGED <<pc, request, slot, loaded, crashes, failures, requests>>
<1>1. pending \in Seq(CellWrites) /\ pending # <<>> /\ MemoryOK
  BY DEF StoreTypes, WriteCell
<1>2. Head(pending) = pending[1] /\ pending[1] \in CellWrites
  BY <1>1
<1>3. Len(pending) \in Nat /\ Len(pending) >= 1
  BY <1>1
<1>4. /\ Tail(pending) \in Seq(CellWrites) /\ Len(Tail(pending)) = Len(pending) - 1
      /\ \A i \in 1..Len(Tail(pending)) : Tail(pending)[i] = pending[i + 1]
  BY <1>1, HeadTailProperties
<1>5. fram' = [fram EXCEPT ![pending[1][1]] = pending[1][2]]
  BY <1>2 DEF WriteCell
<1>6. \A a \in Addresses : fram'[a] = IF a = pending[1][1] THEN pending[1][2] ELSE fram[a]
  BY <1>1, <1>5 DEF MemoryOK
<1>7. MemoryOK'
  <2>1. pending[1][2] \in AllCells /\ (pending[1][1] < JournalAt => pending[1][2] \in SlotCells)
    BY <1>2 DEF CellWrites
  <2>2. fram' \in [Addresses -> AllCells]
    BY <1>1, <1>5, <2>1 DEF MemoryOK
  <2> QED BY <1>1, <1>6, <2>1, <2>2 DEF MemoryOK
<1> QED BY <1>2, <1>3, <1>4, <1>5, <1>6, <1>7 DEF WriteCell

Distinct(writes) ==
    \A i, j \in 1..Len(writes) : writes[i][1] = writes[j][1] => i = j

LEMMA ProgressStarts ==
    ASSUME NEW S, NEW writes \in Seq(S), NEW f
    PROVE  Progress(f, writes, writes)
<1>1. Len(writes) \in Nat
  BY LenProperties
<1> QED BY <1>1 DEF Progress

\* The next cell of some writes in progress is written.
LEMMA WriteGoesOn ==
    ASSUME StoreConstants, StoreTypes, WriteCell,
           NEW writes \in Seq(CellWrites), Distinct(writes), Progress(fram, pending, writes)
    PROVE  /\ Progress(fram', pending', writes)
           /\ Len(writes) - Len(pending) + 1 \in 1..Len(writes)
           /\ pending[1] = writes[Len(writes) - Len(pending) + 1]
<1> DEFINE n == Len(writes)
           m == Len(pending)
           done == n - m
<1>0. /\ pending \in Seq(CellWrites) /\ pending # <<>>
      /\ Len(pending') = Len(pending) - 1
      /\ \A i \in 1..Len(pending') : pending'[i] = pending[i + 1]
      /\ \A a \in Addresses :
            fram'[a] = IF a = pending[1][1] THEN pending[1][2] ELSE fram[a]
  BY OneWrite DEF StoreTypes, WriteCell
<1>1. n \in Nat /\ m \in Nat /\ m >= 1
  BY <1>0, LenProperties, EmptySeq
<1>2. done \in Nat
  BY <1>1 DEF Progress
<1>3. \A i \in 1..m : pending[i] = writes[done + i]
  BY DEF Progress
<1>4. \A i \in 1..done : fram[writes[i][1]] = writes[i][2]
  BY DEF Progress
<1>5. \A i \in 1..n : writes[i][1] \in Addresses
  BY ElementOfSeq DEF CellWrites
<1>6. \A i, j \in 1..n : writes[i][1] = writes[j][1] => i = j
  BY DEF Distinct
<1>7. Len(pending') = m - 1 /\ n = done + m
  BY <1>0, <1>1
<1> HIDE DEF n, m, done
<1>8. done + 1 \in 1..n /\ pending[1] = writes[done + 1]
  BY <1>1, <1>2, <1>3, <1>7
<1>9. \A i \in 1..(m - 1) : pending'[i] = writes[(done + 1) + i]
  <2> TAKE i \in 1..(m - 1)
  <2>1. pending'[i] = pending[i + 1] /\ i + 1 \in 1..m /\ done + (i + 1) = (done + 1) + i
    BY <1>0, <1>1, <1>2, <1>7
  <2> QED BY <1>3, <2>1
<1>10. \A i \in 1..(done + 1) : fram'[writes[i][1]] = writes[i][2]
  <2> TAKE i \in 1..(done + 1)
  <2>1. i \in 1..n /\ writes[i][1] \in Addresses
    BY <1>1, <1>2, <1>5, <1>7
  <2>2. CASE i = done + 1
    BY <1>0, <1>8, <2>1, <2>2
  <2>3. CASE i # done + 1
    <3>1. i \in 1..done /\ writes[i][1] # pending[1][1]
      BY <1>2, <1>6, <1>8, <2>1, <2>3
    <3> QED BY <1>0, <1>4, <2>1, <3>1
  <2> QED BY <2>2, <2>3
<1>11. n - (m - 1) = done + 1 /\ done + 1 >= 0 /\ n - m = done
  BY <1>1, <1>2, <1>7
<1>12. Progress(fram', pending', writes)
  BY <1>7, <1>9, <1>10, <1>11 DEF Progress, n
<1> QED BY <1>8, <1>11, <1>12 DEF n, m

LEMMA ProgressEnds ==
    ASSUME NEW f, NEW S, NEW writes \in Seq(S), Progress(f, <<>>, writes)
    PROVE  \A i \in 1..Len(writes) : f[writes[i][1]] = writes[i][2]
<1>1. Len(<<>>) = 0 /\ Len(writes) \in Nat
  BY LenProperties
<1>2. Len(writes) - 0 = Len(writes)
  BY <1>1
<1> QED BY <1>1, <1>2 DEF Progress

\* The write at hand, and those written before it.
LEMMA ProgressAt ==
    ASSUME NEW f, NEW writes \in Seq(CellWrites), NEW rest \in Seq(CellWrites),
           rest # <<>>, Progress(f, rest, writes)
    PROVE  LET k == Len(writes) - Len(rest) + 1 IN
           /\ k \in 1..Len(writes) /\ k \in Nat /\ Len(rest) \in Nat /\ Len(writes) \in Nat
           /\ rest[1] = writes[k]
           /\ \A i \in 1..(k - 1) : f[writes[i][1]] = writes[i][2]
<1> DEFINE n == Len(writes)
           m == Len(rest)
<1>1. n \in Nat /\ m \in Nat /\ m >= 1
  BY LenProperties, EmptySeq
<1>2. /\ n - m >= 0 /\ \A i \in 1..m : rest[i] = writes[(n - m) + i]
      /\ \A i \in 1..(n - m) : f[writes[i][1]] = writes[i][2]
  BY DEF Progress
<1> HIDE DEF n, m
<1> DEFINE k == n - m + 1
<1>3. k \in 1..n /\ k \in Nat /\ rest[1] = writes[k] /\ k - 1 = n - m
  BY <1>1, <1>2
<1>4. \A i \in 1..(k - 1) : f[writes[i][1]] = writes[i][2]
  BY <1>2, <1>3
<1> HIDE DEF k
<1>5. k \in 1..n /\ k \in Nat /\ m \in Nat /\ n \in Nat /\ rest[1] = writes[k]
      /\ \A i \in 1..(k - 1) : f[writes[i][1]] = writes[i][2]
  BY <1>1, <1>3, <1>4
<1> QED BY <1>5 DEF k, n, m

LEMMA SaveDistinct ==
    ASSUME StoreConstants, NEW s \in Slots, NEW p \in Legacy \cup Programs
    PROVE  Distinct(SaveWrites(s, p))
<1> DEFINE w == SaveWrites(s, p)
<1>1. Len(w) \in Nat /\ At(s) \in Nat /\ \A i \in 1..Len(w) : w[i][1] = At(s) + i - 1
  BY SaveWritesIs, HeaderPlaces
<1> HIDE DEF w
<1>2. Distinct(w)
  BY <1>1 DEF Distinct
<1> QED BY <1>2 DEF w

LEMMA RestageDistinct ==
    ASSUME StoreConstants, NEW s \in Slots, NEW source \in [1..SizeV1 -> SlotCells]
    PROVE  /\ Distinct(RestageWrites(s, source))
           /\ \A i \in 1..(SizeV1 + 3) : RestageWrites(s, source)[i][1] = StageAt + i - 1
<1> DEFINE w == RestageWrites(s, source)
<1>1. /\ SizeV1 \in Nat /\ StageAt \in Nat /\ JournalAt = StageAt + SizeV1
      /\ Len(w) = SizeV1 + 3
      /\ \A i \in 1..SizeV1 : w[i] = <<StageAt + i - 1, source[i]>>
      /\ w[SizeV1 + 1] = <<JournalAt, Byte(Magic)>>
      /\ w[SizeV1 + 2] = <<JournalAt + 1, Byte(s)>>
      /\ w[SizeV1 + 3] = <<JournalAt + 2, CrcOf(source)>>
  BY RestageWritesIs, Sizes, HeaderPlaces
<1> HIDE DEF w
<1>2. \A i \in 1..(SizeV1 + 3) : w[i][1] = StageAt + i - 1
  <2> TAKE i \in 1..(SizeV1 + 3)
  <2>1. CASE i \in 1..SizeV1
    BY <1>1, <2>1
  <2>2. CASE i = SizeV1 + 1
    <3>1. w[i][1] = JournalAt
      BY <1>1, <2>2
    <3> QED BY <1>1, <2>2, <3>1
  <2>3. CASE i = SizeV1 + 2
    <3>1. w[i][1] = JournalAt + 1
      BY <1>1, <2>3
    <3> QED BY <1>1, <2>3, <3>1
  <2>4. CASE i = SizeV1 + 3
    <3>1. w[i][1] = JournalAt + 2
      BY <1>1, <2>4
    <3> QED BY <1>1, <2>4, <3>1
  <2> QED BY <1>1, <2>1, <2>2, <2>3, <2>4
<1>3. Distinct(w)
  BY <1>1, <1>2 DEF Distinct
<1> QED BY <1>2, <1>3 DEF w
-----------------------------------------------------------------------------
(* Types, and what calls do.                                               *)

\* The cells of a slot of either layout, and of the staging area.
LEMMA SlotCellsAre ==
    ASSUME StoreConstants, MemoryOK
    PROVE  /\ \A s \in Slots : \A i \in 0..(2 + 2 * MaxCount) : fram[At(s) + i] \in SlotCells
           /\ \A s \in Slots : \A i \in 0..(2 + 1 * MaxCount) : fram[AtV1(s) + i] \in SlotCells
           /\ \A i \in 0..(2 + 1 * MaxCount) : fram[StageAt + i] \in SlotCells
           /\ \A s \in Slots : Image(fram, AtV1(s), SizeV1) \in [1..SizeV1 -> SlotCells]
<1>1. /\ MaxCount \in Nat /\ SizeV1 \in Nat /\ SizeV1 = 3 + MaxCount /\ SizeV2 = 3 + 2 * MaxCount
      /\ StageAt \in Nat /\ JournalAt = StageAt + SizeV1
  BY Sizes, HeaderPlaces
<1>2. \A a \in 0..(JournalAt - 1) : fram[a] \in SlotCells
  BY <1>1, HeaderPlaces DEF MemoryOK
<1>3. \A s \in Slots : /\ At(s) \in Nat /\ AtV1(s) \in Nat /\ At(s) + SizeV2 <= StageAt
                       /\ AtV1(s) <= At(s)
  BY HeaderPlaces
<1>4. \A s \in Slots : \A i \in 0..(2 + 2 * MaxCount) : fram[At(s) + i] \in SlotCells
  <2> TAKE s \in Slots
  <2> TAKE i \in 0..(2 + 2 * MaxCount)
  <2>1. At(s) + i \in 0..(JournalAt - 1)
    BY <1>1, <1>3
  <2> QED BY <1>2, <2>1
<1>5. \A s \in Slots : \A i \in 0..(2 + 1 * MaxCount) : fram[AtV1(s) + i] \in SlotCells
  <2> TAKE s \in Slots
  <2> TAKE i \in 0..(2 + 1 * MaxCount)
  <2>1. AtV1(s) + i \in 0..(JournalAt - 1)
    BY <1>1, <1>3
  <2> QED BY <1>2, <2>1
<1>6. \A i \in 0..(2 + 1 * MaxCount) : fram[StageAt + i] \in SlotCells
  <2> TAKE i \in 0..(2 + 1 * MaxCount)
  <2>1. StageAt + i \in 0..(JournalAt - 1)
    BY <1>1
  <2> QED BY <1>2, <2>1
<1>7. \A s \in Slots : Image(fram, AtV1(s), SizeV1) \in [1..SizeV1 -> SlotCells]
  <2> TAKE s \in Slots
  <2>1. \A i \in 1..SizeV1 : fram[AtV1(s) + i - 1] \in SlotCells
    <3> TAKE i \in 1..SizeV1
    <3>1. i - 1 \in 0..(2 + 1 * MaxCount) /\ AtV1(s) + (i - 1) = AtV1(s) + i - 1
      BY <1>1, <1>3
    <3> QED BY <1>5, <3>1
  <2> QED BY <2>1 DEF Image
<1> QED BY <1>4, <1>5, <1>6, <1>7

LEMMA StoreInvInit == StoreConstants /\ Init => StoreInv
<1> SUFFICES ASSUME StoreConstants, Init PROVE StoreInv
  OBVIOUS
<1>1. MemoryOK
  <2>1. CASE fram = Factory
    <3>1. \A a \in Addresses : Byte(0) \in SlotCells /\ Byte(0) \in AllCells
      BY HeaderCells, CellFacts
    <3> QED BY <2>1, <3>1 DEF MemoryOK, Factory
  <2>2. CASE \E kept \in [Slots -> LegacySlots] : fram = LegacyFram(kept)
    <3>1. PICK kept \in [Slots -> LegacySlots] : fram = LegacyFram(kept)
      BY <2>2
    <3>2. \A q \in LegacySlots : \A i \in 1..Len(q) : q[i] \in SlotCells
      <4> SUFFICES ASSUME NEW q \in LegacySlots, NEW i \in 1..Len(q) PROVE q[i] \in SlotCells
        OBVIOUS
      <4>1. CASE q = <<>>
        BY <4>1
      <4>2. ASSUME NEW p \in Legacy, NEW s \in StorePayloads, q = Append(PayloadV1(p), CrcOf(s))
            PROVE  q[i] \in SlotCells
        <5>1. q \in Seq(SlotCells)
          BY <4>2, SlotV1Is
        <5> QED BY <5>1, ElementOfSeq
      <4>3. q = <<>> \/ \E p \in Legacy : \E s \in StorePayloads : q = Append(PayloadV1(p), CrcOf(s))
        BY DEF LegacySlots, StorePayloads, WithCrc
      <4> QED BY <4>1, <4>2, <4>3
    <3>3. \A a \in Addresses : LegacyFram(kept)[a] \in SlotCells
      <4> TAKE a \in Addresses
      <4>1. CASE a < HeaderSize
        <5>1. a \in {0, 1, 2, 3}
          BY <4>1, HeaderPlaces DEF HeaderSize
        <5>2. \A i \in {1, 2, 3, 4} : Header(V1, 0)[i] \in SlotCells
          BY HeaderCells DEF Header
        <5>3. a + 1 \in {1, 2, 3, 4}
          BY <5>1
        <5>4. LegacyFram(kept)[a] = Header(V1, 0)[a + 1]
          BY <4>1 DEF LegacyFram
        <5> QED BY <5>2, <5>3, <5>4
      <4>2. CASE ~(a < HeaderSize)
        <5> DEFINE s == (a - HeaderSize) \div SizeV1
                   i == ((a - HeaderSize) % SizeV1) + 1
        <5>1. LegacyFram(kept)[a] = IF s \in Slots /\ i <= Len(kept[s]) THEN kept[s][i] ELSE Byte(0)
          BY <4>2 DEF LegacyFram
        <5>2. i \in Nat /\ i >= 1
          <6>1. a - HeaderSize \in Nat /\ SizeV1 \in Nat /\ SizeV1 > 0
            <7>1. a \in Nat
              BY Spaces
            <7>2. SizeV1 \in Nat /\ SizeV1 > 0
              BY Sizes
            <7> QED BY <4>2, <7>1, <7>2 DEF HeaderSize
          <6>2. \A x \in Nat, c \in Nat : c > 0 => x % c \in Nat
            OBVIOUS
          <6>3. (a - HeaderSize) % SizeV1 \in Nat
            BY <6>1, <6>2
          <6> QED BY <6>3
        <5> HIDE DEF s, i
        <5>3. ASSUME s \in Slots, i <= Len(kept[s]) PROVE kept[s][i] \in SlotCells
          <6>1. kept[s] \in LegacySlots
            BY <5>3
          <6>2. Len(kept[s]) \in Nat
            <7>1. \A q \in LegacySlots : Len(q) \in Nat
              <8> SUFFICES ASSUME NEW q \in LegacySlots PROVE Len(q) \in Nat
                OBVIOUS
              <8>1. q = <<>> \/ \E p \in Legacy : \E z \in StorePayloads : q = Append(PayloadV1(p), CrcOf(z))
                BY DEF LegacySlots, StorePayloads, WithCrc
              <8>2. ASSUME NEW p \in Legacy, NEW z \in StorePayloads, q = Append(PayloadV1(p), CrcOf(z))
                    PROVE  Len(q) \in Nat
                <9>1. q \in Seq(SlotCells)
                  BY <8>2, SlotV1Is
                <9> QED BY <9>1, LenProperties
              <8> QED BY <8>1, <8>2, EmptySeq
            <7> QED BY <6>1, <7>1
          <6>3. i \in 1..Len(kept[s])
            BY <5>2, <5>3, <6>2
          <6> QED BY <3>2, <6>1, <6>3
        <5> QED BY <5>1, <5>3, HeaderCells
      <4> QED BY <4>1, <4>2
    <3>4. DOMAIN fram = Addresses /\ fram = [a \in Addresses |-> fram[a]]
      BY <3>1 DEF LegacyFram
    <3> QED BY <3>1, <3>3, <3>4, CellFacts DEF MemoryOK
  <2> QED BY <2>1, <2>2 DEF Init
<1>2. CallsOK
  <2>1. 0 \in Slots /\ "none" \in Names /\ "none" # "save"
    BY Sizes DEF Slots, Names
  <2>2. request = NoRequest /\ loaded = <<>>
    BY DEF Init
  <2> QED BY <2>1, <2>2 DEF CallsOK, NoRequest
<1>3. pending = <<>> /\ pending \in Seq(CellWrites) /\ pc = "off" /\ slot = 0 /\ 0 \in Slots
  BY Sizes, EmptySeq DEF Init, Slots
<1>4. crashes \in 0..MaxCrashes /\ failures \in 0..MaxFailures /\ requests \in 0..MaxRequests
  BY DEF Init, StoreConstants
<1>5. StoreTypes
  BY <1>1, <1>2, <1>3, <1>4 DEF StoreTypes
<1>6. Calling
  BY <1>3 DEF Calling
<1> QED BY <1>5, <1>6 DEF StoreInv

StepNames == {"off", "idle", "layout", "resume", "staged", "advance", "finish", "body"}

\* A step that writes nothing yet, and asks or loads nothing.
LEMMA TypesKept ==
    ASSUME StoreTypes, UNCHANGED <<fram, request, loaded, requests>>,
           pending' \in Seq(CellWrites), pc' \in StepNames,
           pc' \in {"off", "layout"} => pending' = <<>>, slot' \in Slots,
           crashes' \in 0..MaxCrashes, failures' \in 0..MaxFailures
    PROVE  StoreTypes'
<1>1. MemoryOK' /\ CallsOK'
  BY DEF StoreTypes, MemoryOK, CallsOK
<1>2. requests' \in 0..MaxRequests
  BY DEF StoreTypes
<1> QED BY <1>1, <1>2 DEF StoreTypes, StepNames

LEMMA CallingKept ==
    ASSUME pc' \in {"idle", "body"} => pending' = <<>>, pc' # "body"
    PROVE  Calling'
BY DEF Calling

\* The header of the new layout brings its version.
LEMMA HeaderComes ==
    ASSUME StoreConstants, NEW a \in SlotCells, NEW c \in SlotCells, NEW d \in SlotCells,
           pending' = Cells(0, <<a, V2, c, d>>)
    PROVE  VersionComes' /\ pending' \in Seq(CellWrites)
<1> DEFINE w == Cells(0, <<a, V2, c, d>>)
<1>0. V2 \in SlotCells
  BY HeaderCells
<1>1. /\ w \in Seq(CellWrites) /\ Len(w) = 4
      /\ w[1] = <<MagicAt, a>> /\ w[2] = <<VersionAt, V2>>
      /\ w[3] = <<CountAt, c>> /\ w[4] = <<NextAt, d>>
  <2>1. PICK v : v = w
    OBVIOUS
  <2>2. v = Cells(0, <<a, V2, c, d>>)
    BY <2>1
  <2>3. /\ v \in Seq(CellWrites) /\ Len(v) = 4
        /\ v[1] = <<MagicAt, a>> /\ v[2] = <<VersionAt, V2>>
        /\ v[3] = <<CountAt, c>> /\ v[4] = <<NextAt, d>>
    BY <1>0, <2>2, HeaderIs
  <2> QED BY <2>1, <2>3
<1>2. pending' = w
  OBVIOUS
<1> HIDE DEF w
<1>3. \A i \in 1..4 : i \in {1, 2, 3, 4}
  OBVIOUS
<1>4. \A i \in 1..4 : w[i][1] = VersionAt => w[i][2] = V2
  BY <1>1, <1>3 DEF MagicAt, VersionAt, CountAt, NextAt
<1>5. w[4 - 2][1] = VersionAt
  BY <1>1
<1>6. 4 >= 3 /\ ~(4 < 3)
  OBVIOUS
<1>7. Len(pending') = 4 /\ \A i \in 1..4 : pending'[i] = w[i]
  BY <1>1, <1>2
<1>8. VersionComes'
  BY <1>2, <1>4, <1>5, <1>6, <1>7 DEF VersionComes
<1> QED BY <1>1, <1>2, <1>8

LEMMA AskKeeps ==
    ASSUME StoreConstants, StoreInv, Boot \/ Info \/ Change
    PROVE  StoreInv'
<1>1. /\ pc' = "layout" /\ UNCHANGED <<fram, pending, slot, loaded, crashes, failures>>
      /\ pending = <<>>
  BY DEF Boot, Info, Change, Ask, At_, StoreInv, StoreTypes
<1>2. requests' \in 0..MaxRequests
  <2>1. requests \in 0..MaxRequests /\ MaxRequests \in Nat
    BY DEF StoreInv, StoreTypes, StoreConstants
  <2>2. CASE requests' = requests
    BY <2>1, <2>2
  <2>3. CASE Change
    BY <2>1, <2>3 DEF Change
  <2> QED BY <2>2, <2>3 DEF Boot, Info, Ask
<1>3. 0 \in Slots
  BY Sizes DEF Slots
<1>4. /\ request' \in [name : Names, slot : Slots, program : Programs \cup {<<>>}]
      /\ request'.name = "save" => request'.program \in Programs
  <2>1. CASE Boot
    BY <1>3, <2>1 DEF Boot, Call, Names
  <2>2. CASE Info
    BY <1>3, <2>2 DEF Info, Ask, Call, Names
  <2>3. CASE Change
    <3>1. PICK s \in Slots : \/ \E p \in Programs : request' = Call("save", s, p)
                             \/ request' = Call("load", s, <<>>)
                             \/ request' = Call("delete", s, <<>>)
      BY <2>3 DEF Change, Ask
    <3>2. CASE \E p \in Programs : request' = Call("save", s, p)
      BY <3>2 DEF Call, Names
    <3>3. CASE request' = Call("load", s, <<>>)
      BY <3>3 DEF Call, Names
    <3>4. CASE request' = Call("delete", s, <<>>)
      BY <3>4 DEF Call, Names
    <3> QED BY <3>1, <3>2, <3>3, <3>4
  <2> QED BY <2>1, <2>2, <2>3
<1>5. MemoryOK' /\ CallsOK'
  BY <1>1, <1>4 DEF StoreInv, StoreTypes, MemoryOK, CallsOK
<1>6. StoreTypes'
  BY <1>1, <1>2, <1>5 DEF StoreInv, StoreTypes
<1> QED BY <1>1, <1>6, CallingKept DEF StoreInv

LEMMA LayoutKeeps ==
    ASSUME StoreConstants, StoreInv, Layout
    PROVE  StoreInv'
<1>1. /\ UNCHANGED <<fram, request, loaded, crashes, failures, requests>> /\ pending = <<>>
      /\ crashes \in 0..MaxCrashes /\ failures \in 0..MaxFailures /\ slot \in Slots
      /\ pending \in Seq(CellWrites)
  BY DEF Layout, CreateLayout, LayoutReady, BeginMigration, ContinueMigration, RefuseLayout,
         Writes, Goes, At_, StoreInv, StoreTypes
<1>2. \A a \in {MagicAt, VersionAt, CountAt, NextAt} : fram[a] \in SlotCells
  <2>1. \A a \in {MagicAt, VersionAt, CountAt, NextAt} : a \in Addresses /\ a < JournalAt
    BY Spaces DEF MagicAt, VersionAt, CountAt, NextAt
  <2> QED BY <2>1 DEF StoreInv, StoreTypes, MemoryOK
<1>3. CASE CreateLayout
  <2>1. pending' = Cells(0, <<Byte(Magic), V2, Byte(SlotCount), Byte(0)>>) /\ pc' = "body"
        /\ slot' = slot
    BY <1>3 DEF CreateLayout, Writes, Header
  <2>2. VersionComes' /\ pending' \in Seq(CellWrites)
    BY <2>1, HeaderComes, HeaderCells
  <2>3. StoreTypes'
    BY <1>1, <2>1, <2>2, TypesKept DEF StoreInv, StepNames
  <2> QED BY <2>1, <2>2, <2>3 DEF StoreInv, Calling
<1>4. CASE LayoutReady
  <2>1. pending' = <<>> /\ pc' = "body" /\ slot' = slot /\ fram'[VersionAt] = V2
    BY <1>1, <1>4 DEF LayoutReady, Goes, Ready
  <2>2. Len(<<>>) = 0 /\ \A i \in 1..0 : FALSE
    OBVIOUS
  <2>3. VersionComes'
    BY <2>1, <2>2 DEF VersionComes
  <2>4. StoreTypes'
    BY <1>1, <2>1, TypesKept DEF StoreInv, StepNames
  <2> QED BY <2>1, <2>3, <2>4 DEF StoreInv, Calling
<1>5. CASE BeginMigration
  <2>1. pending' = BeginWrites /\ pc' = "resume" /\ slot' \in Slots
    BY <1>5, Sizes DEF BeginMigration, Writes, Slots
  <2>2. StoreTypes'
    BY <1>1, <2>1, ShortWrites, TypesKept DEF StoreInv, StepNames
  <2> QED BY <2>1, <2>2, CallingKept DEF StoreInv
<1>6. CASE ContinueMigration
  <2>1. CASE pc' = "body"
    <3>1. pending' = Cells(0, <<fram[MagicAt], V2, fram[CountAt], Byte(0)>>) /\ slot' = slot
      BY <1>6, <2>1 DEF ContinueMigration, Writes, Goes
    <3>2. VersionComes' /\ pending' \in Seq(CellWrites)
      BY <1>2, <3>1, HeaderComes, HeaderCells
    <3>3. StoreTypes'
      BY <1>1, <2>1, <3>1, <3>2, TypesKept DEF StoreInv, StepNames
    <3> QED BY <2>1, <3>2, <3>3 DEF StoreInv, Calling
  <2>2. CASE pc' # "body"
    <3>1. pending' = <<>> /\ pc' = "resume" /\ slot' \in Slots
      BY <1>1, <1>6, <2>2 DEF ContinueMigration, Writes, Goes
    <3>2. StoreTypes'
      BY <1>1, <3>1, TypesKept DEF StoreInv, StepNames
    <3> QED BY <3>1, <3>2, CallingKept DEF StoreInv
  <2> QED BY <2>1, <2>2
<1>7. CASE RefuseLayout
  <2>1. pending' = <<>> /\ pc' = "idle" /\ slot' = slot
    BY <1>1, <1>7 DEF RefuseLayout, Goes
  <2>2. StoreTypes'
    BY <1>1, <2>1, TypesKept DEF StoreInv, StepNames
  <2> QED BY <2>1, <2>2, CallingKept DEF StoreInv
<1> QED BY <1>3, <1>4, <1>5, <1>6, <1>7 DEF Layout

LEMMA EraseWritesIs ==
    ASSUME StoreConstants, NEW s \in Slots
    PROVE  /\ Cells(At(s), <<Byte(0), Byte(0)>>) \in Seq(CellWrites)
           /\ Len(Cells(At(s), <<Byte(0), Byte(0)>>)) = 2
           /\ Cells(At(s), <<Byte(0), Byte(0)>>)[1] = <<At(s), Byte(0)>>
           /\ Cells(At(s), <<Byte(0), Byte(0)>>)[2] = <<At(s) + 1, Byte(0)>>
<1> DEFINE block == <<Byte(0), Byte(0)>>
<1>2. block \in Seq(SlotCells) /\ Len(block) = 2 /\ block[1] = Byte(0) /\ block[2] = Byte(0)
  BY HeaderCells
<1> HIDE DEF block
<1>3. At(s) \in Nat /\ At(s) + Len(block) <= JournalAt
  <2>1. /\ At(s) \in Nat /\ At(s) + SizeV2 <= StageAt /\ StageAt \in Nat
        /\ JournalAt = StageAt + SizeV1 /\ SizeV1 \in Nat /\ SizeV2 \in Nat /\ SizeV2 >= 2
    BY HeaderPlaces, Sizes
  <2> QED BY <1>2, <2>1
<1>4. /\ Cells(At(s), block) \in Seq(CellWrites) /\ Len(Cells(At(s), block)) = 2
      /\ \A i \in 1..2 : Cells(At(s), block)[i] = <<At(s) + i - 1, block[i]>>
  <2>1. /\ Cells(At(s), block) \in Seq(CellWrites) /\ Len(Cells(At(s), block)) = Len(block)
        /\ \A i \in 1..Len(block) : Cells(At(s), block)[i] = <<At(s) + i - 1, block[i]>>
    BY <1>2, <1>3, BlockWrites
  <2> QED BY <1>2, <2>1
<1>5. /\ Cells(At(s), block)[1] = <<At(s), Byte(0)>>
      /\ Cells(At(s), block)[2] = <<At(s) + 1, Byte(0)>>
  <2>1. At(s) + 1 - 1 = At(s) /\ At(s) + 2 - 1 = At(s) + 1
    BY <1>3
  <2>2. /\ Cells(At(s), block)[1] = <<At(s) + 1 - 1, block[1]>>
        /\ Cells(At(s), block)[2] = <<At(s) + 2 - 1, block[2]>>
    BY <1>4
  <2> QED BY <1>2, <2>1, <2>2
<1> QED BY <1>4, <1>5 DEF block

LEMMA MigrationKeeps ==
    ASSUME StoreConstants, StoreInv, Migration \/ RestageUnread
    PROVE  StoreInv'
<1>1. /\ UNCHANGED <<fram, request, loaded, crashes, requests>>
      /\ crashes \in 0..MaxCrashes /\ failures \in 0..MaxFailures /\ slot \in Slots
      /\ MemoryOK
  BY DEF Migration, Restage, RestageUnread, Convert, Advance, FinishMigration,
         Writes, Goes, StoreInv, StoreTypes
<1>2. failures' \in 0..MaxFailures
  <2>1. CASE RestageUnread
    BY <1>1, <2>1 DEF RestageUnread, StoreConstants
  <2>2. CASE Migration
    BY <1>1, <2>2 DEF Migration, Restage, Convert, Advance, FinishMigration, Writes, Goes
  <2> QED BY <2>1, <2>2
<1>3. ASSUME Restage \/ RestageUnread PROVE StoreInv'
  <2>1. /\ pending' = RestageWrites(slot, OldImage(slot)) /\ pc' = "staged" /\ slot' = slot
    BY <1>3 DEF Restage, RestageUnread, RestageWrites, OldImage, Writes
  <2>2. OldImage(slot) \in [1..SizeV1 -> SlotCells]
    BY <1>1, SlotCellsAre DEF OldImage
  <2>3. pending' \in Seq(CellWrites)
    BY <1>1, <2>1, <2>2, RestageWritesIs
  <2>4. StoreTypes'
    BY <1>1, <1>2, <2>1, <2>3, TypesKept DEF StoreInv, StepNames
  <2> QED BY <2>1, <2>4, CallingKept DEF StoreInv
<1>4. CASE Convert
  <2>1. slot' = slot /\ pending = <<>>
    BY <1>4 DEF Convert
  <2>2. Decoded(fram, StageAt, 1) \in {Nothing, Spoilt}
          \/ \E p \in Legacy : Decoded(fram, StageAt, 1) = Holds(p)
    BY <1>1, SlotCellsAre, HeaderPlaces, DecodedV1Known
  <2>3. \/ pc' = "idle" /\ pending' = <<>>
        \/ pc' = "advance" /\ pending' = Cells(At(slot), <<Byte(0), Byte(0)>>)
        \/ /\ Decoded(fram, StageAt, 1).kind = "program" /\ pc' = "advance"
           /\ pending' = Cells(At(slot), SlotV2(Decoded(fram, StageAt, 1).program))
    BY <1>4 DEF Convert, Writes, Goes
  <2>4. pending' \in Seq(CellWrites)
    <3>1. CASE pending' = <<>>
      BY <3>1
    <3>2. CASE pending' = Cells(At(slot), <<Byte(0), Byte(0)>>)
      <4>1. Cells(At(slot), <<Byte(0), Byte(0)>>) \in Seq(CellWrites)
        BY <1>1, EraseWritesIs
      <4> QED BY <3>2, <4>1
    <3>3. CASE Decoded(fram, StageAt, 1).kind = "program"
                 /\ pending' = Cells(At(slot), SlotV2(Decoded(fram, StageAt, 1).program))
      <4>1. PICK p \in Legacy : Decoded(fram, StageAt, 1) = Holds(p)
        BY <2>2, <3>3, HoldsFacts
      <4>2. pending' = Cells(At(slot), SlotV2(p))
        BY <3>3, <4>1, HoldsFacts
      <4> QED BY <1>1, <4>2, SaveWritesIs DEF SaveWrites
    <3> QED BY <2>3, <3>1, <3>2, <3>3
  <2>5. pc' \in {"idle", "advance"} /\ (pc' = "idle" => pending' = <<>>)
    BY <2>3
  <2>6. StoreTypes'
    BY <1>1, <1>2, <2>1, <2>4, <2>5, TypesKept DEF StoreInv, StepNames
  <2> QED BY <2>5, <2>6, CallingKept DEF StoreInv
<1>5. CASE Advance
  <2>1. pending' = NextWrite(slot) /\ pc' \in {"finish", "resume"}
    BY <1>5 DEF Advance, Writes, NextWrite
  <2>2. slot' \in Slots
    BY <1>1, <1>5, Sizes DEF Advance, Slots
  <2>3. pending' \in Seq(CellWrites)
    BY <1>1, <2>1, ShortWrites
  <2>4. StoreTypes'
    BY <1>1, <1>2, <2>1, <2>2, <2>3, TypesKept DEF StoreInv, StepNames
  <2> QED BY <2>1, <2>4, CallingKept DEF StoreInv
<1>6. CASE FinishMigration
  <2>1. pending' = Cells(0, <<Byte(Magic), V2, Byte(SlotCount), Byte(0)>>) /\ pc' = "body"
        /\ slot' = slot
    BY <1>6 DEF FinishMigration, Writes, Header
  <2>2. VersionComes' /\ pending' \in Seq(CellWrites)
    BY <2>1, HeaderComes, HeaderCells
  <2>3. StoreTypes'
    BY <1>1, <1>2, <2>1, <2>2, TypesKept DEF StoreInv, StepNames
  <2> QED BY <2>1, <2>2, <2>3 DEF StoreInv, Calling
<1> QED BY <1>3, <1>4, <1>5, <1>6 DEF Migration

LEMMA BodyKeeps ==
    ASSUME StoreConstants, StoreInv, Body
    PROVE  StoreInv'
<1>1. /\ UNCHANGED <<fram, request, slot, crashes, failures, requests>> /\ pc' = "idle"
      /\ pending = <<>> /\ pc = "body"
      /\ crashes \in 0..MaxCrashes /\ failures \in 0..MaxFailures /\ slot \in Slots
      /\ pending \in Seq(CellWrites) /\ CallsOK /\ MemoryOK
  BY DEF Body, Answer, SaveSlot, DeleteSlot, LoadSlot, Writes, Goes, At_, StoreInv, StoreTypes
<1>2. fram[VersionAt] = V2
  <2>1. VersionComes /\ Len(<<>>) = 0 /\ 0 < 3
    BY <1>1 DEF StoreInv, Calling
  <2> QED BY <1>1, <2>1 DEF VersionComes
<1>3. CASE Answer
  <2>1. pending' = <<>> /\ loaded' = loaded
    BY <1>1, <1>3 DEF Answer, Goes
  <2>2. StoreTypes'
    BY <1>1, <2>1, TypesKept DEF StoreInv, StepNames
  <2> QED BY <1>1, <2>1, <2>2, CallingKept DEF StoreInv
<1>4. CASE SaveSlot
  <2>1. /\ pending' = SaveWrites(request.slot, request.program) /\ loaded' = loaded
        /\ request.name = "save" /\ request.slot \in Slots
        /\ request.program \in Legacy \cup Programs
    BY <1>1, <1>4 DEF SaveSlot, Writes, SaveWrites, CallsOK
  <2>2. SaveWrites(request.slot, request.program) \in Seq(CellWrites)
    BY <2>1, SaveWritesIs
  <2>3. StoreTypes'
    BY <1>1, <2>1, <2>2, TypesKept DEF StoreInv, StepNames
  <2>4. Progress(fram', pending', SaveWrites(request.slot, request.program))
    BY <2>1, <2>2, ProgressStarts
  <2>5. Calling'
    BY <1>1, <1>2, <2>1, <2>4 DEF Calling, InFlight
  <2> QED BY <2>3, <2>5 DEF StoreInv
<1>5. CASE DeleteSlot
  <2>1. /\ pending' = <<<<At(request.slot), Byte(0)>>>> /\ loaded' = loaded
        /\ request.name = "delete" /\ request.slot \in Slots
    BY <1>1, <1>5 DEF DeleteSlot, Writes, CallsOK
  <2>2. pending' \in Seq(CellWrites)
    BY <2>1, ShortWrites
  <2>3. StoreTypes'
    BY <1>1, <2>1, <2>2, TypesKept DEF StoreInv, StepNames
  <2>4. Calling'
    BY <1>1, <1>2, <2>1 DEF Calling
  <2> QED BY <2>3, <2>4 DEF StoreInv
<1>6. CASE LoadSlot
  <2>1. pending' = <<>> /\ request.slot \in Slots
    BY <1>1, <1>6 DEF LoadSlot, CallsOK
  <2>2. Decoded(fram, At(request.slot), 2) \in {Nothing, Spoilt}
          \/ \E p \in Legacy \cup Programs : Decoded(fram, At(request.slot), 2) = Holds(p)
    BY <1>1, <2>1, SlotCellsAre, HeaderPlaces, DecodedV2Known
  <2>3. loaded' \in {<<>>} \cup Legacy \cup Programs
    <3>1. CASE loaded' = loaded
      BY <1>1, <3>1 DEF CallsOK
    <3>2. CASE /\ Decoded(fram, At(request.slot), 2).kind = "program"
               /\ loaded' \in {Decoded(fram, At(request.slot), 2).program, <<>>}
      <4>1. PICK p \in Legacy \cup Programs : Decoded(fram, At(request.slot), 2) = Holds(p)
        BY <2>2, <3>2, HoldsFacts
      <4> QED BY <3>2, <4>1, HoldsFacts
    <3> QED BY <1>6, <3>1, <3>2 DEF LoadSlot
  <2>4. MemoryOK' /\ CallsOK'
    BY <1>1, <2>3 DEF MemoryOK, CallsOK
  <2>5. StoreTypes'
    BY <1>1, <2>1, <2>4 DEF StoreInv, StoreTypes
  <2> QED BY <1>1, <2>1, <2>5, CallingKept DEF StoreInv
<1> QED BY <1>3, <1>4, <1>5, <1>6 DEF Body

LEMMA WriteKeeps ==
    ASSUME StoreConstants, StoreInv, WriteCell
    PROVE  StoreInv'
<1> DEFINE w == pending[1]
           n == Len(pending)
<1>1. /\ w \in CellWrites /\ n \in Nat /\ n >= 1
      /\ pending' \in Seq(CellWrites) /\ Len(pending') = n - 1
      /\ \A i \in 1..(n - 1) : pending'[i] = pending[i + 1]
      /\ fram' = [fram EXCEPT ![w[1]] = w[2]] /\ MemoryOK'
      /\ \A a \in Addresses : fram'[a] = IF a = w[1] THEN w[2] ELSE fram[a]
      /\ UNCHANGED <<pc, request, slot, loaded, crashes, failures, requests>>
  BY OneWrite DEF StoreInv
<1>2. pending # <<>> /\ pending \in Seq(CellWrites) /\ fram \in [Addresses -> AllCells]
      /\ VersionAt \in Addresses /\ CallsOK
  BY HeaderCells DEF WriteCell, StoreInv, StoreTypes, MemoryOK
<1> HIDE DEF w, n
<1>3. StoreTypes'
  <2>1. CallsOK'
    BY <1>1, <1>2 DEF CallsOK
  <2>2. pc \notin {"off", "layout"}
    BY <1>2 DEF StoreInv, StoreTypes
  <2> QED BY <1>1, <2>1, <2>2 DEF StoreInv, StoreTypes
<1>4. CASE pc = "body"
  <2>1. VersionComes
    BY <1>4 DEF StoreInv, Calling
  <2>2. /\ \A i \in 1..n : pending[i][1] = VersionAt => pending[i][2] = V2
        /\ n < 3 => fram[VersionAt] = V2
        /\ n >= 3 => pending[n - 2][1] = VersionAt
    BY <2>1 DEF VersionComes, n
  <2>3. \A i \in 1..(n - 1) : pending'[i][1] = VersionAt => pending'[i][2] = V2
    <3> TAKE i \in 1..(n - 1)
    <3>1. i + 1 \in 1..n /\ pending'[i] = pending[i + 1]
      BY <1>1
    <3> QED BY <2>2, <3>1
  <2>4. w[1] = VersionAt => w[2] = V2
    BY <1>1, <2>2 DEF w
  <2>5. n - 1 < 3 => fram'[VersionAt] = V2
    <3>1. CASE n < 3
      BY <1>1, <1>2, <2>2, <2>4, <3>1
    <3>2. CASE n = 3
      <4>1. w[1] = VersionAt
        BY <2>2, <3>2 DEF w
      <4> QED BY <1>1, <1>2, <2>4, <4>1
    <3> QED BY <1>1, <3>1, <3>2
  <2>6. n - 1 >= 3 => pending'[n - 1 - 2][1] = VersionAt
    <3> HAVE n - 1 >= 3
    <3>1. n - 1 - 2 \in 1..(n - 1) /\ (n - 1 - 2) + 1 = n - 2
      BY <1>1
    <3> QED BY <1>1, <2>2, <3>1
  <2>7. VersionComes'
    BY <1>1, <2>3, <2>5, <2>6 DEF VersionComes
  <2> QED BY <1>1, <1>3, <1>4, <2>7 DEF StoreInv, Calling
<1>5. CASE pc = "idle"
  <2>1. /\ fram[VersionAt] = V2
        /\ \/ request.name = "save" /\ InFlight(SaveWrites(request.slot, request.program))
           \/ request.name = "delete" /\ pending = <<<<At(request.slot), Byte(0)>>>>
    BY <1>2, <1>5 DEF StoreInv, Calling
  <2>2. CASE request.name = "save" /\ InFlight(SaveWrites(request.slot, request.program))
    <3> DEFINE writes == SaveWrites(request.slot, request.program)
    <3>1. request.slot \in Slots /\ request.program \in Legacy \cup Programs
      BY <1>2, <2>2 DEF CallsOK
    <3>2. /\ writes \in Seq(CellWrites) /\ Distinct(writes)
          /\ Len(writes) \in Nat
          /\ \A i \in 1..Len(writes) : writes[i][1] = At(request.slot) + i - 1
      BY <3>1, SaveWritesIs, SaveDistinct
    <3>3. Progress(fram, pending, writes)
      BY <2>2 DEF InFlight
    <3> HIDE DEF writes
    <3>4. /\ Progress(fram', pending', writes)
          /\ Len(writes) - n + 1 \in 1..Len(writes) /\ w = writes[Len(writes) - n + 1]
      <4>1. /\ Progress(fram', pending', writes)
            /\ Len(writes) - Len(pending) + 1 \in 1..Len(writes)
            /\ pending[1] = writes[Len(writes) - Len(pending) + 1]
        BY ONLY StoreConstants, StoreInv, WriteCell, <3>2, <3>3, WriteGoesOn DEF StoreInv
      <4> QED BY <4>1 DEF w, n
    <3>5. w[1] # VersionAt
      <4>1. w[1] = At(request.slot) + (Len(writes) - n + 1) - 1 /\ Len(writes) - n + 1 >= 1
        BY <3>2, <3>4
      <4>2. At(request.slot) \in Nat /\ At(request.slot) >= 4
        BY <3>1, HeaderPlaces DEF HeaderSize
      <4> QED BY <1>1, <3>2, <4>1, <4>2 DEF VersionAt
    <3>6. fram'[VersionAt] = V2
      BY <1>1, <1>2, <2>1, <3>5
    <3>7. InFlight(SaveWrites(request.slot, request.program))'
      BY <1>1, <3>4 DEF InFlight, writes
    <3> QED BY <1>1, <1>3, <1>5, <2>2, <3>6, <3>7 DEF StoreInv, Calling
  <2>3. CASE request.name = "delete" /\ pending = <<<<At(request.slot), Byte(0)>>>>
    <3>1. n = 1
      BY <2>3, ShortWrites DEF n
    <3>2. Len(pending') = 0
      BY <1>1, <3>1
    <3>3. pending' = <<>>
      BY <1>1, <3>2, EmptySeq
    <3> QED BY <1>1, <1>3, <1>5, <3>3, CallingKept DEF StoreInv
  <2> QED BY <2>1, <2>2, <2>3
<1>6. CASE pc \notin {"idle", "body"}
  BY <1>1, <1>3, <1>6, CallingKept DEF StoreInv
<1> QED BY <1>4, <1>5, <1>6

LEMMA FailKeeps ==
    ASSUME StoreConstants, StoreInv, BusFails \/ PowerFails
    PROVE  StoreInv'
<1>1. /\ UNCHANGED <<fram, request, slot, requests>> /\ pending' = <<>>
      /\ pc' \in {"idle", "off"} /\ loaded' \in {loaded, <<>>}
  BY DEF BusFails, PowerFails
<1>2. crashes' \in 0..MaxCrashes /\ failures' \in 0..MaxFailures
  BY DEF BusFails, PowerFails, StoreInv, StoreTypes, StoreConstants
<1>3. MemoryOK' /\ CallsOK'
  BY <1>1 DEF StoreInv, StoreTypes, MemoryOK, CallsOK
<1>4. pending' \in Seq(CellWrites)
  BY <1>1
<1>5. StoreTypes'
  BY <1>1, <1>2, <1>3, <1>4 DEF StoreInv, StoreTypes
<1> QED BY <1>1, <1>5, CallingKept DEF StoreInv

LEMMA StoreInvStep == StoreConstants /\ StoreInv /\ [Next]_vars => StoreInv'
<1> SUFFICES ASSUME StoreConstants, StoreInv, [Next]_vars PROVE StoreInv'
  OBVIOUS
<1>1. CASE Boot \/ Info \/ Change
  BY <1>1, AskKeeps
<1>2. CASE Layout
  BY <1>2, LayoutKeeps
<1>3. CASE Migration \/ RestageUnread
  BY <1>3, MigrationKeeps
<1>4. CASE Body
  BY <1>4, BodyKeeps
<1>5. CASE WriteCell
  BY <1>5, WriteKeeps
<1>6. CASE BusFails \/ PowerFails
  BY <1>6, FailKeeps
<1>7. CASE UNCHANGED vars
  BY <1>7 DEF vars, StoreInv, StoreTypes, MemoryOK, CallsOK, Calling, VersionComes, InFlight,
              Progress
<1> QED BY <1>1, <1>2, <1>3, <1>4, <1>5, <1>6, <1>7 DEF Next, Code

(* Types, in every configuration: with spoilt slots, blank memories and    *)
(* failing reads as well.                                                  *)
THEOREM StoreTypeCorrect ==
    ASSUME StoreConstants
    PROVE  Spec => []TypeOK
<1>1. Init => StoreInv
  BY StoreInvInit
<1>2. StoreInv /\ [Next]_vars => StoreInv'
  BY StoreInvStep
<1>3. StoreInv => TypeOK
  <2> SUFFICES ASSUME StoreInv PROVE TypeOK
    OBVIOUS
  <2>1. DOMAIN fram = Addresses
    BY DEF StoreInv, StoreTypes, MemoryOK
  <2>2. \A i \in 1..Len(pending) : pending[i][1] \in Addresses
    <3> TAKE i \in 1..Len(pending)
    <3>1. pending[i] \in CellWrites
      BY ElementOfSeq DEF StoreInv, StoreTypes
    <3> QED BY <3>1 DEF CellWrites
  <2>3. crashes <= MaxCrashes /\ failures <= MaxFailures /\ requests <= MaxRequests
    BY DEF StoreInv, StoreTypes, StoreConstants
  <2> QED BY <2>1, <2>2, <2>3 DEF StoreInv, StoreTypes, TypeOK
<1> QED BY <1>1, <1>2, <1>3, PTL DEF Spec

(* What the store says is so: what is loaded was stored whole, and a save  *)
(* written to its end is stored, whatever the memory held, and however     *)
(* often power, bus and reads failed before (seq_store.cpp).               *)
THEOREM StoreIsTruthful ==
    ASSUME StoreConstants
    PROVE  Spec => StoreTruthful
<1>1. Init => StoreInv
  BY StoreInvInit
<1>2. StoreInv /\ [Next]_vars => StoreInv'
  BY StoreInvStep
<1>3. StoreInv => LoadsWhole
  BY DEF StoreInv, StoreTypes, CallsOK, LoadsWhole
<1>4. StoreInv /\ [Next]_vars => [SaveIsDurableStep]_vars
  <2> SUFFICES ASSUME StoreInv, request.name = "save", pc = "idle", Len(pending) = 1, WriteCell
               PROVE  Content(request.slot)' = Holds(request.program)
    BY DEF SaveIsDurableStep
  <2> DEFINE writes == SaveWrites(request.slot, request.program)
  <2>1. /\ pending # <<>> /\ pending \in Seq(CellWrites) /\ fram \in [Addresses -> AllCells]
        /\ request.slot \in Slots /\ request.program \in Legacy \cup Programs
    BY DEF WriteCell, StoreInv, StoreTypes, CallsOK, MemoryOK
  <2>2. StoreTypes' /\ request' = request /\ Len(pending') = 0
    BY OneWrite, WriteKeeps DEF StoreInv
  <2>3. pending' = <<>>
    BY <2>2, EmptySeq DEF StoreTypes
  <2>4. fram[VersionAt] = V2 /\ Progress(fram, pending, writes)
    BY <2>1 DEF StoreInv, Calling, InFlight
  <2>5. /\ writes \in Seq(CellWrites) /\ Distinct(writes)
        /\ Len(writes) = Len(SlotV2(request.program)) /\ Len(writes) \in Nat
        /\ \A i \in 1..Len(writes) : /\ writes[i][1] = At(request.slot) + i - 1
                                     /\ writes[i][2] = SlotV2(request.program)[i]
    BY <2>1, SaveWritesIs, SaveDistinct
  <2> HIDE DEF writes
  <2>6. /\ fram' = [fram EXCEPT ![pending[1][1]] = pending[1][2]]
        /\ Len(pending') = Len(pending) - 1
        /\ \A i \in 1..Len(pending') : pending'[i] = pending[i + 1]
        /\ \A a \in Addresses : fram'[a] = IF a = pending[1][1] THEN pending[1][2] ELSE fram[a]
    BY OneWrite DEF StoreInv
  <2>7. /\ Progress(fram', pending', writes)
        /\ Len(writes) - Len(pending) + 1 \in 1..Len(writes)
        /\ pending[1] = writes[Len(writes) - Len(pending) + 1]
    BY <2>4, <2>5, WriteGoesOn DEF StoreInv
  <2>8. \A i \in 1..Len(writes) : fram'[writes[i][1]] = writes[i][2]
    BY <2>3, <2>5, <2>7, ProgressEnds
  <2>9. fram'[VersionAt] = V2
    <3>1. pending[1][1] = At(request.slot) + Len(writes) - 1 /\ Len(writes) >= 1
      BY <2>5, <2>7
    <3>2. At(request.slot) \in Nat /\ At(request.slot) >= 4
      BY <2>1, HeaderPlaces DEF HeaderSize
    <3>3. pending[1][1] # VersionAt /\ VersionAt \in Addresses
      BY <2>5, <3>1, <3>2, HeaderCells DEF VersionAt
    <3> QED BY <2>4, <2>6, <3>3
  <2>10. \A i \in 1..Len(SlotV2(request.program)) :
            fram'[At(request.slot) + i - 1] = SlotV2(request.program)[i]
    BY <2>5, <2>8
  <2>11. Decoded(fram', At(request.slot), 2) = Holds(request.program)
    BY <2>1, <2>10, HeaderPlaces, DecodedV2Written
  <2>12. V2 # V1 /\ V2 # Migrating
    BY HeaderCells
  <2> QED BY <2>2, <2>9, <2>11, <2>12 DEF Content
<1> QED BY <1>1, <1>2, <1>3, <1>4, PTL DEF Spec, StoreTruthful
-----------------------------------------------------------------------------
(* What a slot holds, in each phase of the migration, and what a write     *)
(* elsewhere leaves as it was.                                             *)

ContentIn(f, s) ==
    LET next == f[NextAt].n
        old == Decoded(f, AtV1(s), 1)
        new == Decoded(f, At(s), 2)
    IN  CASE f[VersionAt] = V1 -> old
          [] f[VersionAt] = Migrating ->
                IF next = Finished \/ s > next THEN new
                ELSE IF s = next /\ Staged(f, s) THEN Decoded(f, StageAt, 1)
                ELSE old
          [] OTHER -> new

LEMMA ContentIs ==
    ASSUME NEW s \in Slots
    PROVE  Content(s) = ContentIn(fram, s) /\ Content(s)' = ContentIn(fram', s)
BY DEF Content, ContentIn

\* The progress byte of a slot is not that of the end.
LEMMA SlotNumbers ==
    ASSUME StoreConstants
    PROVE  /\ \A s \in Slots : s \in Nat /\ s < SlotCount /\ s # Finished
           /\ 0 \in Slots /\ SlotCount - 1 \in Slots /\ Finished \in Nat
           /\ \A s \in Slots : s # 0 => s - 1 \in Slots
BY Sizes DEF Slots, Finished

LEMMA ContentOld ==
    ASSUME NEW f, NEW s \in Slots, f[VersionAt] = V1
    PROVE  ContentIn(f, s) = Decoded(f, AtV1(s), 1)
BY DEF ContentIn, V1, Migrating, Byte

LEMMA ContentNew ==
    ASSUME NEW f, NEW s \in Slots, f[VersionAt] = V2
    PROVE  ContentIn(f, s) = Decoded(f, At(s), 2)
<1>1. V2 # V1 /\ V2 # Migrating
  BY DEF V1, V2, Migrating, Byte
<1> QED BY <1>1 DEF ContentIn

LEMMA ContentFinished ==
    ASSUME NEW f, NEW s \in Slots, f[VersionAt] = Migrating, f[NextAt] = Byte(Finished)
    PROVE  ContentIn(f, s) = Decoded(f, At(s), 2)
<1>1. Migrating # V1
  BY DEF V1, Migrating, Byte
<1>2. f[NextAt].n = Finished
  BY CellFacts
<1> QED BY <1>1, <1>2 DEF ContentIn

LEMMA ContentMoving ==
    ASSUME StoreConstants, NEW f, NEW s \in Slots, NEW k \in Slots,
           f[VersionAt] = Migrating, f[NextAt] = Byte(k)
    PROVE  /\ s > k => ContentIn(f, s) = Decoded(f, At(s), 2)
           /\ s = k /\ Staged(f, s) => ContentIn(f, s) = Decoded(f, StageAt, 1)
           /\ s = k /\ ~Staged(f, s) => ContentIn(f, s) = Decoded(f, AtV1(s), 1)
           /\ s < k => ContentIn(f, s) = Decoded(f, AtV1(s), 1)
<1>1. Migrating # V1
  BY DEF V1, Migrating, Byte
<1>2. f[NextAt].n = k /\ k # Finished /\ s \in Nat /\ k \in Nat
  BY CellFacts, SlotNumbers
<1> DEFINE old == Decoded(f, AtV1(s), 1)
           new == Decoded(f, At(s), 2)
           stage == Decoded(f, StageAt, 1)
<1>3. ContentIn(f, s) = IF k = Finished \/ s > k THEN new
                        ELSE IF s = k /\ Staged(f, s) THEN stage ELSE old
  BY <1>1, <1>2 DEF ContentIn
<1> HIDE DEF old, new, stage
<1>4. /\ s > k => ContentIn(f, s) = new
      /\ s = k /\ Staged(f, s) => ContentIn(f, s) = stage
      /\ s = k /\ ~Staged(f, s) => ContentIn(f, s) = old
      /\ s < k => ContentIn(f, s) = old
  BY <1>2, <1>3
<1> QED BY <1>4 DEF old, new, stage

(* Memories f and g that differ in no cell but one.                        *)
Differ(f, g, a) == \A b \in Addresses : b # a => g[b] = f[b]

LEMMA ElsewhereNew ==
    ASSUME StoreConstants, NEW f, NEW g, NEW a \in Addresses, Differ(f, g, a),
           NEW s \in Slots, a < At(s) \/ a >= At(s) + SizeV2
    PROVE  Decoded(g, At(s), 2) = Decoded(f, At(s), 2)
<1>1. /\ At(s) \in Nat /\ At(s) + SizeV2 <= StageAt /\ StageAt \in Nat
      /\ JournalAt = StageAt + SizeV1 /\ Addresses = 0..(JournalAt + 2)
  BY HeaderPlaces
<1>2. MaxCount \in Nat /\ SizeV2 = 3 + 2 * MaxCount /\ SizeV1 = 3 + MaxCount
  BY Sizes
<1>3. \A i \in 0..(2 + 2 * MaxCount) : g[At(s) + i] = f[At(s) + i]
  <2> TAKE i \in 0..(2 + 2 * MaxCount)
  <2>1. At(s) + i \in Addresses /\ At(s) + i # a
    BY <1>1, <1>2
  <2> QED BY <2>1 DEF Differ
<1> QED BY <1>1, <1>3, DecodedSame

LEMMA ElsewhereOld ==
    ASSUME StoreConstants, NEW f, NEW g, NEW a \in Addresses, Differ(f, g, a),
           NEW s \in Slots, a < AtV1(s) \/ a >= AtV1(s) + SizeV1
    PROVE  /\ Decoded(g, AtV1(s), 1) = Decoded(f, AtV1(s), 1)
           /\ Image(g, AtV1(s), SizeV1) = Image(f, AtV1(s), SizeV1)
<1>1. /\ AtV1(s) \in Nat /\ At(s) \in Nat /\ AtV1(s) <= At(s) /\ At(s) + SizeV2 <= StageAt
      /\ StageAt \in Nat /\ JournalAt = StageAt + SizeV1 /\ Addresses = 0..(JournalAt + 2)
  BY HeaderPlaces
<1>2. MaxCount \in Nat /\ SizeV2 = 3 + 2 * MaxCount /\ SizeV1 = 3 + MaxCount /\ SizeV1 \in Nat
  BY Sizes
<1>3. \A i \in 0..(2 + 1 * MaxCount) : g[AtV1(s) + i] = f[AtV1(s) + i]
  <2> TAKE i \in 0..(2 + 1 * MaxCount)
  <2>1. AtV1(s) + i \in Addresses /\ AtV1(s) + i # a
    BY <1>1, <1>2
  <2> QED BY <2>1 DEF Differ
<1>4. \A i \in 1..SizeV1 : g[AtV1(s) + i - 1] = f[AtV1(s) + i - 1]
  <2> TAKE i \in 1..SizeV1
  <2>1. i - 1 \in 0..(2 + 1 * MaxCount) /\ AtV1(s) + (i - 1) = AtV1(s) + i - 1
    BY <1>1, <1>2
  <2> QED BY <1>3, <2>1
<1>5. Decoded(g, AtV1(s), 1) = Decoded(f, AtV1(s), 1)
  BY <1>1, <1>3, DecodedSame
<1>6. Image(g, AtV1(s), SizeV1) = Image(f, AtV1(s), SizeV1)
  BY <1>4 DEF Image
<1> QED BY <1>5, <1>6

LEMMA ElsewhereStage ==
    ASSUME StoreConstants, NEW f, NEW g, NEW a \in Addresses, Differ(f, g, a),
           a < StageAt \/ a >= JournalAt
    PROVE  /\ Decoded(g, StageAt, 1) = Decoded(f, StageAt, 1)
           /\ Image(g, StageAt, SizeV1) = Image(f, StageAt, SizeV1)
<1>1. StageAt \in Nat /\ JournalAt = StageAt + SizeV1 /\ Addresses = 0..(JournalAt + 2)
  BY HeaderPlaces
<1>2. MaxCount \in Nat /\ SizeV1 = 3 + MaxCount /\ SizeV1 \in Nat
  BY Sizes
<1>3. \A i \in 0..(2 + 1 * MaxCount) : g[StageAt + i] = f[StageAt + i]
  <2> TAKE i \in 0..(2 + 1 * MaxCount)
  <2>1. StageAt + i \in Addresses /\ StageAt + i # a
    BY <1>1, <1>2
  <2> QED BY <2>1 DEF Differ
<1>4. \A i \in 1..SizeV1 : g[StageAt + i - 1] = f[StageAt + i - 1]
  <2> TAKE i \in 1..SizeV1
  <2>1. i - 1 \in 0..(2 + 1 * MaxCount) /\ StageAt + (i - 1) = StageAt + i - 1
    BY <1>1, <1>2
  <2> QED BY <1>3, <2>1
<1>5. Decoded(g, StageAt, 1) = Decoded(f, StageAt, 1)
  BY <1>1, <1>3, DecodedSame
<1>6. Image(g, StageAt, SizeV1) = Image(f, StageAt, SizeV1)
  BY <1>4 DEF Image
<1> QED BY <1>5, <1>6

\* The staging area and its journal are as they were.
LEMMA ElsewhereStaged ==
    ASSUME StoreConstants, NEW f, NEW g, NEW a \in Addresses, Differ(f, g, a), a < StageAt
    PROVE  /\ \A s : Staged(g, s) <=> Staged(f, s)
           /\ Decoded(g, StageAt, 1) = Decoded(f, StageAt, 1)
           /\ Image(g, StageAt, SizeV1) = Image(f, StageAt, SizeV1)
           /\ g[JournalAt] = f[JournalAt] /\ g[JournalAt + 1] = f[JournalAt + 1]
<1>1. /\ StageAt \in Nat /\ JournalAt \in Nat /\ SizeV1 \in Nat
      /\ JournalAt = StageAt + SizeV1 /\ Addresses = 0..(JournalAt + 2)
  BY HeaderPlaces, Sizes
<1>2. g[JournalAt] = f[JournalAt] /\ g[JournalAt + 1] = f[JournalAt + 1]
      /\ g[JournalAt + 2] = f[JournalAt + 2]
  <2>1. /\ JournalAt \in Addresses /\ JournalAt + 1 \in Addresses /\ JournalAt + 2 \in Addresses
        /\ JournalAt # a /\ JournalAt + 1 # a /\ JournalAt + 2 # a
    BY <1>1
  <2> QED BY <2>1 DEF Differ
<1>3. /\ Decoded(g, StageAt, 1) = Decoded(f, StageAt, 1)
      /\ Image(g, StageAt, SizeV1) = Image(f, StageAt, SizeV1)
  BY ElsewhereStage
<1> QED BY <1>2, <1>3 DEF Staged
-----------------------------------------------------------------------------
(* The phases, and the steps that write nothing.                           *)

LEMMA HereIs ==
    ASSUME StoreConstants, StoreInv, Phases
    PROVE  /\ pc = "resume" /\ pending = <<>> => fram[VersionAt] = Migrating /\ slot = Next_
           /\ pc = "staged" => fram[VersionAt] = Migrating /\ slot = Next_
           /\ pc = "advance" => fram[VersionAt] = Migrating /\ slot = Next_
           /\ pc = "finish" /\ pending = <<>> => fram[VersionAt] = Migrating /\ Next_ = Finished
           /\ pc = "body" /\ pending = <<>> => fram[VersionAt] = V2
           /\ pc = "idle" /\ pending # <<>> => fram[VersionAt] = V2
           /\ Next_ \in Slots \cup {Finished} /\ fram[NextAt] = Byte(Next_)
           /\ fram[VersionAt] \in {V1, Migrating, V2}
           /\ fram[MagicAt] = Byte(Magic) /\ fram[CountAt] = Byte(SlotCount)
<1>1. /\ fram[VersionAt] \in {V1, Migrating, V2}
      /\ fram[MagicAt] = Byte(Magic) /\ fram[CountAt] = Byte(SlotCount)
      /\ \E k \in Slots \cup {Finished} : fram[NextAt] = Byte(k)
  BY DEF Phases, HeaderOK
<1>2. PICK k \in Slots \cup {Finished} : fram[NextAt] = Byte(k)
  BY <1>1
<1>3. Next_ = k
  BY <1>2, CellFacts DEF Next_
<1>4. CASE fram[VersionAt] = V1
  <2>1. OldPhase
    BY <1>4 DEF Phases
  <2>2. StoreResting \/ (pc = "resume" /\ pending # <<>>)
    BY <2>1 DEF OldPhase
  <2>3. ~(pc = "idle" /\ pending # <<>>)
    BY <2>2 DEF StoreResting
  <2> QED BY <1>1, <1>2, <1>3, <2>2, <2>3 DEF StoreResting
<1>5. CASE fram[VersionAt] = Migrating
  <2>1. MovingPhase
    BY <1>5 DEF Phases
  <2>2. ~(pc = "idle" /\ pending # <<>>)
    BY <2>1 DEF MovingPhase, StoreResting
  <2>3. pc = "resume" /\ pending = <<>> => slot = Next_
    <3>1. ASSUME pc = "resume" /\ pending = <<>> PROVE pending # NextWrite(Next_)
      BY <3>1, ShortWrites DEF NextWrite
    <3> QED BY <2>1, <3>1 DEF MovingPhase, StoreResting
  <2>4. pc \in {"staged", "advance"} => slot = Next_
    BY <2>1 DEF MovingPhase, StoreResting
  <2>5. pc = "finish" /\ pending = <<>> => Next_ = Finished
    <3>1. ASSUME pc = "finish" /\ pending = <<>> PROVE pending # NextWrite(0)
      BY <3>1, ShortWrites DEF NextWrite
    <3> QED BY <2>1, <3>1 DEF MovingPhase, StoreResting
  <2>6. ~(pc = "body" /\ pending = <<>>)
    BY <2>1 DEF MovingPhase, StoreResting
  <2> QED BY <1>1, <1>2, <1>3, <1>5, <2>2, <2>3, <2>4, <2>5, <2>6
<1>6. CASE fram[VersionAt] = V2
  <2>1. NewPhase
    BY <1>6 DEF Phases
  <2>2. pc \in {"off", "idle", "layout", "body"}
    BY <2>1 DEF NewPhase, StoreResting
  <2> QED BY <1>1, <1>2, <1>3, <1>6, <2>2
<1> QED BY <1>1, <1>4, <1>5, <1>6

\* While the memory is unchanged, so is what the phases say of it.
LEMMA PhasesStand ==
    ASSUME Phases, fram' = fram
    PROVE  /\ HeaderOK' /\ Next_' = Next_
           /\ fram[VersionAt] = V1 => (fram[JournalAt] # Byte(Magic))'
           /\ fram[VersionAt] = Migrating => (Next_ \in Slots => StageTrue(Next_))'
<1>1. HeaderOK' /\ Next_' = Next_
  BY DEF Phases, HeaderOK, Next_
<1>2. fram[VersionAt] = V1 => (fram[JournalAt] # Byte(Magic))'
  BY DEF Phases, OldPhase
<1>3. ASSUME fram[VersionAt] = Migrating, Next_ \in Slots PROVE StageTrue(Next_)'
  <2>1. StageTrue(Next_)
    BY <1>3 DEF Phases, MovingPhase
  <2> QED BY <1>1, <2>1 DEF StageTrue, StageImage, OldImage
<1> QED BY <1>1, <1>2, <1>3

LEMMA PhasesRest ==
    ASSUME Phases, fram' = fram, StoreResting'
    PROVE  Phases'
<1>1. fram[VersionAt] = V1 => OldPhase'
  BY PhasesStand DEF OldPhase
<1>2. fram[VersionAt] = Migrating => MovingPhase'
  BY PhasesStand DEF MovingPhase
<1>3. NewPhase'
  BY DEF NewPhase
<1> QED BY <1>1, <1>2, <1>3, PhasesStand DEF Phases

\* A step of the migration itself.
LEMMA PhasesMove ==
    ASSUME StoreConstants, Phases, fram' = fram, fram[VersionAt] = Migrating, MovingPhase'
    PROVE  Phases'
<1>1. Migrating # V1 /\ Migrating # V2
  BY HeaderCells
<1> QED BY <1>1, PhasesStand DEF Phases

LEMMA LayoutPhases ==
    ASSUME StoreConstants, StoreInv, Phases, Layout
    PROVE  Phases'
<1>1. fram' = fram /\ pc = "layout" /\ pending = <<>>
  BY DEF Layout, CreateLayout, LayoutReady, BeginMigration, ContinueMigration, RefuseLayout,
         Writes, Goes, At_
<1>2. /\ Next_ \in Slots \cup {Finished} /\ fram[NextAt] = Byte(Next_)
      /\ fram[MagicAt] = Byte(Magic) /\ fram[CountAt] = Byte(SlotCount)
  BY HereIs
<1>3. CASE CreateLayout
  BY <1>2, <1>3 DEF CreateLayout
<1>4. CASE LayoutReady
  <2>1. fram[VersionAt] = V2 /\ pc' = "body" /\ pending' = <<>>
    BY <1>1, <1>4 DEF LayoutReady, Ready, Goes
  <2>2. NewPhase'
    BY <2>1 DEF NewPhase
  <2>3. V2 # V1 /\ V2 # Migrating
    BY HeaderCells
  <2> QED BY <1>1, <2>1, <2>2, <2>3, PhasesStand DEF Phases
<1>5. CASE BeginMigration
  <2>1. /\ fram[VersionAt] = V1 /\ pc' = "resume" /\ pending' = BeginWrites
        /\ slot' = SlotCount - 1
    BY <1>5 DEF BeginMigration, Writes
  <2>2. BeginWrites \in Seq(CellWrites) /\ BeginWrites # <<>>
    BY ShortWrites, EmptySeq
  <2>3. Progress(fram', pending', BeginWrites)
    BY <2>1, <2>2, ProgressStarts
  <2>4. OldPhase'
    BY <1>1, <2>1, <2>2, <2>3, PhasesStand DEF OldPhase, InFlight
  <2>5. V1 # V2 /\ V1 # Migrating
    BY HeaderCells
  <2> QED BY <1>1, <2>1, <2>4, <2>5, PhasesStand DEF Phases
<1>6. CASE ContinueMigration
  <2>1. fram[VersionAt] = Migrating
    BY <1>6 DEF ContinueMigration
  <2>2. CASE /\ fram[NextAt] = Byte(Finished)
             /\ Writes(Cells(0, <<fram[MagicAt], V2, fram[CountAt], Byte(0)>>), "body")
    <3>1. pending' = HeaderWrites /\ pc' = "body"
      BY <1>2, <2>2 DEF Writes, HeaderWrites, Header
    <3>2. HeaderWrites \in Seq(CellWrites) /\ HeaderWrites # <<>>
      BY HeaderIs, HeaderCells, EmptySeq DEF HeaderWrites, Header
    <3>3. Progress(fram', pending', HeaderWrites)
      BY <3>1, <3>2, ProgressStarts
    <3>4. Next_ = Finished
      BY <2>2, CellFacts DEF Next_
    <3>5. MovingPhase'
      BY <1>1, <2>1, <3>1, <3>2, <3>3, <3>4, PhasesStand DEF MovingPhase, InFlight
    <3> QED BY <1>1, <2>1, <3>5, PhasesMove
  <2>3. CASE \E s \in Slots : fram[NextAt] = Byte(s) /\ slot' = s /\ Goes("resume")
    <3>1. slot' = Next_ /\ pc' = "resume" /\ pending' = <<>>
      BY <1>1, <2>3, CellFacts DEF Goes, Next_
    <3>2. MovingPhase'
      BY <1>1, <2>1, <3>1, PhasesStand DEF MovingPhase
    <3> QED BY <1>1, <2>1, <3>2, PhasesMove
  <2> QED BY <1>6, <2>2, <2>3 DEF ContinueMigration
<1>7. CASE RefuseLayout
  BY <1>1, <1>7, PhasesRest DEF RefuseLayout, Goes, StoreResting
<1> QED BY <1>3, <1>4, <1>5, <1>6, <1>7 DEF Layout

\* The writes of a conversion are those of a save of what is staged.
LEMMA ConvertWritesIs ==
    ASSUME StoreConstants, NEW s \in Slots, NEW held,
           held = Nothing \/ \E p \in Legacy : held = Holds(p)
    PROVE  LET writes == ConvertWrites(s, held) IN
           /\ writes \in Seq(CellWrites) /\ writes # <<>> /\ Len(writes) \in Nat
           /\ Len(writes) <= SizeV2
           /\ \A i \in 1..Len(writes) : writes[i][1] = At(s) + i - 1
           /\ Distinct(writes)
           /\ \A f : Progress(f, <<>>, writes) => Decoded(f, At(s), 2) = held
<1> DEFINE writes == ConvertWrites(s, held)
<1>1. CASE held = Nothing
  <2>1. writes = Cells(At(s), <<Byte(0), Byte(0)>>)
    BY <1>1 DEF ConvertWrites
  <2>2. /\ writes \in Seq(CellWrites) /\ Len(writes) = 2
        /\ writes[1] = <<At(s), Byte(0)>> /\ writes[2] = <<At(s) + 1, Byte(0)>>
    BY <2>1, EraseWritesIs
  <2>3. At(s) \in Nat /\ SizeV2 >= 5
    BY HeaderPlaces, Sizes
  <2> HIDE DEF writes
  <2>4. \A i \in 1..Len(writes) : writes[i][1] = At(s) + i - 1
    <3> TAKE i \in 1..Len(writes)
    <3>1. i = 1 \/ i = 2
      BY <2>2
    <3> QED BY <2>2, <2>3, <3>1
  <2>5. Distinct(writes)
    BY <2>2, <2>3, <2>4 DEF Distinct
  <2>6. ASSUME NEW f, Progress(f, <<>>, writes) PROVE Decoded(f, At(s), 2) = held
    <3>1. \A i \in 1..Len(writes) : f[writes[i][1]] = writes[i][2]
      BY <2>2, <2>6, ProgressEnds
    <3>2. f[At(s)] = Byte(0) /\ Byte(0) # Byte(1)
      <4>1. 1 \in 1..Len(writes)
        BY <2>2
      <4> QED BY <2>2, <3>1, <4>1, CellFacts
    <3> QED BY <1>1, <3>2 DEF Decoded
  <2>7. writes # <<>>
    BY <2>2, EmptySeq
  <2>8. /\ writes \in Seq(CellWrites) /\ writes # <<>> /\ Len(writes) \in Nat
        /\ Len(writes) <= SizeV2
    BY <2>2, <2>3, <2>7, Sizes
  <2> QED BY <2>4, <2>5, <2>6, <2>8 DEF writes
<1>2. ASSUME NEW p \in Legacy, held = Holds(p)
      PROVE  /\ writes \in Seq(CellWrites) /\ writes # <<>> /\ Len(writes) \in Nat
             /\ Len(writes) <= SizeV2
             /\ \A i \in 1..Len(writes) : writes[i][1] = At(s) + i - 1
             /\ Distinct(writes)
             /\ \A f : Progress(f, <<>>, writes) => Decoded(f, At(s), 2) = held
  <2>1. writes = SaveWrites(s, p)
    BY <1>2, HoldsFacts DEF ConvertWrites, SaveWrites
  <2>2. p \in Legacy \cup Programs
    OBVIOUS
  <2>3. /\ writes \in Seq(CellWrites) /\ Len(writes) = Len(SlotV2(p)) /\ Len(writes) <= SizeV2
        /\ Len(writes) \in Nat /\ writes # <<>>
        /\ \A i \in 1..Len(writes) : /\ writes[i][1] = At(s) + i - 1
                                     /\ writes[i][2] = SlotV2(p)[i]
    BY <2>1, <2>2, SaveWritesIs
  <2>4. Distinct(writes)
    BY <2>1, <2>2, SaveDistinct
  <2> HIDE DEF writes
  <2>5. ASSUME NEW f, Progress(f, <<>>, writes) PROVE Decoded(f, At(s), 2) = held
    <3>1. \A i \in 1..Len(writes) : f[writes[i][1]] = writes[i][2]
      BY <2>3, <2>5, ProgressEnds
    <3>2. \A i \in 1..Len(SlotV2(p)) : f[At(s) + i - 1] = SlotV2(p)[i]
      BY <2>3, <3>1
    <3> QED BY <1>2, <2>2, <3>2, HeaderPlaces, DecodedV2Written
  <2> QED BY <2>3, <2>4, <2>5
<1> QED BY <1>1, <1>2

LEMMA StagedIs ==
    ASSUME StoreConstants, MemoryOK
    PROVE  \/ Decoded(fram, StageAt, 1) \in {Nothing, Spoilt}
           \/ \E p \in Legacy : Decoded(fram, StageAt, 1) = Holds(p)
BY SlotCellsAre, HeaderPlaces, DecodedV1Known

\* The writes of ResumeMigration that refill the staging area.
LEMMA RestageStarts ==
    ASSUME StoreConstants, MemoryOK, slot \in Slots
    PROVE  /\ OldImage(slot) \in [1..SizeV1 -> SlotCells]
           /\ RestageWrites(slot, OldImage(slot)) \in Seq(CellWrites)
<1>1. OldImage(slot) \in [1..SizeV1 -> SlotCells]
  BY SlotCellsAre DEF OldImage
<1> QED BY <1>1, RestageWritesIs

LEMMA MigrationPhases ==
    ASSUME StoreConstants, StoreInv, Phases, Migration
    PROVE  Phases'
<1>1. fram' = fram /\ pending = <<>> /\ slot \in Slots /\ MemoryOK
  BY DEF Migration, Restage, Convert, Advance, FinishMigration, Writes, Goes, At_, StoreInv,
         StoreTypes
<1>2. CASE Restage
  <2>1. fram[VersionAt] = Migrating /\ slot = Next_ /\ ~Staged(fram, slot)
    BY <1>2, HereIs DEF Restage, At_
  <2>2. /\ pending' = RestageWrites(slot, OldImage(slot)) /\ pc' = "staged" /\ slot' = slot
    BY <1>2 DEF Restage, Writes, RestageWrites, OldImage
  <2>3. Progress(fram', pending', RestageWrites(slot, OldImage(slot)))
    BY <1>1, <2>2, ProgressStarts, RestageStarts
  <2>4. OldImage(slot)' = OldImage(slot) /\ ~Staged(fram, slot)'
    BY <1>1, <2>1, <2>2 DEF OldImage
  <2>5. InFlight(RestageWrites(slot, OldImage(slot)))'
    BY <2>2, <2>3, <2>4 DEF InFlight
  <2>6. MovingPhase'
    BY <1>1, <2>1, <2>2, <2>4, <2>5, PhasesStand DEF MovingPhase
  <2> QED BY <1>1, <2>1, <2>6, PhasesMove
<1>3. CASE Convert
  <2> DEFINE held == Decoded(fram, StageAt, 1)
  <2>1. fram[VersionAt] = Migrating /\ slot = Next_ /\ Staged(fram, slot)
    BY <1>1, <1>3, HereIs DEF Convert
  <2>2. held \in {Nothing, Spoilt} \/ \E p \in Legacy : held = Holds(p)
    BY <1>1, StagedIs
  <2>3. slot' = slot
    BY <1>3 DEF Convert
  <2>4. CASE held = Spoilt /\ Goes("idle")
    BY <1>1, <2>4, PhasesRest DEF Goes, StoreResting
  <2>5. CASE ~(held = Spoilt /\ Goes("idle"))
    <3>1. held # Spoilt /\ pending' = ConvertWrites(slot, held) /\ pc' = "advance"
      BY <1>3, <2>5, HoldsFacts DEF Convert, Writes, ConvertWrites
    <3>2. ConvertWrites(slot, held) \in Seq(CellWrites)
      BY <1>1, <2>2, <3>1, ConvertWritesIs
    <3>3. Progress(fram', pending', ConvertWrites(slot, held))
      BY <3>1, <3>2, ProgressStarts
    <3>4. Decoded(fram, StageAt, 1)' = held /\ Staged(fram, slot)'
      BY <1>1, <2>1, <2>3
    <3>5. InFlight(ConvertWrites(slot, Decoded(fram, StageAt, 1)))'
      BY <2>3, <3>3, <3>4 DEF InFlight
    <3>6. MovingPhase'
      BY <1>1, <2>1, <2>3, <3>1, <3>4, <3>5, PhasesStand DEF MovingPhase
    <3> QED BY <1>1, <2>1, <3>6, PhasesMove
  <2> QED BY <2>4, <2>5
<1>4. CASE Advance
  <2> DEFINE held == Decoded(fram, StageAt, 1)
  <2>1. pc = "advance" /\ fram[VersionAt] = Migrating /\ slot = Next_
    BY <1>4, HereIs DEF Advance, At_
  <2>2. Staged(fram, slot) /\ held # Spoilt /\ Progress(fram, <<>>, ConvertWrites(slot, held))
    <3>1. MovingPhase
      BY <2>1 DEF Phases
    <3> QED BY <1>1, <2>1, <3>1 DEF MovingPhase, StoreResting, InFlight
  <2>3. Decoded(fram, At(slot), 2) = held
    BY <1>1, <2>2, StagedIs, ConvertWritesIs
  <2>4. Converted(slot)
    BY <2>2, <2>3 DEF Converted
  <2>5. /\ pending' = NextWrite(slot) /\ pc' = (IF slot = 0 THEN "finish" ELSE "resume")
        /\ slot' = (IF slot = 0 THEN 0 ELSE slot - 1)
    BY <1>4 DEF Advance, Writes, NextWrite
  <2>6. Next_' = slot
    BY <1>1, <2>1, PhasesStand
  <2>7. /\ Next_' = slot /\ Staged(fram', slot)
        /\ Decoded(fram', At(slot), 2) = Decoded(fram', StageAt, 1)
    BY <1>1, <2>4, <2>6 DEF Converted
  <2>8. MovingPhase'
    <3>1. CASE slot = 0
      BY <1>1, <2>1, <2>5, <2>7, <3>1, PhasesStand DEF MovingPhase, Converted
    <3>2. CASE slot # 0
      <4>1. slot \in Nat /\ Next_' = slot' + 1 /\ pc' = "resume"
        BY <1>1, <2>5, <2>7, <3>2, SlotNumbers
      <4>2. pending' = NextWrite(Next_')
        BY <2>5, <2>7
      <4>3. Converted(Next_)'
        BY <2>7 DEF Converted
      <4> QED BY <1>1, <2>1, <4>1, <4>2, <4>3, PhasesStand DEF MovingPhase, NextWrite
    <3> QED BY <3>1, <3>2
  <2> QED BY <1>1, <2>1, <2>8, PhasesMove
<1>5. CASE FinishMigration
  <2>1. fram[VersionAt] = Migrating /\ Next_ = Finished
    BY <1>5, HereIs DEF FinishMigration, At_
  <2>2. pending' = HeaderWrites /\ pc' = "body"
    BY <1>5 DEF FinishMigration, Writes, HeaderWrites
  <2>3. HeaderWrites \in Seq(CellWrites) /\ HeaderWrites # <<>>
    BY HeaderIs, HeaderCells, EmptySeq DEF HeaderWrites, Header
  <2>4. Progress(fram', pending', HeaderWrites)
    BY <2>2, <2>3, ProgressStarts
  <2>5. MovingPhase'
    BY <1>1, <2>1, <2>2, <2>3, <2>4, PhasesStand DEF MovingPhase, InFlight
  <2> QED BY <1>1, <2>1, <2>5, PhasesMove
<1> QED BY <1>2, <1>3, <1>4, <1>5 DEF Migration

LEMMA OtherPhases ==
    ASSUME StoreConstants, StoreInv, Phases,
           Boot \/ Info \/ Change \/ Body \/ BusFails \/ PowerFails
    PROVE  Phases'
<1>1. fram' = fram
  BY DEF Boot, Info, Change, Ask, Body, Answer, SaveSlot, DeleteSlot, LoadSlot, Writes, Goes,
         BusFails, PowerFails
<1>2. CASE Boot \/ Info \/ Change \/ BusFails \/ PowerFails
  <2>1. StoreResting'
    BY <1>2 DEF Boot, Info, Change, Ask, At_, BusFails, PowerFails, StoreResting, StoreInv, StoreTypes
  <2> QED BY <1>1, <2>1, PhasesRest
<1>3. CASE Body
  <2>1. pc = "body" /\ pending = <<>> /\ pc' = "idle"
    BY <1>3 DEF Body, Answer, SaveSlot, DeleteSlot, LoadSlot, Writes, Goes, At_
  <2>2. fram[VersionAt] = V2
    BY <2>1, HereIs
  <2>3. V2 # V1 /\ V2 # Migrating
    BY HeaderCells
  <2>4. NewPhase'
    BY <2>1 DEF NewPhase
  <2> QED BY <1>1, <2>2, <2>3, <2>4, PhasesStand DEF Phases
<1> QED BY <1>2, <1>3
-----------------------------------------------------------------------------
(* The writes: none of the migration's changes what a slot holds.          *)

Unchanged == \A s \in Slots : ContentIn(fram', s) = ContentIn(fram, s)

LEMMA OneCell ==
    ASSUME StoreConstants, StoreTypes, WriteCell
    PROVE  /\ pending[1][1] \in Addresses /\ pending[1][1] \in Nat
           /\ Differ(fram, fram', pending[1][1])
           /\ fram'[pending[1][1]] = pending[1][2]
<1>1. pending[1][1] \in Addresses
  BY OneWrite DEF CellWrites
<1>2. pending[1][1] \in Nat
  BY <1>1, HeaderPlaces
<1>3. \A a \in Addresses : fram'[a] = IF a = pending[1][1] THEN pending[1][2] ELSE fram[a]
  BY OneWrite
<1> QED BY <1>1, <1>2, <1>3 DEF Differ

LEMMA HeaderKept ==
    ASSUME StoreConstants, NEW f, NEW g, NEW a \in Addresses, Differ(f, g, a), a >= HeaderSize
    PROVE  /\ g[MagicAt] = f[MagicAt] /\ g[VersionAt] = f[VersionAt]
           /\ g[CountAt] = f[CountAt] /\ g[NextAt] = f[NextAt]
<1>1. MagicAt # a /\ VersionAt # a /\ CountAt # a /\ NextAt # a
  BY DEF HeaderSize, MagicAt, VersionAt, CountAt, NextAt
<1> QED BY <1>1, HeaderCells DEF Differ

\* A write to the header, at one cell of it, leaves the others.
LEMMA HeaderOthers ==
    ASSUME StoreConstants, NEW f, NEW g, NEW a \in Addresses, Differ(f, g, a)
    PROVE  /\ a # MagicAt => g[MagicAt] = f[MagicAt]
           /\ a # VersionAt => g[VersionAt] = f[VersionAt]
           /\ a # CountAt => g[CountAt] = f[CountAt]
           /\ a # NextAt => g[NextAt] = f[NextAt]
           /\ a < HeaderSize =>
                 /\ \A s \in Slots : Decoded(g, At(s), 2) = Decoded(f, At(s), 2)
                 /\ \A s \in Slots : Decoded(g, AtV1(s), 1) = Decoded(f, AtV1(s), 1)
                 /\ \A s : Staged(g, s) <=> Staged(f, s)
                 /\ Decoded(g, StageAt, 1) = Decoded(f, StageAt, 1)
                 /\ g[JournalAt] = f[JournalAt] /\ g[JournalAt + 1] = f[JournalAt + 1]
<1>1. /\ a # MagicAt => g[MagicAt] = f[MagicAt]
      /\ a # VersionAt => g[VersionAt] = f[VersionAt]
      /\ a # CountAt => g[CountAt] = f[CountAt]
      /\ a # NextAt => g[NextAt] = f[NextAt]
  BY HeaderCells DEF Differ
<1>2. ASSUME a < HeaderSize
      PROVE  /\ \A s \in Slots : Decoded(g, At(s), 2) = Decoded(f, At(s), 2)
             /\ \A s \in Slots : Decoded(g, AtV1(s), 1) = Decoded(f, AtV1(s), 1)
             /\ \A s : Staged(g, s) <=> Staged(f, s)
             /\ Decoded(g, StageAt, 1) = Decoded(f, StageAt, 1)
             /\ g[JournalAt] = f[JournalAt] /\ g[JournalAt + 1] = f[JournalAt + 1]
  <2>1. a \in Nat /\ HeaderSize \in Nat
    BY HeaderPlaces DEF HeaderSize
  <2>2. \A s \in Slots : /\ At(s) \in Nat /\ AtV1(s) \in Nat /\ HeaderSize <= AtV1(s)
                         /\ AtV1(s) <= At(s)
    BY HeaderPlaces
  <2>3. \A s \in Slots : a < At(s) /\ a < AtV1(s)
    BY <1>2, <2>1, <2>2
  <2>4. a < StageAt
    BY <1>2, <2>1, HeaderPlaces
  <2>5. \A s \in Slots : Decoded(g, At(s), 2) = Decoded(f, At(s), 2)
    BY <2>3, ElsewhereNew
  <2>6. \A s \in Slots : Decoded(g, AtV1(s), 1) = Decoded(f, AtV1(s), 1)
    BY <2>3, ElsewhereOld
  <2> QED BY <2>4, <2>5, <2>6, ElsewhereStaged
<1> QED BY <1>1, <1>2

\* The two writes that begin the migration.
LEMMA OldWrite ==
    ASSUME StoreConstants, StoreInv, Phases, WriteCell, fram[VersionAt] = V1
    PROVE  Phases' /\ Unchanged
<1> DEFINE a == pending[1][1]
           k == Len(BeginWrites) - Len(pending) + 1
<1>1. /\ fram[JournalAt] # Byte(Magic) /\ pc = "resume" /\ slot = SlotCount - 1
      /\ Progress(fram, pending, BeginWrites)
  BY DEF Phases, OldPhase, StoreResting, WriteCell, InFlight
<1>2. /\ BeginWrites \in Seq(CellWrites) /\ Len(BeginWrites) = 2
      /\ BeginWrites[1] = <<NextAt, Byte(SlotCount - 1)>>
      /\ BeginWrites[2] = <<VersionAt, Migrating>>
  BY ShortWrites
<1>3. Distinct(BeginWrites)
  BY <1>2 DEF Distinct, NextAt, VersionAt
<1>4. /\ Progress(fram', pending', BeginWrites) /\ k \in 1..2 /\ pending[1] = BeginWrites[k]
  BY <1>1, <1>2, <1>3, WriteGoesOn DEF StoreInv
<1>5. /\ Len(pending) \in Nat /\ Len(pending') = Len(pending) - 1 /\ StoreTypes'
      /\ UNCHANGED <<pc, slot>>
  BY OneWrite, WriteKeeps DEF StoreInv
<1>6. a \in Addresses /\ Differ(fram, fram', a) /\ fram'[a] = pending[1][2]
  BY OneCell DEF StoreInv
<1>7. a \in {NextAt, VersionAt} /\ a < HeaderSize /\ a # MagicAt /\ a # CountAt
  BY <1>2, <1>4 DEF NextAt, VersionAt, HeaderSize, MagicAt, CountAt
<1>8. /\ \A s \in Slots : Decoded(fram', AtV1(s), 1) = Decoded(fram, AtV1(s), 1)
      /\ fram'[JournalAt] # Byte(Magic)
      /\ fram'[MagicAt] = fram[MagicAt] /\ fram'[CountAt] = fram[CountAt]
      /\ a # VersionAt => fram'[VersionAt] = V1
  BY <1>1, <1>6, <1>7, HeaderOthers
<1>9. fram[MagicAt] = Byte(Magic) /\ fram[CountAt] = Byte(SlotCount)
  BY HereIs
<1>10. SlotCount - 1 \in Slots
  BY SlotNumbers
<1>11. V1 # Migrating /\ V1 # V2 /\ Migrating # V2
  BY HeaderCells
<1>12. CASE k = 1
  <2>1. Len(pending') = 1 /\ pending' # <<>>
    BY <1>2, <1>5, <1>12, EmptySeq
  <2>2. a = NextAt /\ fram'[NextAt] = Byte(SlotCount - 1) /\ a # VersionAt
    BY <1>2, <1>4, <1>6, <1>12 DEF NextAt, VersionAt
  <2>3. fram'[VersionAt] = V1
    BY <1>8, <2>2
  <2>4. HeaderOK'
    BY <1>8, <1>9, <1>10, <2>2, <2>3 DEF HeaderOK
  <2>5. OldPhase'
    BY <1>1, <1>4, <1>5, <1>8, <2>1 DEF OldPhase, InFlight
  <2>6. Unchanged
    BY <1>8, <2>3, ContentOld DEF Unchanged
  <2> QED BY <1>11, <2>3, <2>4, <2>5, <2>6 DEF Phases
<1>13. CASE k = 2
  <2>1. pending' = <<>>
    <3>1. Len(pending') = 0
      BY <1>2, <1>5, <1>13
    <3> QED BY <1>5, <3>1, EmptySeq DEF StoreTypes
  <2>2. \A i \in 1..2 : fram'[BeginWrites[i][1]] = BeginWrites[i][2]
    BY <1>2, <1>4, <2>1, ProgressEnds
  <2>3. fram'[NextAt] = Byte(SlotCount - 1) /\ fram'[VersionAt] = Migrating
    <3>1. 1 \in 1..2 /\ 2 \in 1..2
      OBVIOUS
    <3> QED BY <1>2, <2>2, <3>1
  <2>4. Next_' = SlotCount - 1
    BY <2>3, CellFacts DEF Next_
  <2>5. HeaderOK'
    BY <1>8, <1>9, <1>10, <2>3 DEF HeaderOK
  <2>6. MovingPhase'
    BY <1>1, <1>5, <1>8, <2>1, <2>4 DEF MovingPhase, StageTrue
  <2>7. Phases'
    BY <1>11, <2>3, <2>5, <2>6 DEF Phases
  <2>8. ASSUME NEW s \in Slots PROVE ContentIn(fram', s) = ContentIn(fram, s)
    <3>1. ContentIn(fram, s) = Decoded(fram, AtV1(s), 1)
      BY ContentOld
    <3>2. ~Staged(fram', s)
      BY <1>8 DEF Staged
    <3>3. s < SlotCount - 1 \/ s = SlotCount - 1
      BY SlotNumbers, Sizes DEF Slots
    <3>4. ContentIn(fram', s) = Decoded(fram', AtV1(s), 1)
      BY <1>10, <2>3, <3>2, <3>3, ContentMoving
    <3> QED BY <1>8, <3>1, <3>4
  <2> QED BY <2>7, <2>8 DEF Unchanged
<1> QED BY <1>4, <1>12, <1>13

\* Equal images hold the same.
LEMMA ImageDecoded ==
    ASSUME StoreConstants, NEW f, NEW g, NEW at \in Nat, NEW bt \in Nat,
           Image(f, at, SizeV1) = Image(g, bt, SizeV1)
    PROVE  Decoded(f, at, 1) = Decoded(g, bt, 1)
<1>1. MaxCount \in Nat /\ SizeV1 = 3 + MaxCount /\ SizeV1 \in Nat
  BY Sizes
<1>2. \A i \in 1..SizeV1 : f[at + i - 1] = g[bt + i - 1]
  <2> TAKE i \in 1..SizeV1
  <2>1. Image(f, at, SizeV1)[i] = f[at + i - 1] /\ Image(g, bt, SizeV1)[i] = g[bt + i - 1]
    BY DEF Image
  <2> QED BY <2>1
<1>3. \A i \in 0..(2 + 1 * MaxCount) : f[at + i] = g[bt + i]
  <2> TAKE i \in 0..(2 + 1 * MaxCount)
  <2>1. i + 1 \in 1..SizeV1 /\ at + (i + 1) - 1 = at + i /\ bt + (i + 1) - 1 = bt + i
    BY <1>1
  <2> QED BY <1>2, <2>1
<1> QED BY <1>3, DecodedSame

LEMMA StagedWrite ==
    ASSUME StoreConstants, StoreInv, Phases, WriteCell,
           fram[VersionAt] = Migrating, pc = "staged"
    PROVE  Phases' /\ Unchanged
<1> DEFINE a == pending[1][1]
           source == OldImage(slot)
           writes == RestageWrites(slot, source)
           k == Len(writes) - Len(pending) + 1
           Named(f) == f[JournalAt] = Byte(Magic) /\ f[JournalAt + 1] = Byte(slot)
<1>1. /\ Next_ = slot /\ slot \in Slots /\ StageTrue(slot) /\ Progress(fram, pending, writes)
      /\ Staged(fram, slot) => StageImage = source
      /\ fram[NextAt] = Byte(slot) /\ MemoryOK
  <2>1. MovingPhase /\ slot \in Slots /\ MemoryOK
    BY DEF Phases, StoreInv, StoreTypes
  <2>2. Next_ = slot /\ fram[NextAt] = Byte(Next_)
    BY HereIs
  <2> QED BY <2>1, <2>2 DEF MovingPhase, StoreResting, InFlight
<1>2. source \in [1..SizeV1 -> SlotCells]
  BY <1>1, RestageStarts
<1>3. /\ writes \in Seq(CellWrites) /\ Len(writes) = SizeV1 + 3
      /\ \A i \in 1..SizeV1 : writes[i] = <<StageAt + i - 1, source[i]>>
      /\ \A i \in 1..(SizeV1 + 3) : writes[i][1] = StageAt + i - 1
      /\ Distinct(writes)
  BY <1>1, <1>2, RestageWritesIs, RestageDistinct
<1>4. /\ Progress(fram', pending', writes) /\ k \in 1..(SizeV1 + 3) /\ pending[1] = writes[k]
  BY <1>1, <1>3, WriteGoesOn DEF StoreInv
<1>5. /\ Len(pending) \in Nat /\ Len(pending') = Len(pending) - 1 /\ UNCHANGED <<pc, slot>>
  BY OneWrite DEF StoreInv
<1>6. a \in Addresses /\ Differ(fram, fram', a) /\ fram'[a] = pending[1][2]
  BY OneCell DEF StoreInv
<1>7. /\ StageAt \in Nat /\ SizeV1 \in Nat /\ JournalAt = StageAt + SizeV1
      /\ SizeV1 <= SizeV2 /\ SizeV2 \in Nat /\ HeaderSize <= StageAt
      /\ Addresses = 0..(JournalAt + 2)
      /\ \A s \in Slots : /\ At(s) \in Nat /\ AtV1(s) \in Nat
                          /\ AtV1(s) <= At(s) /\ At(s) + SizeV2 <= StageAt
  BY HeaderPlaces, Sizes
<1> HIDE DEF writes, source
<1>8. a = StageAt + k - 1 /\ a >= StageAt /\ a >= HeaderSize /\ k \in Nat
  BY <1>3, <1>4, <1>7 DEF HeaderSize
<1> HIDE DEF a
<1>9. /\ \A s \in Slots : Decoded(fram', At(s), 2) = Decoded(fram, At(s), 2)
      /\ \A s \in Slots : Decoded(fram', AtV1(s), 1) = Decoded(fram, AtV1(s), 1)
      /\ Image(fram', AtV1(slot), SizeV1) = Image(fram, AtV1(slot), SizeV1)
  <2>1. ASSUME NEW s \in Slots
        PROVE  a >= At(s) + SizeV2 /\ a >= AtV1(s) + SizeV1
    <3>1. /\ At(s) \in Nat /\ AtV1(s) \in Nat /\ AtV1(s) <= At(s)
          /\ At(s) + SizeV2 <= StageAt
      BY <1>7
    <3> QED BY <1>7, <1>8, <3>1
  <2> QED BY <1>1, <1>6, <2>1, ElsewhereNew, ElsewhereOld
<1>10. /\ fram'[MagicAt] = fram[MagicAt] /\ fram'[VersionAt] = fram[VersionAt]
       /\ fram'[CountAt] = fram[CountAt] /\ fram'[NextAt] = fram[NextAt]
  BY <1>6, <1>8, HeaderKept
<1>11. OldImage(slot)' = source /\ Next_' = slot
  BY <1>1, <1>5, <1>9, <1>10 DEF OldImage, Next_, source
<1>12. ASSUME Named(fram') PROVE Image(fram', StageAt, SizeV1) = source
  <2>1. source = [i \in 1..SizeV1 |-> source[i]]
    BY <1>2
  <2>2. CASE k <= SizeV1
    <3>1. a < JournalAt /\ JournalAt # a /\ JournalAt + 1 # a
          /\ JournalAt \in Addresses /\ JournalAt + 1 \in Addresses
      BY <1>7, <1>8, <2>2
    <3>2. Named(fram)
      BY <1>6, <1>12, <3>1 DEF Differ
    <3>3. StageImage = source
      BY <1>1, <3>2 DEF StageTrue, source
    <3>4. \A i \in 1..SizeV1 : fram[StageAt + i - 1] = source[i]
      BY <3>3 DEF StageImage, Image
    <3>5. k \in 1..SizeV1 /\ pending[1] = <<StageAt + k - 1, source[k]>>
      BY <1>3, <1>4, <1>8, <2>2
    <3>6. \A i \in 1..SizeV1 : fram'[StageAt + i - 1] = source[i]
      <4> TAKE i \in 1..SizeV1
      <4>1. CASE i = k
        BY <1>6, <1>8, <3>5, <4>1
      <4>2. CASE i # k
        <5>1. StageAt + i - 1 # a /\ StageAt + i - 1 \in Addresses
          BY <1>7, <1>8, <3>5, <4>2
        <5> QED BY <1>6, <3>4, <5>1 DEF Differ
      <4> QED BY <4>1, <4>2
    <3> QED BY <2>1, <3>6 DEF Image
  <2>3. CASE k > SizeV1
    <3>1. Len(writes) - Len(pending') = k
      BY <1>3, <1>5, <1>7
    <3> HIDE DEF k
    <3>2. \A i \in 1..k : fram'[writes[i][1]] = writes[i][2]
      BY <1>4, <3>1 DEF Progress
    <3>3. \A i \in 1..SizeV1 : fram'[StageAt + i - 1] = source[i]
      <4> TAKE i \in 1..SizeV1
      <4>1. i \in 1..k
        BY <1>7, <1>8, <2>3
      <4> QED BY <1>3, <3>2, <4>1
    <3> QED BY <2>1, <3>3 DEF Image
  <2> QED BY <1>7, <1>8, <2>2, <2>3
<1>13. Staged(fram', slot) => Image(fram', StageAt, SizeV1) = source
  BY <1>12 DEF Staged
<1>14. StageTrue(slot)'
  BY <1>5, <1>11, <1>12 DEF StageTrue, StageImage
<1>15. MovingPhase'
  <2>1. pc' = "staged" /\ slot' = Next_'
    BY <1>5, <1>11
  <2>2. InFlight(RestageWrites(slot, OldImage(slot)))'
    BY <1>4, <1>5, <1>11 DEF InFlight, writes
  <2>3. (Staged(fram, slot) => StageImage = OldImage(slot))'
    BY <1>5, <1>11, <1>13 DEF StageImage
  <2>4. (Next_ \in Slots => StageTrue(Next_))'
    BY <1>14, <2>1
  <2> QED BY <2>1, <2>2, <2>3, <2>4 DEF MovingPhase
<1>16. HeaderOK'
  BY <1>1, <1>10 DEF HeaderOK, Phases
<1>17. Phases'
  <2>1. Migrating # V1 /\ Migrating # V2
    BY HeaderCells
  <2> QED BY <1>10, <1>15, <1>16, <2>1 DEF Phases
<1>18. ASSUME Image(fram, StageAt, SizeV1) = source
       PROVE  Decoded(fram, StageAt, 1) = Decoded(fram, AtV1(slot), 1)
  BY <1>1, <1>7, <1>18, ImageDecoded DEF source, OldImage
<1>19. ASSUME Image(fram', StageAt, SizeV1) = source
       PROVE  Decoded(fram', StageAt, 1) = Decoded(fram, AtV1(slot), 1)
  BY <1>1, <1>7, <1>19, ImageDecoded DEF source, OldImage
<1>20. ASSUME NEW s \in Slots PROVE ContentIn(fram', s) = ContentIn(fram, s)
  <2>1. fram'[NextAt] = Byte(slot) /\ fram'[VersionAt] = Migrating
    BY <1>1, <1>10
  <2>2. s \in Nat /\ slot \in Nat
    BY <1>1, SlotNumbers
  <2>3. CASE s > slot
    BY <1>1, <1>9, <2>1, <2>3, ContentMoving
  <2>4. CASE s < slot
    BY <1>1, <1>9, <2>1, <2>4, ContentMoving
  <2>5. CASE s = slot
    <3>1. ContentIn(fram, s) = Decoded(fram, AtV1(slot), 1)
      <4>1. CASE Staged(fram, slot)
        BY <1>1, <1>18, <2>5, <4>1, ContentMoving DEF StageImage
      <4>2. CASE ~Staged(fram, slot)
        BY <1>1, <2>5, <4>2, ContentMoving
      <4> QED BY <4>1, <4>2
    <3>2. ContentIn(fram', s) = Decoded(fram, AtV1(slot), 1)
      <4>1. CASE Staged(fram', slot)
        BY <1>1, <1>13, <1>19, <2>1, <2>5, <4>1, ContentMoving
      <4>2. CASE ~Staged(fram', slot)
        BY <1>1, <1>9, <2>1, <2>5, <4>2, ContentMoving
      <4> QED BY <4>1, <4>2
    <3> QED BY <3>1, <3>2
  <2> QED BY <2>2, <2>3, <2>4, <2>5
<1> QED BY <1>17, <1>20 DEF Unchanged
\* The slot being converted is covered by the staging area.
LEMMA ConvertWrite ==
    ASSUME StoreConstants, StoreInv, Phases, WriteCell,
           fram[VersionAt] = Migrating, pc = "advance"
    PROVE  Phases' /\ Unchanged
<1> DEFINE a == pending[1][1]
           held == Decoded(fram, StageAt, 1)
           writes == ConvertWrites(slot, held)
           k == Len(writes) - Len(pending) + 1
<1>1. /\ Next_ = slot /\ slot \in Slots /\ StageTrue(slot) /\ Progress(fram, pending, writes)
      /\ Staged(fram, slot) /\ held # Spoilt
      /\ fram[NextAt] = Byte(slot) /\ MemoryOK
  <2>1. MovingPhase /\ slot \in Slots /\ MemoryOK
    BY DEF Phases, StoreInv, StoreTypes
  <2>2. Next_ = slot /\ fram[NextAt] = Byte(Next_)
    BY HereIs
  <2> QED BY <2>1, <2>2 DEF MovingPhase, StoreResting, InFlight
<1>2. held = Nothing \/ \E p \in Legacy : held = Holds(p)
  BY <1>1, StagedIs
<1>3. /\ writes \in Seq(CellWrites) /\ Len(writes) \in Nat /\ Len(writes) <= SizeV2
      /\ \A i \in 1..Len(writes) : writes[i][1] = At(slot) + i - 1
      /\ Distinct(writes)
  <2> HIDE DEF held
  <2> QED BY <1>1, <1>2, ConvertWritesIs
<1>4. /\ Progress(fram', pending', writes) /\ k \in 1..Len(writes) /\ pending[1] = writes[k]
  <2> HIDE DEF held, writes
  <2> QED BY <1>1, <1>3, WriteGoesOn DEF StoreInv
<1>5. UNCHANGED <<pc, slot>>
  BY OneWrite DEF StoreInv
<1>6. a \in Addresses /\ Differ(fram, fram', a)
  BY OneCell DEF StoreInv
<1>7. /\ StageAt \in Nat /\ SizeV1 \in Nat /\ SizeV2 \in Nat
      /\ \A s \in Slots : /\ At(s) \in Nat /\ AtV1(s) \in Nat
                          /\ HeaderSize <= AtV1(s) /\ AtV1(s) <= At(s)
                          /\ At(s) + SizeV2 <= StageAt
      /\ \A s, t \in Slots : s < t => /\ At(s) + SizeV2 <= At(t)
                                      /\ AtV1(s) + SizeV1 <= At(t)
      /\ HeaderSize \in Nat
  BY HeaderPlaces, Sizes DEF HeaderSize
<1> HIDE DEF held, writes
<1>8. a >= At(slot) /\ a < At(slot) + SizeV2 /\ a \in Nat
  <2>1. k \in 1..Len(writes) /\ a = At(slot) + k - 1
    BY <1>3, <1>4
  <2>2. At(slot) \in Nat /\ Len(writes) \in Nat /\ Len(writes) <= SizeV2 /\ SizeV2 \in Nat
    BY <1>1, <1>3, <1>7
  <2> HIDE DEF k, a
  <2> QED BY <2>1, <2>2
<1> HIDE DEF a
<1>9. a < StageAt /\ a >= HeaderSize
  BY <1>1, <1>7, <1>8
<1>10. /\ fram'[MagicAt] = fram[MagicAt] /\ fram'[VersionAt] = fram[VersionAt]
       /\ fram'[CountAt] = fram[CountAt] /\ fram'[NextAt] = fram[NextAt]
  BY <1>6, <1>9, HeaderKept
<1>11. /\ \A s : Staged(fram', s) <=> Staged(fram, s)
       /\ Decoded(fram', StageAt, 1) = held
       /\ Image(fram', StageAt, SizeV1) = Image(fram, StageAt, SizeV1)
  BY <1>6, <1>9, ElsewhereStaged DEF held
<1>12. Next_' = slot
  BY <1>1, <1>10 DEF Next_
<1>13. MovingPhase'
  <2>1. pc' = "advance" /\ slot' = Next_' /\ slot' = slot /\ Staged(fram, slot)'
        /\ (Decoded(fram, StageAt, 1) # Spoilt)'
    BY <1>1, <1>5, <1>11, <1>12
  <2>2. InFlight(ConvertWrites(slot, Decoded(fram, StageAt, 1)))'
    BY <1>4, <1>11, <2>1 DEF InFlight, writes
  <2>3. (Next_ \in Slots => StageTrue(Next_))'
    BY <2>1 DEF StageTrue
  <2> QED BY <2>1, <2>2, <2>3 DEF MovingPhase
<1>14. Phases'
  <2>1. Migrating # V1 /\ Migrating # V2
    BY HeaderCells
  <2>2. HeaderOK'
    BY <1>1, <1>10 DEF HeaderOK, Phases
  <2> QED BY <1>10, <1>13, <2>1, <2>2 DEF Phases
<1>15. ASSUME NEW s \in Slots PROVE ContentIn(fram', s) = ContentIn(fram, s)
  <2>1. fram'[NextAt] = Byte(slot) /\ fram'[VersionAt] = Migrating
    BY <1>1, <1>10
  <2>2. s \in Nat /\ slot \in Nat
    BY <1>1, SlotNumbers
  <2>3. CASE s > slot
    <3>1. a < At(s)
      BY <1>1, <1>7, <1>8, <2>2, <2>3
    <3>2. Decoded(fram', At(s), 2) = Decoded(fram, At(s), 2)
      BY <1>6, <3>1, ElsewhereNew
    <3> QED BY <1>1, <2>1, <2>3, <3>2, ContentMoving
  <2>4. CASE s < slot
    <3>1. a >= AtV1(s) + SizeV1
      BY <1>1, <1>7, <1>8, <2>2, <2>4
    <3>2. Decoded(fram', AtV1(s), 1) = Decoded(fram, AtV1(s), 1)
      BY <1>6, <3>1, ElsewhereOld
    <3> QED BY <1>1, <2>1, <2>4, <3>2, ContentMoving
  <2>5. CASE s = slot
    BY <1>1, <1>11, <2>1, <2>5, ContentMoving DEF held
  <2> QED BY <2>2, <2>3, <2>4, <2>5
<1> QED BY <1>14, <1>15 DEF Unchanged

\* A converted slot is given up to the new layout.
LEMMA NextWritten ==
    ASSUME StoreConstants, StoreInv, Phases, WriteCell,
           fram[VersionAt] = Migrating, pc \in {"resume", "finish"}
    PROVE  Phases' /\ Unchanged
<1> DEFINE n == Next_
           a == pending[1][1]
<1>1. /\ n \in Slots /\ Converted(n) /\ pending = NextWrite(n) /\ fram[NextAt] = Byte(n)
      /\ \/ pc = "resume" /\ n = slot + 1
         \/ pc = "finish" /\ n = 0
  <2>1. MovingPhase /\ pending # <<>> /\ n \in Slots \cup {Finished} /\ fram[NextAt] = Byte(n)
    BY HereIs DEF Phases, WriteCell
  <2>2. \/ pc = "resume" /\ n = slot + 1 /\ Converted(n) /\ pending = NextWrite(n)
        \/ pc = "finish" /\ n = 0 /\ Converted(0) /\ pending = NextWrite(0)
    BY <2>1 DEF MovingPhase, StoreResting
  <2>3. slot \in Slots /\ 0 \in Slots
    BY SlotNumbers DEF StoreInv, StoreTypes
  <2>4. n \in Slots
    <3>1. CASE n = slot + 1
      <4>1. slot + 1 # Finished
        BY <2>3, SlotNumbers, Sizes DEF Finished
      <4> QED BY <2>1, <3>1, <4>1
    <3> QED BY <2>2, <2>3, <3>1
  <2> QED BY <2>1, <2>2, <2>4
<1> HIDE DEF n
<1>2. /\ pending[1] = <<NextAt, Byte(Following(n))>> /\ Len(pending) = 1
  BY <1>1, ShortWrites DEF NextWrite
<1>3. /\ Len(pending') = 0 /\ UNCHANGED <<pc, slot>> /\ StoreTypes'
  BY <1>2, OneWrite, WriteKeeps DEF StoreInv
<1>4. pending' = <<>>
  BY <1>3, EmptySeq DEF StoreTypes
<1>5. a \in Addresses /\ Differ(fram, fram', a) /\ a = NextAt
      /\ fram'[NextAt] = Byte(Following(n))
  BY <1>2, OneCell DEF StoreInv
<1>6. /\ fram'[MagicAt] = fram[MagicAt] /\ fram'[VersionAt] = fram[VersionAt]
      /\ fram'[CountAt] = fram[CountAt]
      /\ \A s \in Slots : Decoded(fram', At(s), 2) = Decoded(fram, At(s), 2)
      /\ \A s \in Slots : Decoded(fram', AtV1(s), 1) = Decoded(fram, AtV1(s), 1)
      /\ \A s : Staged(fram', s) <=> Staged(fram, s)
      /\ fram'[JournalAt + 1] = fram[JournalAt + 1]
  <2>1. a < HeaderSize /\ a # MagicAt /\ a # VersionAt /\ a # CountAt
    BY <1>5 DEF NextAt, HeaderSize, MagicAt, VersionAt, CountAt
  <2> QED BY <1>5, <2>1, HeaderOthers
<1>7. /\ Staged(fram, n) /\ Decoded(fram, At(n), 2) = Decoded(fram, StageAt, 1)
      /\ fram[JournalAt + 1] = Byte(n) /\ n \in Nat
  BY <1>1, SlotNumbers DEF Converted, Staged
<1>8. Next_' = Following(n)
  BY <1>5, CellFacts DEF Next_
<1>9. ContentIn(fram, n) = Decoded(fram, At(n), 2)
  BY <1>1, <1>7, ContentMoving
<1>10. \A s \in Slots : s > n => ContentIn(fram, s) = Decoded(fram, At(s), 2)
  BY <1>1, ContentMoving
<1>11. fram'[VersionAt] = Migrating
  BY <1>6
<1>12. HeaderOK' <=> \E m \in Slots \cup {Finished} : fram'[NextAt] = Byte(m)
  BY <1>6 DEF HeaderOK, Phases
<1>13. Migrating # V1 /\ Migrating # V2
  BY HeaderCells
<1>14. CASE n = 0
  <2>1. Following(n) = Finished /\ pc = "finish"
    <3>1. slot \in Nat
      BY SlotNumbers DEF StoreInv, StoreTypes
    <3> QED BY <1>1, <1>14, <3>1 DEF Following
  <2>2. Next_' \notin Slots
    BY <1>8, <2>1, SlotNumbers
  <2>3. MovingPhase'
    BY <1>3, <1>4, <1>8, <2>1, <2>2 DEF MovingPhase
  <2>4. HeaderOK'
    BY <1>5, <1>12, <2>1
  <2>5. Phases'
    BY <1>11, <1>13, <2>3, <2>4 DEF Phases
  <2>6. ASSUME NEW s \in Slots PROVE ContentIn(fram', s) = ContentIn(fram, s)
    <3>1. ContentIn(fram', s) = Decoded(fram', At(s), 2)
      BY <1>5, <1>11, <2>1, ContentFinished
    <3>2. s > n \/ s = n
      BY <1>14, SlotNumbers
    <3> QED BY <1>6, <1>9, <1>10, <3>1, <3>2
  <2> QED BY <2>5, <2>6 DEF Unchanged
<1>15. CASE n # 0
  <2> DEFINE m == n - 1
  <2>1. /\ Following(n) = m /\ m \in Slots /\ m \in Nat /\ m + 1 = n
        /\ pc = "resume" /\ m = slot
    <3>1. slot \in Nat
      BY SlotNumbers DEF StoreInv, StoreTypes
    <3> QED BY <1>1, <1>7, <1>15, <3>1, SlotNumbers DEF Following
  <2> HIDE DEF m
  <2>2. fram'[JournalAt + 1] # Byte(m)
    BY <1>6, <1>7, <2>1, CellFacts
  <2>3. ~Staged(fram', m)
    BY <2>2 DEF Staged
  <2>4. MovingPhase'
    <3>1. (Next_ \in Slots => StageTrue(Next_))'
      BY <1>8, <2>1, <2>2 DEF StageTrue
    <3> QED BY <1>3, <1>4, <1>8, <2>1, <3>1 DEF MovingPhase
  <2>5. HeaderOK'
    BY <1>5, <1>12, <2>1
  <2>6. Phases'
    BY <1>11, <1>13, <2>4, <2>5 DEF Phases
  <2>7. ASSUME NEW s \in Slots PROVE ContentIn(fram', s) = ContentIn(fram, s)
    <3>1. fram'[NextAt] = Byte(m) /\ s \in Nat
      BY <1>5, <2>1, SlotNumbers
    <3>2. CASE s >= n
      <4>1. s > m
        BY <1>7, <2>1, <3>1, <3>2
      <4>2. ContentIn(fram', s) = Decoded(fram', At(s), 2)
        BY <1>11, <2>1, <3>1, <4>1, ContentMoving
      <4>3. s > n \/ s = n
        BY <1>7, <3>1, <3>2
      <4> QED BY <1>6, <1>9, <1>10, <4>2, <4>3
    <3>3. CASE s < n
      <4>1. s = m \/ s < m
        BY <1>7, <2>1, <3>1, <3>3
      <4>2. ContentIn(fram', s) = Decoded(fram', AtV1(s), 1)
        BY <1>11, <2>1, <2>3, <3>1, <4>1, ContentMoving
      <4>3. ContentIn(fram, s) = Decoded(fram, AtV1(s), 1)
        BY <1>1, <3>3, ContentMoving
      <4> QED BY <1>6, <4>2, <4>3
    <3> QED BY <1>7, <3>1, <3>2, <3>3
  <2> QED BY <2>6, <2>7 DEF Unchanged
<1> QED BY <1>14, <1>15

\* The header of the new layout, whose version ends the migration.
LEMMA HeaderWritten ==
    ASSUME StoreConstants, StoreInv, Phases, WriteCell, pc = "body",
           fram[VersionAt] \in {Migrating, V2}
    PROVE  Phases' /\ Unchanged
<1> DEFINE a == pending[1][1]
           writes == HeaderWrites
           k == Len(writes) - Len(pending) + 1
<1>1. /\ Progress(fram, pending, writes)
      /\ fram[VersionAt] = Migrating => fram[NextAt] = Byte(Finished)
  <2>1. pending # <<>> /\ fram[NextAt] = Byte(Next_)
    BY HereIs DEF WriteCell
  <2>2. CASE fram[VersionAt] = Migrating
    <3>1. MovingPhase
      BY <2>2 DEF Phases
    <3> QED BY <2>1, <3>1 DEF MovingPhase, StoreResting, InFlight
  <2>3. CASE fram[VersionAt] = V2
    <3>1. NewPhase /\ V2 # Migrating
      BY <2>3, HeaderCells DEF Phases
    <3> QED BY <2>1, <2>3, <3>1 DEF NewPhase, StoreResting, InFlight
  <2> QED BY <2>2, <2>3
<1>2. /\ writes \in Seq(CellWrites) /\ Len(writes) = 4
      /\ writes[1] = <<MagicAt, Byte(Magic)>> /\ writes[2] = <<VersionAt, V2>>
      /\ writes[3] = <<CountAt, Byte(SlotCount)>> /\ writes[4] = <<NextAt, Byte(0)>>
  BY HeaderCells, HeaderIs DEF HeaderWrites, Header
<1> HIDE DEF writes
<1>3. /\ Distinct(writes)
  <2>1. /\ writes[1][1] = 0 /\ writes[2][1] = 1 /\ writes[3][1] = 2 /\ writes[4][1] = 3
    BY <1>2 DEF MagicAt, VersionAt, CountAt, NextAt
  <2>2. \A i \in 1..4 : writes[i][1] = i - 1
    <3> TAKE i \in 1..4
    <3>1. i = 1 \/ i = 2 \/ i = 3 \/ i = 4
      OBVIOUS
    <3> QED BY <2>1, <3>1
  <2> QED BY <1>2, <2>2 DEF Distinct
<1>4. /\ Progress(fram', pending', writes) /\ k \in 1..4 /\ pending[1] = writes[k]
  BY <1>1, <1>2, <1>3, WriteGoesOn DEF StoreInv
<1>5. /\ Len(pending') = Len(pending) - 1 /\ Len(pending) \in Nat /\ UNCHANGED <<pc, slot>>
      /\ StoreTypes'
  BY OneWrite, WriteKeeps DEF StoreInv
<1>6. a \in Addresses /\ Differ(fram, fram', a) /\ fram'[a] = pending[1][2]
  BY OneCell DEF StoreInv
<1>7. k = 1 \/ k = 2 \/ k = 3 \/ k = 4
  <2> HIDE DEF k
  <2> QED BY <1>4
<1>8. a < HeaderSize
  BY <1>2, <1>4, <1>7 DEF HeaderSize, MagicAt, VersionAt, CountAt, NextAt
<1>9. /\ \A s \in Slots : Decoded(fram', At(s), 2) = Decoded(fram, At(s), 2)
      /\ a # MagicAt => fram'[MagicAt] = fram[MagicAt]
      /\ a # VersionAt => fram'[VersionAt] = fram[VersionAt]
      /\ a # CountAt => fram'[CountAt] = fram[CountAt]
      /\ a # NextAt => fram'[NextAt] = fram[NextAt]
  BY <1>6, <1>8, HeaderOthers
<1>10. /\ fram[MagicAt] = Byte(Magic) /\ fram[CountAt] = Byte(SlotCount)
       /\ fram[NextAt] = Byte(Next_) /\ Next_ \in Slots \cup {Finished}
  BY HereIs
<1>11. fram'[MagicAt] = Byte(Magic) /\ fram'[CountAt] = Byte(SlotCount)
  BY <1>2, <1>4, <1>6, <1>7, <1>9, <1>10 DEF MagicAt, VersionAt, CountAt, NextAt
<1>12. \E m \in Slots \cup {Finished} : fram'[NextAt] = Byte(m)
  <2>1. 0 \in Slots
    BY SlotNumbers
  <2> QED BY <1>2, <1>4, <1>6, <1>7, <1>9, <1>10, <2>1 DEF MagicAt, VersionAt, CountAt, NextAt
<1>13. Migrating # V1 /\ Migrating # V2 /\ V1 # V2
  BY HeaderCells
<1>14. \A s \in Slots : ContentIn(fram, s) = Decoded(fram, At(s), 2)
  BY <1>1, ContentFinished, ContentNew
<1>15. CASE fram[VersionAt] = Migrating /\ k # 2
  <2>1. k = 1
    <3>1. CASE k \in {3, 4}
      <4>1. Len(writes) - Len(pending) = k - 1 /\ 2 \in 1..(k - 1)
        BY <1>2, <1>5, <3>1
      <4>2. fram[writes[2][1]] = writes[2][2]
        BY <1>1, <4>1 DEF Progress
      <4> QED BY <1>2, <1>13, <1>15, <4>2
    <3> QED BY <1>7, <1>15, <3>1
  <2>2. a = MagicAt /\ fram'[VersionAt] = Migrating /\ fram'[NextAt] = Byte(Finished)
    BY <1>1, <1>2, <1>4, <1>9, <1>15, <2>1 DEF MagicAt, VersionAt, NextAt
  <2>3. Next_' = Finished
    BY <2>2, CellFacts DEF Next_
  <2>4. pending' # <<>>
    <3>1. Len(pending') = 3
      BY <1>2, <1>5, <2>1
    <3> QED BY <3>1, EmptySeq
  <2>5. MovingPhase'
    <3>1. (Next_ \in Slots => StageTrue(Next_))'
      BY <2>3, SlotNumbers
    <3> QED BY <1>4, <1>5, <2>3, <2>4, <3>1 DEF MovingPhase, InFlight, writes
  <2>6. HeaderOK'
    BY <1>11, <1>12, <2>2 DEF HeaderOK
  <2>7. Phases'
    BY <1>13, <2>2, <2>5, <2>6 DEF Phases
  <2>8. \A s \in Slots : ContentIn(fram', s) = Decoded(fram', At(s), 2)
    BY <2>2, ContentFinished
  <2> QED BY <1>9, <1>14, <2>7, <2>8 DEF Unchanged
<1>16. CASE fram[VersionAt] = V2 \/ k = 2
  <2>1. fram'[VersionAt] = V2
    <3>1. CASE k = 2
      BY <1>2, <1>4, <1>6, <3>1
    <3>2. CASE k # 2
      <4>1. a # VersionAt
        BY <1>2, <1>4, <1>7, <3>2 DEF MagicAt, VersionAt, CountAt, NextAt
      <4> QED BY <1>9, <1>16, <3>2, <4>1
    <3> QED BY <3>1, <3>2
  <2>2. NewPhase'
    BY <1>4, <1>5 DEF NewPhase, InFlight, writes
  <2>3. HeaderOK'
    BY <1>11, <1>12, <2>1 DEF HeaderOK
  <2>4. Phases'
    BY <1>13, <2>1, <2>2, <2>3 DEF Phases
  <2>5. \A s \in Slots : ContentIn(fram', s) = Decoded(fram', At(s), 2)
    BY <2>1, ContentNew
  <2> QED BY <1>9, <1>14, <2>4, <2>5 DEF Unchanged
<1> QED BY <1>15, <1>16
\* A save or a delete, of one slot of the new layout.
LEMMA CallWrite ==
    ASSUME StoreConstants, StoreInv, Phases, WriteCell, pc = "idle"
    PROVE  /\ Phases'
           /\ \A s \in Slots : s # request.slot => ContentIn(fram', s) = ContentIn(fram, s)
           /\ request.name = "save" =>
                 \/ ContentIn(fram', request.slot) = Spoilt
                 \/ \E p \in Legacy \cup Programs :
                       ContentIn(fram', request.slot) = Holds(p)
           /\ request.name # "save" => ContentIn(fram', request.slot) = Nothing
<1> DEFINE a == pending[1][1]
           t == request.slot
<1>1. /\ pending # <<>> /\ t \in Slots /\ request.program \in Programs \cup {<<>>}
      /\ request.name = "save" => request.program \in Programs
      /\ fram[VersionAt] = V2
      /\ \/ request.name = "save" /\ Progress(fram, pending, SaveWrites(t, request.program))
         \/ request.name = "delete" /\ pending = <<<<At(t), Byte(0)>>>>
  BY DEF StoreInv, StoreTypes, CallsOK, Calling, WriteCell, InFlight
<1>2. /\ a \in Addresses /\ Differ(fram, fram', a) /\ fram'[a] = pending[1][2] /\ a \in Nat
  BY OneCell DEF StoreInv
<1>3. UNCHANGED <<pc, slot, request>> /\ MemoryOK' /\ Len(pending) \in Nat
      /\ Len(pending') = Len(pending) - 1
  BY OneWrite DEF StoreInv
<1>4. /\ a >= At(t) /\ a < At(t) + SizeV2 /\ fram'[At(t)] \in {Byte(0), Byte(1)}
      /\ request.name = "save" => fram'[At(t)] = Byte(1)
      /\ request.name # "save" => fram'[At(t)] = Byte(0)
  <2>1. At(t) \in Nat /\ SizeV2 \in Nat /\ SizeV2 >= 5
    <3>1. At(t) \in Nat
      BY <1>1, HeaderPlaces
    <3> QED BY <3>1, Sizes
  <2>2. CASE request.name = "save"
    <3> DEFINE p == request.program
               writes == SaveWrites(t, p)
               k == Len(writes) - Len(pending) + 1
    <3>1. p \in Legacy \cup Programs /\ Progress(fram, pending, writes)
      BY <1>1, <2>2
    <3>2. /\ writes \in Seq(CellWrites) /\ Len(writes) = Len(SlotV2(p)) /\ Len(writes) <= SizeV2
          /\ Len(writes) \in Nat /\ Len(writes) = 3 + 2 * Len(p)
          /\ \A i \in 1..Len(writes) : /\ writes[i][1] = At(t) + i - 1
                                       /\ writes[i][2] = SlotV2(p)[i]
          /\ Distinct(writes)
      BY <1>1, <3>1, SaveWritesIs, SaveDistinct
    <3>3. SlotV2(p)[1] = Byte(1) /\ Len(p) \in Nat
      <4>1. Len(p) \in Nat /\ 1 \in 1..(2 + 2 * Len(p))
        BY <3>1, ProgramIs
      <4>2. SlotV2(p)[1] = PayloadV2(p)[1] /\ PayloadV2(p)[1] = Byte(1)
        BY <3>1, <4>1, SlotV2Is, PayloadV2Is
      <4> QED BY <4>1, <4>2
    <3> HIDE DEF p, writes
    <3>4. /\ Progress(fram', pending', writes) /\ k \in 1..Len(writes)
          /\ pending[1] = writes[k]
      BY <3>1, <3>2, WriteGoesOn DEF StoreInv
    <3>5. Len(writes) - Len(pending') = k
      BY <1>3, <3>2
    <3> HIDE DEF k
    <3>6. \A i \in 1..k : fram'[writes[i][1]] = writes[i][2]
      BY <3>4, <3>5 DEF Progress
    <3>7. a = At(t) + k - 1 /\ k >= 1 /\ k <= Len(writes) /\ k \in Nat
      BY <3>2, <3>4
    <3>8. fram'[At(t)] = Byte(1)
      <4>1. 1 \in 1..k /\ 1 \in 1..Len(writes) /\ At(t) + 1 - 1 = At(t)
        BY <2>1, <3>2, <3>7
      <4> QED BY <3>2, <3>3, <3>6, <4>1
    <3> HIDE DEF a
    <3> QED BY <2>1, <2>2, <3>2, <3>7, <3>8
  <2>3. CASE request.name # "save"
    <3>1. pending[1] = <<At(t), Byte(0)>>
      BY <1>1, <2>3, ShortWrites
    <3> QED BY <1>2, <2>1, <2>3, <3>1
  <2> QED BY <2>2, <2>3
<1> HIDE DEF a
<1>5. /\ HeaderSize \in Nat /\ SizeV2 \in Nat
      /\ \A s \in Slots : /\ At(s) \in Nat /\ AtV1(s) \in Nat
                          /\ HeaderSize <= AtV1(s) /\ AtV1(s) <= At(s)
      /\ \A s, u \in Slots : s < u => At(s) + SizeV2 <= At(u)
  BY HeaderPlaces, Sizes DEF HeaderSize
<1>6. a >= HeaderSize
  BY <1>1, <1>2, <1>4, <1>5
<1>7. /\ fram'[MagicAt] = fram[MagicAt] /\ fram'[VersionAt] = V2
      /\ fram'[CountAt] = fram[CountAt] /\ fram'[NextAt] = fram[NextAt]
  BY <1>1, <1>2, <1>6, HeaderKept
<1>8. Phases'
  <2>1. NewPhase'
    BY <1>3 DEF NewPhase
  <2>2. HeaderOK'
    BY <1>7 DEF HeaderOK, Phases
  <2>3. V2 # V1 /\ V2 # Migrating
    BY HeaderCells
  <2> QED BY <1>7, <2>1, <2>2, <2>3 DEF Phases
<1>9. ASSUME NEW s \in Slots, s # t PROVE ContentIn(fram', s) = ContentIn(fram, s)
  <2>1. s \in Nat /\ t \in Nat
    BY <1>1, SlotNumbers
  <2>2. a < At(s) \/ a >= At(s) + SizeV2
    <3>1. CASE s < t
      BY <1>1, <1>2, <1>4, <1>5, <3>1
    <3>2. CASE t < s
      BY <1>1, <1>2, <1>4, <1>5, <3>2
    <3> QED BY <1>9, <2>1, <3>1, <3>2
  <2>3. Decoded(fram', At(s), 2) = Decoded(fram, At(s), 2)
    BY <1>2, <2>2, ElsewhereNew
  <2> QED BY <1>1, <1>7, <2>3, ContentNew
<1>10. ContentIn(fram', t) = Decoded(fram', At(t), 2)
  BY <1>1, <1>7, ContentNew
<1>11. ASSUME request.name = "save"
       PROVE  \/ ContentIn(fram', t) = Spoilt
              \/ \E p \in Legacy \cup Programs : ContentIn(fram', t) = Holds(p)
  <2>1. \A i \in 0..(2 + 2 * MaxCount) : fram'[At(t) + i] \in SlotCells
    <3> TAKE i \in 0..(2 + 2 * MaxCount)
    <3>1. /\ At(t) \in Nat /\ At(t) + SizeV2 <= StageAt /\ StageAt \in Nat /\ SizeV1 \in Nat
          /\ JournalAt = StageAt + SizeV1 /\ Addresses = 0..(JournalAt + 2)
          /\ SizeV2 = 3 + 2 * MaxCount /\ MaxCount \in Nat
      BY <1>1, HeaderPlaces, Sizes
    <3>2. At(t) + i \in Addresses /\ At(t) + i < JournalAt
      BY <3>1
    <3> QED BY <1>3, <3>2 DEF MemoryOK
  <2>2. Decoded(fram', At(t), 2) # Nothing
    BY <1>4, <1>11, HoldsFacts DEF Decoded
  <2> QED BY <1>1, <1>5, <1>10, <2>1, <2>2, DecodedV2Known
<1>12. ASSUME request.name # "save" PROVE ContentIn(fram', t) = Nothing
  <2>1. fram'[At(t)] # Byte(1)
    BY <1>4, <1>12, CellFacts
  <2> QED BY <1>10, <2>1 DEF Decoded
<1> QED BY <1>8, <1>9, <1>11, <1>12
-----------------------------------------------------------------------------
(* The memory the old firmware left.                                       *)

LEMMA Division ==
    ASSUME NEW x \in Nat, NEW c \in Nat, c > 0
    PROVE  /\ x \div c \in Nat /\ x % c \in Nat /\ x % c < c
           /\ x = (x \div c) * c + (x % c)
OBVIOUS

LEMMA DivisionIs ==
    ASSUME NEW s \in Nat, NEW c \in Nat, c > 0, NEW j \in Nat, j < c
    PROVE  (s * c + j) \div c = s /\ (s * c + j) % c = j
<1> DEFINE x == s * c + j
           q == x \div c
           r == x % c
           sc == s * c
           qc == q * c
<1>1. sc \in Nat /\ x = sc + j /\ x \in Nat
  OBVIOUS
<1>2. q \in Nat /\ r \in Nat /\ r < c /\ x = qc + r /\ qc \in Nat
  <2> HIDE DEF x
  <2> QED BY <1>1, Division
<1>3. q < s => qc + c <= sc
  <2> HIDE DEF q
  <2> QED BY <1>2, Products
<1>4. s < q => sc + c <= qc
  <2> HIDE DEF q
  <2> QED BY <1>2, Products
<1> HIDE DEF x, q, r, sc, qc
<1>5. q = s
  BY <1>1, <1>2, <1>3, <1>4
<1>6. qc = sc
  BY <1>5 DEF qc, sc
<1>7. r = j
  BY <1>1, <1>2, <1>6
<1> QED BY <1>5, <1>7 DEF q, r, x

\* Cell by cell.
LEMMA LegacyCells ==
    ASSUME StoreConstants, NEW kept \in [Slots -> LegacySlots]
    PROVE  /\ LegacyFram(kept)[MagicAt] = Byte(Magic)
           /\ LegacyFram(kept)[VersionAt] = V1
           /\ LegacyFram(kept)[CountAt] = Byte(SlotCount)
           /\ LegacyFram(kept)[NextAt] = Byte(0)
           /\ LegacyFram(kept)[JournalAt] = Byte(0)
           /\ \A s \in Slots : \A j \in 0..(SizeV1 - 1) :
                 LegacyFram(kept)[AtV1(s) + j] =
                     IF j + 1 <= Len(kept[s]) THEN kept[s][j + 1] ELSE Byte(0)
<1> DEFINE f == LegacyFram(kept)
<1>1. /\ SizeV1 \in Nat /\ SizeV1 >= 4 /\ StageAt \in Nat /\ JournalAt = StageAt + SizeV1
      /\ JournalAt \in Nat /\ HeaderSize <= StageAt /\ Addresses = 0..(JournalAt + 2)
      /\ SizeV1 <= SizeV2 /\ SizeV2 \in Nat /\ SlotCount \in Nat
  BY Sizes, HeaderPlaces
<1>2. \A a \in Addresses : a < HeaderSize => f[a] = Header(V1, 0)[a + 1]
  BY DEF LegacyFram
<1>3. \A a \in Addresses : ~(a < HeaderSize) =>
         f[a] = IF (a - HeaderSize) \div SizeV1 \in Slots
                       /\ ((a - HeaderSize) % SizeV1) + 1
                            <= Len(kept[(a - HeaderSize) \div SizeV1])
                THEN kept[(a - HeaderSize) \div SizeV1][((a - HeaderSize) % SizeV1) + 1]
                ELSE Byte(0)
  BY DEF LegacyFram
<1> HIDE DEF f
<1>4. /\ f[MagicAt] = Byte(Magic) /\ f[VersionAt] = V1 /\ f[CountAt] = Byte(SlotCount)
      /\ f[NextAt] = Byte(0)
  <2>1. /\ Header(V1, 0)[0 + 1] = Byte(Magic) /\ Header(V1, 0)[1 + 1] = V1
        /\ Header(V1, 0)[2 + 1] = Byte(SlotCount) /\ Header(V1, 0)[3 + 1] = Byte(0)
    BY DEF Header
  <2>2. /\ MagicAt = 0 /\ VersionAt = 1 /\ CountAt = 2 /\ NextAt = 3 /\ HeaderSize = 4
    BY DEF MagicAt, VersionAt, CountAt, NextAt, HeaderSize
  <2>3. 0 \in Addresses /\ 1 \in Addresses /\ 2 \in Addresses /\ 3 \in Addresses
    BY <2>2, HeaderCells
  <2> QED BY <1>2, <2>1, <2>2, <2>3
<1>5. f[JournalAt] = Byte(0)
  <2> DEFINE x == JournalAt - HeaderSize
             q == x \div SizeV1
             qc == q * SizeV1
  <2>1. JournalAt \in Addresses /\ ~(JournalAt < HeaderSize) /\ x \in Nat
    BY <1>1 DEF HeaderSize
  <2>2. SlotCount * SizeV1 <= x
    <3>1. JournalAt = HeaderSize + SlotCount * SizeV2 + SizeV1
      BY <1>1 DEF StageAt, At
    <3>2. SlotCount * SizeV1 <= SlotCount * SizeV2
      BY <1>1, Larger
    <3> DEFINE m1 == SlotCount * SizeV1
               m2 == SlotCount * SizeV2
    <3>3. m1 \in Nat /\ m2 \in Nat /\ m1 <= m2 /\ JournalAt = HeaderSize + m2 + SizeV1
      BY <1>1, <3>1, <3>2
    <3> HIDE DEF m1, m2
    <3>4. m1 <= x
      BY <1>1, <3>3 DEF HeaderSize
    <3> QED BY <3>4 DEF m1
  <2> HIDE DEF x
  <2>3. q \in Nat /\ x % SizeV1 < SizeV1 /\ x = qc + (x % SizeV1) /\ x % SizeV1 \in Nat /\ qc \in Nat
    BY <1>1, <2>1, Division
  <2> HIDE DEF q
  <2>4. q \notin Slots
    <3> SUFFICES ASSUME q < SlotCount PROVE FALSE
      BY <1>1, <2>3 DEF Slots
    <3> DEFINE m1 == SlotCount * SizeV1
    <3>1. qc + SizeV1 <= m1 /\ m1 \in Nat /\ m1 <= x
      BY <1>1, <2>2, <2>3, Products
    <3> HIDE DEF m1, qc
    <3> QED BY <1>1, <2>1, <2>3, <3>1
  <2> QED BY <1>3, <2>1, <2>4 DEF x, q
<1>6. ASSUME NEW s \in Slots, NEW j \in 0..(SizeV1 - 1)
      PROVE  f[AtV1(s) + j] = IF j + 1 <= Len(kept[s]) THEN kept[s][j + 1] ELSE Byte(0)
  <2> DEFINE a == AtV1(s) + j
             x == a - HeaderSize
  <2>1. /\ AtV1(s) \in Nat /\ HeaderSize <= AtV1(s) /\ AtV1(s) <= At(s) /\ At(s) \in Nat
        /\ At(s) + SizeV2 <= StageAt
    BY HeaderPlaces
  <2>2. a \in Addresses /\ ~(a < HeaderSize)
    BY <1>1, <2>1 DEF HeaderSize
  <2>3. x = s * SizeV1 + j
    <3> DEFINE m == s * SizeV1
    <3>1. m \in Nat /\ AtV1(s) = HeaderSize + m
      BY <1>1, SlotNumbers DEF AtV1
    <3> HIDE DEF m
    <3>2. x = m + j
      BY <1>1, <3>1 DEF HeaderSize
    <3> QED BY <3>2 DEF m
  <2>4. x \div SizeV1 = s /\ x % SizeV1 = j
    <3>1. s \in Nat /\ j \in Nat /\ j < SizeV1 /\ SizeV1 > 0
      BY <1>1, SlotNumbers
    <3> HIDE DEF x
    <3> QED BY <1>1, <2>3, <3>1, DivisionIs
  <2> HIDE DEF a
  <2>5. f[a] = IF x \div SizeV1 \in Slots /\ (x % SizeV1) + 1 <= Len(kept[x \div SizeV1])
               THEN kept[x \div SizeV1][(x % SizeV1) + 1] ELSE Byte(0)
    BY <1>3, <2>2
  <2> HIDE DEF x
  <2>6. f[a] = IF j + 1 <= Len(kept[s]) THEN kept[s][j + 1] ELSE Byte(0)
    BY <2>4, <2>5
  <2> QED BY <2>6 DEF a
<1> QED BY <1>4, <1>5, <1>6 DEF f

\* An old slot that was not cut short holds a program, or nothing.
LEMMA LegacyHolds ==
    ASSUME StoreConstants, Sound, NEW kept \in [Slots -> LegacySlots], NEW s \in Slots
    PROVE  \/ Decoded(LegacyFram(kept), AtV1(s), 1) = Nothing
           \/ \E p \in Legacy : Decoded(LegacyFram(kept), AtV1(s), 1) = Holds(p)
<1> DEFINE f == LegacyFram(kept)
<1>1. SizeV1 \in Nat /\ SizeV1 = 3 + MaxCount /\ MaxCount \in Nat /\ AtV1(s) \in Nat
  BY Sizes, HeaderPlaces
<1>2. \A j \in 0..(SizeV1 - 1) :
         f[AtV1(s) + j] = IF j + 1 <= Len(kept[s]) THEN kept[s][j + 1] ELSE Byte(0)
  BY LegacyCells
<1> HIDE DEF f
<1>3. kept[s] \in LegacySlots
  OBVIOUS
<1>4. kept[s] = <<>> \/ \E p \in Legacy : kept[s] = WithCrc(PayloadV1(p))
  BY <1>3 DEF LegacySlots, Sound
<1>5. CASE kept[s] = <<>>
  <2>1. 0 \in 0..(SizeV1 - 1) /\ AtV1(s) + 0 = AtV1(s) /\ ~(0 + 1 <= Len(kept[s]))
    BY <1>1, <1>5
  <2>2. f[AtV1(s)] = Byte(0)
    BY <1>2, <2>1
  <2>3. f[AtV1(s)] # Byte(1)
    BY <2>2, CellFacts
  <2>4. Decoded(f, AtV1(s), 1) = Nothing
    BY <2>3 DEF Decoded
  <2> QED BY <2>4 DEF f
<1>6. CASE \E p \in Legacy : kept[s] = WithCrc(PayloadV1(p))
  <2>1. PICK p \in Legacy : kept[s] = WithCrc(PayloadV1(p))
    BY <1>6
  <2>2. PayloadV1(p) \in StorePayloads
    BY DEF StorePayloads
  <2>3. Len(kept[s]) = 3 + Len(p) /\ Len(kept[s]) <= SizeV1 /\ Len(p) \in Nat
    BY <2>1, <2>2, SlotV1Is, ProgramIs DEF WithCrc
  <2>4. \A i \in 1..(3 + Len(p)) : f[AtV1(s) + i - 1] = WithCrc(PayloadV1(p))[i]
    <3> TAKE i \in 1..(3 + Len(p))
    <3>1. /\ i - 1 \in 0..(SizeV1 - 1) /\ (i - 1) + 1 = i /\ i <= Len(kept[s])
          /\ AtV1(s) + (i - 1) = AtV1(s) + i - 1
      BY <1>1, <2>3
    <3> QED BY <1>2, <2>1, <3>1
  <2>5. Decoded(f, AtV1(s), 1) = Holds(p)
    BY <1>1, <2>4, DecodedV1Written
  <2> QED BY <2>5 DEF f
<1> QED BY <1>4, <1>5, <1>6

LEMMA PhasesInit ==
    ASSUME StoreConstants, Sound, Init
    PROVE  /\ Phases
           /\ \A s \in Slots : \/ ContentIn(fram, s) = Nothing
                               \/ \E p \in Legacy : ContentIn(fram, s) = Holds(p)
<1>1. PICK kept \in [Slots -> LegacySlots] : fram = LegacyFram(kept)
  BY DEF Init, Sound
<1>2. /\ fram[MagicAt] = Byte(Magic) /\ fram[VersionAt] = V1
      /\ fram[CountAt] = Byte(SlotCount) /\ fram[NextAt] = Byte(0)
      /\ fram[JournalAt] = Byte(0)
  BY <1>1, LegacyCells
<1>3. HeaderOK
  BY <1>2, SlotNumbers DEF HeaderOK
<1>4. OldPhase
  <2>1. fram[JournalAt] # Byte(Magic)
    BY <1>2, HeaderCells
  <2> QED BY <2>1 DEF OldPhase, StoreResting, Init
<1>5. V1 # V2 /\ V1 # Migrating
  BY HeaderCells
<1>6. Phases
  BY <1>2, <1>3, <1>4, <1>5 DEF Phases
<1>7. \A s \in Slots : ContentIn(fram, s) = Decoded(fram, AtV1(s), 1)
  BY <1>2, ContentOld
<1> QED BY <1>1, <1>6, <1>7, LegacyHolds
-----------------------------------------------------------------------------
(* The store implements SlotMemory.                                        *)

LEMMA WritePhases ==
    ASSUME StoreConstants, StoreInv, Phases, WriteCell, pc # "idle"
    PROVE  Phases' /\ Unchanged
<1>1. pending # <<>> /\ fram[VersionAt] \in {V1, Migrating, V2}
  BY HereIs DEF WriteCell
<1>2. CASE fram[VersionAt] = V1
  BY <1>2, OldWrite
<1>3. CASE fram[VersionAt] = Migrating
  <2>1. MovingPhase
    BY <1>3 DEF Phases
  <2>2. pc \in {"staged", "advance", "resume", "finish", "body"}
    BY <1>1, <2>1 DEF MovingPhase, StoreResting
  <2> QED BY <1>3, <2>2, StagedWrite, ConvertWrite, NextWritten, HeaderWritten
<1>4. CASE fram[VersionAt] = V2
  <2>1. NewPhase
    BY <1>4 DEF Phases
  <2>2. pc = "body"
    BY <1>1, <2>1 DEF NewPhase, StoreResting
  <2> QED BY <1>4, <2>2, HeaderWritten
<1> QED BY <1>1, <1>2, <1>3, <1>4

LEMMA MigrationInvInit == StoreConstants /\ Sound /\ Init => MigrationInv
BY StoreInvInit, PhasesInit DEF MigrationInv

LEMMA MigrationInvStep == StoreConstants /\ Sound /\ MigrationInv /\ [Next]_vars => MigrationInv'
<1> SUFFICES ASSUME StoreConstants, Sound, MigrationInv, [Next]_vars PROVE MigrationInv'
  OBVIOUS
<1>1. StoreInv /\ Phases /\ StoreInv'
  BY StoreInvStep DEF MigrationInv
<1>2. CASE UNCHANGED vars
  <2>1. fram' = fram /\ pc' = pc /\ pending' = pending /\ slot' = slot
    BY <1>2 DEF vars
  <2>2. Phases'
    BY <1>1, <2>1 DEF Phases, HeaderOK, OldPhase, MovingPhase, NewPhase, StoreResting, InFlight,
       StageTrue, StageImage, OldImage, Converted, Next_
  <2> QED BY <1>1, <2>2 DEF MigrationInv
<1>3. CASE Next
  <2>1. ~RestageUnread
    BY DEF Sound, RestageUnread
  <2>2. CASE Layout
    BY <1>1, <2>2, LayoutPhases DEF MigrationInv
  <2>3. CASE Migration
    BY <1>1, <2>3, MigrationPhases DEF MigrationInv
  <2>4. CASE Boot \/ Info \/ Change \/ Body \/ BusFails \/ PowerFails
    BY <1>1, <2>4, OtherPhases DEF MigrationInv
  <2>5. CASE WriteCell
    BY <1>1, <2>5, WritePhases, CallWrite DEF MigrationInv
  <2> QED BY <1>3, <2>1, <2>2, <2>3, <2>4, <2>5 DEF Next, Code
<1> QED BY <1>2, <1>3

(* The mapping of KeepsPrograms.                                           *)
Kept_ == [s \in Slots |-> Content(s)]
Contents_ == {Nothing, Spoilt} \cup {Holds(p) : p \in Legacy \cup Programs}
Saving == request.name = "save" /\ pc = "idle" /\ pending # <<>>
NoSaving == [active |-> FALSE, slot |-> 0, holds |-> Nothing]
Saved ==
    IF Saving THEN [active |-> TRUE, slot |-> request.slot, holds |-> Holds(request.program)]
    ELSE NoSaving

\* A step of the store, of those that are no write to a slot.
LEMMA QuietStep ==
    ASSUME StoreConstants, StoreInv, Next, ~WriteCell
    PROVE  /\ fram' = fram
           /\ \/ Saved' = Saved
              \/ Saved' = NoSaving
              \/ /\ ~Saving /\ Saved'.active /\ Saved'.slot \in Slots
                 /\ Saved'.holds \in {Holds(p) : p \in Programs}
<1>1. CASE Boot \/ Layout \/ Migration \/ Info \/ Change \/ RestageUnread
  <2>1. fram' = fram /\ ~Saving'
    BY <1>1 DEF Boot, Layout, CreateLayout, LayoutReady, BeginMigration, ContinueMigration,
       RefuseLayout, Migration, Restage, Convert, Advance, FinishMigration, RestageUnread,
       Info, Change, Ask, Writes, Goes, At_, Saving
  <2> QED BY <2>1 DEF Saved
<1>2. CASE BusFails \/ PowerFails
  <2>1. fram' = fram /\ ~Saving'
    BY <1>2 DEF BusFails, PowerFails, Saving
  <2> QED BY <2>1 DEF Saved
<1>3. CASE Answer \/ DeleteSlot \/ LoadSlot
  <2>1. fram' = fram /\ ~Saving'
    BY <1>3 DEF Answer, DeleteSlot, LoadSlot, Writes, Goes, At_, Saving
  <2> QED BY <2>1 DEF Saved
<1>4. CASE SaveSlot
  <2>1. /\ fram' = fram /\ request' = request /\ request.name = "save" /\ ~Saving
        /\ request.slot \in Slots /\ request.program \in Programs
        /\ pc' = "idle" /\ pending' = Cells(At(request.slot), SlotV2(request.program))
    BY <1>4 DEF SaveSlot, Writes, At_, Saving, StoreInv, StoreTypes, CallsOK
  <2>2. pending' # <<>>
    BY <2>1, SaveWritesIs DEF SaveWrites
  <2>3. Saved' = [active |-> TRUE, slot |-> request.slot, holds |-> Holds(request.program)]
    BY <2>1, <2>2 DEF Saved, Saving
  <2> QED BY <2>1, <2>3
<1> QED BY <1>1, <1>2, <1>3, <1>4 DEF Next, Code, Body

(* The refinement: however often power and bus fail, each slot holds what  *)
(* it held, unless it is the one being saved or deleted ("power-loss-safe  *)
(* in-place migration", seq_store.cpp), for a memory whose old slots were  *)
(* not cut short and whose staging area can be read.                       *)
THEOREM StoreKeepsPrograms ==
    ASSUME StoreConstants, Sound
    PROVE  Spec => KeepsPrograms
<1>1. Init => Kept!Begin
  <2> SUFFICES ASSUME Init PROVE Kept!Begin
    OBVIOUS
  <2>1. \A s \in Slots : Content(s) \in Contents_ \ {Spoilt}
    <3> TAKE s \in Slots
    <3>1. \/ Content(s) = Nothing
          \/ \E p \in Legacy : Content(s) = Holds(p)
      BY ContentIs, PhasesInit
    <3> QED BY <3>1, HoldsFacts DEF Contents_
  <2>2. Kept_ \in [Slots -> Contents_ \ {Spoilt}]
    BY <2>1 DEF Kept_
  <2>3. Saved = NoSaving
    BY DEF Saved, Saving, Init
  <2> QED BY <2>2, <2>3
          DEF Kept!Begin, Kept!NoSave, Kept_, Contents_, Saved, Saving, NoSaving
<1>2. MigrationInv /\ [Next]_vars => [Kept!Step]_Kept!memory
  <2> SUFFICES ASSUME MigrationInv, [Next]_vars PROVE [Kept!Step]_Kept!memory
    OBVIOUS
  <2>1. StoreInv /\ Phases
    BY DEF MigrationInv
  <2>2. CASE fram' = fram /\ Saved' = Saved
    <3>1. Kept_' = Kept_
      BY <2>2, ContentIs DEF Kept_
    <3> QED BY <2>2, <3>1 DEF Kept!memory, Kept_, Saved, Saving, NoSaving
  <2>3. CASE fram' = fram /\ Saving /\ Saved' = NoSaving
    <3>1. Kept_' = Kept_
      BY <2>3, ContentIs DEF Kept_
    <3>2. Saved.active
      BY <2>3 DEF Saved
    <3> QED BY <2>3, <3>1, <3>2
            DEF Kept!Step, Kept!Abandon, Kept!NoSave, Kept_, Saved, Saving, NoSaving
  <2>4. CASE /\ fram' = fram /\ ~Saving /\ Saved'.active /\ Saved'.slot \in Slots
             /\ Saved'.holds \in {Holds(p) : p \in Programs}
    <3>1. Kept_' = Kept_
      BY <2>4, ContentIs DEF Kept_
    <3>2. ~Saved.active
      BY <2>4 DEF Saved, NoSaving
    <3>3. Saved'.holds \in Contents_ \ {Nothing, Spoilt}
      BY <2>4, HoldsFacts DEF Contents_
    <3> QED BY <2>4, <3>1, <3>2, <3>3
            DEF Kept!Step, Kept!Save, Kept_, Contents_, Saved, Saving, NoSaving
  <2>5. CASE UNCHANGED vars
    <3>1. fram' = fram /\ Saved' = Saved
      BY <2>5 DEF vars, Saved, Saving, NoSaving
    <3> QED BY <2>2, <3>1
  <2>6. CASE Next /\ ~WriteCell
    <3>1. ~Saving => Saved = NoSaving
      BY DEF Saved
    <3> QED BY <2>1, <2>2, <2>3, <2>4, <2>6, <3>1, QuietStep
  <2>7. CASE WriteCell /\ pc # "idle"
    <3>1. Unchanged /\ pc' = pc
      BY <2>1, <2>7, WritePhases, OneWrite DEF StoreInv
    <3>2. Kept_' = Kept_
      BY <3>1, ContentIs DEF Kept_, Unchanged
    <3>3. ~Saving /\ ~Saving'
      BY <2>7, <3>1 DEF Saving
    <3>4. Saved' = Saved
      BY <3>3 DEF Saved
    <3> QED BY <3>2, <3>4 DEF Kept!memory, Kept_, Saved, Saving, NoSaving
  <2>8. CASE WriteCell /\ pc = "idle"
    <3> DEFINE t == request.slot
               c == ContentIn(fram', t)
    <3>1. /\ \A s \in Slots : s # t => ContentIn(fram', s) = ContentIn(fram, s)
          /\ request.name = "save" =>
                \/ c = Spoilt
                \/ \E p \in Legacy \cup Programs : c = Holds(p)
          /\ request.name # "save" => c = Nothing
      BY <2>1, <2>8, CallWrite
    <3>2. pc' = pc /\ request' = request /\ pending # <<>>
      BY <2>1, <2>8, OneWrite DEF StoreInv, WriteCell
    <3>3. t \in Slots
      BY <2>1 DEF StoreInv, StoreTypes, CallsOK
    <3>4. Kept_' = [Kept_ EXCEPT ![t] = c]
      <4>1. \A s \in Slots : Content(s)' = IF s = t THEN c ELSE Content(s)
        BY <3>1, ContentIs
      <4> QED BY <4>1 DEF Kept_
    <3> HIDE DEF c, t
    <3>5. CASE request.name = "save"
      <4>1. Saving /\ Saved.active /\ Saved.slot = t
        BY <2>8, <3>2, <3>5 DEF Saved, Saving, t
      <4>2. Saved' \in {Saved, NoSaving}
        BY <3>2, <4>1 DEF Saved, Saving
      <4>3. c \in Contents_ \ {Nothing}
        BY <3>1, <3>5, HoldsFacts DEF Contents_
      <4>4. Saved.active /\ Saved' \in {Saved, NoSaving}
            /\ \E d \in Contents_ \ {Nothing} : Kept_' = [Kept_ EXCEPT ![Saved.slot] = d]
        BY <3>4, <4>1, <4>2, <4>3
      <4> QED BY <4>4 DEF Kept!Step, Kept!Write, Kept!NoSave, Kept_, Contents_, Saved, Saving,
                          NoSaving
    <3>6. CASE request.name # "save"
      <4>1. ~Saving /\ ~Saving'
        BY <3>2, <3>6 DEF Saving
      <4>2. Saved' = Saved /\ ~Saved.active
        BY <4>1 DEF Saved, NoSaving
      <4>3. \E s \in Slots : Kept_' = [Kept_ EXCEPT ![s] = Nothing]
        BY <3>1, <3>3, <3>4, <3>6
      <4> QED BY <4>2, <4>3 DEF Kept!Step, Kept!Delete, Kept_, Saved, Saving, NoSaving
    <3> QED BY <3>5, <3>6
  <2> QED BY <2>5, <2>6, <2>7, <2>8
<1>3. Init => MigrationInv
  BY MigrationInvInit
<1>4. MigrationInv /\ [Next]_vars => MigrationInv'
  BY MigrationInvStep
<1> QED BY <1>1, <1>2, <1>3, <1>4, PTL DEF Spec, KeepsPrograms, Kept!Memory
=============================================================================
