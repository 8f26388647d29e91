---------------------------- MODULE SequenceStore ---------------------------
(***************************************************************************)
(* The action sequences kept in FRAM (seq_store.cpp): eight slots behind a *)
(* header, and the migration that rewrites the slots of layout 1 in place  *)
(* as the longer slots of layout 2, one at a time, from the last to the    *)
(* first, through a staging area and a journal.                            *)
(*                                                                         *)
(* The FRAM is an array of cells that the power or the bus can cut off     *)
(* between any two: every write is a series of single cells.  A cell       *)
(* stands for a field; a CRC is modelled as the cells it was computed      *)
(* over, so that no two contents share one.  An instruction takes one cell *)
(* in layout 1 and two in layout 2 (10 and 14 bytes), which keeps the way  *)
(* the slots of the two layouts overlap.                                   *)
(*                                                                         *)
(* A program is a sequence of pairs: an instruction and its condition      *)
(* value, which layout 1 does not have and layout 2 sets to zero.          *)
(***************************************************************************)
EXTENDS Integers, Sequences

CONSTANTS
    SlotCount,   \* SEQ_SLOT_COUNT
    MaxCount,    \* instructions a slot has room for
    Legacy,      \* programs the firmware of layout 1 may have left
    Programs,    \* programs a user may save
    Spoiled,     \* TRUE: a save of the old firmware may have been cut short
    Blank,       \* TRUE: the FRAM may be as it left the factory
    ReadErrors,  \* TRUE: reading the staging area may fail
    MaxCrashes,  \* bound: power failures
    MaxFailures, \* bound: bus failures
    MaxRequests  \* bound: saves, loads and deletes

Slots == 0..(SlotCount - 1)

Finished == 255   \* the migration has no slot left

\* The progress of the migration is kept in one byte.
StoreConstants ==
    /\ SlotCount \in 1..(Finished - 1) /\ MaxCount \in Nat \ {0}
    /\ \A p \in Legacy \cup Programs :
          /\ p = [i \in 1..Len(p) |-> <<p[i][1], p[i][2]>>]
          /\ Len(p) \in 1..MaxCount
          /\ \A i \in 1..Len(p) : p[i][1] \in Nat \ {0} /\ p[i][2] \in Nat
    /\ \A p \in Legacy : \A i \in 1..Len(p) : p[i][2] = 0
    /\ Spoiled \in BOOLEAN /\ Blank \in BOOLEAN /\ ReadErrors \in BOOLEAN
    /\ MaxCrashes \in Nat /\ MaxFailures \in Nat /\ MaxRequests \in Nat

VARIABLES
    fram,     \* the memory
    pc,       \* what the code does when the write in progress is through
    pending,  \* the cells of it still to be written
    request,  \* the call in progress
    slot,     \* ResumeMigration: the slot it is at
    loaded,   \* the program last loaded into the action runner
    crashes, failures, requests \* bounds

vars == <<fram, pc, pending, request, slot, loaded, crashes, failures, requests>>
-----------------------------------------------------------------------------
(* Cells and addresses.                                                    *)

Byte(n)  == [crc |-> FALSE, n |-> n, of |-> <<>>]
CrcOf(s) == [crc |-> TRUE, n |-> -1, of |-> s]

Magic == 77       \* kMagic and kMigrationMagic
V1 == Byte(1)
V2 == Byte(2)
Migrating == Byte(3)

MagicAt == 0
VersionAt == 1
CountAt == 2
NextAt == 3
HeaderSize == 4
SizeV1 == 3 + MaxCount
SizeV2 == 3 + 2 * MaxCount
At(s)   == HeaderSize + s * SizeV2
AtV1(s) == HeaderSize + s * SizeV1
StageAt == At(SlotCount)
JournalAt == StageAt + SizeV1
JournalSize == 3
Addresses == 0..(JournalAt + JournalSize - 1)

Image(f, at, length) == [i \in 1..length |-> f[at + i - 1]]

\* The single-cell writes that make up the write of a block.
Cells(at, block) == [i \in 1..Len(block) |-> <<at + i - 1, block[i]>>]
-----------------------------------------------------------------------------
(* Slots as the code reads and writes them.                                *)

Nothing == [kind |-> "nothing", program |-> <<>>]
Spoilt  == [kind |-> "spoilt", program |-> <<>>]
Holds(p) == [kind |-> "program", program |-> p]

WithCrc(payload) == Append(payload, CrcOf(payload))

PayloadV1(p) ==
    <<Byte(1), Byte(Len(p))>> \o [i \in 1..Len(p) |-> Byte(p[i][1])]

PayloadV2(p) ==
    <<Byte(1), Byte(Len(p))>>
        \o [i \in 1..(2 * Len(p)) |-> Byte(p[(i + 1) \div 2][2 - (i % 2)])]

\* Mutant: the CRC of a saved slot leaves out the last cell of the payload.
SlotV2Short(p) == Append(PayloadV2(p), CrcOf(Image(PayloadV2(p), 1, 1 + 2 * Len(p))))

\* SerializeInstr, for each instruction, behind the header of the slot
SlotV2(p) == WithCrc(PayloadV2(p))

\* What a slot of instructions of the given size holds: Spoilt if its count
\* or its CRC is wrong.
Decoded(f, at, size) ==
    LET count == f[at + 1].n
        payload == Image(f, at, 2 + size * count)
    IN  IF f[at] # Byte(1) THEN Nothing
        ELSE IF count \notin 1..MaxCount \/ f[at + 2 + size * count] # CrcOf(payload)
        THEN Spoilt
        ELSE Holds([i \in 1..count |-> <<payload[3 + size * (i - 1)].n,
                       IF size = 2 THEN payload[4 + size * (i - 1)].n ELSE 0>>])

Header(version, next) == <<Byte(Magic), version, Byte(SlotCount), Byte(next)>>

\* ReadMigrationJournal: the staging area holds slot s as the journal says.
Staged(f, s) ==
    /\ f[JournalAt] = Byte(Magic)
    /\ f[JournalAt + 1] = Byte(s)
    /\ f[JournalAt + 2] = CrcOf(Image(f, StageAt, SizeV1))

\* Mutant: past the first slot the progress byte says "eight", not "none".
FollowingCount(s) == IF s = 0 THEN SlotCount ELSE s - 1

\* The progress byte after slot s.
Following(s) == IF s = 0 THEN Finished ELSE s - 1

Ready ==
    /\ fram[MagicAt] = Byte(Magic)
    /\ fram[VersionAt] = V2 /\ fram[CountAt] = Byte(SlotCount)
-----------------------------------------------------------------------------
(* Calls.                                                                  *)

NoRequest == [name |-> "none", slot |-> 0, program |-> <<>>]
Call(name, s, p) == [name |-> name, slot |-> s, program |-> p]

At_(step) == pc = step /\ pending = <<>>

\* Write cells, then go on at a step.
Writes(cells, step) ==
    /\ pending' = cells /\ pc' = step
    /\ UNCHANGED <<fram, request, loaded, crashes, failures, requests>>

Goes(step) ==
    /\ pc' = step
    /\ UNCHANGED <<fram, pending, request, loaded, crashes, failures, requests>>

(* SeqStore_Init.                                                          *)
Boot ==
    /\ pc = "off" /\ pc' = "layout"
    /\ request' = Call("init", 0, <<>>)
    /\ UNCHANGED <<fram, pending, slot, loaded, crashes, failures, requests>>

Ask(r) ==
    /\ At_("idle") /\ pc' = "layout"
    /\ request' = r
    /\ UNCHANGED <<fram, pending, slot, loaded, crashes, failures>>

(* SeqStore_GetInfo and SeqStore_Read: nothing changes past the layout.    *)
Info == Ask(Call("info", 0, <<>>)) /\ UNCHANGED requests

Change ==
    /\ requests < MaxRequests /\ requests' = requests + 1
    /\ \E s \in Slots :
          \/ \E p \in Programs : Ask(Call("save", s, p))
          \/ Ask(Call("load", s, <<>>))
          \/ Ask(Call("delete", s, <<>>))

(* EnsureLayout, at the start of every call.                               *)
CreateLayout ==
    /\ At_("layout") /\ fram[MagicAt] # Byte(Magic)
    /\ Writes(Cells(0, Header(V2, 0)), "body")
    /\ UNCHANGED slot

LayoutReady ==
    /\ At_("layout") /\ Ready
    /\ Goes("body") /\ UNCHANGED slot

\* Mutant: the version is written before the progress byte.
BeginWritesSwapped == <<<<VersionAt, Migrating>>, <<NextAt, Byte(SlotCount - 1)>>>>

\* The progress byte first, then the version.
BeginWrites == <<<<NextAt, Byte(SlotCount - 1)>>, <<VersionAt, Migrating>>>>

BeginMigration ==
    /\ At_("layout") /\ fram[MagicAt] = Byte(Magic) /\ fram[VersionAt] = V1
    /\ slot' = SlotCount - 1
    /\ Writes(BeginWrites, "resume")

ContinueMigration ==
    /\ At_("layout") /\ fram[MagicAt] = Byte(Magic) /\ fram[VersionAt] = Migrating
    /\ \/ /\ fram[NextAt] = Byte(Finished)
          /\ Writes(Cells(0, <<fram[MagicAt], V2, fram[CountAt], Byte(0)>>), "body")
          /\ UNCHANGED slot
       \/ \E s \in Slots :
             fram[NextAt] = Byte(s) /\ slot' = s /\ Goes("resume")

RefuseLayout ==
    /\ At_("layout") /\ fram[MagicAt] = Byte(Magic) /\ ~Ready
    /\ fram[VersionAt] # V1
    /\ fram[VersionAt] = Migrating =>
          \A s \in Slots \cup {Finished} : fram[NextAt] # Byte(s)
    /\ Goes("idle") /\ UNCHANGED slot

(* ResumeMigration, one slot at a time.  A staging area that does not hold *)
(* the slot, or cannot be read, is filled again.                           *)
Restage ==
    /\ At_("resume") /\ ~Staged(fram, slot)
    /\ LET source == Image(fram, AtV1(slot), SizeV1)
       IN  Writes(Cells(StageAt, source)
                    \o Cells(JournalAt, <<Byte(Magic), Byte(slot), CrcOf(source)>>),
                  "staged")
    /\ UNCHANGED slot

RestageUnread ==
    /\ ReadErrors /\ failures < MaxFailures /\ failures' = failures + 1
    /\ At_("resume") /\ Staged(fram, slot)
    /\ LET source == Image(fram, AtV1(slot), SizeV1)
       IN  pending' = Cells(StageAt, source)
              \o Cells(JournalAt, <<Byte(Magic), Byte(slot), CrcOf(source)>>)
    /\ pc' = "staged"
    /\ UNCHANGED <<fram, request, slot, loaded, crashes, requests>>

(* ConvertStagedSlot; a spoilt slot ends the migration with an error.      *)
Convert ==
    /\ pc \in {"resume", "staged"} /\ pending = <<>> /\ Staged(fram, slot)
    /\ LET held == Decoded(fram, StageAt, 1)
       IN  \/ held = Nothing /\ Writes(Cells(At(slot), <<Byte(0), Byte(0)>>), "advance")
           \/ held = Spoilt /\ Goes("idle")
           \/ held.kind = "program"
                /\ Writes(Cells(At(slot), SlotV2(held.program)), "advance")
    /\ UNCHANGED slot

Advance ==
    /\ At_("advance")
    /\ Writes(<<<<NextAt, Byte(Following(slot))>>>>,
              IF slot = 0 THEN "finish" ELSE "resume")
    /\ slot' = IF slot = 0 THEN 0 ELSE slot - 1

FinishMigration ==
    /\ At_("finish")
    /\ Writes(Cells(0, Header(V2, 0)), "body")
    /\ UNCHANGED slot

(* What a call does once the layout is there.                              *)
Answer ==
    /\ At_("body") /\ request.name \in {"init", "info"}
    /\ Goes("idle") /\ UNCHANGED slot

SaveSlot ==
    /\ At_("body") /\ request.name = "save"
    /\ Writes(Cells(At(request.slot), SlotV2(request.program)), "idle")
    /\ UNCHANGED slot

DeleteSlot ==
    /\ At_("body") /\ request.name = "delete"
    /\ Writes(<<<<At(request.slot), Byte(0)>>>>, "idle")
    /\ UNCHANGED slot

(* The table of the action runner is replaced only by a program that has   *)
(* been read whole.  While a sequence runs it is not replaced at all; if   *)
(* the runner refuses one of the instructions it is left empty.            *)
LoadSlot ==
    /\ At_("body") /\ request.name = "load"
    /\ LET held == Decoded(fram, At(request.slot), 2)
       IN  \/ held.kind = "program" /\ loaded' \in {held.program, <<>>}
           \/ UNCHANGED loaded
    /\ pc' = "idle"
    /\ UNCHANGED <<fram, pending, request, slot, crashes, failures, requests>>

(* The memory, the bus and the power.                                      *)
WriteCell ==
    /\ pending # <<>>
    /\ fram' = [fram EXCEPT ![Head(pending)[1]] = Head(pending)[2]]
    /\ pending' = Tail(pending)
    /\ UNCHANGED <<pc, request, slot, loaded, crashes, failures, requests>>

\* A read or a write fails, perhaps half way: the call returns an error.
BusFails ==
    /\ pc \notin {"off", "idle"} \/ pending # <<>>
    /\ failures < MaxFailures /\ failures' = failures + 1
    /\ pc' = "idle" /\ pending' = <<>>
    /\ UNCHANGED <<fram, request, slot, loaded, crashes, requests>>

PowerFails ==
    /\ crashes < MaxCrashes /\ crashes' = crashes + 1
    /\ pc' = "off" /\ pending' = <<>> /\ loaded' = <<>>
    /\ UNCHANGED <<fram, request, slot, failures, requests>>
-----------------------------------------------------------------------------
Factory == [a \in Addresses |-> Byte(0)]

\* A slot as the old firmware left it; cut short, its CRC is of another.
LegacySlots ==
    {<<>>} \cup {WithCrc(PayloadV1(p)) : p \in Legacy}
       \cup IF Spoiled THEN {Append(PayloadV1(p), CrcOf(<<>>)) : p \in Legacy} ELSE {}

LegacyFram(kept) ==
    [a \in Addresses |->
        IF a < HeaderSize THEN Header(V1, 0)[a + 1]
        ELSE LET s == (a - HeaderSize) \div SizeV1
                 i == ((a - HeaderSize) % SizeV1) + 1
             IN  IF s \in Slots /\ i <= Len(kept[s]) THEN kept[s][i] ELSE Byte(0)]

Init ==
    /\ \/ \E kept \in [Slots -> LegacySlots] : fram = LegacyFram(kept)
       \/ Blank /\ fram = Factory
    /\ pc = "off" /\ pending = <<>> /\ request = NoRequest
    /\ slot = 0 /\ loaded = <<>>
    /\ crashes = 0 /\ failures = 0 /\ requests = 0

Layout ==
    CreateLayout \/ LayoutReady \/ BeginMigration \/ ContinueMigration \/ RefuseLayout

Migration == Restage \/ Convert \/ Advance \/ FinishMigration

Body == Answer \/ SaveSlot \/ DeleteSlot \/ LoadSlot

Code == Boot \/ Layout \/ Migration \/ Body \/ WriteCell

Next == Code \/ RestageUnread \/ Info \/ Change \/ BusFails \/ PowerFails

Spec == Init /\ [][Next]_vars

(* The processor runs while it has power, and power comes back; nobody has *)
(* to ask anything of the store.                                           *)
FairSpec == Spec /\ WF_vars(Code)
-----------------------------------------------------------------------------
(* What the slots hold, whichever layout, or mixture of both, they are in. *)
Content(s) ==
    LET next == fram[NextAt].n
        old == Decoded(fram, AtV1(s), 1)
        new == Decoded(fram, At(s), 2)
    IN  CASE fram[VersionAt] = V1 -> old
          [] fram[VersionAt] = Migrating ->
                IF next = Finished \/ s > next THEN new
                ELSE IF s = next /\ Staged(fram, s) THEN Decoded(fram, StageAt, 1)
                ELSE old
          [] OTHER -> new

Kept == INSTANCE SlotMemory WITH
    Places   <- Slots,
    Contents <- {Nothing, Spoilt} \cup {Holds(p) : p \in Legacy \cup Programs},
    content  <- [s \in Slots |-> Content(s)],
    saving   <- IF request.name = "save" /\ pc = "idle" /\ pending # <<>>
                THEN [active |-> TRUE, slot |-> request.slot,
                      holds |-> Holds(request.program)]
                ELSE [active |-> FALSE, slot |-> 0, holds |-> Nothing]

(* The store keeps its programs: at every cell written by the migration,   *)
(* by a save or a delete, and through every power failure, bus failure and *)
(* restart, each slot holds what it held, unless it is the one being saved *)
(* or deleted ("power-loss-safe in-place migration").                      *)
KeepsPrograms == Kept!Memory

(* Types; the memory holds only what the code has written, and a refused   *)
(* or failed call leaves no write behind.                                  *)
TypeOK ==
    /\ DOMAIN fram = Addresses
    /\ pc \in {"off", "idle", "layout", "resume", "staged", "advance", "finish", "body"}
    /\ \A i \in 1..Len(pending) : pending[i][1] \in Addresses
    /\ pc = "off" => pending = <<>>
    /\ slot \in Slots
    /\ crashes <= MaxCrashes /\ failures <= MaxFailures /\ requests <= MaxRequests

(* What is loaded is a program somebody stored, whole: never a mixture of  *)
(* the one a save was replacing and the new one.                           *)
LoadsWhole == loaded \in {<<>>} \cup Legacy \cup Programs

(* A save that is written to its end, which is when SeqStore_Save reports  *)
(* success, has stored its program.                                        *)
SaveIsDurableStep ==
    request.name = "save" /\ pc = "idle" /\ Len(pending) = 1 /\ WriteCell
        => Content(request.slot)' = Holds(request.program)

StoreTruthful == []LoadsWhole /\ [][SaveIsDurableStep]_vars

(* However often power and bus fail, and whatever was being written, the   *)
(* store comes to work again if only it is asked often enough.             *)
Recovers == []<>(pc = "layout") => <>[]Ready
=============================================================================
