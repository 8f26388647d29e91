----------------------------- MODULE SlotMemory -----------------------------
(***************************************************************************)
(* What a store of programs in numbered slots owes to its user, whatever   *)
(* its layout and whenever the power fails: a slot keeps its program until *)
(* it is saved over or deleted.  A save that is cut short may lose the old *)
(* program and the new one, of that slot only; what it leaves is rubbish   *)
(* that is recognised as such, or a program (an older one may come to      *)
(* light again, if enough of it was still there), never a mixture of two.  *)
(*                                                                         *)
(* Module SequenceStore implements this (its definition KeepsPrograms).    *)
(***************************************************************************)
EXTENDS Naturals

CONSTANTS
    Places,   \* the slots
    Contents, \* programs, Nothing and Spoilt
    Nothing,  \* what an empty slot holds
    Spoilt    \* what is left of a program that was overwritten in part

VARIABLES
    content,  \* what each slot holds
    saving    \* the save in progress: its slot and program, or none

memory == <<content, saving>>

NoSave == [active |-> FALSE, slot |-> 0, holds |-> Nothing]

Begin ==
    /\ content \in [Places -> Contents \ {Spoilt}]
    /\ saving = NoSave

Save ==
    /\ ~saving.active /\ saving'.active
    /\ saving'.slot \in Places /\ saving'.holds \in Contents \ {Nothing, Spoilt}
    /\ UNCHANGED content

(* The save goes on, or is cut short.                                      *)
Write ==
    /\ saving.active
    /\ saving' \in {saving, NoSave}
    /\ \E c \in Contents \ {Nothing} : content' = [content EXCEPT ![saving.slot] = c]

Abandon == saving.active /\ saving' = NoSave /\ UNCHANGED content

Delete ==
    /\ ~saving.active
    /\ \E s \in Places : content' = [content EXCEPT ![s] = Nothing]
    /\ UNCHANGED saving

Step == Save \/ Write \/ Abandon \/ Delete

Memory == Begin /\ [][Step]_memory
=============================================================================
