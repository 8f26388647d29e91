--------------------------- MODULE MCSequenceStore --------------------------
(* Small instances of SequenceStore: slots of two instructions, so that a  *)
(* slot of layout 2 is 7/5 of a slot of layout 1 (902/646 in the code).    *)
EXTENDS SequenceStore

MCLegacy == {<<<<1, 0>>>>, <<<<2, 0>>, <<1, 0>>>>}
MCPrograms == {<<<<1, 2>>>>, <<<<1, 0>>, <<2, 2>>>>}
=============================================================================
