--------------------------- MODULE MCMessageQueues ---------------------------
(* Small instances of the message queues for TLC. *)
EXTENDS MessageQueues, TLC

OneProcess == {"p"}
ProcessSymmetry == Permutations(Processes)
OneId == {-1, 7}
TwoIds == {7, 8}
SmallIds == {0, 7}
AllFlags == {{}, {"CREATE"}, {"EXCL"}, {"CREATE", "EXCL"}}
CreateOrNot == {{}, {"CREATE"}}
Lengths == {0, 1, 2}
WithinAndBelow == {-1, 0, 1}
=============================================================================
