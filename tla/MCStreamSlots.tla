---------------------------- MODULE MCStreamSlots ----------------------------
(* Instances of SlotHistory for TLC.                                          *)
EXTENDS SlotHistory, TLC

CONSTANTS chatA, chatB, r1, r2, r3

OneChat       == {chatA}
TwoChats      == {chatA, chatB}
OneRequest    == {r1}
TwoRequests   == {r1, r2}
ThreeRequests == {r1, r2, r3}
Symmetric     == Permutations(Requests)

\* Nothing plays before the first /play: call its request r1 and its chat chatA.
Anywhere  == [r \in Requests |-> Chats]
FirstInA  == [r \in Requests |-> IF r = r1 THEN {chatA} ELSE Chats]
=============================================================================
