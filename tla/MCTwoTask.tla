------------------------------ MODULE MCTwoTask ------------------------------
EXTENDS TwoTask, TLC

\* /hello.txt and /empty.txt.
MCFileSize == 0 :> 17 @@ 1 :> 0

\* One page less than M4 and M5 need, one less than M6 needs, and enough.
MCFreePages == {12, 21, 22}
=============================================================================
