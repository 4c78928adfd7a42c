-------------------------------- MODULE MCVM --------------------------------
EXTENDS VM, FiniteSetsExt, TLC

\* Page zero, three user pages that branch at different levels, and one in
\* the kernel half.
MCPage == {<<0, 0, 0, 0>>, <<0, 0, 0, 1>>, <<0, 0, 1, 0>>, <<0, 1, 0, 0>>, <<1, 0, 0, 0>>}
MCFlagSets == {{"user", "exec"}, {"user", "write"}}

\* vm.c never looks at the number of a page: pages, and spaces, are alike.
MCSymmetry == Permutations(Frame) \cup Permutations(Space)
=============================================================================
