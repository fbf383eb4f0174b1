------------------------------ MODULE MCConsole ------------------------------
EXTENDS Console, TLC

CONSTANTS f1, f2, x

TwoFds == {f1, f2}
OneCharacter == {x}
\* Lines differ in length.
OneAccount == {<<<<x>>, <<x, x>>>>}
QuitLine == <<x>>
Symmetry == Permutations(TwoFds)
=============================================================================
