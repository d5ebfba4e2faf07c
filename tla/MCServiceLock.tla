---------------------------- MODULE MCServiceLock ----------------------------
EXTENDS ServiceLock, TLC
CONSTANTS cli1, cli2, daemon, a, b
Procs == {cli1, cli2}
Procs3 == {cli1, cli2, daemon}
Packages == {a, b}
Sym == Permutations(Packages)
AnyPlace == Place
NotInSaves == Place \ {"save_files"}
=============================================================================
