----------------------------- MODULE MCWriteFile -----------------------------
(* Two threads, of which one saves; symmetric memory for locales.          *)
EXTENDS WriteFile, TLC

CONSTANTS w, r, o1, o2, o3

MCObjects == {o1, o2, o3}
SymObjects == Permutations(MCObjects)
=============================================================================
