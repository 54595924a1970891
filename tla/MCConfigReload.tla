--------------------------- MODULE MCConfigReload ---------------------------
(* Small instances of ConfigReload for TLC. *)
EXTENDS ConfigReload, TLC

Symmetry == Permutations(Texts)
\* At the start, one handler waits for changes of every key.
OneHandler == <<CHOOSE h \in Handlers : TRUE>>

Objects == {"object"}
AllKinds == {"text", "object"}
=============================================================================
