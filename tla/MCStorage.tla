------------------------------ MODULE MCStorage ------------------------------
(* Small instances of Storage for TLC. *)
EXTENDS Storage, FiniteSets, TLC

OneStore == <<CHOOSE d \in Dirs : TRUE>>
\* The default store and assetstore.dir.0.
TwoStores == LET d == CHOOSE d \in Dirs : TRUE
             IN  <<d, CHOOSE e \in Dirs : e # d>>

Symmetry == Permutations(Threads) \cup Permutations(Ids \ Old)

\* Bound: two sessions at a time, that come one after the other the first time;
\* or one session, with registered files and a process started again.
Registers ==
    \/ \E d \in Dirs, n \in Paths : files[d][n] # "none"
    \/ \E i \in Ids : rows[i] # None /\ rows[i].name \in Paths
    \/ \E t \in Threads :
          \/ call[t] # None /\ call[t].name \in Paths
          \/ \E i \in Ids : object[t][i] # None /\ object[t][i].name \in Paths
Sessions == {t \in Threads : pc[t] # "idle" \/ object[t] # NoObjects}
SessionsBound ==
    \/ Cardinality(Sessions) <= 1
    \/ /\ crashes = 0 /\ ~raced /\ ~Registers
       /\ \A i \in Old : rows[i].number = 0
=============================================================================
