---------------------------- MODULE StoragePromise ----------------------------
(***************************************************************************)
(* What StorageService promises of the bitstreams it keeps: an entry       *)
(* becomes visible as deleted, or with all its bits stored; a live entry   *)
(* may be deleted later, a deleted one never comes back; the bits of an    *)
(* entry are not touched any more.  Nothing is said here of sessions,      *)
(* asset stores, failures and restarts; Storage.tla implements this        *)
(* specification with them.                                                *)
(***************************************************************************)
CONSTANTS Ids,     \* the bitstreams
          Names,   \* the names of their files
          None     \* no entry

VARIABLES entry,   \* what everybody sees of each bitstream
          bits     \* what is stored of each file

Entry == [name : Names, deleted : BOOLEAN]

Whole(e) == bits[e.name] = "whole"

Init ==
    /\ entry \in [Ids -> Entry \cup {None}]
    /\ bits \in [Names -> {"none", "part", "whole"}]
    /\ \A i \in Ids : entry[i] # None /\ ~entry[i].deleted => Whole(entry[i])

\* Bits are written to a file no live entry has.
Write(n) ==
    /\ \A i \in Ids : entry[i] # None /\ entry[i].name = n => entry[i].deleted
    /\ bits[n] # "whole"
    /\ \E b \in {"part", "whole"} : bits' = [bits EXCEPT ![n] = b]
    /\ UNCHANGED entry

\* What may become of the entry e.
Successor(e, f) ==
    \/ f = e
    \/ e = None /\ f \in Entry /\ (f.deleted \/ Whole(f))
    \/ e # None /\ f = [e EXCEPT !.deleted = TRUE]

\* Some entries appear or are deleted, all at once.
Commit ==
    /\ entry' \in [Ids -> Entry \cup {None}]
    /\ \A i \in Ids : Successor(entry[i], entry'[i])
    /\ UNCHANGED bits

Next == Commit \/ \E n \in Names : Write(n)

Spec == Init /\ [][Next]_<<entry, bits>>
=============================================================================
