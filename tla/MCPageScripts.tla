---------------------------- MODULE MCPageScripts ----------------------------
(* The scripts of one page, for TLC: the class library, the dialogs and the *)
(* installation page with what it talks to.                                 *)
EXTENDS ClassObject, Dialogs, InstallPage, TLC

\* `init' is never given as data; toString is what every object has.
MCNames == {"init", "toString"}
MCBuiltin == {"toString"}
MCRequired == {1}

\* The three share no state, so no interleaving of them reaches anything
\* new: each is explored while the others are at their start.
ScriptsInit == ClassInit /\ DialogInit /\ Init
ScriptsNext ==
    \/ DialogInit /\ Init /\ ClassNext /\ UNCHANGED <<dialogVars, vars>>
    \/ ClassInit /\ Init /\ DialogNext /\ UNCHANGED <<classVars, vars>>
    \/ ClassInit /\ DialogInit /\ Next /\ UNCHANGED <<classVars, dialogVars>>

ScriptsSpec ==
    /\ ScriptsInit
    /\ [][ScriptsNext]_<<classVars, dialogVars, vars>>
    /\ Fairness
=============================================================================
