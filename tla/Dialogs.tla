------------------------------- MODULE Dialogs -------------------------------
(***************************************************************************)
(* The dialogs of the browser code (lyncode/core/dialogs.js): messages     *)
(* that a click or the mouse closes, and questions with two buttons.       *)
(*                                                                         *)
(* The bar itself is jquery.noty's: it opens and closes with an animation, *)
(* its gestures are bound with one(), its buttons with bind(), and close() *)
(* does nothing while the bar is opening or closing.                       *)
(***************************************************************************)
EXTENDS Naturals

CONSTANTS
    Bars,         \* the dialogs shown
    MaxPresses    \* bound on the buttons pressed in one question

ASSUME DialogAssumption == MaxPresses \in Nat

VARIABLES
    kind,      \* the kind of each dialog, "none" before it is shown
    place,     \* where each bar is
    armed,     \* the gestures that will call close()
    answers,   \* how often yesFunction and noFunction, both given, were called
    rushed     \* history: used while its bar was opening or closing

dialogVars == <<kind, place, armed, answers, rushed>>

Gestures == {"click", "hover"}

DialogTypeOK ==
    /\ kind \in [Bars -> {"none", "error", "success", "question"}]
    /\ place \in [Bars -> {"absent", "opening", "shown", "closing", "closed"}]
    /\ armed \in [Bars -> SUBSET Gestures]
    /\ answers \in [Bars -> [yes : 0..MaxPresses, no : 0..MaxPresses]]
    /\ rushed \in [Bars -> BOOLEAN]

DialogInit ==
    /\ kind = [b \in Bars |-> "none"]
    /\ place = [b \in Bars |-> "absent"]
    /\ armed = [b \in Bars |-> {}]
    /\ answers = [b \in Bars |-> [yes |-> 0, no |-> 0]]
    /\ rushed = [b \in Bars |-> FALSE]

-----------------------------------------------------------------------------
(* The bar.                                                                *)

OnScreen(b) == place[b] \in {"opening", "shown", "closing"}

\* Noty(options): the bar begins to open at once (dismissQueue).
Noty(b, k, gestures) ==
    /\ place[b] = "absent"
    /\ kind' = [kind EXCEPT ![b] = k]
    /\ place' = [place EXCEPT ![b] = "opening"]
    /\ armed' = [armed EXCEPT ![b] = gestures]
    /\ UNCHANGED <<answers, rushed>>

\* Fault: close() does nothing to a bar that is shown.
CloseNothing(b) == UNCHANGED place

\* close(), which a bar that is opening ignores.
Close(b) ==
    place' = [place EXCEPT ![b] = IF @ = "shown" THEN "closing" ELSE @]

\* Whoever uses a bar that is moving is remembered.
Use(b) == rushed' = [rushed EXCEPT ![b] = @ \/ place[b] # "shown"]

\* The opening animation ends.
Opened(b) ==
    /\ place[b] = "opening"
    /\ place' = [place EXCEPT ![b] = "shown"]
    /\ UNCHANGED <<kind, armed, answers, rushed>>

\* The closing animation ends, and the bar is removed with its handlers.
Removed(b) ==
    /\ place[b] = "closing"
    /\ place' = [place EXCEPT ![b] = "closed"]
    /\ UNCHANGED <<kind, armed, answers, rushed>>

-----------------------------------------------------------------------------
(* The module's functions, and what the user does.                         *)

\* Dialog.error and Dialog.success.
Error(b) == Noty(b, "error", Gestures)
Success(b) == Noty(b, "success", Gestures)

\* Dialog.question: with buttons, no gesture closes the bar.
Question(b) == Noty(b, "question", {})

\* The user clicks the bar of a message, or moves over it.
Gesture(b, g) ==
    /\ OnScreen(b)
    /\ g \in armed[b]
    /\ armed' = [armed EXCEPT ![b] = @ \ {g}]
    /\ Close(b)
    /\ Use(b)
    /\ UNCHANGED <<kind, answers>>

\* Fault: a button that does not close the question.
PressLeavesOpen(b, button) ==
    /\ kind[b] = "question"
    /\ OnScreen(b)
    /\ answers[b][button] < MaxPresses
    /\ answers' = [answers EXCEPT ![b][button] = @ + 1]
    /\ Use(b)
    /\ UNCHANGED <<kind, armed, place>>

\* The user presses a button: it closes the bar and answers.
Press(b, button) ==
    /\ kind[b] = "question"
    /\ OnScreen(b)
    /\ answers[b][button] < MaxPresses
    /\ Close(b)
    /\ answers' = [answers EXCEPT ![b][button] = @ + 1]
    /\ Use(b)
    /\ UNCHANGED <<kind, armed>>

DialogNext ==
    \E b \in Bars :
        \/ Error(b) \/ Success(b) \/ Question(b)
        \/ Opened(b) \/ Removed(b)
        \/ \E g \in Gestures : Gesture(b, g)
        \/ \E button \in {"yes", "no"} : Press(b, button)

DialogSpec == DialogInit /\ [][DialogNext]_dialogVars

-----------------------------------------------------------------------------
(* Properties.                                                             *)

\* A question that nobody pressed while its bar was moving is answered at
\* most once, with yes or with no, and never goes away unanswered.  Pressed
\* again while it closes, or first while it opens, it is answered twice.
CalmQuestionAnsweredOnce ==
    \A b \in Bars : kind[b] = "question" /\ ~rushed[b] =>
        answers[b].yes + answers[b].no =
            IF place[b] \in {"closing", "closed"} THEN 1 ELSE 0

\* A message that stays although its gestures are used up met them before
\* it had opened: close() ignored them and they are not bound again.
StuckOnlyByHaste ==
    \A b \in Bars :
        place[b] = "shown" /\ kind[b] # "question" /\ armed[b] # Gestures
            => rushed[b]
=============================================================================
