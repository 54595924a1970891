----------------------------- MODULE ClassObject -----------------------------
(***************************************************************************)
(* The classes of the browser code (lyncode/core/object.js): extend, the   *)
(* constructors it makes, create and instanceOf.                           *)
(*                                                                         *)
(* JavaScript runs one call at a time, but calls nest: the `init' of an    *)
(* object is code of the caller and may make objects and classes itself.   *)
(* `running' is the stack of the objects whose init has not returned.      *)
(***************************************************************************)
EXTENDS Naturals, Sequences, FiniteSets

CONSTANTS
    Classes,      \* the classes there can be
    Root,         \* the Class that the module returns
    Names,        \* the names of properties, of which one is "init"
    Builtin,      \* the names of the functions every object has
    MaxObjects,   \* bound on the objects made
    MaxNesting    \* bound on the nesting of init calls

ASSUME ClassAssumption ==
    /\ Root \in Classes
    /\ "init" \in Names
    /\ Builtin \subseteq Names \ {"init"}

VARIABLES
    classes,        \* the classes that exist
    parent,         \* the class whose extend() made a class
    own,            \* the own properties of a class's prototype
    initializing,   \* the module's variable
    objects,        \* the objects made, in order: class, inits run on it, and
                    \* whether they were made astray
    prototypeInits, \* how often init ran on a class's prototype
    running,        \* the objects whose init is running, innermost last
    astray          \* history: the last call of create() or extend() that
                    \* got as far as `new' was not one of a class

classVars == <<classes, parent, own, initializing, objects, prototypeInits,
               running, astray>>

\* A property value: who gave it, and what typeof says of it.
Given(k, c) == [kind |-> k, from |-> c]
Undefined == Given("undefined", Root)
Value == [kind : {"undefined", "data", "function"}, from : Classes]

\* What a caller passes to extend().  An `init' is a function.
Definitions ==
    {d \in [Names -> {"undefined", "data", "function"}] : d["init"] # "data"}

ClassTypeOK ==
    /\ Root \in classes /\ classes \subseteq Classes
    /\ parent \in [Classes -> Classes]
    /\ own \in [Classes -> [Names -> Value]]
    /\ initializing \in BOOLEAN
    /\ objects \in Seq([class : classes, inits : Seq(Value), astray : BOOLEAN])
    /\ prototypeInits \in [Classes -> Nat]
    /\ running \in Seq(DOMAIN objects)
    /\ astray \in BOOLEAN

ClassInit ==
    /\ classes = {Root}
    /\ parent = [c \in Classes |-> Root]
    /\ own = [c \in Classes |-> [n \in Names |->
                IF c = Root /\ n \in Builtin THEN Given("function", Root)
                ELSE Undefined]]
    /\ initializing = FALSE /\ astray = FALSE
    /\ objects = <<>>
    /\ prototypeInits = [c \in Classes |-> 0]
    /\ running = <<>>

-----------------------------------------------------------------------------
(* Property lookup.                                                        *)

\* c.prototype[n], along the chain of prototypes.
Lookup(c, n) ==
    LET at[d \in Classes] ==
            IF d = Root \/ own[d][n].kind # "undefined" THEN own[d][n]
            ELSE at[parent[d]]
    IN  at[c]

IsFunction(v) == v.kind = "function"

\* c and the classes it was extended from.
Ancestors(c) ==
    LET up[d \in Classes] == IF d = Root THEN {Root} ELSE {d} \cup up[parent[d]]
    IN  up[c]

\* o.instanceOf(c), for an object o of class d.  Properties given twice by
\* one caller are different functions.
InstanceOf(d, c) == Lookup(c, "init") = Lookup(d, "init")

-----------------------------------------------------------------------------
(* Constructing.                                                           *)

\* The inits that `new c(...)' runs while the flag has the given value.
InitsOf(c, flag) ==
    IF ~flag /\ IsFunction(Lookup(c, "init")) THEN <<Lookup(c, "init")>>
    ELSE <<>>

\* Fault: an object is none before its inits have run.
MakeAfterInits(c, inits) ==
    /\ Len(objects) < MaxObjects
    /\ Len(running) < MaxNesting
    /\ objects' = IF inits = <<>>
                  THEN Append(objects, [class |-> c, inits |-> inits,
                                        astray |-> astray'])
                  ELSE objects
    /\ running' = IF inits = <<>> THEN running
                  ELSE Append(running, Len(objects) + 1)

\* A new object, on which the inits begin to run.
Make(c, inits) ==
    /\ Len(objects) < MaxObjects
    /\ Len(running) < MaxNesting
    /\ objects' = Append(objects, [class |-> c, inits |-> inits,
                                   astray |-> astray'])
    /\ running' = IF inits = <<>> THEN running
                  ELSE Append(running, Len(objects) + 1)

\* new c(...)
New(c) ==
    /\ UNCHANGED <<classes, parent, own, initializing, prototypeInits, astray>>
    /\ Make(c, InitsOf(c, initializing))

\* c.create(...): constructed under the flag, then initialised by hand.
Create(c) ==
    /\ c # Root
    /\ initializing' = FALSE /\ astray' = FALSE
    /\ Make(c, InitsOf(c, TRUE) \o InitsOf(c, FALSE))
    /\ UNCHANGED <<classes, parent, own, prototypeInits>>

\* An exception ends the inits that are running, up to one that catches it.
Unwind == \E k \in 0..Len(running) : running' = SubSeq(running, 1, k)

\* create(), or extend() of some object, called as a function that has no
\* class for its `this': the flag is set, and `new this()' throws a TypeError.
CallAstray ==
    /\ initializing' = TRUE /\ astray' = TRUE
    /\ Unwind
    /\ UNCHANGED <<classes, parent, own, objects, prototypeInits>>

-----------------------------------------------------------------------------
(* Extending.                                                              *)

\* Fault: fnTest is there, so that inherited functions can be overridden.
NeverOverrides(p, d) == FALSE

\* Some function of d would replace an inherited one.  For it extend()
\* evaluates fnTest, which is defined nowhere: a ReferenceError.
Overrides(p, d) ==
    \E n \in Names : d[n] = "function" /\ IsFunction(Lookup(p, n))

\* Fault: the parent's prototype itself gets the properties.
CopyToParent(c, p, d) ==
    own' = [x \in Classes |->
              IF x \notin {c, p} THEN own[x]
              ELSE [n \in Names |->
                      IF d[n] = "undefined" THEN own[x][n]
                      ELSE Given(d[n], c)]]

\* The properties are copied to the prototype of the new class.
Copy(c, p, d) ==
    own' = [own EXCEPT ![c] =
              [n \in Names |-> IF d[n] = "undefined" THEN Undefined
                               ELSE Given(d[n], c)]]

\* The prototype is made by `new this()' under the flag, which is FALSE
\* again when the properties are copied.
NewPrototype(c, p) ==
    prototypeInits' = [prototypeInits EXCEPT ![c] = Len(InitsOf(p, TRUE))]

\* c = p.extend(d)
Extend(c, p, d) ==
    /\ c \notin classes
    /\ ~Overrides(p, d)
    /\ classes' = classes \cup {c}
    /\ parent' = [parent EXCEPT ![c] = p]
    /\ NewPrototype(c, p)
    /\ Copy(c, p, d)
    /\ initializing' = FALSE /\ astray' = FALSE
    /\ UNCHANGED <<objects, running>>

\* Fault: the flag is reset at the end of extend().
ExtendThrowsFlagged(p, d) ==
    /\ Overrides(p, d)
    /\ initializing' = TRUE /\ astray' = FALSE
    /\ Unwind
    /\ UNCHANGED <<classes, parent, own, objects, prototypeInits>>

\* p.extend(d) throws: the half-made prototype is dropped.
ExtendThrows(p, d) ==
    /\ Overrides(p, d)
    /\ initializing' = FALSE /\ astray' = FALSE
    /\ Unwind
    /\ UNCHANGED <<classes, parent, own, objects, prototypeInits>>

\* The innermost init returns, or throws what its caller catches.
InitReturns ==
    /\ running # <<>>
    /\ running' = SubSeq(running, 1, Len(running) - 1)
    /\ UNCHANGED <<classes, parent, own, initializing, objects,
                   prototypeInits, astray>>

ClassNext ==
    \/ \E c \in classes : New(c) \/ Create(c)
    \/ CallAstray
    \/ \E p \in classes, d \in Definitions :
         ExtendThrows(p, d) \/ \E c \in Classes : Extend(c, p, d)
    \/ InitReturns

ClassSpec == ClassInit /\ [][ClassNext]_classVars

-----------------------------------------------------------------------------
(* Properties.                                                             *)

\* "Only create the instance, don't run the init constructor" and "all
\* construction is actually done in the init method" (object.js 18, 50): a
\* prototype is never initialised, and an object once, by the init its class
\* has or inherits, however deep calls nest and whatever extend() throws.
\* The second is not so for one that `new' makes after a call of create() or
\* extend() that went astray, before the next that did not: it never is.
InitRunsOnce ==
    /\ \A i \in DOMAIN objects :
         objects[i].inits = IF objects[i].astray THEN <<>>
                            ELSE InitsOf(objects[i].class, FALSE)
    /\ \A c \in Classes : prototypeInits[c] = 0

\* "To the best of my knowledge, this should work", says object.js 57 of
\* instanceOf().  What works is this: an object is recognised by the class
\* that gave it its init and by all that descend from that class, its siblings
\* and their descendants among them, and by no ancestor of it; one without an
\* init by all classes without one.  It rests on no class ever replacing the
\* init it inherits.
RecognisedByInit ==
    \A i \in DOMAIN objects, c \in classes :
        LET init == Lookup(objects[i].class, "init")
        IN  InstanceOf(objects[i].class, c) <=>
                IF IsFunction(init) THEN init.from \in Ancestors(c)
                ELSE ~IsFunction(Lookup(c, "init"))

\* Extending a class changes nothing for the classes there are, and so for
\* their objects: no method is given to, or taken from, a parent or sibling.
ExtendIsolates ==
    [][\A c \in classes, n \in Names : Lookup(c, n)' = Lookup(c, n)]_classVars
=============================================================================
