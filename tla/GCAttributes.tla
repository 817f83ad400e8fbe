---------------------------- MODULE GCAttributes ----------------------------
(***************************************************************************)
(* What a program may rely on about the graphics contexts of its widgets:  *)
(* each widget has attributes of its own, that only what is done to this   *)
(* widget changes.                                                         *)
(***************************************************************************)
EXTENDS Naturals

CONSTANTS Widget, Class, Pixel, Args, None

VARIABLES
    attrs,      \* what each widget draws with, None before and after its life
    res         \* its resources of the same names

vars == <<attrs, res>>

Colours == {"foreground", "background"}
Default == [foreground |-> 0, background |-> 1, function |-> "copy"]
Drawing(w) == Class[w] # "core"

Given(w, args, old) ==
    [a \in DOMAIN old |->
        IF a \in DOMAIN args /\ (a = "function" => Drawing(w)) THEN args[a] ELSE old[a]]

Init ==
    /\ attrs = [w \in Widget |-> None]
    /\ res = [w \in Widget |-> None]

Create(w, args) ==
    /\ attrs[w] = None
    /\ attrs' = [attrs EXCEPT ![w] = Given(w, args, Default)]
    /\ res' = [res EXCEPT ![w] = [a \in Colours |-> Given(w, args, Default)[a]]]

(* A colour is taken over only when the resource changes. *)
SetValues(w, args) ==
    /\ attrs[w] # None
    /\ res' = [res EXCEPT ![w] = Given(w, args, @)]
    /\ attrs' = [attrs EXCEPT ![w] =
            [a \in DOMAIN @ |-> IF a \in Colours /\ res'[w][a] = res[w][a] THEN @[a]
                                ELSE Given(w, args, @)[a]]]

ChangeUsersGC(w, args) ==
    /\ attrs[w] # None
    /\ attrs' = [attrs EXCEPT ![w] = [a \in DOMAIN @ |->
                    IF a \in DOMAIN args THEN args[a] ELSE @[a]]]
    /\ UNCHANGED res

Destroy(w) ==
    /\ attrs[w] # None
    /\ attrs' = [attrs EXCEPT ![w] = None]
    /\ res' = [res EXCEPT ![w] = None]

Next == \E w \in Widget :
    \/ \E args \in Args : Create(w, args) \/ SetValues(w, args) \/ ChangeUsersGC(w, args)
    \/ Destroy(w)

Spec == Init /\ [][Next]_vars
=============================================================================
