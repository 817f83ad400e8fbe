------------------------------ MODULE UsersGC ------------------------------
(***************************************************************************)
(* The graphics context of an Xpw widget, XtNusersGC (UsersGC.c, the core  *)
(* class in XpwCore.c, the subpart resources in XpwPixmap.c).              *)
(*                                                                         *)
(* A widget begins with a context of the Intrinsics, which all widgets     *)
(* that asked for the same values share and nobody may change.  The first  *)
(* change gives it one of its own.  What is to change is collected in two  *)
(* global variables by the classes of the widget in turn, and applied by   *)
(* the last of them.                                                       *)
(***************************************************************************)
EXTENDS Naturals, FiniteSets

CONSTANTS
    Widget,
    Class,          \* the class of each widget: "core", "pixmap" or "graphic"
    Pixel,
    Function,       \* what a context can do with a cell
    GC, NoGC        \* graphics contexts of the server

ASSUME ClassAssumption ==
    /\ IsFiniteSet(Widget) /\ Widget # {}
    /\ Class \in [Widget -> {"core", "pixmap", "graphic"}]

ASSUME PixelAssumption == {0, 1} \subseteq Pixel /\ "copy" \in Function

(* The server has a context for each widget and one more. *)
ASSUME GCAssumption ==
    /\ NoGC \notin GC
    /\ \A S \in SUBSET GC :
            IsFiniteSet(S) /\ Cardinality(S) <= Cardinality(Widget) => GC \ S # {}

VARIABLES
    users,          \* of each widget: users_gc, shared_gc, and the resources
    gcs,            \* the contexts that exist, and their values
    refs,           \* those the Intrinsics made, and by how many they are used
    GCvalues, GCvaluemask       \* _xpwGCvalues, _xpwGCvaluemask

gcvars == <<users, gcs, refs, GCvalues, GCvaluemask>>

Subpart == {"function"}         \* for every resource of _xpwPixmapGCResources
Attr == {"foreground", "background"} \cup Subpart
Default == [foreground |-> 0, background |-> 1, function |-> "copy"]
NoWidget == [gc |-> NoGC, shared |-> FALSE, foreground |-> 0, background |-> 0]

Exists(w) == users[w].gc # NoGC
Attributes(w) == gcs[users[w].gc]

Merged(m, v, old) == [a \in Attr |-> IF a \in m THEN v[a] ELSE old[a]]
FreeGC == CHOOSE id \in GC : id \notin DOMAIN gcs
Without(f, id) == [x \in DOMAIN f \ {id} |-> f[x]]
With(f, id, v) == [x \in DOMAIN f \cup {id} |-> IF x = id THEN v ELSE f[x]]

(* A widget with a context and the resources res. *)
Using(id, shared, res) ==
    [gc |-> id, shared |-> shared, foreground |-> res.foreground, background |-> res.background]

(* Bugs a maintainer could introduce, here and below: a context is freed   *)
(* with its first user.                                                    *)
ReleaseAtOnce(id) ==
    /\ gcs' = Without(gcs, id)
    /\ refs' = Without(refs, id)

(* XtReleaseGC: the last user frees it. *)
Release(id) ==
    /\ gcs' = IF refs[id] = 1 THEN Without(gcs, id) ELSE gcs
    /\ refs' = IF refs[id] = 1 THEN Without(refs, id) ELSE [refs EXCEPT ![id] = @ - 1]

(* XtGetGC for widget w with the resources res. *)
GetGC(w, res, m, v) ==
    LET full == Merged(m, v, Default)
        same == {id \in DOMAIN refs : gcs[id] = full}
        id == IF same = {} THEN FreeGC ELSE CHOOSE x \in same : TRUE
    IN /\ users' = [users EXCEPT ![w] = Using(id, TRUE, res)]
       /\ gcs' = With(gcs, id, full)
       /\ refs' = With(refs, id, IF same = {} THEN 1 ELSE refs[id] + 1)

(* A new context with the changes, the rest copied from the shared one,    *)
(* which is then released.                                                 *)
Unshare(w, res, m, v) ==
    LET old == users[w].gc
        last == refs[old] = 1
        new == Merged(m, v, gcs[old])
    IN /\ users' = [users EXCEPT ![w] = Using(FreeGC, FALSE, res)]
       /\ gcs' = With(IF last THEN Without(gcs, old) ELSE gcs, FreeGC, new)
       /\ refs' = IF last THEN Without(refs, old) ELSE [refs EXCEPT ![old] = @ - 1]

ChangeOwn(w, res, m, v) ==
    /\ users' = [users EXCEPT ![w] = Using(@.gc, FALSE, res)]
    /\ gcs' = [gcs EXCEPT ![users[w].gc] = Merged(m, v, @)]
    /\ refs' = refs

UpdateUsersGC(w, res, m, v) ==
    IF ~Exists(w) THEN GetGC(w, res, m, v)
    ELSE IF users[w].shared THEN Unshare(w, res, m, v)
    ELSE ChangeOwn(w, res, m, v)

(* The final class applies what has been collected, if there is anything.  *)
CondUpdate(w, res) ==
    IF GCvaluemask' = {}
    THEN /\ users' = [users EXCEPT ![w] = Using(@.gc, @.shared, res)]
         /\ UNCHANGED <<gcs, refs>>
    ELSE UpdateUsersGC(w, res, GCvaluemask', GCvalues')

HasSubpart(w) == Class[w] # "core"
Given(args, a, otherwise) == IF a \in DOMAIN args THEN args[a] ELSE otherwise

(* Initialize of the core class and the initialize_hook of pixmap. *)
CreateGC(w, args) ==
    LET res == [foreground |-> Given(args, "foreground", 0),
                background |-> Given(args, "background", 1)]
        function == Given(args, "function", Default.function)
    IN /\ ~Exists(w)
       /\ GCvalues' = [foreground |-> res.foreground, background |-> res.background,
                        function |-> IF HasSubpart(w) THEN function ELSE GCvalues.function]
       /\ GCvaluemask' = {"foreground", "background"} \cup
            {a \in Subpart : HasSubpart(w) /\ function # Default[a]}
       /\ CondUpdate(w, res)

(* The mask left by the last widget is added to. *)
MaskOfResourcesOnly(w, res) ==
    GCvaluemask \cup {a \in {"foreground", "background"} : res[a] # users[w][a]}

MaskOfResources(w, res) ==
    {a \in {"foreground", "background"} : res[a] # users[w][a]}

(* SetValues of the core class and the set_values_hook of pixmap, which    *)
(* compares with what is in the context now.                               *)
SetValuesGC(w, args) ==
    LET res == [a \in {"foreground", "background"} |-> Given(args, a, users[w][a])]
        function == Given(args, "function", Attributes(w).function)
        core == MaskOfResources(w, res)
    IN /\ GCvalues' = [a \in Attr |->
            IF a \in Subpart /\ HasSubpart(w) THEN function
            ELSE IF a \in core \ Subpart THEN res[a]
            ELSE GCvalues[a]]
       /\ GCvaluemask' = core \cup
            {a \in Subpart : HasSubpart(w) /\ function # Attributes(w)[a]}
       /\ CondUpdate(w, res)

(* The method XpwMChangeUsersGC. *)
ChangeUsersGC(w, args) ==
    /\ UpdateUsersGC(w, [foreground |-> users[w].foreground,
                         background |-> users[w].background],
                     DOMAIN args, args)
    /\ UNCHANGED <<GCvalues, GCvaluemask>>

DestroyGC(w) ==
    /\ users' = [users EXCEPT ![w] = NoWidget]
    /\ IF users[w].shared THEN Release(users[w].gc)
       ELSE gcs' = Without(gcs, users[w].gc) /\ refs' = refs
    /\ UNCHANGED <<GCvalues, GCvaluemask>>

InitGC ==
    /\ users = [w \in Widget |-> NoWidget]
    /\ gcs = <<>> /\ refs = <<>>
    /\ GCvalues = Default /\ GCvaluemask = {}

-----------------------------------------------------------------------------
TypeOKGC ==
    /\ \A w \in Widget : users[w].gc \in GC \cup {NoGC} /\ users[w].shared \in BOOLEAN
    /\ DOMAIN gcs \subseteq GC /\ DOMAIN refs \subseteq DOMAIN gcs
    /\ GCvaluemask \subseteq Attr

(* Every context is released when its last widget has done with it and not *)
(* before: one of the Intrinsics has as many references as widgets, any    *)
(* other belongs to one widget (_XpwUpdateUsersGC, Destroy).               *)
GCsOwned ==
    /\ \A w \in Widget : Exists(w) => users[w].gc \in DOMAIN gcs
    /\ \A id \in DOMAIN gcs :
        LET uses == {w \in Widget : users[w].gc = id}
        IN IF id \in DOMAIN refs
           THEN /\ refs[id] = Cardinality(uses) /\ uses # {}
                /\ \A w \in uses : users[w].shared
           ELSE /\ Cardinality(uses) = 1
                /\ \A w \in uses : ~users[w].shared
=============================================================================
