----------------------------- MODULE Selections -----------------------------
(***************************************************************************)
(* Selections set by widgets (Text.c): XpwSetSelection keeps the string in *)
(* a context of the selection and has the Intrinsics own the selection for *)
(* the widget; it is converted from the context when a client asks for it. *)
(* There is one selection here, and its contexts are a list, newest first. *)
(*                                                                         *)
(* The Intrinsics and the server are external.  XtOwnSelection calls the   *)
(* lose procedure of the program's former owner before it returns; that of *)
(* a widget whose selection another client takes is called later, and not  *)
(* if the widget has owned the selection again or given it up meanwhile.   *)
(***************************************************************************)
EXTENDS Naturals, Sequences, SequencesExt

CONSTANTS
    Setters,        \* the widgets
    Strings,
    Nobody, Other, NoString,
    TameSelections  \* a widget does not take back a selection from another one

ASSUME SettersAssumption == Nobody \notin Setters

VARIABLES
    contexts,       \* of the selection: the list of setsel_table
    xtowner,        \* the widget the Intrinsics take for the owner
    owner,          \* the owner the server knows
    last            \* of each widget, the string its client set and did not lose

selectionvars == <<contexts, xtowner, owner, last>>

Fresh == [widget |-> Nobody, string |-> NoString]
Placed(cs, i, c) == [cs EXCEPT ![i] = c]

-----------------------------------------------------------------------------
(* Bugs a maintainer could introduce, here and below: the newest context   *)
(* is taken, whose ever it is.                                             *)
GetSelnContextNewest(cs, w, create) ==
    IF cs = <<>> THEN [cs |-> IF create THEN <<Fresh>> ELSE cs, at |-> IF create THEN 1 ELSE 0]
    ELSE [cs |-> cs, at |-> IF cs[1].widget = w \/ create THEN 1 ELSE 0]

(* GetSelnContext: the first context of w or of nobody, and those behind   *)
(* it are freed; if there is none, a new one is put in front.  At 0 is no  *)
(* context.                                                                *)
GetSelnContext(cs, w, create) ==
    LET found == {i \in DOMAIN cs : cs[i].widget \in {w, Nobody}}
        i == CHOOSE j \in found : \A k \in found : j <= k
    IN IF found # {}
       THEN [cs |-> SubSeq(cs, 1, i), at |-> IF cs[i].widget = w \/ create THEN i ELSE 0]
       ELSE IF create THEN [cs |-> <<Fresh>> \o cs, at |-> 1]
       ELSE [cs |-> cs, at |-> 0]

(* LoseSelection empties the context, and tells the client. *)
LoseSelection(cs, w) ==
    LET g == GetSelnContext(cs, w, FALSE)
    IN IF g.at = 0 THEN g.cs ELSE Placed(g.cs, g.at, Fresh)

(* XtOwnSelection (external), for w with the contexts cs. *)
XtOwnSelection(w, cs) ==
    /\ owner' = w /\ xtowner' = w
    /\ contexts' = IF xtowner \in {Nobody, w} THEN cs ELSE LoseSelection(cs, xtowner)

(* XpwSetSelection with a string.  A widget that is in the context already *)
(* owns the selection; the Intrinsics may refuse the others.               *)
XpwSetSelection(w, string) ==
    LET g == GetSelnContext(contexts, w, TRUE)
        cs == Placed(g.cs, g.at, [widget |-> w, string |-> string])
        owned == g.cs[g.at].widget # Nobody
        lost == [v \in Setters |-> IF v = xtowner THEN NoString ELSE last[v]]
    IN /\ TameSelections => Len(g.cs) = 1 \/ g.at = 1
       /\ \/ /\ owned
             /\ contexts' = cs
             /\ last' = [last EXCEPT ![w] = string]
             /\ UNCHANGED <<owner, xtowner>>
          \/ /\ ~owned
             /\ XtOwnSelection(w, cs)
             /\ last' = [lost EXCEPT ![w] = string]
          \/ /\ ~owned
             /\ TameSelections => Len(g.cs) = 1
             /\ contexts' = LoseSelection(cs, w)
             /\ last' = [last EXCEPT ![w] = NoString]
             /\ UNCHANGED <<owner, xtowner>>

(* XpwSetSelection without a string: the selection is given up, at the     *)
(* server if another client has not taken it.                              *)
ClearSelection(w) ==
    LET g == GetSelnContext(contexts, w, FALSE)
    IN /\ contexts' = IF g.at = 0 THEN g.cs ELSE Placed(g.cs, g.at, Fresh)
       /\ last' = IF g.at = 0 THEN last ELSE [last EXCEPT ![w] = NoString]
       /\ xtowner' = IF g.at # 0 /\ xtowner = w THEN Nobody ELSE xtowner
       /\ owner' = IF g.at # 0 /\ xtowner = w /\ owner = w THEN Nobody ELSE owner

(* XpwGetSelection of a widget, and SelectionConvert for another client,   *)
(* look up the context as well.                                            *)
XpwGetSelection(w) ==
    /\ contexts' = GetSelnContext(contexts, w, FALSE).cs
    /\ UNCHANGED <<xtowner, owner, last>>

SelectionConvert ==
    /\ xtowner # Nobody /\ owner = xtowner
    /\ contexts' = GetSelnContext(contexts, xtowner, FALSE).cs
    /\ UNCHANGED <<xtowner, owner, last>>

(* Another client takes the selection, and the Intrinsics find that out.   *)
OtherOwns ==
    /\ owner' = Other
    /\ UNCHANGED <<contexts, xtowner, last>>

SelectionClear ==
    /\ xtowner # Nobody /\ owner # xtowner
    /\ contexts' = LoseSelection(contexts, xtowner)
    /\ last' = [last EXCEPT ![xtowner] = NoString]
    /\ xtowner' = Nobody
    /\ UNCHANGED owner

InitSelections ==
    /\ contexts = <<>> /\ xtowner = Nobody /\ owner = Nobody
    /\ last = [w \in Setters |-> NoString]

NextSelections ==
    \/ \E w \in Setters : \/ \E string \in Strings : XpwSetSelection(w, string)
                          \/ ClearSelection(w) \/ XpwGetSelection(w)
    \/ SelectionConvert \/ OtherOwns \/ SelectionClear

-----------------------------------------------------------------------------
(* While the Intrinsics have a widget own the selection, there is a        *)
(* context to convert it from, with the string set last: a request is not  *)
(* refused, nor answered with an older string (SelectionConvert).          *)
SelectionServed ==
    xtowner # Nobody =>
        \E i \in DOMAIN contexts : contexts[i] = [widget |-> xtowner, string |-> last[xtowner]]

(* A client that has set a selection owns it until it gives it up or its   *)
(* lose procedure is called, or is to be called as another client has      *)
(* taken it: no other widget's client believes to own it (LoseSelection).  *)
SetOrLost == \A w \in Setters : last[w] # NoString => xtowner = w

(* The Intrinsics, the contexts and the clients agree on who owns the      *)
(* selection and what it is (XpwSetSelection, LoseSelection).              *)
SelectionSound == SelectionServed /\ SetOrLost
=============================================================================
