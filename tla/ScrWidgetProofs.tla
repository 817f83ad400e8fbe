-------------------------- MODULE ScrWidgetProofs --------------------------
(***************************************************************************)
(* Proofs about the ScrollText widget: the selections of Selections, the   *)
(* focus of ScrFocus, the buttons of ScrButtons and the contexts of        *)
(* ScrTextGC, in the specification of MCScrWidget that runs the four.  The *)
(* hypotheses TameSelections, TameFocus, TameButtons and TameColours leave *)
(* out what the code is known to get wrong (ScrWidgetAny.cfg).             *)
(***************************************************************************)
EXTENDS MCScrWidget, SequenceLemmas

-----------------------------------------------------------------------------
(* Selections. *)

(* The context of a widget that owns the selection. *)
Own(w) == [widget |-> w, string |-> last[w]]

(* The inductive invariant of the selections: there is one context for the *)
(* owner, with what it has set, and at most one more, which is free.       *)
SelectionInv ==
    /\ last \in [Setters -> Strings \cup {NoString}]
    /\ xtowner \in Setters \cup {Nobody}
    /\ SetOrLost
    /\ contexts \in IF xtowner = Nobody THEN {<<>>, <<Fresh>>}
                    ELSE {<<Own(xtowner)>>, <<Own(xtowner), Fresh>>}

(* Looking for a context when there is none. *)
LEMMA NoContexts ==
    ASSUME NEW w
    PROVE  /\ GetSelnContext(<<>>, w, TRUE) = [cs |-> <<Fresh>>, at |-> 1]
           /\ GetSelnContext(<<>>, w, FALSE) = [cs |-> <<>>, at |-> 0]
<1>1. {i \in DOMAIN <<>> : <<>>[i].widget \in {w, Nobody}} = {}
  OBVIOUS
<1>2. <<Fresh>> \o <<>> = <<Fresh>>
  OBVIOUS
<1> QED BY <1>1, <1>2 DEF GetSelnContext

(* Looking for a context when the first one is right. *)
LEMMA FirstContext ==
    ASSUME NEW c, NEW e, NEW cs, NEW w, cs = <<c>> \/ cs = <<c, e>>, c.widget \in {w, Nobody}
    PROVE  /\ GetSelnContext(cs, w, TRUE) = [cs |-> <<c>>, at |-> 1]
           /\ GetSelnContext(cs, w, FALSE) = [cs |-> <<c>>, at |-> IF c.widget = w THEN 1 ELSE 0]
<1> DEFINE found == {i \in DOMAIN cs : cs[i].widget \in {w, Nobody}}
           first == CHOOSE j \in found : \A k \in found : j <= k
<1>1. cs[1] = c /\ DOMAIN cs \in {{1}, {1, 2}}
  OBVIOUS
<1>2. 1 \in found /\ \A k \in found : k \in {1, 2}
  BY <1>1
<1>3. first = 1
  <2>1. \E j \in found : \A k \in found : j <= k
    BY <1>2
  <2>2. first \in found /\ first <= 1
    <3> HIDE DEF found
    <3> QED BY <1>2, <2>1
  <2> QED BY <1>2, <2>2
<1>4. SubSeq(cs, 1, 1) = <<c>>
  BY FirstOfTwo
<1>5. /\ GetSelnContext(cs, w, TRUE) =
           IF found # {} THEN [cs |-> SubSeq(cs, 1, first), at |-> first]
           ELSE [cs |-> <<Fresh>> \o cs, at |-> 1]
      /\ GetSelnContext(cs, w, FALSE) =
           IF found # {}
           THEN [cs |-> SubSeq(cs, 1, first), at |-> IF cs[first].widget = w THEN first ELSE 0]
           ELSE [cs |-> cs, at |-> 0]
  BY DEF GetSelnContext
<1> HIDE DEF found, first
<1> QED BY <1>1, <1>2, <1>3, <1>4, <1>5

(* Looking for a context when the first one is of another widget. *)
LEMMA OtherContexts ==
    ASSUME NEW c, NEW e, NEW w, c.widget \notin {w, Nobody}, e.widget \in {w, Nobody}
    PROVE  /\ GetSelnContext(<<c>>, w, TRUE) = [cs |-> <<Fresh, c>>, at |-> 1]
           /\ GetSelnContext(<<c>>, w, FALSE) = [cs |-> <<c>>, at |-> 0]
           /\ GetSelnContext(<<c, e>>, w, TRUE) = [cs |-> <<c, e>>, at |-> 2]
           /\ GetSelnContext(<<c, e>>, w, FALSE) =
                [cs |-> <<c, e>>, at |-> IF e.widget = w THEN 2 ELSE 0]
<1> DEFINE found(cs) == {i \in DOMAIN cs : cs[i].widget \in {w, Nobody}}
           first(cs) == CHOOSE j \in found(cs) : \A k \in found(cs) : j <= k
<1>1. \A cs :
        /\ GetSelnContext(cs, w, TRUE) =
             IF found(cs) # {} THEN [cs |-> SubSeq(cs, 1, first(cs)), at |-> first(cs)]
             ELSE [cs |-> <<Fresh>> \o cs, at |-> 1]
        /\ GetSelnContext(cs, w, FALSE) =
             IF found(cs) # {}
             THEN [cs |-> SubSeq(cs, 1, first(cs)),
                   at |-> IF cs[first(cs)].widget = w THEN first(cs) ELSE 0]
             ELSE [cs |-> cs, at |-> 0]
  BY DEF GetSelnContext
<1>2. found(<<c>>) = {} /\ <<Fresh>> \o <<c>> = <<Fresh, c>>
  <2>1. DOMAIN <<c>> = {1} /\ <<c>>[1] = c
    OBVIOUS
  <2> QED BY <2>1, SinglesConcatenated
<1>3. /\ found(<<c, e>>) = {2} /\ first(<<c, e>>) = 2
      /\ SubSeq(<<c, e>>, 1, 2) = <<c, e>> /\ <<c, e>>[2] = e
  <2>1. <<c, e>> \in Seq({c, e}) /\ Len(<<c, e>>) = 2
    OBVIOUS
  <2>2. DOMAIN <<c, e>> = {1, 2} /\ <<c, e>>[1] = c /\ <<c, e>>[2] = e
    OBVIOUS
  <2>3. SubSeq(<<c, e>>, 1, 2) = <<c, e>>
    BY <2>1, SubSeqFull
  <2>4. found(<<c, e>>) = {2}
    BY <2>2
  <2>5. first(<<c, e>>) = 2
    <3>1. 2 \in found(<<c, e>>) /\ \A k \in found(<<c, e>>) : 2 <= k /\ k = 2
      BY <2>4
    <3> HIDE DEF found
    <3> QED BY <3>1
  <2> QED BY <2>2, <2>3, <2>4, <2>5
<1> HIDE DEF found, first
<1> QED BY <1>1, <1>2, <1>3

(* What losing the selection makes of the context of the owner. *)
LEMMA LosingOwn ==
    ASSUME NEW w \in Setters, NEW c, c.widget = w
    PROVE  /\ LoseSelection(<<c>>, w) = <<Fresh>>
           /\ LoseSelection(<<c, Fresh>>, w) = <<Fresh>>
           /\ \A d : d.widget \notin {w, Nobody} => LoseSelection(<<d, c>>, w) = <<d, Fresh>>
<1> DEFINE f == Fresh  g(cs) == GetSelnContext(cs, w, FALSE)
<1>1. \A cs : LoseSelection(cs, w) =
        IF g(cs).at = 0 THEN g(cs).cs ELSE [g(cs).cs EXCEPT ![g(cs).at] = f]
  BY DEF LoseSelection, Placed
<1>2. g(<<c>>) = [cs |-> <<c>>, at |-> 1] /\ g(<<c, f>>) = [cs |-> <<c>>, at |-> 1]
  <2>1. \A cs, e : cs \in {<<c>>, <<c, e>>} => g(cs) = [cs |-> <<c>>, at |-> 1]
    <3> SUFFICES ASSUME NEW cs, NEW e, cs \in {<<c>>, <<c, e>>}
                 PROVE  g(cs) = [cs |-> <<c>>, at |-> 1]
      OBVIOUS
    <3>1. c.widget \in {w, Nobody}
      OBVIOUS
    <3>2. g(cs) = [cs |-> <<c>>, at |-> IF c.widget = w THEN 1 ELSE 0]
      BY <3>1, FirstContext
    <3> QED BY <3>2
  <2> HIDE DEF g, f
  <2> QED BY <2>1
<1>3. ASSUME NEW d, d.widget \notin {w, Nobody}
      PROVE  LoseSelection(<<d, c>>, w) = <<d, f>>
  <2>1. g(<<d, c>>) = [cs |-> <<d, c>>, at |-> 2]
    BY <1>3, OtherContexts
  <2> HIDE DEF f, g
  <2>2. [<<d, c>> EXCEPT ![2] = f] = <<d, f>>
    OBVIOUS
  <2> QED BY <1>1, <2>1, <2>2
<1>4. LoseSelection(<<c>>, w) = <<f>> /\ LoseSelection(<<c, f>>, w) = <<f>>
  <2> HIDE DEF f, g
  <2>1. [<<c>> EXCEPT ![1] = f] = <<f>>
    OBVIOUS
  <2> QED BY <1>1, <1>2, <2>1
<1> QED BY <1>3, <1>4

(* Setting a selection keeps the invariant. *)
LEMMA SetStep ==
    ASSUME TameSelections, SelectionInv, NEW w \in Setters, NEW string \in Strings,
           XpwSetSelection(w, string)
    PROVE  SelectionInv'
<1> DEFINE g == GetSelnContext(contexts, w, TRUE)
           new == [widget |-> w, string |-> string]
           cs == Placed(g.cs, g.at, new)
           owned == g.cs[g.at].widget # Nobody
           lost == [v \in Setters |-> IF v = xtowner THEN NoString ELSE last[v]]
           Refused == ~owned /\ Len(g.cs) = 1 /\ contexts' = LoseSelection(cs, w)
                      /\ last' = [last EXCEPT ![w] = NoString] /\ xtowner' = xtowner
           Taken == ~owned /\ xtowner' = w /\ last' = [lost EXCEPT ![w] = string]
                    /\ contexts' = IF xtowner \in {Nobody, w} THEN cs ELSE LoseSelection(cs, xtowner)
           Replaced == owned /\ contexts' = cs /\ xtowner' = xtowner
                       /\ last' = [last EXCEPT ![w] = string]
<1>1. (Len(g.cs) = 1 \/ g.at = 1) /\ (Refused \/ Taken \/ Replaced)
  BY DEF XpwSetSelection, XtOwnSelection
<1>2. /\ last \in [Setters -> Strings \cup {NoString}] /\ xtowner \in Setters \cup {Nobody}
      /\ \A v \in Setters : last[v] # NoString => xtowner = v
      /\ w # Nobody /\ Nobody \notin Setters
  BY SettersAssumption DEF SelectionInv, SetOrLost
<1>3. new.widget = w /\ Fresh.widget = Nobody
  BY DEF Fresh
<1> HIDE DEF g, new
<1>4. ASSUME NEW c, g = [cs |-> <<c>>, at |-> 1]
      PROVE  cs = <<new>> /\ (owned <=> c.widget # Nobody)
  BY <1>4 DEF Placed
<1>5. CASE xtowner = Nobody
  <2>1. g = [cs |-> <<Fresh>>, at |-> 1]
    <3>1. contexts = <<>> \/ contexts = <<Fresh>>
      BY <1>5 DEF SelectionInv
    <3>2. CASE contexts = <<>>
      BY <3>2, NoContexts DEF g
    <3>3. CASE contexts = <<Fresh>>
      BY <3>3, <1>3, FirstContext DEF g
    <3> QED BY <3>1, <3>2, <3>3
  <2>2. cs = <<new>> /\ ~owned
    BY <2>1, <1>3, <1>4
  <2> HIDE DEF cs, owned
  <2>3. CASE Taken
    <3>1. last' = [last EXCEPT ![w] = string]
      BY <2>3, <1>5, <1>2
    <3> QED BY <3>1, <2>2, <2>3, <1>2, <1>5 DEF SelectionInv, SetOrLost, Own, new
  <2>4. CASE Refused
    <3>1. contexts' = <<Fresh>>
      BY <2>2, <2>4, <1>3, LosingOwn
    <3> QED BY <3>1, <2>4, <1>2, <1>5 DEF SelectionInv, SetOrLost
  <2> QED BY <1>1, <2>2, <2>3, <2>4
<1>6. CASE xtowner = w
  <2>1. g = [cs |-> <<Own(w)>>, at |-> 1]
    <3>1. contexts = <<Own(w)>> \/ contexts = <<Own(w), Fresh>>
      BY <1>6, <1>2 DEF SelectionInv
    <3>2. Own(w).widget = w
      BY DEF Own
    <3> QED BY <3>1, <3>2, FirstContext DEF g
  <2>2. cs = <<new>> /\ owned
    BY <2>1, <1>2, <1>4 DEF Own
  <2> HIDE DEF cs, owned
  <2> QED BY <1>1, <2>2, <1>2, <1>6 DEF SelectionInv, SetOrLost, Own, new
<1>7. CASE xtowner \notin {Nobody, w}
  <2> DEFINE c == Own(xtowner)
  <2>1. c.widget = xtowner /\ xtowner \in Setters /\ c.widget \notin {w, Nobody}
    BY <1>7, <1>2 DEF Own
  <2>2. contexts = <<c>> \/ contexts = <<c, Fresh>>
    BY <1>7 DEF SelectionInv
  <2> HIDE DEF c
  <2>3. CASE contexts = <<c, Fresh>>
    <3>1. g = [cs |-> <<c, Fresh>>, at |-> 2]
      BY <2>1, <2>3, <1>3, OtherContexts DEF g
    <3> QED BY <3>1, <1>1
  <2>4. CASE contexts = <<c>>
    <3>1. g = [cs |-> <<Fresh, c>>, at |-> 1]
      BY <2>1, <2>4, <1>3, OtherContexts DEF g
    <3>2. cs = <<new, c>> /\ ~owned /\ Len(g.cs) = 2
      BY <3>1, <1>3 DEF Placed
    <3> HIDE DEF cs, owned
    <3>3. Taken
      BY <1>1, <3>2
    <3>4. contexts' = <<new, Fresh>>
      <4>1. new.widget \notin {xtowner, Nobody}
        BY <1>7, <1>3, <1>2
      <4> QED BY <4>1, <3>2, <3>3, <2>1, <1>7, LosingOwn
    <3>5. /\ last' \in [Setters -> Strings \cup {NoString}] /\ last'[w] = string
          /\ \A v \in Setters : v # w => last'[v] = NoString
      BY <3>3, <1>2
    <3> QED BY <3>3, <3>4, <3>5, <1>2 DEF SelectionInv, SetOrLost, Own, new
  <2> QED BY <2>2, <2>3, <2>4
<1> QED BY <1>5, <1>6, <1>7

(* The context that the owner, and any other widget, finds. *)
LEMMA LookedUp ==
    ASSUME SelectionInv, NEW w \in Setters
    PROVE  /\ w = xtowner => GetSelnContext(contexts, w, FALSE) = [cs |-> <<Own(w)>>, at |-> 1]
           /\ w # xtowner => GetSelnContext(contexts, w, FALSE) = [cs |-> contexts, at |-> 0]
           /\ w = xtowner => LoseSelection(contexts, w) = <<Fresh>>
<1>1. w # Nobody /\ xtowner \in Setters \cup {Nobody} /\ Fresh.widget = Nobody
  BY SettersAssumption DEF SelectionInv, Fresh
<1> DEFINE g == GetSelnContext(contexts, w, FALSE)  c == Own(xtowner)
<1>2. c.widget = xtowner
  BY DEF Own
<1>3. CASE xtowner = Nobody
  <2>1. contexts = <<>> \/ contexts = <<Fresh>>
    BY <1>3 DEF SelectionInv
  <2>2. CASE contexts = <<>>
    BY <2>2, <1>1, <1>3, NoContexts
  <2>3. CASE contexts = <<Fresh>>
    <3> DEFINE f == Fresh
    <3>1. f.widget \in {w, Nobody} /\ f.widget # w
      BY <1>1
    <3> HIDE DEF f
    <3>2. GetSelnContext(<<f>>, w, FALSE) = [cs |-> <<f>>, at |-> IF f.widget = w THEN 1 ELSE 0]
      BY <3>1, FirstContext
    <3>3. GetSelnContext(<<f>>, w, FALSE) = [cs |-> <<f>>, at |-> 0]
      BY <3>1, <3>2
    <3> QED BY <3>3, <2>3, <1>1, <1>3 DEF f
  <2> QED BY <2>1, <2>2, <2>3
<1>4. CASE xtowner # Nobody
  <2>1. contexts = <<c>> \/ contexts = <<c, Fresh>>
    BY <1>4 DEF SelectionInv
  <2> HIDE DEF c
  <2>2. CASE xtowner = w
    <3>1. g = [cs |-> <<c>>, at |-> IF c.widget = w THEN 1 ELSE 0]
      BY <2>1, <2>2, <1>2, FirstContext
    <3>2. LoseSelection(contexts, w) = <<Fresh>>
      BY <2>1, <2>2, <1>2, LosingOwn
    <3> QED BY <3>1, <3>2, <2>2, <1>2 DEF c
  <2>3. CASE xtowner # w
    <3> DEFINE f == Fresh
    <3>1. f.widget \in {w, Nobody} /\ f.widget # w /\ c.widget \notin {w, Nobody}
      BY <1>1, <1>2, <1>4, <2>3
    <3> HIDE DEF f
    <3>2. /\ GetSelnContext(<<c>>, w, FALSE) = [cs |-> <<c>>, at |-> 0]
          /\ GetSelnContext(<<c, f>>, w, FALSE) = [cs |-> <<c, f>>, at |-> 0]
      BY <3>1, OtherContexts, ZenonT(60)
    <3> QED BY <3>2, <2>1, <2>3 DEF f
  <2> QED BY <2>2, <2>3
<1> QED BY <1>3, <1>4

(* Every step of the selections keeps the invariant. *)
LEMMA SelectionStep ==
    ASSUME TameSelections, SelectionInv, NextSelections \/ UNCHANGED selectionvars
    PROVE  SelectionInv'
<1>1. /\ last \in [Setters -> Strings \cup {NoString}] /\ xtowner \in Setters \cup {Nobody}
      /\ \A v \in Setters : last[v] # NoString => xtowner = v
      /\ Nobody \notin Setters
  BY SettersAssumption DEF SelectionInv, SetOrLost
<1>2. ASSUME contexts' = contexts, xtowner' = xtowner, last' = last
      PROVE  SelectionInv'
  BY <1>2 DEF SelectionInv, SetOrLost, Own
<1>3. ASSUME NEW w \in Setters, xtowner = w, xtowner' = w, contexts' = <<Own(w)>>, last' = last
      PROVE  SelectionInv'
  BY <1>1, <1>3 DEF SelectionInv, SetOrLost, Own
<1>4. ASSUME NEW w \in Setters, xtowner = w, xtowner' = Nobody, contexts' = <<Fresh>>,
             last' = [last EXCEPT ![w] = NoString]
      PROVE  SelectionInv'
  <2>1. \A v \in Setters : last'[v] = NoString
    BY <1>1, <1>4
  <2> QED BY <1>1, <1>4, <2>1 DEF SelectionInv, SetOrLost
<1>5. ASSUME NEW w \in Setters, NEW string \in Strings, XpwSetSelection(w, string)
      PROVE  SelectionInv'
  BY <1>5, SetStep
<1>6. ASSUME NEW w \in Setters, ClearSelection(w)
      PROVE  SelectionInv'
  <2>1. CASE w = xtowner
    <3> DEFINE g == GetSelnContext(contexts, w, FALSE)
    <3>1. g = [cs |-> <<Own(w)>>, at |-> 1]
      BY <2>1, LookedUp
    <3>2. contexts' = (IF g.at = 0 THEN g.cs ELSE Placed(g.cs, g.at, Fresh)) /\
          last' = (IF g.at = 0 THEN last ELSE [last EXCEPT ![w] = NoString]) /\
          xtowner' = IF g.at # 0 /\ xtowner = w THEN Nobody ELSE xtowner
      BY <1>6 DEF ClearSelection
    <3> HIDE DEF g
    <3>3. Placed(<<Own(w)>>, 1, Fresh) = <<Fresh>>
      <4> DEFINE c == Own(w)  f == Fresh
      <4> HIDE DEF c, f
      <4>1. [<<c>> EXCEPT ![1] = f] = <<f>>
        OBVIOUS
      <4> QED BY <4>1 DEF Placed, c, f
    <3>4. contexts' = <<Fresh>> /\ last' = [last EXCEPT ![w] = NoString] /\ xtowner' = Nobody
      BY <3>1, <3>2, <3>3, <2>1
    <3> QED BY <3>4, <2>1, <1>4
  <2>2. CASE w # xtowner
    <3> DEFINE g == GetSelnContext(contexts, w, FALSE)
    <3>1. g = [cs |-> contexts, at |-> 0]
      BY <2>2, LookedUp
    <3>2. /\ contexts' = IF g.at = 0 THEN g.cs ELSE Placed(g.cs, g.at, Fresh)
          /\ last' = IF g.at = 0 THEN last ELSE [last EXCEPT ![w] = NoString]
          /\ xtowner' = IF g.at # 0 /\ xtowner = w THEN Nobody ELSE xtowner
      BY <1>6 DEF ClearSelection
    <3> HIDE DEF g
    <3> QED BY <3>1, <3>2, <1>2
  <2> QED BY <2>1, <2>2
<1>7. ASSUME NEW w \in Setters, XpwGetSelection(w)
      PROVE  SelectionInv'
  <2> DEFINE g == GetSelnContext(contexts, w, FALSE)
  <2>1. contexts' = g.cs /\ xtowner' = xtowner /\ last' = last
    BY <1>7 DEF XpwGetSelection
  <2>2. g.cs = IF w = xtowner THEN <<Own(w)>> ELSE contexts
    <3>1. /\ w = xtowner => g = [cs |-> <<Own(w)>>, at |-> 1]
          /\ w # xtowner => g = [cs |-> contexts, at |-> 0]
      BY LookedUp
    <3> HIDE DEF g
    <3> QED BY <3>1
  <2> HIDE DEF g
  <2> QED BY <2>1, <2>2, <1>2, <1>3
<1>8. CASE SelectionConvert
  <2> DEFINE g == GetSelnContext(contexts, xtowner, FALSE)
  <2>1. /\ xtowner \in Setters /\ xtowner' = xtowner /\ last' = last
        /\ contexts' = g.cs
    BY <1>1, <1>8 DEF SelectionConvert
  <2>2. g = [cs |-> <<Own(xtowner)>>, at |-> 1]
    BY <2>1, LookedUp
  <2> HIDE DEF g
  <2> QED BY <2>1, <2>2, <1>3
<1>9. CASE OtherOwns
  BY <1>9, <1>2 DEF OtherOwns
<1>10. CASE SelectionClear
  <2>1. /\ xtowner \in Setters /\ xtowner' = Nobody /\ last' = [last EXCEPT ![xtowner] = NoString]
        /\ contexts' = LoseSelection(contexts, xtowner)
    BY <1>1, <1>10 DEF SelectionClear
  <2>2. contexts' = <<Fresh>>
    BY <2>1, LookedUp
  <2> QED BY <2>1, <2>2, <1>4
<1>11. CASE UNCHANGED selectionvars
  BY <1>11, <1>2 DEF selectionvars
<1> QED BY <1>5, <1>6, <1>7, <1>8, <1>9, <1>10, <1>11 DEF NextSelections

(* The invariant says what the theorem says. *)
LEMMA SelectionInvSound ==
    ASSUME SelectionInv
    PROVE  SelectionSound
<1>1. CASE xtowner = Nobody
  BY <1>1 DEF SelectionInv, SelectionSound, SelectionServed
<1>2. CASE xtowner # Nobody
  <2>1. contexts = <<Own(xtowner)>> \/ contexts = <<Own(xtowner), Fresh>>
    BY <1>2 DEF SelectionInv
  <2>2. 1 \in DOMAIN contexts /\ contexts[1] = Own(xtowner)
    BY <2>1
  <2> QED BY <2>2 DEF SelectionInv, SelectionSound, SelectionServed, Own
<1> QED BY <1>1, <1>2

(* The Intrinsics, the contexts and the clients agree on who owns the      *)
(* selection and what it is, for any number of widgets and strings.        *)
THEOREM SelectionsSound == TameSelections => (Spec => []SelectionSound)
<1> SUFFICES ASSUME TameSelections
             PROVE  Spec => []SelectionSound
  OBVIOUS
<1>1. Spec => Init /\ [][Next]_vars
  BY PTL DEF Spec
<1>2. Init => SelectionInv
  <2> SUFFICES ASSUME Init
               PROVE  SelectionInv
    OBVIOUS
  <2> QED BY DEF Init, InitSelections, SelectionInv, SetOrLost
<1>3. SelectionInv /\ [Next]_vars => SelectionInv'
  <2> SUFFICES ASSUME SelectionInv, [Next]_vars
               PROVE  SelectionInv'
    OBVIOUS
  <2>1. NextSelections \/ UNCHANGED selectionvars
    BY DEF Next, vars, OfButtons, Apart
  <2> QED BY <2>1, SelectionStep
<1>4. SelectionInv => SelectionSound
  BY SelectionInvSound
<1> QED BY <1>1, <1>2, <1>3, <1>4, PTL

-----------------------------------------------------------------------------
(* The focus. *)

(* The flags of a widget that matter. *)
FocusFlags == {"ACT_FOCUS", "PTR_FOCUS", "SYN_FOCUS", "CALLBACK_YES", "CURSOR_ON"}

(* The states of a widget. *)
WidgetType == [flags : SUBSET FocusFlags, drawn : {"off", "solid", "hollow"},
               heard : BOOLEAN, again : BOOLEAN]

(* A widget has the focus when one of three flags says so. *)
LEMMA HaveFlag ==
    ASSUME NEW flags
    PROVE  Have(flags) <=> "ACT_FOCUS" \in flags \/ "PTR_FOCUS" \in flags \/ "SYN_FOCUS" \in flags
BY DEF Have, HAVE_FOCUS

(* Switching the cursor sets its flag and draws it. *)
LEMMA CursorProperties ==
    ASSUME NEW u \in WidgetType, u.drawn = Shape(u.flags), NEW on \in BOOLEAN
    PROVE  LET w == TextCursorOn(u, on)
           IN  /\ w \in WidgetType /\ w.drawn = Shape(w.flags)
               /\ w.flags = IF on THEN u.flags \cup {"CURSOR_ON"} ELSE u.flags \ {"CURSOR_ON"}
               /\ w.heard = u.heard /\ w.again = u.again
<1> DEFINE w == TextCursorOn(u, on)
           flags == IF on THEN u.flags \cup {"CURSOR_ON"} ELSE u.flags \ {"CURSOR_ON"}
<1>1. flags \in SUBSET FocusFlags /\ Shape(flags) \in {"off", "solid", "hollow"}
  BY DEF FocusFlags, WidgetType, Shape
<1>2. w = IF on <=> "CURSOR_ON" \in u.flags THEN u ELSE [u EXCEPT !.flags = flags, !.drawn = Shape(flags)]
  BY DEF TextCursorOn
<1>3. (on <=> "CURSOR_ON" \in u.flags) => u.flags = flags
  OBVIOUS
<1> HIDE DEF w, flags
<1>4. w \in WidgetType /\ w.flags = flags /\ w.drawn = Shape(flags) /\ w.heard = u.heard /\ w.again = u.again
  BY <1>1, <1>2, <1>3 DEF WidgetType
<1> QED BY <1>4 DEF w, flags

(* The client knows what the flag of its callback says, was not told       *)
(* twice, and the cursor is drawn.                                         *)
HeardSound(u) ==
    /\ u \in WidgetType
    /\ u.drawn = Shape(u.flags)
    /\ "CALLBACK_YES" \in u.flags <=> u.heard
    /\ u.heard => Have(u.flags)
    /\ ~u.again

(* The callback tells the client what the flags say. *)
LEMMA CallbackProperties ==
    ASSUME NEW u \in WidgetType, u.drawn = Shape(u.flags), ~u.again,
           ~u.heard \/ ~Have(u.flags)
    PROVE  LET w == FocusCallback(u, Have(u.flags))
           IN  /\ HeardSound(w)
               /\ w.flags = IF Have(u.flags) THEN u.flags \cup {"CALLBACK_YES"}
                            ELSE u.flags \ {"CALLBACK_YES"}
               /\ w.heard <=> Have(w.flags)
               /\ Have(w.flags) <=> Have(u.flags)
<1> DEFINE w == FocusCallback(u, Have(u.flags))
           flags == IF Have(u.flags) THEN u.flags \cup {"CALLBACK_YES"} ELSE u.flags \ {"CALLBACK_YES"}
<1>1. /\ w.flags = flags /\ w.drawn = u.drawn
      /\ w.heard = Have(u.flags) /\ w.again = (Have(u.flags) /\ u.heard)
      /\ w \in WidgetType
  <2> DEFINE have == Have(u.flags)
             told == have /\ u.heard
  <2>1. w = [u EXCEPT !.flags = flags, !.heard = have, !.again = told]
    BY DEF FocusCallback
  <2>2. flags \in SUBSET FocusFlags
    BY DEF FocusFlags, WidgetType
  <2>3. have \in BOOLEAN /\ told \in BOOLEAN
    BY DEF Have
  <2> HIDE DEF flags, w, have, told
  <2>4. /\ w.flags = flags /\ w.drawn = u.drawn /\ w.heard = have /\ w.again = told
        /\ w \in WidgetType
    BY <2>1, <2>2, <2>3 DEF WidgetType
  <2> QED BY <2>4 DEF have, told
<1>2. Have(flags) <=> Have(u.flags)
  BY HaveFlag
<1>3. Shape(flags) = Shape(u.flags)
  BY <1>2 DEF Shape
<1>4. "CALLBACK_YES" \in flags <=> Have(u.flags)
  OBVIOUS
<1> HIDE DEF w, flags
<1>5. ~w.again
  BY <1>1
<1>6. HeardSound(w)
  BY <1>1, <1>2, <1>3, <1>4, <1>5 DEF HeardSound
<1> QED BY <1>1, <1>2, <1>6 DEF w, flags

(* When an event changes whether the widget has the focus the client hears *)
(* of it, unless the window is not to be seen.                             *)
LEMMA FocusChangedProperties ==
    ASSUME NEW u, HeardSound(u), NEW n \in SUBSET FocusFlags, NEW viewable \in BOOLEAN,
           "CALLBACK_YES" \in n <=> "CALLBACK_YES" \in u.flags,
           "CURSOR_ON" \in n <=> "CURSOR_ON" \in u.flags,
           ~(Have(n) <=> Have(u.flags))
    PROVE  LET w == FocusChanged(u, n, viewable)
           IN  /\ HeardSound(w)
               /\ \A f \in HAVE_FOCUS : f \in w.flags <=> f \in n
               /\ Have(w.flags) /\ ~w.heard => ~viewable
<1> DEFINE off == TextCursorOn(u, FALSE)
           mid == [off EXCEPT !.flags = n \ {"CURSOR_ON"}]
           drawn == TextCursorOn(mid, "CURSOR_ON" \in u.flags)
           w == FocusChanged(u, n, viewable)
<1>1. w = IF Have(n) /\ ~viewable THEN drawn ELSE FocusCallback(drawn, Have(n))
  BY DEF FocusChanged
<1>2. u \in WidgetType /\ u.drawn = Shape(u.flags) /\ ~u.again
  BY DEF HeardSound
<1>3. /\ off \in WidgetType /\ off.drawn = Shape(u.flags \ {"CURSOR_ON"})
      /\ off.heard = u.heard /\ off.again = u.again
  <2>1. /\ off \in WidgetType /\ off.drawn = Shape(off.flags) /\ off.heard = u.heard
        /\ off.again = u.again /\ off.flags = u.flags \ {"CURSOR_ON"}
    BY <1>2, CursorProperties
  <2> QED BY <2>1
<1> HIDE DEF off
<1>4. /\ mid \in WidgetType /\ mid.drawn = Shape(mid.flags) /\ mid.flags = n \ {"CURSOR_ON"}
      /\ mid.heard = u.heard /\ mid.again = u.again
  BY <1>3 DEF WidgetType, Shape
<1> HIDE DEF mid
<1>5. /\ drawn \in WidgetType /\ drawn.drawn = Shape(n) /\ drawn.flags = n
      /\ drawn.heard = u.heard /\ drawn.again = u.again
  <2>1. LET on == "CURSOR_ON" \in u.flags
        IN  /\ drawn \in WidgetType /\ drawn.drawn = Shape(drawn.flags)
            /\ drawn.flags = IF on THEN mid.flags \cup {"CURSOR_ON"} ELSE mid.flags \ {"CURSOR_ON"}
            /\ drawn.heard = mid.heard /\ drawn.again = mid.again
    <3>1. ("CURSOR_ON" \in u.flags) \in BOOLEAN
      OBVIOUS
    <3> QED BY <1>4, <3>1, CursorProperties, Zenon
  <2> HIDE DEF drawn
  <2>2. drawn.flags = n
    BY <2>1, <1>4
  <2> QED BY <2>1, <2>2, <1>4
<1> HIDE DEF drawn, w
<1>6. CASE Have(n) /\ ~viewable
  <2>1. w = drawn /\ ~u.heard
    BY <1>1, <1>6 DEF HeardSound
  <2>2. HeardSound(w)
    BY <2>1, <1>2, <1>5, <1>6 DEF HeardSound
  <2> QED BY <2>1, <2>2, <1>5, <1>6 DEF w
<1>7. CASE ~(Have(n) /\ ~viewable)
  <2>1. w = FocusCallback(drawn, Have(drawn.flags)) /\ (~drawn.heard \/ ~Have(drawn.flags))
    BY <1>1, <1>5, <1>7 DEF HeardSound
  <2>2. /\ HeardSound(w)
        /\ w.flags = IF Have(n) THEN n \cup {"CALLBACK_YES"} ELSE n \ {"CALLBACK_YES"}
        /\ w.heard <=> Have(w.flags)
    BY <2>1, <1>2, <1>5, CallbackProperties
  <2>3. \A f \in HAVE_FOCUS : f \in w.flags <=> f \in n
    BY <2>2 DEF HAVE_FOCUS
  <2> QED BY <2>2, <2>3 DEF w
<1> QED BY <1>6, <1>7

(* What an event makes of the flags, without callbacks. *)
Raw(flags, e) ==
    IF FlagOf(e) = "none" THEN flags
    ELSE IF Comes(e) THEN flags \cup {FlagOf(e)} ELSE flags \ {FlagOf(e)}

(* When it does not, the client hears of it only if it was still to be     *)
(* told.                                                                   *)
LEMMA SameFocusProperties ==
    ASSUME NEW u, HeardSound(u), NEW n \in SUBSET FocusFlags, NEW e,
           "CALLBACK_YES" \in n <=> "CALLBACK_YES" \in u.flags,
           "CURSOR_ON" \in n <=> "CURSOR_ON" \in u.flags,
           Have(n) <=> Have(u.flags)
    PROVE  LET w == SameFocus(u, n, e)
           IN  /\ HeardSound(w)
               /\ \A f \in {"ACT_FOCUS", "SYN_FOCUS"} : f \in w.flags <=> f \in n
               /\ "PTR_FOCUS" \in w.flags => "PTR_FOCUS" \in n
               /\ "PTR_FOCUS" \in n => "PTR_FOCUS" \in w.flags \/ (Have(u.flags) /\ ~u.heard)
               /\ Have(w.flags) /\ ~w.heard =>
                    Have(u.flags) /\ ~u.heard /\ e.type # "VisibilityNotify"
<1> DEFINE v == [u EXCEPT !.flags = n]
           w == SameFocus(u, n, e)
<1>1. /\ v \in WidgetType /\ v.flags = n /\ v.drawn = Shape(n)
      /\ v.heard = u.heard /\ ~v.again
  <2>1. Shape(n) = Shape(u.flags)
    BY DEF Shape
  <2> QED BY <2>1 DEF HeardSound, WidgetType
<1>2. HeardSound(v)
  BY <1>1 DEF HeardSound
<1>3. w = IF ~Comes(e) \/ "CALLBACK_YES" \in n THEN v
          ELSE IF e.type # "VisibilityNotify"
          THEN IF "SYN_FOCUS" \in n THEN [v EXCEPT !.flags = @ \ {"PTR_FOCUS"}] ELSE v
          ELSE FocusCallback(v, Have(n))
  BY DEF SameFocus
<1> HIDE DEF v, w
<1>4. CASE w = v /\ e.type # "VisibilityNotify"
  BY <1>1, <1>2, <1>4 DEF w
<1>5. CASE w = v /\ "CALLBACK_YES" \in n
  BY <1>1, <1>2, <1>5 DEF w, HeardSound
<1>6. CASE "SYN_FOCUS" \in n /\ "CALLBACK_YES" \notin n /\ e.type # "VisibilityNotify"
           /\ w = [v EXCEPT !.flags = @ \ {"PTR_FOCUS"}]
  <2>1. w.flags = n \ {"PTR_FOCUS"} /\ Have(w.flags) /\ Have(n)
    BY <1>1, <1>6, HaveFlag DEF WidgetType
  <2>2. Shape(w.flags) = Shape(n)
    BY <2>1 DEF Shape
  <2>3. w \in WidgetType /\ w.drawn = v.drawn /\ w.heard = v.heard /\ w.again = v.again
    BY <1>1, <1>6 DEF WidgetType
  <2>4. ~u.heard
    BY <1>6 DEF HeardSound
  <2>5. HeardSound(w)
    BY <2>1, <2>2, <2>3, <2>4, <1>1, <1>6 DEF HeardSound
  <2> QED BY <2>1, <2>3, <2>4, <2>5, <1>1, <1>6 DEF w
<1>7. CASE "CALLBACK_YES" \notin n /\ w = FocusCallback(v, Have(n))
  <2>1. w = FocusCallback(v, Have(v.flags)) /\ ~v.heard
    BY <1>1, <1>7 DEF HeardSound
  <2>2. /\ HeardSound(w)
        /\ w.flags = IF Have(n) THEN n \cup {"CALLBACK_YES"} ELSE n \ {"CALLBACK_YES"}
        /\ w.heard <=> Have(w.flags)
    BY <2>1, <1>1, CallbackProperties
  <2>3. \A f \in HAVE_FOCUS : f \in w.flags <=> f \in n
    BY <2>2 DEF HAVE_FOCUS
  <2> QED BY <2>2, <2>3 DEF w, HAVE_FOCUS
<1> QED BY <1>3, <1>4, <1>5, <1>6, <1>7 DEF Comes

(* What handling an event makes of a widget. *)
LEMMA HandledProperties ==
    ASSUME NEW u, HeardSound(u), NEW e, NEW viewable \in BOOLEAN,
           FlagOf(e) \in {"PTR_FOCUS", "SYN_FOCUS", "none"},
           e.type = "VisibilityNotify" => FlagOf(e) = "none"
    PROVE  LET w == Handled(u, e, viewable, "as it is")
               n == Raw(u.flags, e)
           IN  /\ HeardSound(w)
               /\ \A f \in {"ACT_FOCUS", "SYN_FOCUS"} : f \in w.flags <=> f \in n
               /\ "PTR_FOCUS" \in w.flags => "PTR_FOCUS" \in n
               /\ "PTR_FOCUS" \in n => "PTR_FOCUS" \in w.flags \/ (Have(u.flags) /\ ~u.heard)
               /\ Have(w.flags) /\ ~w.heard =>
                    e.type # "VisibilityNotify" /\ (~viewable \/ (Have(u.flags) /\ ~u.heard))
<1> DEFINE w == Handled(u, e, viewable, "as it is")
           n == Raw(u.flags, e)
<1>1. /\ n \in SUBSET FocusFlags
      /\ "CALLBACK_YES" \in n <=> "CALLBACK_YES" \in u.flags
      /\ "CURSOR_ON" \in n <=> "CURSOR_ON" \in u.flags
      /\ FlagOf(e) = "none" => n = u.flags
  BY DEF Raw, FocusFlags, HeardSound, WidgetType
<1>2. w = IF FlagOf(e) = "none" /\ (e.type # "VisibilityNotify" \/ ~Have(u.flags)
                                     \/ "CALLBACK_YES" \in u.flags)
          THEN u
          ELSE IF ~(Have(n) <=> Have(u.flags)) THEN FocusChanged(u, n, viewable)
          ELSE SameFocus(u, n, e)
  <2> DEFINE v == IF e.type = "LeaveNotify" /\ "as it is" # "as it is"
                  THEN TextCursorOn(u, "as it is" = "on") ELSE u
  <2>1. v = u
    OBVIOUS
  <2>2. w = IF FlagOf(e) = "none" /\ (e.type # "VisibilityNotify" \/ ~Have(u.flags)
                                       \/ "CALLBACK_YES" \in u.flags)
            THEN v
            ELSE IF Have(n) # Have(u.flags) THEN FocusChanged(v, n, viewable)
            ELSE SameFocus(v, n, e)
    BY Zenon DEF Handled, Raw
  <2>3. (Have(n) # Have(u.flags)) <=> ~(Have(n) <=> Have(u.flags))
    BY Zenon DEF Have
  <2> HIDE DEF v, w, n
  <2> QED BY <2>1, <2>2, <2>3
<1> HIDE DEF n, w
<1>3. CASE w = u /\ FlagOf(e) = "none" /\ (e.type # "VisibilityNotify" \/ ~Have(u.flags)
                                            \/ "CALLBACK_YES" \in u.flags)
  BY <1>1, <1>3 DEF w, n, HeardSound
<1>4. CASE ~(Have(n) <=> Have(u.flags)) /\ w = FocusChanged(u, n, viewable)
  <2>1. /\ HeardSound(w)
        /\ \A f \in HAVE_FOCUS : f \in w.flags <=> f \in n
        /\ Have(w.flags) /\ ~w.heard => ~viewable
    BY <1>1, <1>4, FocusChangedProperties
  <2>2. FlagOf(e) # "none"
    BY <1>1, <1>4
  <2> QED BY <2>1, <2>2 DEF w, n, HAVE_FOCUS
<1>5. CASE (Have(n) <=> Have(u.flags)) /\ w = SameFocus(u, n, e)
  <2>1. /\ HeardSound(w)
        /\ \A f \in {"ACT_FOCUS", "SYN_FOCUS"} : f \in w.flags <=> f \in n
        /\ "PTR_FOCUS" \in w.flags => "PTR_FOCUS" \in n
        /\ "PTR_FOCUS" \in n => "PTR_FOCUS" \in w.flags \/ (Have(u.flags) /\ ~u.heard)
        /\ Have(w.flags) /\ ~w.heard =>
             Have(u.flags) /\ ~u.heard /\ e.type # "VisibilityNotify"
    BY <1>1, <1>5, SameFocusProperties
  <2> QED BY <2>1 DEF w, n
<1> QED BY <1>2, <1>3, <1>4, <1>5

(* The events that the server sends. *)
Events ==
    [type : {"FocusIn", "FocusOut"}, kind : {"PTR_FOCUS"}]
        \cup [type : {"EnterNotify", "LeaveNotify"}, focus : BOOLEAN]
        \cup [type : {"VisibilityNotify"}]

(* An event that says whether the focus follows the pointer to the widget. *)
OfPointer(e) == FlagOf(e) = "PTR_FOCUS"

(* The window has become visible. *)
Visibility(e) == e.type = "VisibilityNotify"

(* The pointer is in the window, and the focus is where the pointer is. *)
Truth(s) == s.focus = "above" /\ s.inside

(* The states of the server. *)
ServerType ==
    [focus : {"above", "elsewhere"}, inside : BOOLEAN, viewable : BOOLEAN, keyboard : BOOLEAN,
     queue : Seq(Events)]

(* When no event about the pointer is on its way, the flag is the truth;   *)
(* the last of those on their way says it; and what a window that became   *)
(* visible has below the pointer is told after that it is visible.         *)
QueueSound(s, flags) ==
    /\ (\A i \in 1 .. Len(s.queue) : ~OfPointer(s.queue[i])) =>
           ("PTR_FOCUS" \in flags <=> Truth(s))
    /\ \A i \in 1 .. Len(s.queue) :
           OfPointer(s.queue[i]) /\ (\A j \in i + 1 .. Len(s.queue) : ~OfPointer(s.queue[j])) =>
               (Comes(s.queue[i]) <=> Truth(s))
    /\ \A i \in 1 .. Len(s.queue) :
           Visibility(s.queue[i]) /\ Truth(s) =>
               \E j \in i + 1 .. Len(s.queue) : OfPointer(s.queue[j])

(* The events are of the pointer, or set no flag. *)
LEMMA EventProperties ==
    ASSUME NEW e \in Events
    PROVE  /\ FlagOf(e) \in {"PTR_FOCUS", "none"}
           /\ Visibility(e) => FlagOf(e) = "none"
BY DEF Events, FlagOf, Visibility

(* The events on their way stay sound when the truth stays and the flag    *)
(* too, or the flag is to be set again.                                    *)
LEMMA QueueStays ==
    ASSUME NEW s, NEW t, NEW flags, NEW after, QueueSound(s, flags), t.queue = s.queue,
           Truth(t) <=> Truth(s),
           \/ "PTR_FOCUS" \in after <=> "PTR_FOCUS" \in flags
           \/ /\ "PTR_FOCUS" \notin after
              /\ ~Truth(s) \/ \E i \in 1 .. Len(s.queue) : OfPointer(s.queue[i])
    PROVE  QueueSound(t, after)
BY DEF QueueSound

(* The events on their way with one more. *)
LEMMA QueueAppended ==
    ASSUME NEW s \in ServerType, NEW e \in Events
    PROVE  LET q == s.queue \o <<e>>
           IN  /\ q \in Seq(Events) /\ Len(q) = Len(s.queue) + 1 /\ Len(s.queue) \in Nat
               /\ \A i \in 1 .. Len(s.queue) : q[i] = s.queue[i]
               /\ q[Len(s.queue) + 1] = e
<1>1. s.queue \in Seq(Events) /\ <<e>> \in Seq(Events) /\ Len(<<e>>) = 1 /\ <<e>>[1] = e
  BY DEF ServerType
<1> DEFINE q == s.queue \o <<e>>
<1>2. /\ q \in Seq(Events) /\ Len(q) = Len(s.queue) + 1
      /\ \A i \in 1 .. Len(s.queue) + 1 :
           q[i] = IF i <= Len(s.queue) THEN s.queue[i] ELSE <<e>>[i - Len(s.queue)]
  BY <1>1, ConcatProperties
<1>3. Len(s.queue) \in Nat
  BY <1>1
<1> HIDE DEF q
<1>4. (Len(s.queue) + 1) - Len(s.queue) = 1 /\ ~(Len(s.queue) + 1 <= Len(s.queue))
  BY <1>3
<1> QED BY <1>1, <1>2, <1>3, <1>4 DEF q

(* They stay sound when the pointer moves and an event says so, ... *)
LEMMA PointerTold ==
    ASSUME NEW s \in ServerType, NEW t, NEW flags, NEW e \in Events, QueueSound(s, flags),
           t.queue = s.queue \o <<e>>, OfPointer(e), Comes(e) <=> Truth(t)
    PROVE  QueueSound(t, flags)
<1> DEFINE q == t.queue  n == Len(s.queue)
<1>1. /\ Len(q) = n + 1 /\ n \in Nat /\ q[n + 1] = e
      /\ \A i \in 1 .. n : q[i] = s.queue[i]
  BY QueueAppended
<1> HIDE DEF q, n
<1>2. \A i \in 1 .. n + 1 : i = n + 1 \/ n + 1 \in i + 1 .. n + 1
  BY <1>1
<1>3. n + 1 \in 1 .. n + 1
  BY <1>1
<1>4. ~(\A i \in 1 .. n + 1 : ~OfPointer(q[i]))
  BY <1>1, <1>3
<1>5. ASSUME NEW i \in 1 .. n + 1, \A j \in i + 1 .. n + 1 : ~OfPointer(q[j])
      PROVE  Comes(q[i]) <=> Truth(t)
  BY <1>1, <1>2, <1>5
<1>6. ASSUME NEW i \in 1 .. n + 1, Visibility(q[i])
      PROVE  \E j \in i + 1 .. n + 1 : OfPointer(q[j])
  <2>1. ~Visibility(e)
    BY EventProperties DEF OfPointer
  <2> QED BY <1>1, <1>2, <1>6, <2>1
<1> QED BY <1>1, <1>4, <1>5, <1>6 DEF QueueSound, q

(* ... when an event is sent that is not about the pointer, ... *)
LEMMA NothingTold ==
    ASSUME NEW s \in ServerType, NEW t, NEW flags, NEW e \in Events, QueueSound(s, flags),
           t.queue = s.queue \o <<e>>, ~OfPointer(e), Truth(t) <=> Truth(s),
           Visibility(e) => ~Truth(t)
    PROVE  QueueSound(t, flags)
<1> DEFINE q == t.queue  n == Len(s.queue)
<1>1. /\ Len(q) = n + 1 /\ n \in Nat /\ q[n + 1] = e
      /\ \A i \in 1 .. n : q[i] = s.queue[i]
  BY QueueAppended
<1> HIDE DEF q, n
<1>2. \A i \in 1 .. n + 1 : (i \in 1 .. n \/ i = n + 1)
      /\ (\A j \in i + 1 .. n + 1 : j \in i + 1 .. n \/ j = n + 1)
  BY <1>1
<1>3. \A i \in 1 .. n : i \in 1 .. n + 1 /\ i + 1 .. n \subseteq i + 1 .. n + 1
      /\ i + 1 .. n \subseteq 1 .. n /\ n + 1 \in i + 1 .. n + 1
  BY <1>1
<1>4. (\A i \in 1 .. n + 1 : ~OfPointer(q[i])) => (\A i \in 1 .. n : ~OfPointer(s.queue[i]))
  BY <1>1, <1>3
<1>5. ASSUME NEW i \in 1 .. n + 1, OfPointer(q[i]), \A j \in i + 1 .. n + 1 : ~OfPointer(q[j])
      PROVE  Comes(q[i]) <=> Truth(t)
  <2>1. i \in 1 .. n
    BY <1>1, <1>2, <1>5
  <2>2. \A j \in i + 1 .. n : ~OfPointer(s.queue[j])
    BY <2>1, <1>1, <1>3, <1>5
  <2> QED BY <2>1, <2>2, <1>1, <1>5 DEF QueueSound, n
<1>6. ASSUME NEW i \in 1 .. n + 1, Visibility(q[i]), Truth(t)
      PROVE  \E j \in i + 1 .. n + 1 : OfPointer(q[j])
  <2>1. i \in 1 .. n
    BY <1>1, <1>2, <1>6
  <2>2. \E j \in i + 1 .. n : OfPointer(s.queue[j])
    BY <2>1, <1>1, <1>6 DEF QueueSound, n
  <2> QED BY <2>1, <2>2, <1>1, <1>3
<1> QED BY <1>1, <1>4, <1>5, <1>6 DEF QueueSound, q, n

(* ... and when the first of them is handled. *)
LEMMA QueueShrinks ==
    ASSUME NEW s \in ServerType, s.queue # <<>>, NEW t, t.queue = Tail(s.queue),
           t.focus = s.focus, t.inside = s.inside, NEW flags, NEW after, QueueSound(s, flags),
           \/ ~OfPointer(Head(s.queue)) /\ ("PTR_FOCUS" \in after <=> "PTR_FOCUS" \in flags)
           \/ OfPointer(Head(s.queue)) /\ ("PTR_FOCUS" \in after <=> Comes(Head(s.queue)))
           \/ "PTR_FOCUS" \notin after /\ Truth(s) /\ \E i \in 1 .. Len(t.queue) : OfPointer(t.queue[i])
           \/ "PTR_FOCUS" \notin after /\ ~Truth(s)
    PROVE  QueueSound(t, after)
<1> DEFINE q == s.queue  r == t.queue  n == Len(r)
<1>1. /\ Len(q) = n + 1 /\ n \in Nat /\ q[1] = Head(q) /\ q[1] \in Events
      /\ \A i \in 1 .. n : r[i] = q[i + 1]
  BY HeadTailProperties DEF ServerType
<1>2. Truth(t) <=> Truth(s)
  BY DEF Truth
<1>3. /\ (\A i \in 1 .. n + 1 : ~OfPointer(q[i])) => ("PTR_FOCUS" \in flags <=> Truth(s))
      /\ \A i \in 1 .. n + 1 :
           OfPointer(q[i]) /\ (\A j \in i + 1 .. n + 1 : ~OfPointer(q[j])) => (Comes(q[i]) <=> Truth(s))
      /\ \A i \in 1 .. n + 1 :
           Visibility(q[i]) /\ Truth(s) => \E j \in i + 1 .. n + 1 : OfPointer(q[j])
  BY <1>1 DEF QueueSound
<1>4. /\ 1 \in 1 .. n + 1
      /\ \A i \in 1 .. n : i + 1 \in 1 .. n + 1
      /\ \A i \in 1 .. n : \A j \in i + 1 .. n : j + 1 \in (i + 1) + 1 .. n + 1 /\ j \in 1 .. n
      /\ \A i \in 1 .. n : \A j \in (i + 1) + 1 .. n + 1 :
           j - 1 \in i + 1 .. n /\ j - 1 \in 1 .. n /\ (j - 1) + 1 = j
      /\ \A j \in 1 + 1 .. n + 1 : j - 1 \in 1 .. n /\ (j - 1) + 1 = j
      /\ \A j \in 1 .. n + 1 : j = 1 \/ j \in 1 + 1 .. n + 1
  BY <1>1
<1>5. (\A i \in 1 .. n : ~OfPointer(r[i])) => (\A j \in 1 + 1 .. n + 1 : ~OfPointer(q[j]))
  BY <1>1, <1>4
<1> HIDE DEF q, r, n
<1>6. ASSUME \A i \in 1 .. n : ~OfPointer(r[i])
      PROVE  "PTR_FOCUS" \in after <=> Truth(s)
  <2>1. ~OfPointer(q[1]) => ("PTR_FOCUS" \in flags <=> Truth(s))
    BY <1>3, <1>4, <1>5, <1>6
  <2>2. OfPointer(q[1]) => (Comes(q[1]) <=> Truth(s))
    BY <1>3, <1>4, <1>5, <1>6
  <2> QED BY <1>1, <1>6, <2>1, <2>2 DEF q, r, n
<1>7. ASSUME NEW i \in 1 .. n, OfPointer(r[i]), \A j \in i + 1 .. n : ~OfPointer(r[j])
      PROVE  Comes(r[i]) <=> Truth(s)
  <2>1. \A j \in (i + 1) + 1 .. n + 1 : ~OfPointer(q[j])
    <3> SUFFICES ASSUME NEW j \in (i + 1) + 1 .. n + 1
                 PROVE  ~OfPointer(q[j])
      OBVIOUS
    <3>1. j - 1 \in i + 1 .. n /\ r[j - 1] = q[j]
      BY <1>1, <1>4
    <3> QED BY <3>1, <1>7
  <2> QED BY <2>1, <1>1, <1>3, <1>4, <1>7
<1>8. ASSUME NEW i \in 1 .. n, Visibility(r[i]), Truth(s)
      PROVE  \E j \in i + 1 .. n : OfPointer(r[j])
  <2>1. PICK j \in (i + 1) + 1 .. n + 1 : OfPointer(q[j])
    BY <1>1, <1>3, <1>4, <1>8
  <2>2. j - 1 \in i + 1 .. n /\ r[j - 1] = q[j]
    BY <1>1, <1>4
  <2> QED BY <2>1, <2>2
<1> QED BY <1>2, <1>6, <1>7, <1>8 DEF QueueSound, r, n

(* An event about visibility is on its way. *)
VisibilityQueued(s) == \E i \in 1 .. Len(s.queue) : Visibility(s.queue[i])

(* The inductive invariant of the focus. *)
FocusInv ==
    /\ HeardSound(fw)
    /\ server \in ServerType
    /\ "ACT_FOCUS" \notin fw.flags
    /\ "SYN_FOCUS" \in fw.flags <=> server.keyboard
    /\ server.inside => server.viewable
    /\ Have(fw.flags) /\ ~fw.heard => ~server.viewable \/ VisibilityQueued(server)
    /\ QueueSound(server, fw.flags)

(* Handling an event keeps the invariant. *)
LEMMA EventHandlerStep ==
    ASSUME TameFocus, FocusInv, EventHandler
    PROVE  FocusInv'
<1> DEFINE u == [fw EXCEPT !.again = FALSE]
           q == server.queue
           e == Head(q)
           r == Tail(q)
           w == Handled(u, e, server.viewable, "as it is")
           n == Raw(fw.flags, e)
<1>1. server' = [server EXCEPT !.queue = r] /\ fw' = w /\ q # <<>>
  BY DEF EventHandler
<1>2. u.flags = fw.flags /\ u.heard = fw.heard /\ HeardSound(u)
  BY DEF FocusInv, HeardSound, WidgetType
<1>3. /\ q \in Seq(Events) /\ e \in Events /\ r \in Seq(Events) /\ Len(q) = Len(r) + 1
      /\ Len(r) \in Nat /\ q[1] = e /\ \A i \in 1 .. Len(r) : r[i] = q[i + 1]
  <2>1. q \in Seq(Events) /\ q # <<>>
    BY <1>1 DEF FocusInv, ServerType
  <2> HIDE DEF q
  <2>2. /\ Head(q) \in Events /\ Tail(q) \in Seq(Events) /\ Len(Tail(q)) = Len(q) - 1
        /\ \A i \in 1 .. Len(Tail(q)) : Tail(q)[i] = q[i + 1]
    BY <2>1, HeadTailProperties
  <2>3. Head(q) = q[1] /\ Len(q) \in Nat /\ Len(q) # 0
    BY <2>1
  <2> QED BY <2>1, <2>2, <2>3
<1>4. /\ server' \in ServerType /\ server'.queue = r /\ server'.viewable = server.viewable
      /\ server'.inside = server.inside /\ server'.focus = server.focus
      /\ server'.keyboard = server.keyboard /\ server.viewable \in BOOLEAN
  <2> HIDE DEF r
  <2> QED BY <1>1, <1>3 DEF FocusInv, ServerType
<1>5. FlagOf(e) \in {"PTR_FOCUS", "none"} /\ (e.type = "VisibilityNotify" => FlagOf(e) = "none")
  BY <1>3, EventProperties DEF Visibility
<1>6. /\ HeardSound(w)
      /\ \A f \in {"ACT_FOCUS", "SYN_FOCUS"} : f \in w.flags <=> f \in n
      /\ "PTR_FOCUS" \in w.flags => "PTR_FOCUS" \in n
      /\ "PTR_FOCUS" \in n => "PTR_FOCUS" \in w.flags \/ (Have(fw.flags) /\ ~fw.heard)
      /\ Have(w.flags) /\ ~w.heard =>
           e.type # "VisibilityNotify" /\ (~server.viewable \/ (Have(fw.flags) /\ ~fw.heard))
  <2>1. FlagOf(e) \in {"PTR_FOCUS", "SYN_FOCUS", "none"}
    BY <1>5
  <2> HIDE DEF u, e
  <2>2. /\ HeardSound(w)
        /\ \A f \in {"ACT_FOCUS", "SYN_FOCUS"} : f \in w.flags <=> f \in Raw(u.flags, e)
        /\ "PTR_FOCUS" \in w.flags => "PTR_FOCUS" \in Raw(u.flags, e)
        /\ "PTR_FOCUS" \in Raw(u.flags, e) => "PTR_FOCUS" \in w.flags \/ (Have(u.flags) /\ ~u.heard)
        /\ Have(w.flags) /\ ~w.heard =>
             e.type # "VisibilityNotify" /\ (~server.viewable \/ (Have(u.flags) /\ ~u.heard))
    BY <1>2, <1>4, <1>5, <2>1, HandledProperties
  <2> QED BY <1>2, <2>2
<1>7. /\ \A f \in {"ACT_FOCUS", "SYN_FOCUS"} : f \in n <=> f \in fw.flags
      /\ ~OfPointer(e) => n = fw.flags
      /\ OfPointer(e) => ("PTR_FOCUS" \in n <=> Comes(e))
  BY <1>5 DEF Raw, OfPointer
<1> HIDE DEF u, e, r, w, n
<1>8. \A i \in 2 .. Len(q) : i - 1 \in 1 .. Len(r) /\ r[i - 1] = q[i]
  BY <1>3
<1>9. Have(w.flags) /\ ~w.heard => ~server'.viewable \/ VisibilityQueued(server')
  <2> SUFFICES ASSUME Have(w.flags) /\ ~w.heard, server.viewable
               PROVE  VisibilityQueued(server')
    BY <1>4
  <2>1. e.type # "VisibilityNotify" /\ VisibilityQueued(server)
    BY <1>6 DEF FocusInv
  <2>2. PICK i \in 1 .. Len(q) : Visibility(q[i])
    BY <2>1 DEF VisibilityQueued
  <2>3. i \in 2 .. Len(q)
    BY <2>1, <2>2, <1>3 DEF Visibility
  <2> QED BY <2>2, <2>3, <1>4, <1>8 DEF VisibilityQueued
<1>10. QueueSound(server', fw'.flags)
  <2>1. \/ ~OfPointer(e) /\ ("PTR_FOCUS" \in w.flags <=> "PTR_FOCUS" \in fw.flags)
        \/ OfPointer(e) /\ ("PTR_FOCUS" \in w.flags <=> Comes(e))
        \/ "PTR_FOCUS" \notin w.flags /\ Truth(server)
             /\ \E i \in 1 .. Len(r) : OfPointer(r[i])
        \/ "PTR_FOCUS" \notin w.flags /\ ~Truth(server)
    <3> SUFFICES ASSUME "PTR_FOCUS" \notin w.flags, "PTR_FOCUS" \in n, Truth(server)
                 PROVE  \E i \in 1 .. Len(r) : OfPointer(r[i])
      BY <1>6, <1>7
    <3>1. VisibilityQueued(server)
      BY <1>6 DEF FocusInv, Truth
    <3>2. PICK i \in 1 .. Len(q) : Visibility(q[i])
      BY <3>1 DEF VisibilityQueued
    <3>3. PICK j \in i + 1 .. Len(q) : OfPointer(q[j])
      BY <3>2 DEF FocusInv, QueueSound
    <3>4. j \in 2 .. Len(q)
      BY <1>3, <3>2, <3>3
    <3> QED BY <3>3, <3>4, <1>8
  <2>2. server \in ServerType /\ QueueSound(server, fw.flags)
    BY DEF FocusInv
  <2> QED BY <2>1, <2>2, <1>1, <1>4, QueueShrinks, ZenonT(60) DEF e, r
<1> QED BY <1>1, <1>4, <1>6, <1>7, <1>9, <1>10 DEF FocusInv

(* Giving the widget the keyboard focus of its shell keeps it. *)
LEMMA KeyboardFocusStep ==
    ASSUME FocusInv, KeyboardFocus
    PROVE  FocusInv'
<1> DEFINE u == [fw EXCEPT !.again = FALSE]
           e == [type |-> IF server.keyboard THEN "FocusOut" ELSE "FocusIn", kind |-> "SYN_FOCUS"]
           w == Handled(u, e, server.viewable, "as it is")
           n == Raw(fw.flags, e)
<1>1. server' = [server EXCEPT !.keyboard = ~@] /\ fw' = w
  BY DEF KeyboardFocus
<1>2. u.flags = fw.flags /\ u.heard = fw.heard /\ HeardSound(u)
  BY DEF FocusInv, HeardSound, WidgetType
<1>3. /\ server' \in ServerType /\ server'.queue = server.queue
      /\ server'.viewable = server.viewable /\ server'.inside = server.inside
      /\ server'.focus = server.focus /\ (server'.keyboard <=> ~server.keyboard)
      /\ server.viewable \in BOOLEAN
  BY <1>1 DEF FocusInv, ServerType
<1>4. /\ FlagOf(e) = "SYN_FOCUS" /\ e.type # "VisibilityNotify"
      /\ Comes(e) <=> ~server.keyboard
  BY DEF FlagOf, Comes
<1>5. /\ HeardSound(w)
      /\ \A f \in {"ACT_FOCUS", "SYN_FOCUS"} : f \in w.flags <=> f \in n
      /\ "PTR_FOCUS" \in w.flags => "PTR_FOCUS" \in n
      /\ "PTR_FOCUS" \in n => "PTR_FOCUS" \in w.flags \/ (Have(fw.flags) /\ ~fw.heard)
      /\ Have(w.flags) /\ ~w.heard => ~server.viewable \/ (Have(fw.flags) /\ ~fw.heard)
  <2> HIDE DEF u, e
  <2> QED BY <1>2, <1>3, <1>4, HandledProperties
<1>6. /\ "ACT_FOCUS" \in n <=> "ACT_FOCUS" \in fw.flags
      /\ "PTR_FOCUS" \in n <=> "PTR_FOCUS" \in fw.flags
      /\ "SYN_FOCUS" \in n <=> ~server.keyboard
  <2> HIDE DEF e
  <2> QED BY <1>4 DEF Raw
<1> HIDE DEF u, e, w, n
<1>7. VisibilityQueued(server') <=> VisibilityQueued(server)
  BY <1>3 DEF VisibilityQueued
<1>8. QueueSound(server', fw'.flags)
  <2>1. Truth(server') <=> Truth(server)
    BY <1>3 DEF Truth
  <2>2. \/ "PTR_FOCUS" \in w.flags <=> "PTR_FOCUS" \in fw.flags
        \/ /\ "PTR_FOCUS" \notin w.flags
           /\ ~Truth(server) \/ \E i \in 1 .. Len(server.queue) : OfPointer(server.queue[i])
    <3> SUFFICES ASSUME Have(fw.flags) /\ ~fw.heard, Truth(server)
                 PROVE  \E i \in 1 .. Len(server.queue) : OfPointer(server.queue[i])
      BY <1>5, <1>6
    <3>1. PICK i \in 1 .. Len(server.queue) : Visibility(server.queue[i])
      BY DEF FocusInv, Truth, VisibilityQueued
    <3>2. PICK j \in i + 1 .. Len(server.queue) : OfPointer(server.queue[j])
      BY <3>1 DEF FocusInv, QueueSound
    <3>3. j \in 1 .. Len(server.queue)
      BY <3>1, <3>2
    <3> QED BY <3>2, <3>3
  <2> QED BY <2>1, <2>2, <1>1, <1>3, QueueStays DEF FocusInv
<1> QED BY <1>1, <1>3, <1>5, <1>6, <1>7, <1>8 DEF FocusInv

(* A client that switches the cursor keeps it. *)
LEMMA CursorSwitchedStep ==
    ASSUME FocusInv, CursorSwitched
    PROVE  FocusInv'
<1> DEFINE u == [fw EXCEPT !.again = FALSE]
           w == TextCursorOn(u, "CURSOR_ON" \notin fw.flags)
<1>1. server' = server /\ fw' = w
  BY DEF CursorSwitched
<1>2. u.flags = fw.flags /\ u.heard = fw.heard /\ HeardSound(u)
  BY DEF FocusInv, HeardSound, WidgetType
<1>3. LET on == "CURSOR_ON" \notin fw.flags
      IN  /\ w \in WidgetType /\ w.drawn = Shape(w.flags)
          /\ w.flags = IF on THEN u.flags \cup {"CURSOR_ON"} ELSE u.flags \ {"CURSOR_ON"}
          /\ w.heard = u.heard /\ w.again = u.again
  <2>1. ("CURSOR_ON" \notin fw.flags) \in BOOLEAN /\ u \in WidgetType /\ u.drawn = Shape(u.flags)
    BY <1>2 DEF HeardSound
  <2> HIDE DEF u
  <2> QED BY <2>1, CursorProperties, Zenon
<1> HIDE DEF u, w
<1>4. \A f \in FocusFlags \ {"CURSOR_ON"} : f \in w.flags <=> f \in fw.flags
  BY <1>2, <1>3 DEF FocusFlags
<1>5. Have(w.flags) <=> Have(fw.flags)
  BY <1>4, HaveFlag DEF FocusFlags
<1>6. HeardSound(w)
  BY <1>2, <1>3, <1>4, <1>5 DEF HeardSound, FocusFlags
<1>7. QueueSound(server', fw'.flags)
  BY <1>1, <1>4, QueueStays DEF FocusInv, FocusFlags
<1> QED BY <1>1, <1>2, <1>3, <1>4, <1>5, <1>6, <1>7 DEF FocusInv, FocusFlags

(* An event on its way stays on its way when another is sent. *)
LEMMA VisibilityKept ==
    ASSUME NEW s \in ServerType, NEW t, NEW e \in Events, t.queue = s.queue \o <<e>>
    PROVE  VisibilityQueued(s) \/ Visibility(e) => VisibilityQueued(t)
<1> DEFINE q == t.queue  n == Len(s.queue)
<1>1. /\ Len(q) = n + 1 /\ n \in Nat /\ q[n + 1] = e
      /\ \A i \in 1 .. n : q[i] = s.queue[i]
  BY QueueAppended
<1> HIDE DEF q, n
<1>2. n + 1 \in 1 .. n + 1 /\ \A i \in 1 .. n : i \in 1 .. n + 1
  BY <1>1
<1> QED BY <1>1, <1>2 DEF VisibilityQueued, q, n

(* A step of the server keeps the invariant if what it sends keeps the     *)
(* events on their way sound, ...                                          *)
LEMMA ServerStep ==
    ASSUME FocusInv, fw' = fw, server' \in ServerType, server'.keyboard = server.keyboard,
           server'.inside => server'.viewable,
           \/ VisibilityQueued(server') \/ ~server'.viewable
           \/ server'.viewable = server.viewable
                /\ (VisibilityQueued(server) => VisibilityQueued(server')),
           QueueSound(server', fw.flags)
    PROVE  FocusInv'
BY DEF FocusInv

(* ... when it sends none ... *)
LEMMA NoEvent ==
    ASSUME FocusInv, fw' = fw, NEW now \in ServerType,
           now.queue = server.queue, now.keyboard = server.keyboard,
           now.inside => now.viewable, ~now.viewable \/ now.viewable = server.viewable,
           Truth(now) <=> Truth(server),
           server' = [now EXCEPT !.queue = @ \o <<>>]
    PROVE  FocusInv'
<1>1. server.queue \in Seq(Events) /\ now.queue \o <<>> = now.queue
  BY ConcatEmptySeq DEF FocusInv, ServerType
<1>2. server' = now
  BY <1>1 DEF ServerType
<1>3. QueueSound(now, fw.flags)
  BY QueueStays DEF FocusInv
<1>4. VisibilityQueued(now) <=> VisibilityQueued(server)
  BY DEF VisibilityQueued
<1> QED BY <1>2, <1>3, <1>4, ServerStep

(* ... and when it sends one. *)
LEMMA OneEvent ==
    ASSUME FocusInv, fw' = fw, NEW now \in ServerType, NEW e \in Events,
           now.queue = server.queue, now.keyboard = server.keyboard,
           now.inside => now.viewable,
           ~now.viewable \/ now.viewable = server.viewable \/ Visibility(e),
           \/ OfPointer(e) /\ (Comes(e) <=> Truth(now))
           \/ /\ ~OfPointer(e) /\ (Truth(now) <=> Truth(server))
              /\ Visibility(e) => ~Truth(now),
           server' = [now EXCEPT !.queue = @ \o <<e>>]
    PROVE  FocusInv'
<1>1. server.queue \o <<e>> \in Seq(Events) /\ server \in ServerType
  BY QueueAppended DEF FocusInv
<1>2. /\ server' \in ServerType /\ server'.queue = server.queue \o <<e>>
      /\ server'.focus = now.focus /\ server'.inside = now.inside
      /\ server'.viewable = now.viewable /\ server'.keyboard = now.keyboard
  <2> DEFINE q == server.queue \o <<e>>
  <2> HIDE DEF q
  <2>1. server' = [now EXCEPT !.queue = q] /\ q \in Seq(Events)
    BY <1>1 DEF q
  <2>2. /\ server' \in ServerType /\ server'.queue = q
        /\ server'.focus = now.focus /\ server'.inside = now.inside
        /\ server'.viewable = now.viewable /\ server'.keyboard = now.keyboard
    BY <2>1 DEF ServerType
  <2> QED BY <2>2 DEF q
<1>3. Truth(server') <=> Truth(now)
  BY <1>2 DEF Truth
<1>4. QueueSound(server', fw.flags)
  <2>1. QueueSound(server, fw.flags)
    BY DEF FocusInv
  <2>2. CASE OfPointer(e)
    BY <1>1, <1>2, <1>3, <2>1, <2>2, PointerTold
  <2>3. CASE ~OfPointer(e)
    BY <1>1, <1>2, <1>3, <2>1, <2>3, NothingTold
  <2> QED BY <2>2, <2>3
<1>5. VisibilityQueued(server) \/ Visibility(e) => VisibilityQueued(server')
  BY <1>1, <1>2, VisibilityKept, ZenonT(60)
<1> QED BY <1>2, <1>4, <1>5, ServerStep

(* A window manager that moves the focus keeps the invariant. *)
LEMMA FocusMovesStep ==
    ASSUME FocusInv, NEW to \in {"above", "elsewhere"}, FocusMoves(to)
    PROVE  FocusInv'
<1> DEFINE now == [server EXCEPT !.focus = to]
           e == [type |-> IF to = "above" THEN "FocusIn" ELSE "FocusOut", kind |-> "PTR_FOCUS"]
<1>1. server \in ServerType /\ server.focus # "window" /\ to # "window" /\ to # server.focus
  BY DEF FocusInv, ServerType, FocusMoves
<1>2. /\ now \in ServerType /\ now.focus = to /\ now.inside = server.inside
      /\ now.viewable = server.viewable /\ now.keyboard = server.keyboard
      /\ now.queue = server.queue
  BY <1>1 DEF ServerType
<1>3. fw' = fw /\ server' = [now EXCEPT !.queue = @ \o IF server.inside THEN <<e>> ELSE <<>>]
  BY <1>1 DEF FocusMoves, Happens, Focus
<1>4. now.inside => now.viewable
  BY <1>2 DEF FocusInv
<1>5. e \in Events /\ OfPointer(e) /\ (Comes(e) <=> to = "above")
  BY DEF Events, OfPointer, FlagOf, Comes
<1> HIDE DEF now, e
<1>6. CASE server.inside
  <2>1. Truth(now) <=> to = "above"
    BY <1>2, <1>6 DEF Truth
  <2>2. server' = [now EXCEPT !.queue = @ \o <<e>>]
    BY <1>3, <1>6
  <2> QED BY <1>2, <1>3, <1>4, <1>5, <2>1, <2>2, OneEvent
<1>7. CASE ~server.inside
  <2>1. ~Truth(now) /\ ~Truth(server)
    BY <1>2, <1>7 DEF Truth
  <2>2. server' = [now EXCEPT !.queue = @ \o <<>>]
    BY <1>3, <1>7
  <2> QED BY <1>2, <1>3, <1>4, <2>1, <2>2, NoEvent
<1> QED BY <1>6, <1>7

(* The event for a pointer that crosses the border of the window. *)
LEMMA CrossingProperties ==
    ASSUME server \in ServerType, NEW type \in {"EnterNotify", "LeaveNotify"}
    PROVE  LET e == [type |-> type, focus |-> server.focus # "elsewhere"]
           IN  /\ Crossing(type) = <<e>> /\ e \in Events /\ ~Visibility(e)
               /\ OfPointer(e) <=> server.focus = "above"
               /\ Comes(e) <=> type = "EnterNotify"
<1> DEFINE e == [type |-> type, focus |-> server.focus # "elsewhere"]
<1>1. (server.focus # "elsewhere") \in BOOLEAN /\ server.focus \in {"above", "elsewhere"}
  BY DEF ServerType
<1>2. e \in Events
  BY <1>1, Zenon DEF Events
<1>3. e.type = type /\ (e.focus <=> server.focus # "elsewhere")
  BY Zenon
<1>4. Crossing(type) = <<e>>
  BY DEF Crossing
<1> HIDE DEF e
<1>5. OfPointer(e) <=> e.focus
  BY <1>3 DEF OfPointer, FlagOf
<1> QED BY <1>1, <1>2, <1>3, <1>4, <1>5 DEF e, Comes, Visibility

(* A pointer that moves keeps the invariant. *)
LEMMA PointerMovesStep ==
    ASSUME FocusInv, PointerMoves
    PROVE  FocusInv'
<1> DEFINE now == [server EXCEPT !.inside = ~@]
           type == IF server.inside THEN "LeaveNotify" ELSE "EnterNotify"
           e == [type |-> type, focus |-> server.focus # "elsewhere"]
<1>1. /\ server \in ServerType /\ server.viewable /\ fw' = fw
      /\ server' = [now EXCEPT !.queue = @ \o Crossing(type)]
  BY DEF FocusInv, PointerMoves, Happens
<1>2. /\ now \in ServerType /\ now.focus = server.focus /\ (now.inside <=> ~server.inside)
      /\ now.viewable = server.viewable /\ now.keyboard = server.keyboard
      /\ now.queue = server.queue
  BY <1>1 DEF ServerType
<1>3. /\ Crossing(type) = <<e>> /\ e \in Events /\ ~Visibility(e)
      /\ OfPointer(e) <=> server.focus = "above"
      /\ Comes(e) <=> ~server.inside
  BY <1>1, CrossingProperties
<1> HIDE DEF now, e, type
<1>4. /\ OfPointer(e) => (Comes(e) <=> Truth(now))
      /\ ~OfPointer(e) => (Truth(now) <=> Truth(server))
  BY <1>2, <1>3 DEF Truth
<1>5. server' = [now EXCEPT !.queue = @ \o <<e>>]
  BY <1>1, <1>3
<1> QED BY <1>1, <1>2, <1>3, <1>4, <1>5, OneEvent

(* Unmapping the window keeps it. *)
LEMMA UnmapStep ==
    ASSUME FocusInv, Unmap
    PROVE  FocusInv'
<1> DEFINE now == [server EXCEPT !.viewable = FALSE, !.inside = FALSE]
           e == [type |-> "LeaveNotify", focus |-> server.focus # "elsewhere"]
<1>1. /\ server \in ServerType /\ fw' = fw
      /\ server' = [now EXCEPT !.queue = @ \o IF server.inside THEN Crossing("LeaveNotify") ELSE <<>>]
  BY DEF FocusInv, Unmap, Happens
<1>2. /\ now \in ServerType /\ now.focus = server.focus /\ ~now.inside
      /\ ~now.viewable /\ now.keyboard = server.keyboard
      /\ now.queue = server.queue
  BY <1>1 DEF ServerType
<1>3. /\ Crossing("LeaveNotify") = <<e>> /\ e \in Events /\ ~Visibility(e)
      /\ OfPointer(e) <=> server.focus = "above"
      /\ ~Comes(e)
  BY <1>1, CrossingProperties
<1> HIDE DEF now, e
<1>4. ~Truth(now)
  BY <1>2 DEF Truth
<1>5. CASE server.inside
  <2>1. server' = [now EXCEPT !.queue = @ \o <<e>>]
    BY <1>1, <1>3, <1>5
  <2>2. ~OfPointer(e) => ~Truth(server)
    BY <1>3 DEF Truth
  <2> QED BY <1>1, <1>2, <1>3, <1>4, <2>1, <2>2, OneEvent
<1>6. CASE ~server.inside
  <2>1. server' = [now EXCEPT !.queue = @ \o <<>>] /\ ~Truth(server)
    BY <1>1, <1>6 DEF Truth
  <2> QED BY <1>1, <1>2, <1>4, <2>1, NoEvent
<1> QED BY <1>5, <1>6

(* Mapping it keeps it. *)
LEMMA MapStep ==
    ASSUME FocusInv, NEW inside \in BOOLEAN, Map(inside)
    PROVE  FocusInv'
<1> DEFINE v == [type |-> "VisibilityNotify"]
           e == [type |-> "EnterNotify", focus |-> server.focus # "elsewhere"]
           now == [server EXCEPT !.viewable = TRUE, !.inside = inside]
           seen == [server EXCEPT !.queue = @ \o <<v>>]
<1>1. /\ server \in ServerType /\ fw' = fw /\ ~Truth(server)
      /\ server' = [now EXCEPT !.queue = @ \o (<<v>> \o IF inside THEN Crossing("EnterNotify") ELSE <<>>)]
  BY DEF FocusInv, Map, Happens, Truth
<1>2. /\ now \in ServerType /\ now.focus = server.focus /\ (now.inside <=> inside)
      /\ now.viewable /\ now.keyboard = server.keyboard
      /\ now.queue = server.queue
  BY <1>1 DEF ServerType
<1>3. v \in Events /\ Visibility(v) /\ ~OfPointer(v)
  BY DEF Events, Visibility, OfPointer, FlagOf
<1>4. /\ Crossing("EnterNotify") = <<e>> /\ e \in Events /\ ~Visibility(e)
      /\ OfPointer(e) <=> server.focus = "above"
      /\ Comes(e)
  BY <1>1, CrossingProperties
<1>5. /\ seen \in ServerType /\ seen.queue = server.queue \o <<v>>
      /\ seen.focus = server.focus /\ seen.inside = server.inside
  <2> DEFINE q == server.queue \o <<v>>
  <2> HIDE DEF v
  <2>1. q \in Seq(Events)
    BY <1>1, <1>3, QueueAppended
  <2>2. seen = [server EXCEPT !.queue = q]
    BY <1>1 DEF ServerType
  <2> HIDE DEF q, seen
  <2>3. /\ seen \in ServerType /\ seen.queue = q
        /\ seen.focus = server.focus /\ seen.inside = server.inside
    BY <1>1, <2>1, <2>2 DEF ServerType
  <2> QED BY <2>3 DEF q
<1>6. /\ seen.queue \o <<e>> = server.queue \o (<<v>> \o <<e>>)
      /\ seen.queue \o <<e>> \in Seq(Events)
  <2>1. server.queue \in Seq(Events) /\ <<v>> \in Seq(Events) /\ <<e>> \in Seq(Events)
    BY <1>1, <1>3, <1>4 DEF ServerType
  <2> HIDE DEF seen, e, v
  <2>2. (server.queue \o <<v>>) \o <<e>> = server.queue \o (<<v>> \o <<e>>)
    BY <2>1, ConcatAssociative
  <2> QED BY <2>1, <2>2, <1>4, <1>5, QueueAppended
<1> HIDE DEF v, e, now, seen
<1>7. CASE ~inside
  <2>1. <<v>> \o <<>> = <<v>>
    BY <1>3, ConcatEmptySeq
  <2>2. server' = [now EXCEPT !.queue = @ \o <<v>>] /\ ~Truth(now)
    BY <1>1, <1>2, <1>7, <2>1 DEF Truth
  <2> QED BY <1>1, <1>2, <1>3, <1>7, <2>2, OneEvent
<1>8. CASE inside
  <2>1. /\ server' \in ServerType /\ server'.queue = seen.queue \o <<e>>
        /\ server'.focus = server.focus /\ server'.inside /\ server'.viewable
        /\ server'.keyboard = server.keyboard
    <3> DEFINE q == seen.queue \o <<e>>
    <3>1. server' = [now EXCEPT !.queue = q] /\ q \in Seq(Events)
      BY <1>1, <1>2, <1>4, <1>6, <1>8
    <3> HIDE DEF q
    <3>2. /\ server' \in ServerType /\ server'.queue = q
          /\ server'.focus = server.focus /\ server'.inside /\ server'.viewable
          /\ server'.keyboard = server.keyboard
      BY <3>1, <1>2, <1>8 DEF ServerType
    <3> QED BY <3>2 DEF q
  <2>2. ~Truth(seen) /\ QueueSound(server, fw.flags)
    BY <1>1, <1>5 DEF Truth, FocusInv
  <2>3. QueueSound(seen, fw.flags)
    BY <1>1, <1>3, <1>5, <2>2, NothingTold
  <2>4. Truth(server') <=> server.focus = "above"
    BY <2>1 DEF Truth
  <2>5. QueueSound(server', fw.flags)
    <3>1. CASE OfPointer(e)
      BY <1>4, <1>5, <2>1, <2>3, <2>4, <3>1, PointerTold
    <3>2. CASE ~OfPointer(e)
      BY <1>4, <1>5, <2>1, <2>2, <2>3, <2>4, <3>2, NothingTold
    <3> QED BY <3>1, <3>2
  <2>6. VisibilityQueued(server')
    <3>1. VisibilityQueued(seen)
      BY <1>1, <1>3, <1>5, VisibilityKept
    <3> QED BY <1>4, <1>5, <2>1, <3>1, VisibilityKept
  <2> QED BY <1>1, <2>1, <2>5, <2>6, ServerStep
<1> QED BY <1>7, <1>8

(* Every step of the focus keeps it. *)
LEMMA FocusStep ==
    ASSUME TameFocus, FocusInv, NextFocus \/ UNCHANGED focusvars
    PROVE  FocusInv'
<1>1. CASE EventHandler
  BY <1>1, EventHandlerStep
<1>2. CASE KeyboardFocus
  BY <1>2, KeyboardFocusStep
<1>3. CASE CursorSwitched
  BY <1>3, CursorSwitchedStep
<1>4. ASSUME NEW to \in {"above", "elsewhere"}, FocusMoves(to)
      PROVE  FocusInv'
  BY <1>4, FocusMovesStep
<1>5. CASE PointerMoves
  BY <1>5, PointerMovesStep
<1>6. CASE Unmap
  BY <1>6, UnmapStep
<1>7. ASSUME NEW inside \in BOOLEAN, Map(inside)
      PROVE  FocusInv'
  BY <1>7, MapStep
<1>8. CASE UNCHANGED focusvars
  BY <1>8 DEF focusvars, FocusInv, VisibilityQueued, QueueSound, Truth
<1> QED BY <1>1, <1>2, <1>3, <1>4, <1>5, <1>6, <1>7, <1>8 DEF NextFocus

(* The invariant holds at the start. *)
LEMMA InitFocusInv ==
    ASSUME InitFocus
    PROVE  FocusInv
<1>1. /\ fw.flags = {} /\ fw.drawn = "off" /\ ~fw.heard /\ ~fw.again /\ fw \in WidgetType
      /\ ~Have(fw.flags)
  BY DEF InitFocus, WidgetType, Have
<1>2. /\ server \in ServerType /\ server.queue = <<>> /\ ~server.inside /\ ~server.keyboard
  BY DEF InitFocus, ServerType
<1>3. HeardSound(fw)
  BY <1>1 DEF HeardSound, Shape
<1>4. QueueSound(server, fw.flags)
  <2>1. Len(server.queue) = 0
    BY <1>2
  <2> QED BY <1>1, <1>2, <2>1 DEF QueueSound, Truth
<1> QED BY <1>1, <1>2, <1>3, <1>4 DEF FocusInv

(* The invariant says what the theorem says. *)
LEMMA FocusInvSound ==
    ASSUME FocusInv
    PROVE  FocusSound
<1>1. FocusTold
  <2>1. server.queue = <<>> => ~VisibilityQueued(server)
    BY DEF VisibilityQueued
  <2>2. server.queue = <<>> /\ server.viewable => (fw.heard <=> Have(fw.flags))
    BY <2>1 DEF FocusInv, HeardSound
  <2>3. fw.heard \in BOOLEAN /\ Have(fw.flags) \in BOOLEAN
    BY DEF FocusInv, HeardSound, WidgetType, Have
  <2> QED BY <2>2, <2>3, Zenon DEF FocusTold
<1>2. FocusTrue
  <2>1. server.queue = <<>> => ("PTR_FOCUS" \in fw.flags <=> Truth(server))
    BY DEF FocusInv, QueueSound
  <2>2. server.queue = <<>> =>
          (Have(fw.flags) <=> server.keyboard \/ (server.focus = "above" /\ server.inside))
    BY <2>1, HaveFlag DEF FocusInv, Truth
  <2>3. Have(fw.flags) \in BOOLEAN
    BY DEF Have
  <2> QED BY <2>2, <2>3, Zenon DEF FocusTrue
<1>3. ToldOnce /\ CursorDrawn
  BY DEF FocusInv, HeardSound, ToldOnce, CursorDrawn
<1> QED BY <1>1, <1>2, <1>3 DEF FocusSound

(* The invariant of the focus always holds, for any number of events on    *)
(* their way.                                                              *)
THEOREM FocusInvariant == TameFocus => (Spec => []FocusInv)
<1> SUFFICES ASSUME TameFocus
             PROVE  Spec => []FocusInv
  OBVIOUS
<1>1. Spec => Init /\ [][Next]_vars
  BY PTL DEF Spec
<1>2. Init => FocusInv
  BY InitFocusInv DEF Init
<1>3. FocusInv /\ [Next]_vars => FocusInv'
  <2> SUFFICES ASSUME FocusInv, [Next]_vars
               PROVE  FocusInv'
    OBVIOUS
  <2>1. NextFocus \/ UNCHANGED focusvars
    BY DEF Next, vars, OfButtons, Apart
  <2> QED BY <2>1, FocusStep
<1> QED BY <1>1, <1>2, <1>3, PTL

(* What the client believes of the focus is the truth when all events have *)
(* been handled, it is told once, and the cursor on the screen is the one  *)
(* the flags say.                                                          *)
THEOREM FocusIsTold == TameFocus => (Spec => []FocusSound)
<1> SUFFICES ASSUME TameFocus
             PROVE  Spec => []FocusSound
  OBVIOUS
<1>1. Spec => []FocusInv
  BY FocusInvariant
<1>2. FocusInv => FocusSound
  BY FocusInvSound
<1> QED BY <1>1, <1>2, PTL

-----------------------------------------------------------------------------
(* The buttons. *)

(* Whom a timer is for. *)
Clients == TextWidgets \cup {NoButton}

(* The buffer of the buttons. *)
BuffType ==
    [button : Buttons \cup {NoButton}, nclicks : Nat, mode : {"PRESS", "RELEASE", "HOLD"},
     lead : Int, due : Int, for : Clients, late : Nat]

(* The buttons that are down, and the pointer. *)
HandType == [down : SUBSET Buttons, for : Nat, in : TextWidgets, pos : Positions]

(* The buffer b, when h is the state of the hand: what is kept back has a  *)
(* timer; a button that is held has no clicks, and its timer is the second *)
(* of two multi-click times; and a button that has been pressed last has   *)
(* been down as long as the times of the buffer say.                       *)
BuffSound(b, h) ==
    IF b.button = NoButton THEN b.due = NoTimer /\ b.nclicks = 0
    ELSE /\ b.due \in Nat
         /\ b.mode = "HOLD" => b.lead = -MultiClick /\ b.nclicks = 0
         /\ b.mode # "HOLD" => b.lead >= 0 /\ b.lead + b.due - b.late <= MultiClick
         /\ b.mode = "RELEASE" => b.nclicks > 0 /\ b.button \notin h.down
         /\ b.mode # "RELEASE" =>
              /\ b.button \in h.down
              /\ \/ h.for >= 2 * MultiClick
                 \/ h.for >= MultiClick - b.lead - b.due + b.late

(* The inductive invariant of the timer. *)
ButtonInv ==
    /\ buff \in BuffType /\ hand \in HandType
    /\ BuffSound(buff, hand)
    /\ HoldIsHeld

(* What a client is owed of a button. *)
Debt(b, h, w, x) ==
    LET kept == IF w = h.in /\ x = b.button THEN b.nclicks ELSE 0
    IN [presses |-> IF kept > 0 /\ b.mode = "RELEASE" THEN kept - 1 ELSE kept, releases |-> kept]

(* What can be owed. *)
Debts == [presses : Int, releases : Int]

(* The inductive invariant of what is owed. *)
ClicksInv ==
    /\ owed \in [TextWidgets -> [Buttons -> Debts]]
    /\ \A w \in TextWidgets, x \in Buttons : owed[w][x] = Debt(buff, hand, w, x)
    /\ buff.button # NoButton => buff.for = hand.in

(* The buffer a is h with its timer started. *)
Again(a, h, l, i, w) ==
    /\ a \in BuffType /\ a.button = h.button /\ a.nclicks = h.nclicks
    /\ a.late = h.late /\ a.mode = h.mode
    /\ a.lead = l /\ a.due = i /\ a.for = w

(* A buffer whose timer is started is a buffer. *)
LEMMA Restarted ==
    ASSUME NEW h \in BuffType, NEW l \in Int, NEW i \in Int, NEW w \in Clients
    PROVE  Again([h EXCEPT !.lead = l, !.due = i, !.for = w], h, l, i, w)
  BY DEF BuffType, Again

(* What button_timeout does to a buffer that has a button: the timer is    *)
(* started again for the rest of the time, or to see if the button is      *)
(* held, or there is none.                                                 *)
LEMMA TimeoutProperties ==
    ASSUME NEW b \in BuffType, b.button # NoButton, NEW w \in Clients
    PROVE  LET u == ButtonTimeout(b, w)
           IN  /\ u \in BuffType
               /\ u.button = b.button /\ u.nclicks = b.nclicks /\ u.late = b.late
               /\ b.lead > 0 => u.mode = b.mode /\ u.lead = 0 /\ u.due = b.lead /\ u.for = w
               /\ b.lead = 0 /\ b.nclicks = 0 /\ b.mode # "HOLD" =>
                    u.mode = "HOLD" /\ u.lead = -MultiClick /\ u.due = MultiClick /\ u.for = w
               /\ b.lead <= 0 /\ (b.nclicks # 0 \/ b.mode = "HOLD") =>
                    u.mode = b.mode /\ u.lead = b.lead /\ u.due = NoTimer /\ u.for = b.for
<1> DEFINE holds == b.lead <= 0 /\ b.nclicks = 0 /\ b.mode # "HOLD"
           interval == IF holds THEN b.lead + MultiClick ELSE b.lead
           held == [b EXCEPT !.mode = IF holds THEN "HOLD" ELSE @]
           again == [held EXCEPT !.lead = b.lead - interval, !.due = interval, !.for = w]
           none == [held EXCEPT !.due = NoTimer]
           u == ButtonTimeout(b, w)
<1>1. u = IF interval > 0 THEN again ELSE none
  BY DEF ButtonTimeout
<1>2. MultiClick \in Nat /\ MultiClick > 0
  BY ButtonAssumption
<1>3. /\ held \in BuffType /\ held.button = b.button /\ held.nclicks = b.nclicks
      /\ held.late = b.late /\ held.lead = b.lead /\ held.due = b.due /\ held.for = b.for
      /\ held.mode = IF holds THEN "HOLD" ELSE b.mode
  BY DEF BuffType
<1>4. interval \in Int /\ b.lead \in Int /\ b.nclicks \in Nat
  BY <1>2 DEF BuffType
<1>5. /\ again \in BuffType /\ again.button = held.button /\ again.nclicks = held.nclicks
      /\ again.late = held.late /\ again.mode = held.mode
      /\ again.lead = b.lead - interval /\ again.due = interval /\ again.for = w
  <2> DEFINE l == b.lead - interval
  <2>1. held \in BuffType /\ interval \in Int /\ l \in Int
    BY <1>3, <1>4
  <2> HIDE DEF held, interval, l
  <2>2. Again([held EXCEPT !.lead = l, !.due = interval, !.for = w], held, l, interval, w)
    BY <2>1, Restarted
  <2> QED BY <2>2 DEF l, Again
<1>6. /\ none \in BuffType /\ none.button = held.button /\ none.nclicks = held.nclicks
      /\ none.late = held.late /\ none.mode = held.mode
      /\ none.lead = held.lead /\ none.due = NoTimer /\ none.for = held.for
  <2> HIDE DEF held
  <2> QED BY <1>3 DEF BuffType, NoTimer
<1>7. CASE interval > 0
  <2>1. u = again
    BY <1>1, <1>7
  <2> HIDE DEF u, again, held
  <2> QED BY <2>1, <1>2, <1>3, <1>4, <1>5, <1>7 DEF u
<1>8. CASE ~(interval > 0)
  <2>1. u = none
    BY <1>1, <1>8
  <2> HIDE DEF u, none, held
  <2> QED BY <2>1, <1>2, <1>3, <1>4, <1>6, <1>8 DEF u
<1> QED BY <1>7, <1>8

(* What flush_button does before anything else is told: the buffer is      *)
(* empty, and its clicks have been told, if there were any.                *)
LEMMA FlushProperties ==
    ASSUME NEW b \in BuffType, b.button = NoButton => b.due = NoTimer, NEW w
    PROVE  LET f == Flush(b, w, FALSE)
           IN  /\ f.b \in BuffType /\ f.b.button = NoButton /\ f.b.due = NoTimer /\ f.b.nclicks = 0
               /\ f.told = IF b.button # NoButton /\ b.nclicks # 0
                           THEN Tell(b.nclicks, b.mode, b.button) ELSE <<>>
<1>1. Empty \in BuffType /\ Empty.button = NoButton /\ Empty.due = NoTimer /\ Empty.nclicks = 0
  BY DEF Empty, BuffType, NoTimer, NoButton, Clients
<1> DEFINE f == Flush(b, w, FALSE)
           none == [b EXCEPT !.nclicks = 0, !.mode = "RELEASE"]
<1>2. CASE b.button = NoButton
  <2>1. none \in BuffType /\ none.button = NoButton /\ none.due = NoTimer /\ none.nclicks = 0
    BY <1>2 DEF BuffType
  <2>2. f = [b |-> none, told |-> <<>>]
    BY <1>2 DEF Flush
  <2> HIDE DEF none, f
  <2>3. f.b = none /\ f.told = <<>>
    BY <2>2
  <2>4. f.b \in BuffType /\ f.b.button = NoButton /\ f.b.due = NoTimer /\ f.b.nclicks = 0
    BY <2>1, <2>3
  <2>5. f.told = IF b.button # NoButton /\ b.nclicks # 0
                 THEN Tell(b.nclicks, b.mode, b.button) ELSE <<>>
    BY <2>3, <1>2
  <2> QED BY <2>4, <2>5 DEF f
<1>3. CASE b.button # NoButton
  <2>1. f = IF b.nclicks # 0 THEN [b |-> Empty, told |-> Tell(b.nclicks, b.mode, b.button)]
            ELSE [b |-> Empty, told |-> <<>>]
    BY <1>3 DEF Flush
  <2> HIDE DEF f
  <2>2. f.b = Empty
    BY <2>1
  <2>3. f.told = IF b.nclicks # 0 THEN Tell(b.nclicks, b.mode, b.button) ELSE <<>>
    BY <2>1
  <2>4. f.b \in BuffType /\ f.b.button = NoButton /\ f.b.due = NoTimer /\ f.b.nclicks = 0
    BY <2>2, <1>1
  <2>5. f.told = IF b.button # NoButton /\ b.nclicks # 0
                 THEN Tell(b.nclicks, b.mode, b.button) ELSE <<>>
    BY <2>3, <1>3
  <2> QED BY <2>4, <2>5 DEF f
<1> QED BY <1>2, <1>3

(* What is owed after at most two callbacks.                               *)
LEMMA OwingFew ==
    ASSUME NEW o, NEW x, NEW c, NEW d, NEW s, NEW n \in {0, 1, 2}, Len(s) = n,
           n > 0 => s[1] = c, n > 1 => s[2] = d
    PROVE  Owing(o, x, s) = IF n = 0 THEN o ELSE IF n = 1 THEN Less(o, x, c)
                            ELSE Less(Less(o, x, c), x, d)
<1> DEFINE F(f) == [i \in 0 .. Len(s) |-> IF i = 0 THEN o ELSE Less(f[i - 1], x, s[i])]
           left == CHOOSE f : f = F(f)
           g == [i \in 0 .. n |-> IF i = 0 THEN o ELSE IF i = 1 THEN Less(o, x, c)
                                  ELSE Less(Less(o, x, c), x, d)]
<1>1. g = F(g)
  <2>1. ASSUME NEW i \in 0 .. n
        PROVE  g[i] = IF i = 0 THEN o ELSE Less(g[i - 1], x, s[i])
    <3>1. CASE i = 0
      BY <3>1
    <3>2. CASE i = 1
      <4>1. n > 0 /\ g[i - 1] = o /\ g[i] = Less(o, x, c)
        BY <3>2
      <4> HIDE DEF g
      <4> QED BY <4>1, <3>2
    <3>3. CASE i = 2
      <4>1. n > 1 /\ g[i - 1] = Less(o, x, c) /\ g[i] = Less(Less(o, x, c), x, d)
        BY <3>3
      <4> HIDE DEF g
      <4> QED BY <4>1, <3>3
    <3> QED BY <3>1, <3>2, <3>3
  <2>2. F(g) = [i \in 0 .. n |-> IF i = 0 THEN o ELSE Less(g[i - 1], x, s[i])]
    OBVIOUS
  <2>3. g = [i \in 0 .. n |-> g[i]]
    OBVIOUS
  <2> HIDE DEF g, F
  <2> QED BY <2>1, <2>2, <2>3
<1>2. left = F(left)
  <2> HIDE DEF g, F
  <2> QED BY <1>1
<1>3. \A i \in 0 .. n : left[i] = IF i = 0 THEN o ELSE Less(left[i - 1], x, s[i])
  <2>1. left = [i \in 0 .. n |-> IF i = 0 THEN o ELSE Less(left[i - 1], x, s[i])]
    BY <1>2
  <2> HIDE DEF left
  <2> QED BY <2>1
<1> HIDE DEF left, g, F
<1>4. left[0] = o
  BY <1>3
<1>5. n > 0 => left[1] = Less(o, x, c)
  <2> SUFFICES ASSUME n > 0 PROVE left[1] = Less(o, x, c)
    OBVIOUS
  <2>1. 1 \in 0 .. n /\ 1 # 0 /\ 1 - 1 = 0
    OBVIOUS
  <2>2. left[1] = Less(left[1 - 1], x, s[1])
    BY <2>1, <1>3
  <2> QED BY <2>1, <2>2, <1>4
<1>6. n > 1 => left[2] = Less(Less(o, x, c), x, d)
  <2> SUFFICES ASSUME n > 1 PROVE left[2] = Less(Less(o, x, c), x, d)
    OBVIOUS
  <2>1. 2 \in 0 .. n /\ 2 # 0 /\ 2 - 1 = 1
    OBVIOUS
  <2>2. left[2] = Less(left[2 - 1], x, s[2])
    BY <2>1, <1>3
  <2> QED BY <2>1, <2>2, <1>5
<1>7. Owing(o, x, s) = left[Len(s)]
  BY DEF Owing, left, F
<1> QED BY <1>4, <1>5, <1>6, <1>7

(* What is owed after none. *)
LEMMA OwingNone ==
    ASSUME NEW o, NEW x
    PROVE  Owing(o, x, <<>>) = o
<1>1. Len(<<>>) = 0
  OBVIOUS
<1> QED BY <1>1, OwingFew

(* What is owed after one. *)
LEMMA OwingOne ==
    ASSUME NEW o, NEW x, NEW c
    PROVE  Owing(o, x, <<c>>) = Less(o, x, c)
<1>1. Len(<<c>>) = 1 /\ <<c>>[1] = c
  OBVIOUS
<1> QED BY <1>1, OwingFew

(* What is owed after two. *)
LEMMA OwingTwo ==
    ASSUME NEW o, NEW x, NEW c, NEW d
    PROVE  Owing(o, x, <<c, d>>) = Less(Less(o, x, c), x, d)
<1>1. Len(<<c, d>>) = 2 /\ <<c, d>>[1] = c /\ <<c, d>>[2] = d
  OBVIOUS
<1> QED BY <1>1, OwingFew

(* A client that is told e, after c or after nothing. *)
LEMMA OwingTold ==
    ASSUME NEW o, NEW x, NEW c, NEW e
    PROVE  /\ /\ Owing(o, x, <<>> \o <<e>>) = Less(o, x, e)
              /\ Last(<<>> \o <<e>>) = e /\ <<>> \o <<e>> # <<>>
           /\ /\ Owing(o, x, <<c>> \o <<e>>) = Less(Less(o, x, c), x, e)
              /\ Last(<<c>> \o <<e>>) = e /\ <<c>> \o <<e>> # <<>>
<1>1. <<>> \o <<e>> = <<e>> /\ <<c>> \o <<e>> = <<c, e>>
  BY SinglesConcatenated
<1>2. /\ Last(<<e>>) = e /\ <<e>> # <<>>
      /\ Last(<<c, e>>) = e /\ <<c, e>> # <<>>
  BY DEF Last
<1>3. Owing(o, x, <<e>>) = Less(o, x, e)
  BY OwingOne
<1>4. Owing(o, x, <<c, e>>) = Less(Less(o, x, c), x, e)
  BY OwingTwo
<1> QED BY <1>1, <1>2, <1>3, <1>4

(* Nothing is owed. *)
Zero == [presses |-> 0, releases |-> 0]

(* A press or a release that a client is owed as well. *)
LEMMA OwedMore ==
    ASSUME NEW w, owed[w] \in [Buttons -> Debts], NEW x \in Buttons, NEW y \in Buttons
    PROVE  LET o == owed[w][y]
           IN  /\ Pressed(w, x)[y] = IF y = x THEN [presses |-> o.presses + 1, releases |-> o.releases]
                                     ELSE o
               /\ Released(w, x)[y] = IF y = x THEN [presses |-> o.presses, releases |-> o.releases + 1]
                                      ELSE o
<1>1. owed[w][y] \in Debts
  OBVIOUS
<1>2. ASSUME NEW o \in Debts
      PROVE  /\ [o EXCEPT !.presses = @ + 1] = [presses |-> o.presses + 1, releases |-> o.releases]
             /\ [o EXCEPT !.releases = @ + 1] = [presses |-> o.presses, releases |-> o.releases + 1]
  BY DEF Debts
<1> QED BY <1>1, <1>2 DEF Pressed, Released

(* What is owed is settled when the client is told of it. *)
LEMMA DebtProperties ==
    ASSUME NEW b \in BuffType, NEW h, NEW w, NEW x,
           b.nclicks = 0 \/ b.mode # "HOLD"
    PROVE  LET kept == w = h.in /\ x = b.button /\ b.nclicks > 0
           IN  /\ Debt(b, h, w, x) \in Debts
               /\ ~kept => Debt(b, h, w, x) = Zero
               /\ kept => Debt(b, h, w, x) =
                    [presses |-> IF b.mode = "RELEASE" THEN b.nclicks - 1 ELSE b.nclicks,
                     releases |-> b.nclicks]
               /\ kept => Less(Debt(b, h, w, x), x,
                               [nclicks |-> b.nclicks, mode |-> b.mode, button |-> b.button]) = Zero
<1>1. b.nclicks \in Nat /\ b.mode \in {"PRESS", "RELEASE", "HOLD"}
  BY DEF BuffType
<1> DEFINE kept == w = h.in /\ x = b.button /\ b.nclicks > 0
<1>2. CASE ~kept
  BY <1>1, <1>2 DEF Debt, Zero, Debts
<1>3. CASE kept
  <2>1. Debt(b, h, w, x) = [presses |-> IF b.mode = "RELEASE" THEN b.nclicks - 1 ELSE b.nclicks,
                            releases |-> b.nclicks]
    BY <1>1, <1>3 DEF Debt
  <2>2. Debt(b, h, w, x) \in Debts
    BY <2>1, <1>1, <1>3 DEF Debts
  <2> DEFINE c == [nclicks |-> b.nclicks, mode |-> b.mode, button |-> b.button]
             o == Debt(b, h, w, x)
  <2>3. c.nclicks = b.nclicks /\ c.mode = b.mode /\ c.button = x
    BY <1>3
  <2>4. o.presses = (IF b.mode = "RELEASE" THEN b.nclicks - 1 ELSE b.nclicks) /\ o.releases = b.nclicks
    BY <2>1
  <2> HIDE DEF c, o
  <2>5. Presses(c) = o.presses /\ Releases(c) = o.releases
    BY <2>3, <2>4, <1>1, <1>3 DEF Presses, Releases
  <2>6. o.presses \in Int /\ o.releases \in Int
    BY <2>4, <1>1, <1>3
  <2>7. Less(o, x, c) = Zero
    BY <2>3, <2>5, <2>6 DEF Less, Zero
  <2> QED BY <2>1, <2>2, <2>7, <1>3 DEF c, o
<1> QED BY <1>2, <1>3

(* What is owed of y when the buffer has been flushed, button x has been   *)
(* pressed or released and the client told of all that: nothing.           *)
LEMMA AllTold ==
    ASSUME NEW b \in BuffType, NEW h, NEW x \in Buttons, NEW y \in Buttons,
           NEW m \in {"PRESS", "RELEASE"}, NEW o,
           BuffSound(b, h), b.button = x => b.nclicks = 0,
           LET d == Debt(b, h, h.in, y)
           IN  /\ y # x => o = d
               /\ y = x => o = IF m = "PRESS" THEN [presses |-> d.presses + 1, releases |-> d.releases]
                               ELSE [presses |-> d.presses, releases |-> d.releases + 1],
           NEW told,
           told = IF b.button # NoButton /\ b.nclicks # 0 THEN Tell(b.nclicks, b.mode, b.button) ELSE <<>>
    PROVE  /\ Owing(o, y, told \o Tell(0, m, x)) = Zero
           /\ Last(told \o Tell(0, m, x)) = [nclicks |-> 0, mode |-> m, button |-> x]
           /\ told \o Tell(0, m, x) # <<>>
<1> DEFINE c == [nclicks |-> b.nclicks, mode |-> b.mode, button |-> b.button]
           e == [nclicks |-> 0, mode |-> m, button |-> x]
           d == Debt(b, h, h.in, y)
<1>1. b.nclicks \in Nat /\ (b.nclicks # 0 => b.button # NoButton /\ b.mode # "HOLD")
  BY DEF BuffType, BuffSound
<1>2. /\ d \in Debts
      /\ ~(y = b.button /\ b.nclicks > 0) => d = Zero
      /\ y = b.button /\ b.nclicks > 0 => Less(d, y, c) = Zero
  BY <1>1, DebtProperties
<1>3. /\ y # x => Less(Zero, y, e) = Zero
      /\ y = x /\ m = "PRESS" => Less([presses |-> 1, releases |-> 0], y, e) = Zero
      /\ y = x /\ m = "RELEASE" => Less([presses |-> 0, releases |-> 1], y, e) = Zero
  BY DEF Less, Zero, Presses, Releases
<1>4. y = x => d = Zero /\ o = IF m = "PRESS" THEN [presses |-> 1, releases |-> 0]
                               ELSE [presses |-> 0, releases |-> 1]
  <2>1. Zero.presses = 0 /\ Zero.releases = 0
    BY DEF Zero
  <2> QED BY <2>1, <1>1, <1>2
<1>5. Tell(0, m, x) = <<e>> /\ Tell(b.nclicks, b.mode, b.button) = <<c>>
  BY DEF Tell
<1>6. c.button = b.button /\ e.button = x
  OBVIOUS
<1> HIDE DEF c, d, e
<1>7. /\ /\ Owing(o, y, <<>> \o <<e>>) = Less(o, y, e)
         /\ Last(<<>> \o <<e>>) = e /\ <<>> \o <<e>> # <<>>
      /\ /\ Owing(o, y, <<c>> \o <<e>>) = Less(Less(o, y, c), y, e)
         /\ Last(<<c>> \o <<e>>) = e /\ <<c>> \o <<e>> # <<>>
  BY ONLY OwingTold
<1>8. CASE b.nclicks = 0
  <2>1. told = <<>>
    BY <1>8
  <2>2. Less(o, y, e) = Zero
    BY <1>2, <1>3, <1>4, <1>8 DEF d
  <2> QED BY <2>1, <2>2, <1>5, <1>7 DEF e
<1>9. CASE b.nclicks # 0
  <2>1. told = <<c>>
    BY <1>1, <1>5, <1>9
  <2>2. b.button # x /\ b.nclicks > 0
    BY <1>1, <1>9
  <2>3. y = x => Less(Less(o, y, c), y, e) = Zero
    <3> SUFFICES ASSUME y = x PROVE Less(Less(o, y, c), y, e) = Zero
      OBVIOUS
    <3>1. Less(o, y, c) = o
      BY <2>2, <1>6 DEF Less
    <3> QED BY <3>1, <1>3, <1>4
  <2>4. y # x => Less(Less(o, y, c), y, e) = Zero
    <3> SUFFICES ASSUME y # x PROVE Less(Less(o, y, c), y, e) = Zero
      OBVIOUS
    <3>1. CASE y = b.button
      BY <3>1, <1>2, <1>3, <2>2 DEF d
    <3>2. CASE y # b.button
      <4>1. o = Zero /\ Less(o, y, c) = o
        BY <3>2, <1>2, <1>6 DEF d, Less
      <4> QED BY <4>1, <1>3
    <3> QED BY <3>1, <3>2
  <2> QED BY <2>1, <2>3, <2>4, <1>5, <1>7 DEF e
<1> QED BY <1>8, <1>9

(* After a step that tells the client of the pointer's widget, what it is  *)
(* owed is in the buffer if it is so for each button.                      *)
LEMMA ClicksAfter ==
    ASSUME ButtonInv, ClicksInv, NEW callbacks, NEW done, Told(hand.in, callbacks, done),
           hand'.in = hand.in, buff' \in BuffType, buff'.nclicks = 0 \/ buff'.mode # "HOLD",
           \A y \in Buttons : Owing(done[y], y, callbacks) = Debt(buff', hand', hand.in, y),
           buff'.button # NoButton => buff'.for = hand'.in
    PROVE  ClicksInv'
<1>1. hand.in \in TextWidgets
  BY DEF ButtonInv, HandType
<1>2. \A w \in TextWidgets, y \in Buttons : Debt(buff', hand', w, y) \in Debts
  BY DebtProperties
<1> DEFINE now == [y \in Buttons |-> Owing(done[y], y, callbacks)]
<1>3. owed' = [owed EXCEPT ![hand.in] = now]
  BY DEF Told
<1>4. now \in [Buttons -> Debts] /\ \A y \in Buttons : now[y] = Debt(buff', hand', hand.in, y)
  BY <1>1, <1>2
<1> HIDE DEF now
<1>5. owed' \in [TextWidgets -> [Buttons -> Debts]]
  BY <1>3, <1>4 DEF ClicksInv
<1>6. ASSUME NEW w \in TextWidgets, NEW y \in Buttons
      PROVE  owed'[w][y] = Debt(buff', hand', w, y)
  <2>1. CASE w = hand.in
    BY <2>1, <1>3, <1>4 DEF ClicksInv
  <2>2. CASE w # hand.in
    <3>1. owed'[w] = owed[w]
      BY <2>2, <1>3 DEF ClicksInv
    <3>2. Debt(buff', hand', w, y) = Debt(buff, hand, w, y)
      BY <2>2 DEF Debt
    <3> QED BY <3>1, <3>2 DEF ClicksInv
  <2> QED BY <2>1, <2>2
<1> QED BY <1>5, <1>6 DEF ClicksInv

(* After a step that tells a client of something, if at all, a button that *)
(* is said to be held is held.                                             *)
LEMMA HeldAfter ==
    ASSUME HoldIsHeld, NEW w, NEW callbacks, NEW done, Told(w, callbacks, done),
           callbacks # <<>> /\ Last(callbacks).mode = "HOLD" =>
               Last(callbacks).button \in hand'.down /\ hand'.for >= 2 * MultiClick
    PROVE  HoldIsHeld'
<1>1. CASE callbacks = <<>>
  BY <1>1 DEF Told, HoldIsHeld
<1>2. CASE callbacks # <<>>
  <2> DEFINE c == Last(callbacks)
  <2>1. said' = [mode |-> c.mode, nclicks |-> c.nclicks,
                 down |-> IF c.button \in hand'.down THEN hand'.for ELSE 0]
    BY <1>2 DEF Told
  <2> HIDE DEF c
  <2>2. said'.mode = c.mode /\ said'.down = IF c.button \in hand'.down THEN hand'.for ELSE 0
    BY <2>1
  <2> QED BY <2>2, <1>2 DEF HoldIsHeld, c
<1> QED BY <1>1, <1>2

(* A button that is kept back is pressed again. *)
LEMMA PressedAgain ==
    ASSUME ButtonInv, NEW x \in Buttons, ButtonPress(x), buff.button = x
    PROVE  ButtonInv' /\ (ClicksInv => ClicksInv')
<1>1. /\ x \notin hand.down /\ hand' = [hand EXCEPT !.down = @ \cup {x}, !.for = 0]
      /\ buff' = [buff EXCEPT !.mode = "PRESS", !.lead = MultiClick - Now(buff)]
      /\ Told(hand.in, <<>>, Pressed(hand.in, x))
  BY DEF ButtonPress
<1>2. MultiClick \in Nat /\ MultiClick > 0 /\ x # NoButton
  BY ButtonAssumption DEF NoButton
<1>3. /\ buff.mode = "RELEASE" /\ buff.nclicks > 0 /\ buff.lead >= 0 /\ buff.due \in Nat
      /\ buff.lead + buff.due - buff.late <= MultiClick
  BY <1>1, <1>2 DEF ButtonInv, BuffSound, BuffType
<1>4. Now(buff) = buff.due - buff.late
  BY <1>3 DEF Now, NoTimer
<1>5. buff.due \in Int /\ buff.late \in Nat /\ buff.lead \in Int /\ buff.nclicks \in Nat
  BY DEF ButtonInv, BuffType
<1>6. /\ buff' \in BuffType /\ buff'.mode = "PRESS" /\ buff'.lead = MultiClick - (buff.due - buff.late)
      /\ buff'.button = x /\ buff'.nclicks = buff.nclicks /\ buff'.due = buff.due
      /\ buff'.late = buff.late /\ buff'.for = buff.for
  <2>1. MultiClick - Now(buff) \in Int
    BY <1>2, <1>4, <1>5
  <2> QED BY <2>1, <1>1, <1>4 DEF ButtonInv, BuffType
<1>7. /\ hand' \in HandType /\ hand'.for = 0 /\ x \in hand'.down /\ hand'.in = hand.in
  BY <1>1 DEF ButtonInv, HandType
<1>8. BuffSound(buff', hand')
  BY <1>2, <1>3, <1>5, <1>6, <1>7 DEF BuffSound
<1>9. HoldIsHeld'
  BY <1>1, HeldAfter DEF ButtonInv
<1>10. ASSUME ClicksInv
       PROVE  ClicksInv'
  <2>1. hand.in \in TextWidgets /\ owed[hand.in] \in [Buttons -> Debts]
    BY <1>10 DEF ClicksInv, ButtonInv, HandType
  <2>2. ASSUME NEW y \in Buttons
        PROVE  Owing(Pressed(hand.in, x)[y], y, <<>>) = Debt(buff', hand', hand.in, y)
    <3>1. Owing(Pressed(hand.in, x)[y], y, <<>>) = Pressed(hand.in, x)[y]
      BY OwingNone
    <3>2. owed[hand.in][y] = Debt(buff, hand, hand.in, y)
      BY <2>1, <1>10 DEF ClicksInv
    <3>3. CASE y = x
      <4>1. owed[hand.in][y] = [presses |-> buff.nclicks - 1, releases |-> buff.nclicks]
        BY <3>2, <3>3, <1>3, <1>5 DEF Debt
      <4>2. Debt(buff', hand', hand.in, y) = [presses |-> buff.nclicks, releases |-> buff.nclicks]
        BY <3>3, <1>5, <1>6, <1>7 DEF Debt
      <4>3. Pressed(hand.in, x)[y] =
                [presses |-> owed[hand.in][y].presses + 1, releases |-> owed[hand.in][y].releases]
        BY <2>1, <3>3, OwedMore, ZenonT(60)
      <4>4. /\ owed[hand.in][y].presses + 1 = buff.nclicks
            /\ owed[hand.in][y].releases = buff.nclicks
        BY <4>1, <1>5
      <4> QED BY <3>1, <4>2, <4>3, <4>4
    <3>4. CASE y # x
      <4>1. Pressed(hand.in, x)[y] = owed[hand.in][y]
        BY <2>1, <3>4, OwedMore
      <4>2. Debt(buff', hand', hand.in, y) = Debt(buff, hand, hand.in, y)
        BY <3>4, <1>6 DEF Debt
      <4> QED BY <3>1, <3>2, <4>1, <4>2
    <3> QED BY <3>3, <3>4
  <2>3. buff'.button # NoButton => buff'.for = hand'.in
    BY <1>6, <1>7, <1>10, <1>2 DEF ClicksInv
  <2> QED BY <2>2, <2>3, <1>1, <1>6, <1>7, <1>10, ClicksAfter
<1> QED BY <1>6, <1>7, <1>8, <1>9, <1>10 DEF ButtonInv

(* What was kept back before x is pressed or released, m, is told, and     *)
(* then that; nothing is owed then.                                        *)
LEMMA ToldBefore ==
    ASSUME ButtonInv, NEW b \in BuffType, b.button = buff.button, b.nclicks = buff.nclicks,
           b.mode = buff.mode, b.due = buff.due, NEW x \in Buttons, buff.button = x => buff.nclicks = 0,
           NEW m \in {"PRESS", "RELEASE"}
    PROVE  LET f == Flush(b, hand.in, FALSE)
               callbacks == f.told \o Tell(0, m, x)
               done == IF m = "PRESS" THEN Pressed(hand.in, x) ELSE Released(hand.in, x)
           IN  /\ f.b \in BuffType /\ f.b.button = NoButton /\ f.b.due = NoTimer /\ f.b.nclicks = 0
               /\ callbacks # <<>> /\ Last(callbacks).mode # "HOLD"
               /\ ClicksInv => \A y \in Buttons : Owing(done[y], y, callbacks) = Zero
<1> DEFINE f == Flush(b, hand.in, FALSE)
           callbacks == f.told \o Tell(0, m, x)
           done == IF m = "PRESS" THEN Pressed(hand.in, x) ELSE Released(hand.in, x)
<1>1. b.button = NoButton => b.due = NoTimer
  BY DEF ButtonInv, BuffSound
<1>2. /\ f.b \in BuffType /\ f.b.button = NoButton /\ f.b.due = NoTimer /\ f.b.nclicks = 0
      /\ f.told = IF b.button # NoButton /\ b.nclicks # 0
                  THEN Tell(b.nclicks, b.mode, b.button) ELSE <<>>
  BY <1>1, FlushProperties
<1> HIDE DEF f
<1>3. f.told = IF buff.button # NoButton /\ buff.nclicks # 0
               THEN Tell(buff.nclicks, buff.mode, buff.button) ELSE <<>>
  BY <1>2
<1>4. buff \in BuffType /\ BuffSound(buff, hand)
  BY DEF ButtonInv
<1>5. callbacks # <<>> /\ Last(callbacks) = [nclicks |-> 0, mode |-> m, button |-> x]
  <2> DEFINE d == Debt(buff, hand, hand.in, x)
             o == IF m = "PRESS" THEN [presses |-> d.presses + 1, releases |-> d.releases]
                  ELSE [presses |-> d.presses, releases |-> d.releases + 1]
  <2>1. /\ x # x => o = Debt(buff, hand, hand.in, x)
        /\ x = x => o = IF m = "PRESS"
                        THEN [presses |-> Debt(buff, hand, hand.in, x).presses + 1,
                              releases |-> Debt(buff, hand, hand.in, x).releases]
                        ELSE [presses |-> Debt(buff, hand, hand.in, x).presses,
                              releases |-> Debt(buff, hand, hand.in, x).releases + 1]
    OBVIOUS
  <2> HIDE DEF d, o
  <2> QED BY <2>1, <1>3, <1>4, AllTold
<1>6. Last(callbacks).mode # "HOLD"
  <2> HIDE DEF callbacks
  <2> QED BY <1>5
<1>7. ASSUME ClicksInv, NEW y \in Buttons
      PROVE  Owing(done[y], y, callbacks) = Zero
  <2>1. hand.in \in TextWidgets /\ owed[hand.in] \in [Buttons -> Debts]
    BY <1>7 DEF ClicksInv, ButtonInv, HandType
  <2>2. owed[hand.in][y] = Debt(buff, hand, hand.in, y)
    BY <2>1, <1>7 DEF ClicksInv
  <2> DEFINE o == done[y]
  <2>3. LET d == Debt(buff, hand, hand.in, y)
        IN  /\ y # x => o = d
            /\ y = x => o = IF m = "PRESS" THEN [presses |-> d.presses + 1, releases |-> d.releases]
                            ELSE [presses |-> d.presses, releases |-> d.releases + 1]
    <3>1. m = "PRESS" => o = Pressed(hand.in, x)[y]
      OBVIOUS
    <3>2. m = "RELEASE" => o = Released(hand.in, x)[y]
      OBVIOUS
    <3>3. Pressed(hand.in, x)[y] =
            IF y = x THEN [presses |-> owed[hand.in][y].presses + 1, releases |-> owed[hand.in][y].releases]
            ELSE owed[hand.in][y]
      BY <2>1, OwedMore
    <3>4. Released(hand.in, x)[y] =
            IF y = x THEN [presses |-> owed[hand.in][y].presses, releases |-> owed[hand.in][y].releases + 1]
            ELSE owed[hand.in][y]
      BY <2>1, OwedMore
    <3> HIDE DEF o
    <3> QED BY <3>1, <3>2, <3>3, <3>4, <2>2
  <2> HIDE DEF o
  <2>4. Owing(o, y, f.told \o Tell(0, m, x)) = Zero
    BY <2>3, <1>3, <1>4, AllTold
  <2> QED BY <2>4 DEF o
<1> QED BY <1>2, <1>5, <1>6, <1>7 DEF f

(* A buffer with other times is a buffer. *)
LEMMA Timed ==
    ASSUME NEW u \in BuffType, NEW l \in Int, NEW z \in Nat
    PROVE  LET t == [u EXCEPT !.lead = l, !.late = z]
           IN  /\ t \in BuffType /\ t.button = u.button /\ t.mode = u.mode
               /\ t.nclicks = u.nclicks /\ t.lead = l /\ t.late = z
  BY DEF BuffType

(* The buffer of a button that has been told to be pressed. *)
LEMMA Refilled ==
    ASSUME NEW b \in BuffType, NEW x \in Buttons, MultiClick \in Nat
    PROVE  LET a == [b EXCEPT !.button = x, !.mode = "PRESS", !.lead = MultiClick, !.late = 0]
           IN  /\ a \in BuffType /\ a.button = x /\ a.mode = "PRESS" /\ a.lead = MultiClick
               /\ a.late = 0 /\ a.nclicks = b.nclicks
<1> DEFINE c == [b EXCEPT !.button = x, !.mode = "PRESS"]
           a == [b EXCEPT !.button = x, !.mode = "PRESS", !.lead = MultiClick, !.late = 0]
<1>1. /\ c \in BuffType /\ c.button = x /\ c.mode = "PRESS" /\ c.nclicks = b.nclicks
  BY DEF BuffType
<1>2. a = [c EXCEPT !.lead = MultiClick, !.late = 0]
  OBVIOUS
<1>3. MultiClick \in Int /\ 0 \in Nat
  OBVIOUS
<1> HIDE DEF a, c
<1>4. LET t == [c EXCEPT !.lead = MultiClick, !.late = 0]
      IN  /\ t \in BuffType /\ t.button = c.button /\ t.mode = c.mode
          /\ t.nclicks = c.nclicks /\ t.lead = MultiClick /\ t.late = 0
  BY <1>1, <1>3, Timed, Zenon
<1>5. a \in BuffType /\ a.button = c.button /\ a.mode = c.mode
          /\ a.nclicks = c.nclicks /\ a.lead = MultiClick /\ a.late = 0
  BY <1>2, <1>4
<1>6. /\ a \in BuffType /\ a.button = x /\ a.mode = "PRESS" /\ a.lead = MultiClick
               /\ a.late = 0 /\ a.nclicks = b.nclicks
  BY <1>1, <1>5
<1> QED BY <1>6 DEF a

(* Another button is pressed. *)
LEMMA PressedOther ==
    ASSUME ButtonInv, NEW x \in Buttons, ButtonPress(x), buff.button # x
    PROVE  ButtonInv' /\ (ClicksInv => ClicksInv')
<1> DEFINE f == Flush(buff, hand.in, FALSE)
           v == [f.b EXCEPT !.button = x, !.mode = "PRESS", !.lead = MultiClick, !.late = 0]
           callbacks == f.told \o Tell(0, "PRESS", x)
<1>1. /\ hand' = [hand EXCEPT !.down = @ \cup {x}, !.for = 0]
      /\ buff' = ButtonTimeout(v, hand.in)
      /\ Told(hand.in, callbacks, Pressed(hand.in, x))
  BY DEF ButtonPress
<1>2. MultiClick \in Nat /\ MultiClick > 0 /\ x # NoButton
  BY ButtonAssumption DEF NoButton
<1>3. /\ f.b \in BuffType /\ f.b.button = NoButton /\ f.b.due = NoTimer /\ f.b.nclicks = 0
      /\ callbacks # <<>> /\ Last(callbacks).mode # "HOLD"
      /\ ClicksInv => \A y \in Buttons : Owing(Pressed(hand.in, x)[y], y, callbacks) = Zero
  BY ToldBefore DEF ButtonInv
<1> HIDE DEF f
<1>4. v \in BuffType /\ v.button = x /\ v.mode = "PRESS" /\ v.lead = MultiClick /\ v.late = 0 /\ v.nclicks = 0
  BY <1>2, <1>3, Refilled
<1>5. hand.in \in Clients
  BY DEF ButtonInv, HandType, Clients
<1> HIDE DEF v, callbacks
<1>6. /\ buff' \in BuffType /\ buff'.button = x /\ buff'.nclicks = 0 /\ buff'.late = 0
      /\ buff'.mode = "PRESS" /\ buff'.lead = 0 /\ buff'.due = MultiClick /\ buff'.for = hand.in
  BY <1>1, <1>2, <1>4, <1>5, TimeoutProperties
<1>7. hand' \in HandType /\ hand'.for = 0 /\ x \in hand'.down /\ hand'.in = hand.in
  BY <1>1 DEF ButtonInv, HandType
<1>8. BuffSound(buff', hand')
  BY <1>2, <1>6, <1>7 DEF BuffSound
<1>9. HoldIsHeld'
  BY <1>1, <1>3, HeldAfter DEF ButtonInv
<1>10. ASSUME ClicksInv
       PROVE  ClicksInv'
  <2>1. \A y \in Buttons : Debt(buff', hand', hand.in, y) = Zero
    BY <1>6 DEF Debt, Zero
  <2>2. \A y \in Buttons : Owing(Pressed(hand.in, x)[y], y, callbacks) = Debt(buff', hand', hand.in, y)
    BY <2>1, <1>3, <1>10
  <2> QED BY <2>2, <1>1, <1>6, <1>7, <1>10, ClicksAfter
<1> QED BY <1>6, <1>7, <1>8, <1>9, <1>10 DEF ButtonInv

(* The button that is kept back is released, as one more click.            *)
LEMMA ReleasedClick ==
    ASSUME ButtonInv, NEW x \in Buttons, ButtonRelease(x), buff.button = x, buff.mode # "HOLD"
    PROVE  ButtonInv' /\ (ClicksInv => ClicksInv')
<1>1. /\ hand' = [hand EXCEPT !.down = @ \ {x}]
      /\ buff' = [buff EXCEPT !.nclicks = @ + 1, !.mode = "RELEASE", !.lead = MultiClick - Now(buff)]
      /\ Told(hand.in, <<>>, Released(hand.in, x))
      /\ x \in hand.down
  BY DEF ButtonRelease
<1>2. MultiClick \in Nat /\ MultiClick > 0 /\ x # NoButton
  BY ButtonAssumption DEF NoButton
<1>3. /\ buff.mode \in {"PRESS", "RELEASE"} /\ buff.lead >= 0 /\ buff.due \in Nat
      /\ buff.lead + buff.due - buff.late <= MultiClick
  BY <1>2 DEF ButtonInv, BuffSound, BuffType
<1>4. Now(buff) = buff.due - buff.late
  BY <1>3 DEF Now, NoTimer
<1>5. buff.due \in Int /\ buff.late \in Nat /\ buff.lead \in Int /\ buff.nclicks \in Nat
  BY DEF ButtonInv, BuffType
<1>6. /\ buff' \in BuffType /\ buff'.mode = "RELEASE"
      /\ buff'.lead = MultiClick - (buff.due - buff.late)
      /\ buff'.button = x /\ buff'.nclicks = buff.nclicks + 1 /\ buff'.due = buff.due
      /\ buff'.late = buff.late /\ buff'.for = buff.for
  <2>1. MultiClick - Now(buff) \in Int
    BY <1>2, <1>4, <1>5
  <2> DEFINE l == MultiClick - Now(buff)
             n == buff.nclicks + 1
  <2>2. l \in Int /\ n \in Nat
    BY <2>1, <1>5
  <2>3. buff' = [buff EXCEPT !.nclicks = n, !.mode = "RELEASE", !.lead = l]
    BY <1>1
  <2>4. l = MultiClick - (buff.due - buff.late)
    BY <1>4
  <2> HIDE DEF l, n
  <2>5. /\ buff' = [button |-> buff.button, nclicks |-> n, mode |-> "RELEASE", lead |-> l,
                    due |-> buff.due, for |-> buff.for, late |-> buff.late]
        /\ buff.for \in Clients
    BY <2>3 DEF ButtonInv, BuffType
  <2> QED BY <2>2, <2>4, <2>5, <1>5 DEF n, BuffType
<1>7. hand' \in HandType /\ hand'.in = hand.in /\ x \notin hand'.down
  BY <1>1 DEF ButtonInv, HandType
<1>8. BuffSound(buff', hand')
  BY <1>2, <1>3, <1>5, <1>6, <1>7 DEF BuffSound
<1>9. HoldIsHeld'
  BY <1>1, HeldAfter DEF ButtonInv
<1>10. ASSUME ClicksInv
       PROVE  ClicksInv'
  <2>1. hand.in \in TextWidgets /\ owed[hand.in] \in [Buttons -> Debts]
    BY <1>10 DEF ClicksInv, ButtonInv, HandType
  <2>2. ASSUME NEW y \in Buttons
        PROVE  Owing(Released(hand.in, x)[y], y, <<>>) = Debt(buff', hand', hand.in, y)
    <3>1. Owing(Released(hand.in, x)[y], y, <<>>) = Released(hand.in, x)[y]
      BY OwingNone
    <3>2. owed[hand.in][y] = Debt(buff, hand, hand.in, y)
      BY <2>1, <1>10 DEF ClicksInv
    <3>3. CASE y = x
      <4>1. owed[hand.in][y] = [presses |-> buff.nclicks, releases |-> buff.nclicks]
        <5>1. buff.mode = "PRESS"
          BY <1>1, <1>2, <1>3 DEF ButtonInv, BuffSound
        <5> QED BY <3>2, <3>3, <5>1, <1>5 DEF Debt
      <4>2. Debt(buff', hand', hand.in, y) = [presses |-> buff.nclicks, releases |-> buff.nclicks + 1]
        <5>1. buff'.nclicks > 0 /\ buff'.nclicks - 1 = buff.nclicks
          BY <1>5, <1>6
        <5> QED BY <5>1, <3>3, <1>6, <1>7 DEF Debt
      <4>3. Released(hand.in, x)[y] =
                [presses |-> owed[hand.in][y].presses, releases |-> owed[hand.in][y].releases + 1]
        <5>1. Released(hand.in, x)[y] =
                IF y = x THEN [presses |-> owed[hand.in][y].presses, releases |-> owed[hand.in][y].releases + 1]
                ELSE owed[hand.in][y]
          BY <2>1, OwedMore, ZenonT(60)
        <5> QED BY <5>1, <3>3
      <4>4. /\ owed[hand.in][y].presses = buff.nclicks
            /\ owed[hand.in][y].releases + 1 = buff.nclicks + 1
        BY <4>1
      <4> QED BY <3>1, <4>2, <4>3, <4>4
    <3>4. CASE y # x
      <4>1. Released(hand.in, x)[y] = owed[hand.in][y]
        BY <2>1, <3>4, OwedMore
      <4>2. Debt(buff', hand', hand.in, y) = Debt(buff, hand, hand.in, y)
        BY <3>4, <1>6 DEF Debt
      <4> QED BY <3>1, <3>2, <4>1, <4>2
    <3> QED BY <3>3, <3>4
  <2>3. buff'.button # NoButton => buff'.for = hand'.in
    BY <1>6, <1>7, <1>10, <1>2 DEF ClicksInv
  <2> QED BY <2>2, <2>3, <1>1, <1>6, <1>7, <1>10, ClicksAfter
<1> QED BY <1>6, <1>7, <1>8, <1>9, <1>10 DEF ButtonInv

(* Another button is released, or one that was held. *)
LEMMA ReleasedOther ==
    ASSUME ButtonInv, NEW x \in Buttons, ButtonRelease(x), buff.button # x \/ buff.mode = "HOLD"
    PROVE  ButtonInv' /\ (ClicksInv => ClicksInv')
<1> DEFINE b == [buff EXCEPT !.lead = MultiClick - Now(buff)]
           f == Flush(b, hand.in, FALSE)
           callbacks == f.told \o Tell(0, "RELEASE", x)
<1>1. /\ hand' = [hand EXCEPT !.down = @ \ {x}]
      /\ buff' = f.b
      /\ Told(hand.in, callbacks, Released(hand.in, x))
  BY DEF ButtonRelease
<1>2. MultiClick \in Nat /\ x # NoButton
  BY ButtonAssumption DEF NoButton
<1>3. /\ b \in BuffType /\ b.button = buff.button /\ b.nclicks = buff.nclicks
      /\ b.mode = buff.mode /\ b.due = buff.due
  <2>1. MultiClick - Now(buff) \in Int
    BY <1>2 DEF Now, ButtonInv, BuffType
  <2> QED BY <2>1 DEF ButtonInv, BuffType
<1>4. buff.button = x => buff.nclicks = 0
  BY <1>2 DEF ButtonInv, BuffSound
<1> HIDE DEF b
<1>5. /\ f.b \in BuffType /\ f.b.button = NoButton /\ f.b.due = NoTimer /\ f.b.nclicks = 0
      /\ callbacks # <<>> /\ Last(callbacks).mode # "HOLD"
      /\ ClicksInv => \A y \in Buttons : Owing(Released(hand.in, x)[y], y, callbacks) = Zero
  BY <1>3, <1>4, ToldBefore
<1> HIDE DEF f, callbacks
<1>6. hand' \in HandType /\ hand'.in = hand.in
  BY <1>1 DEF ButtonInv, HandType
<1>7. BuffSound(buff', hand')
  BY <1>1, <1>5 DEF BuffSound
<1>8. HoldIsHeld'
  BY <1>1, <1>5, HeldAfter DEF ButtonInv
<1>9. ASSUME ClicksInv
      PROVE  ClicksInv'
  <2>1. \A y \in Buttons : Debt(buff', hand', hand.in, y) = Zero
    BY <1>1, <1>5 DEF Debt, Zero
  <2>2. \A y \in Buttons : Owing(Released(hand.in, x)[y], y, callbacks) = Debt(buff', hand', hand.in, y)
    BY <2>1, <1>5, <1>9
  <2> QED BY <2>2, <1>1, <1>5, <1>6, <1>9, ClicksAfter
<1> QED BY <1>1, <1>5, <1>6, <1>7, <1>8, <1>9 DEF ButtonInv

(* A client that is told one thing. *)
LEMMA LastOne ==
    ASSUME NEW c
    PROVE  Last(<<c>>) = c /\ <<c>> # <<>>
  BY DEF Last

(* After a step that empties the buffer and tells of all that was in it    *)
(* the invariants hold.                                                    *)
LEMMA Emptied ==
    ASSUME ButtonInv, NEW w, NEW callbacks, NEW done, Told(w, callbacks, done),
           ClicksInv => w = hand.in,
           hand' \in HandType, hand'.in = hand.in,
           buff' \in BuffType, buff'.button = NoButton, buff'.due = NoTimer, buff'.nclicks = 0,
           callbacks # <<>> /\ Last(callbacks).mode = "HOLD" =>
               Last(callbacks).button \in hand'.down /\ hand'.for >= 2 * MultiClick,
           ClicksInv => \A y \in Buttons : Owing(done[y], y, callbacks) = Zero
    PROVE  ButtonInv' /\ (ClicksInv => ClicksInv')
<1>1. BuffSound(buff', hand')
  BY DEF BuffSound
<1>2. HoldIsHeld'
  BY HeldAfter DEF ButtonInv
<1>3. ASSUME ClicksInv
      PROVE  ClicksInv'
  <2>1. \A y \in Buttons : Debt(buff', hand', hand.in, y) = Zero
    BY DEF Debt, Zero
  <2>2. \A y \in Buttons : Owing(done[y], y, callbacks) = Debt(buff', hand', hand.in, y)
    BY <2>1, <1>3
  <2> QED BY <2>2, <1>3, ClicksAfter
<1> QED BY <1>1, <1>2, <1>3 DEF ButtonInv

(* After a step that tells nothing and leaves the clicks of the buffer as  *)
(* they are, the client is owed what is in the buffer.                     *)
LEMMA NoneTold ==
    ASSUME ButtonInv, NEW w, Told(w, <<>>, owed[w]), ClicksInv => w = hand.in,
           hand' \in HandType, hand'.in = hand.in,
           buff' \in BuffType, BuffSound(buff', hand'), buff'.button = buff.button,
           buff'.nclicks = buff.nclicks, buff'.mode = buff.mode \/ buff.nclicks = 0,
           ClicksInv /\ buff.button # NoButton => buff'.for = hand.in
    PROVE  ButtonInv' /\ (ClicksInv => ClicksInv')
<1>1. HoldIsHeld'
  BY HeldAfter DEF ButtonInv
<1>2. ASSUME ClicksInv
      PROVE  ClicksInv'
  <2>1. hand.in \in TextWidgets /\ buff.nclicks \in Nat
    BY DEF ButtonInv, HandType, BuffType
  <2>2. \A y \in Buttons : Debt(buff', hand', hand.in, y) = Debt(buff, hand, hand.in, y)
    BY <2>1 DEF Debt
  <2>3. \A y \in Buttons : Owing(owed[w][y], y, <<>>) = Debt(buff', hand', hand.in, y)
    BY <2>1, <2>2, <1>2, OwingNone DEF ClicksInv
  <2>4. buff'.nclicks = 0 \/ buff'.mode # "HOLD"
    BY <2>1, ButtonAssumption DEF ButtonInv, BuffSound
  <2> QED BY <2>3, <2>4, <1>2, ClicksAfter
<1> QED BY <1>1, <1>2 DEF ButtonInv

(* What flush_button tells when nothing else is to be told: all that is    *)
(* kept back.                                                              *)
LEMMA FlushTells ==
    ASSUME ButtonInv
    PROVE  LET f == Flush(buff, hand.in, FALSE)
           IN  /\ f.b \in BuffType /\ f.b.button = NoButton /\ f.b.due = NoTimer /\ f.b.nclicks = 0
               /\ f.told # <<>> => Last(f.told).mode # "HOLD"
               /\ ClicksInv => \A y \in Buttons : Owing(owed[hand.in][y], y, f.told) = Zero
<1> DEFINE f == Flush(buff, hand.in, FALSE)
           c == [nclicks |-> buff.nclicks, mode |-> buff.mode, button |-> buff.button]
<1>1. buff \in BuffType /\ (buff.button = NoButton => buff.due = NoTimer)
  BY DEF ButtonInv, BuffSound
<1>2. /\ f.b \in BuffType /\ f.b.button = NoButton /\ f.b.due = NoTimer /\ f.b.nclicks = 0
      /\ f.told = IF buff.button # NoButton /\ buff.nclicks # 0
                  THEN Tell(buff.nclicks, buff.mode, buff.button) ELSE <<>>
  BY <1>1, FlushProperties
<1> HIDE DEF f
<1>3. buff.nclicks \in Nat /\ (buff.nclicks = 0 \/ buff.mode # "HOLD")
  BY ButtonAssumption DEF ButtonInv, BuffSound, BuffType
<1>4. \A y \in Buttons : ClicksInv => owed[hand.in][y] = Debt(buff, hand, hand.in, y)
  BY DEF ClicksInv, ButtonInv, HandType
<1>5. CASE buff.button # NoButton /\ buff.nclicks # 0
  <2>1. f.told = <<c>>
    BY <1>2, <1>5 DEF Tell
  <2>2. c.mode = buff.mode /\ c.button = buff.button
    OBVIOUS
  <2> HIDE DEF c
  <2>3. f.told # <<>> => Last(f.told).mode # "HOLD"
    BY <2>1, <2>2, <1>3, <1>5, LastOne
  <2>4. ASSUME ClicksInv, NEW y \in Buttons
        PROVE  Owing(owed[hand.in][y], y, f.told) = Zero
    <3>1. Owing(owed[hand.in][y], y, f.told) = Less(owed[hand.in][y], y, c)
      BY <2>1, OwingOne
    <3>2. CASE y = buff.button
      <4>1. Less(Debt(buff, hand, hand.in, y), y, c) = Zero
        BY <3>2, <1>1, <1>3, <1>5, DebtProperties DEF c
      <4> QED BY <4>1, <3>1, <2>4, <1>4
    <3>3. CASE y # buff.button
      <4>1. Debt(buff, hand, hand.in, y) = Zero
        BY <3>3, <1>1, <1>3, DebtProperties
      <4> QED BY <4>1, <3>1, <3>3, <2>2, <2>4, <1>4 DEF Less
    <3> QED BY <3>2, <3>3
  <2> QED BY <1>2, <2>3, <2>4 DEF f
<1>6. CASE ~(buff.button # NoButton /\ buff.nclicks # 0)
  <2>1. f.told = <<>>
    BY <1>2, <1>6
  <2>2. ASSUME ClicksInv, NEW y \in Buttons
        PROVE  Owing(owed[hand.in][y], y, f.told) = Zero
    <3>1. y # NoButton
      BY ButtonAssumption DEF NoButton
    <3>2. Debt(buff, hand, hand.in, y) = Zero
      BY <3>1, <1>3, <1>6 DEF Debt, Zero
    <3> QED BY <3>2, <2>1, <2>2, <1>4, OwingNone
  <2> QED BY <1>2, <2>1, <2>2 DEF f
<1> QED BY <1>5, <1>6

(* A key comes. *)
LEMMA KeyStep ==
    ASSUME ButtonInv, Key
    PROVE  ButtonInv' /\ (ClicksInv => ClicksInv')
<1> DEFINE f == Flush(buff, hand.in, FALSE)
<1>1. /\ hand' = hand
      /\ buff' = f.b
      /\ Told(hand.in, f.told, owed[hand.in])
  BY DEF Key
<1>2. /\ f.b \in BuffType /\ f.b.button = NoButton /\ f.b.due = NoTimer /\ f.b.nclicks = 0
      /\ f.told # <<>> => Last(f.told).mode # "HOLD"
      /\ ClicksInv => \A y \in Buttons : Owing(owed[hand.in][y], y, f.told) = Zero
  BY FlushTells
<1>3. hand' \in HandType /\ hand'.in = hand.in
  BY <1>1 DEF ButtonInv
<1> HIDE DEF f
<1> QED BY <1>1, <1>2, <1>3, Emptied

(* The pointer moves. *)
LEMMA MotionStep ==
    ASSUME ButtonInv, NEW pos \in Positions, Motion(pos)
    PROVE  ButtonInv' /\ (ClicksInv => ClicksInv')
<1> DEFINE f == Flush(buff, hand.in, FALSE)
<1>1. hand' = [hand EXCEPT !.pos = pos]
  BY DEF Motion
<1>2. hand' \in HandType /\ hand'.in = hand.in /\ hand'.down = hand.down /\ hand'.for = hand.for
  BY <1>1 DEF ButtonInv, HandType
<1>3. \/ buff' = buff /\ Told(hand.in, <<>>, owed[hand.in])
      \/ buff' = f.b /\ Told(hand.in, f.told, owed[hand.in])
  BY DEF Motion
<1>4. CASE buff' = buff /\ Told(hand.in, <<>>, owed[hand.in])
  <2>1. buff' \in BuffType /\ BuffSound(buff', hand')
    BY <1>2, <1>4 DEF ButtonInv, BuffSound
  <2>2. ClicksInv /\ buff.button # NoButton => buff'.for = hand.in
    BY <1>4 DEF ClicksInv
  <2> QED BY <2>1, <2>2, <1>2, <1>4, NoneTold
<1>5. CASE buff' = f.b /\ Told(hand.in, f.told, owed[hand.in])
  <2>1. /\ f.b \in BuffType /\ f.b.button = NoButton /\ f.b.due = NoTimer /\ f.b.nclicks = 0
        /\ f.told # <<>> => Last(f.told).mode # "HOLD"
        /\ ClicksInv => \A y \in Buttons : Owing(owed[hand.in][y], y, f.told) = Zero
    BY FlushTells
  <2> HIDE DEF f
  <2> QED BY <2>1, <1>2, <1>5, Emptied
<1> QED BY <1>3, <1>4, <1>5

(* The timer has expired and there is time left: it is started again, and  *)
(* a button that is down by then is held.                                  *)
LEMMA TimerAgain ==
    ASSUME ButtonInv, NEW w \in Clients, buff.due = 0, hand' = hand, Told(w, <<>>, owed[w]),
           ClicksInv => w = hand.in,
           buff.lead > 0 \/ (buff.lead = 0 /\ buff.nclicks = 0 /\ buff.mode # "HOLD"),
           NEW c \in BuffType, c.button = buff.button, c.nclicks = buff.nclicks,
           c.mode = buff.mode, c.lead = buff.lead, c.late = buff.late,
           buff' = ButtonTimeout(c, w)
    PROVE  ButtonInv' /\ (ClicksInv => ClicksInv')
<1>1. MultiClick \in Nat /\ MultiClick > 0
  BY ButtonAssumption
<1>2. /\ buff.button # NoButton
      /\ buff.lead \in Int /\ buff.nclicks \in Nat /\ buff.late \in Nat
      /\ buff.mode \in {"PRESS", "RELEASE", "HOLD"} /\ hand.for \in Nat
  BY DEF ButtonInv, BuffSound, BuffType, HandType, NoTimer
<1>3. /\ buff.mode # "HOLD"
      /\ buff.lead - buff.late <= MultiClick
      /\ buff.mode = "RELEASE" => buff.nclicks > 0 /\ buff.button \notin hand.down
      /\ buff.mode = "PRESS" =>
           /\ buff.button \in hand.down
           /\ hand.for >= 2 * MultiClick \/ hand.for >= MultiClick - buff.lead + buff.late
  BY <1>1, <1>2 DEF ButtonInv, BuffSound
<1>4. /\ buff' \in BuffType /\ buff'.button = buff.button /\ buff'.nclicks = buff.nclicks
      /\ buff'.late = buff.late
      /\ buff.lead > 0 => buff'.mode = buff.mode /\ buff'.lead = 0 /\ buff'.due = buff.lead /\ buff'.for = w
      /\ ~(buff.lead > 0) => buff'.mode = "HOLD" /\ buff'.lead = -MultiClick
                             /\ buff'.due = MultiClick /\ buff'.for = w
  BY <1>2, <1>3, TimeoutProperties
<1>5. BuffSound(buff', hand')
  <2>1. CASE buff.lead > 0
    BY <2>1, <1>1, <1>2, <1>3, <1>4 DEF BuffSound
  <2>2. CASE ~(buff.lead > 0)
    <3>1. buff.lead = 0 /\ buff.nclicks = 0 /\ buff.mode = "PRESS"
      BY <2>2, <1>2, <1>3
    <3>2. buff.button \in hand.down /\ (hand.for >= 2 * MultiClick \/ hand.for >= MultiClick + buff.late)
      BY <3>1, <1>1, <1>2, <1>3
    <3> QED BY <3>1, <3>2, <2>2, <1>1, <1>2, <1>4 DEF BuffSound
  <2> QED BY <2>1, <2>2
<1>6. hand' \in HandType /\ hand'.in = hand.in
  BY DEF ButtonInv
<1>7. buff'.mode = buff.mode \/ buff.nclicks = 0
  BY <1>2, <1>4
<1>8. ClicksInv /\ buff.button # NoButton => buff'.for = hand.in
  BY <1>2, <1>4
<1> QED BY <1>4, <1>5, <1>6, <1>7, <1>8, NoneTold

(* All times of the buffer b are over: what is kept back is to be told. *)
Over(b) ==
    \/ b.lead = 0 /\ b.nclicks # 0 /\ b.mode # "HOLD"
    \/ b.lead < 0 /\ b.nclicks = 0 /\ b.mode = "HOLD"

(* What flush_button does when the timer has expired. *)
Expiry(b, w) == Flush(b, w, TRUE)

(* A button that is down after clicks is held next, otherwise the buffer   *)
(* is empty.                                                               *)
LEMMA FlushExpires ==
    ASSUME NEW b \in BuffType, b.button # NoButton, NEW w \in Clients,
           Over(b)
    PROVE  LET f == Expiry(b, w)
           IN  /\ f.told = Tell(b.nclicks, b.mode, b.button)
               /\ b.mode # "PRESS" => f.b = Empty
               /\ b.mode = "PRESS" =>
                    /\ f.b \in BuffType /\ f.b.button = b.button /\ f.b.nclicks = 0
                    /\ f.b.late = b.late /\ f.b.mode = "HOLD" /\ f.b.lead = -MultiClick
                    /\ f.b.due = MultiClick /\ f.b.for = w
<1> DEFINE f == Expiry(b, w)
           v == [b EXCEPT !.nclicks = 0, !.due = NoTimer]
<1>1. /\ b.nclicks \in Nat /\ b.lead \in Int
      /\ b.nclicks # 0 => b.lead = 0 /\ b.mode # "HOLD"
      /\ b.nclicks = 0 => b.mode = "HOLD"
  BY DEF BuffType, Over
<1>2. CASE b.nclicks # 0
  <2>1. f = [b |-> IF b.mode = "PRESS" THEN ButtonTimeout(v, w) ELSE Empty,
             told |-> Tell(b.nclicks, b.mode, b.button)]
    BY <1>2 DEF Flush, Expiry
  <2> HIDE DEF f
  <2>2. /\ v \in BuffType /\ v.button = b.button /\ v.nclicks = 0 /\ v.lead = b.lead
        /\ v.mode = b.mode /\ v.late = b.late
    <3>1. ASSUME NEW n \in Nat, NEW d \in Int
          PROVE  LET u == [b EXCEPT !.nclicks = n, !.due = d]
                 IN  /\ u \in BuffType /\ u.button = b.button /\ u.nclicks = n /\ u.lead = b.lead
                     /\ u.mode = b.mode /\ u.late = b.late
      BY DEF BuffType
    <3>2. NoTimer \in Int /\ 0 \in Nat
      BY DEF NoTimer
    <3> QED BY <3>1, <3>2, ZenonT(60)
  <2> HIDE DEF v
  <2>3. f.told = Tell(b.nclicks, b.mode, b.button) /\ (b.mode # "PRESS" => f.b = Empty)
        /\ (b.mode = "PRESS" => f.b = ButtonTimeout(v, w))
    BY <2>1
  <2>4. ASSUME b.mode = "PRESS"
        PROVE  /\ f.b \in BuffType /\ f.b.button = b.button /\ f.b.nclicks = 0
               /\ f.b.late = b.late /\ f.b.mode = "HOLD" /\ f.b.lead = -MultiClick
               /\ f.b.due = MultiClick /\ f.b.for = w
    <3>1. v.lead = 0 /\ v.nclicks = 0 /\ v.mode # "HOLD" /\ v.button # NoButton
      BY <2>2, <2>4, <1>1, <1>2
    <3> QED BY <3>1, <2>2, <2>3, <2>4, TimeoutProperties
  <2> QED BY <2>3, <2>4 DEF f
<1>3. CASE b.nclicks = 0
  <2>1. b.mode = "HOLD"
    BY <1>1, <1>3
  <2>2. f = [b |-> Empty, told |-> Tell(0, "HOLD", b.button)]
    BY <1>3, <2>1 DEF Flush, Expiry
  <2> HIDE DEF f
  <2>3. f.told = Tell(b.nclicks, b.mode, b.button) /\ f.b = Empty
    BY <2>1, <2>2, <1>3
  <2> QED BY <2>1, <2>3 DEF f
<1> QED BY <1>2, <1>3

(* The timer has expired and all times are over: the clicks are told, or   *)
(* that the button is held.                                                *)
LEMMA TimerTells ==
    ASSUME ButtonInv, NEW w \in Clients, buff.due = 0, hand' = hand,
           ClicksInv => w = hand.in,
           Over(buff),
           NEW told, told = Tell(buff.nclicks, buff.mode, buff.button), Told(w, told, owed[w]),
           buff.mode # "PRESS" => buff' = Empty,
           buff.mode = "PRESS" =>
                /\ buff' \in BuffType /\ buff'.button = buff.button /\ buff'.nclicks = 0
                /\ buff'.late = buff.late /\ buff'.mode = "HOLD" /\ buff'.lead = -MultiClick
                /\ buff'.due = MultiClick /\ buff'.for = w
    PROVE  ButtonInv' /\ (ClicksInv => ClicksInv')
<1> DEFINE c == [nclicks |-> buff.nclicks, mode |-> buff.mode, button |-> buff.button]
<1>1. MultiClick \in Nat /\ MultiClick > 0
  BY ButtonAssumption
<1>2. /\ buff.button # NoButton
      /\ buff.lead \in Int /\ buff.nclicks \in Nat /\ buff.late \in Nat
      /\ buff.mode \in {"PRESS", "RELEASE", "HOLD"} /\ hand.for \in Nat
      /\ buff.nclicks # 0 => buff.lead = 0 /\ buff.mode # "HOLD"
      /\ buff.nclicks = 0 => buff.mode = "HOLD"
  BY DEF ButtonInv, BuffSound, BuffType, HandType, NoTimer, Over
<1>3. /\ buff.mode = "HOLD" => buff.lead = -MultiClick
      /\ buff.mode # "RELEASE" =>
           /\ buff.button \in hand.down
           /\ hand.for >= 2 * MultiClick \/ hand.for >= MultiClick - buff.lead + buff.late
  BY <1>1, <1>2 DEF ButtonInv, BuffSound
<1>4. /\ Told(w, <<c>>, owed[w])
      /\ buff.mode # "PRESS" => buff' = Empty
      /\ buff.mode = "PRESS" =>
           /\ buff' \in BuffType /\ buff'.button = buff.button /\ buff'.nclicks = 0
           /\ buff'.late = buff.late /\ buff'.mode = "HOLD" /\ buff'.lead = -MultiClick
           /\ buff'.due = MultiClick /\ buff'.for = w
  <2>1. told = <<c>>
    BY DEF Tell
  <2> HIDE DEF c
  <2> QED BY <2>1
<1>5. c.nclicks = buff.nclicks /\ c.mode = buff.mode /\ c.button = buff.button
  OBVIOUS
<1>6. ASSUME ClicksInv, NEW y \in Buttons
      PROVE  Owing(owed[w][y], y, <<c>>) = Zero
  <2>1. /\ owed[w][y] = Debt(buff, hand, hand.in, y)
        /\ Owing(owed[w][y], y, <<c>>) = Less(owed[w][y], y, c)
    BY <1>6, OwingOne DEF ClicksInv, ButtonInv, HandType
  <2>2. buff \in BuffType
    BY DEF ButtonInv
  <2>3. CASE y = buff.button /\ buff.nclicks # 0
    <3>1. Less(Debt(buff, hand, hand.in, y), y, c) = Zero
      BY <2>2, <2>3, <1>2, DebtProperties
    <3> QED BY <3>1, <2>1
  <2>4. CASE ~(y = buff.button /\ buff.nclicks # 0)
    <3>1. Debt(buff, hand, hand.in, y) = Zero
      BY <2>4, <1>2 DEF Debt, Zero
    <3>2. Less(Zero, y, c) = Zero
      <4> HIDE DEF c
      <4>1. CASE c.button # y
        BY <4>1 DEF Less
      <4>2. CASE c.button = y
        <5>1. c.nclicks = 0 /\ c.mode = "HOLD"
          BY <4>2, <2>4, <1>5, <1>2
        <5>2. Presses(c) = 0 /\ Releases(c) = 0 /\ Zero.presses = 0 /\ Zero.releases = 0
          BY <5>1 DEF Presses, Releases, Zero
        <5> QED BY <4>2, <5>2 DEF Less, Zero
      <4> QED BY <4>1, <4>2
    <3> QED BY <3>1, <3>2, <2>1
  <2> QED BY <2>3, <2>4
<1> HIDE DEF c
<1>7. hand' \in HandType /\ hand'.in = hand.in
  BY DEF ButtonInv
<1>8. Last(<<c>>).mode = "HOLD" => Last(<<c>>).button \in hand'.down /\ hand'.for >= 2 * MultiClick
  <2>1. ASSUME buff.mode = "HOLD"
        PROVE  buff.button \in hand.down /\ hand.for >= 2 * MultiClick
    BY <2>1, <1>1, <1>2, <1>3
  <2> QED BY <2>1, <1>5, LastOne
<1>9. CASE buff.mode # "PRESS"
  <2>1. /\ buff' \in BuffType /\ buff'.button = NoButton /\ buff'.due = NoTimer /\ buff'.nclicks = 0
    <3>1. Empty \in BuffType /\ Empty.button = NoButton /\ Empty.due = NoTimer /\ Empty.nclicks = 0
      BY DEF Empty, BuffType, NoTimer, NoButton, Clients
    <3> QED BY <3>1, <1>4, <1>9
  <2> QED BY <2>1, <1>4, <1>6, <1>7, <1>8, Emptied
<1>10. CASE buff.mode = "PRESS"
  <2>1. buff.lead = 0
    BY <1>2, <1>10
  <2>2. BuffSound(buff', hand')
    BY <2>1, <1>1, <1>2, <1>3, <1>4, <1>10 DEF BuffSound
  <2>3. HoldIsHeld'
    BY <1>4, <1>8, HeldAfter DEF ButtonInv
  <2>4. ASSUME ClicksInv
        PROVE  ClicksInv'
    <3>1. \A y \in Buttons : Debt(buff', hand', hand.in, y) = Zero
      BY <1>4, <1>10 DEF Debt, Zero
    <3>2. \A y \in Buttons : Owing(owed[w][y], y, <<c>>) = Debt(buff', hand', hand.in, y)
      BY <3>1, <2>4, <1>6
    <3> QED BY <3>2, <2>4, <1>4, <1>7, <1>10, ClicksAfter
  <2> QED BY <2>2, <2>3, <2>4, <1>4, <1>7, <1>10 DEF ButtonInv
<1> QED BY <1>9, <1>10

(* The timer of the Intrinsics has expired. *)
LEMMA TimerStep ==
    ASSUME ButtonInv, TimerExpires
    PROVE  ButtonInv' /\ (ClicksInv => ClicksInv')
<1> DEFINE c == [buff EXCEPT !.due = NoTimer]
           b == ButtonTimeout(c, buff.for)
           f == Expiry(b, buff.for)
<1>1. /\ buff.due = 0 /\ hand' = hand
      /\ IF b.button # NoButton /\ b.due = NoTimer
         THEN buff' = f.b /\ Told(buff.for, f.told, owed[buff.for])
         ELSE buff' = b /\ Told(buff.for, <<>>, owed[buff.for])
  BY DEF TimerExpires, Expiry
<1> HIDE DEF f
<1>2. /\ buff \in BuffType /\ buff.for \in Clients /\ buff.button # NoButton
      /\ buff.lead \in Int /\ buff.nclicks \in Nat
      /\ buff.mode = "HOLD" => buff.lead = -MultiClick /\ buff.nclicks = 0
      /\ buff.mode # "HOLD" => buff.lead >= 0
  BY <1>1 DEF ButtonInv, BuffSound, BuffType, NoTimer
<1>3. MultiClick \in Nat /\ MultiClick > 0
  BY ButtonAssumption
<1>4. ClicksInv => buff.for = hand.in
  BY <1>2 DEF ClicksInv
<1>5. /\ c \in BuffType /\ c.button = buff.button /\ c.nclicks = buff.nclicks
      /\ c.mode = buff.mode /\ c.lead = buff.lead /\ c.late = buff.late
  BY <1>2 DEF BuffType, NoTimer
<1> HIDE DEF c
<1>6. CASE buff.lead > 0 \/ (buff.lead = 0 /\ buff.nclicks = 0 /\ buff.mode # "HOLD")
  <2>1. b.due \in Int /\ b.due > 0
    <3>1. c.button # NoButton
      BY <1>2, <1>5
    <3>2. c.lead > 0 => b.due = c.lead
      BY <3>1, <1>2, <1>5, TimeoutProperties
    <3>3. c.lead = 0 /\ c.nclicks = 0 /\ c.mode # "HOLD" => b.due = MultiClick
      BY <3>1, <1>2, <1>5, TimeoutProperties
    <3> HIDE DEF b
    <3> QED BY <3>2, <3>3, <1>2, <1>3, <1>5, <1>6
  <2>2. buff' = b /\ Told(buff.for, <<>>, owed[buff.for])
    <3> HIDE DEF b
    <3> QED BY <2>1, <1>1 DEF NoTimer
  <2> QED BY <2>2, <1>1, <1>2, <1>4, <1>5, <1>6, TimerAgain
<1>7. CASE ~(buff.lead > 0 \/ (buff.lead = 0 /\ buff.nclicks = 0 /\ buff.mode # "HOLD"))
  <2>1. Over(buff)
    BY <1>2, <1>3, <1>7 DEF Over
  <2>2. /\ b \in BuffType /\ b.button = buff.button /\ b.nclicks = buff.nclicks
        /\ b.mode = buff.mode /\ b.lead = buff.lead /\ b.late = buff.late /\ b.due = NoTimer
    <3>1. c.button # NoButton /\ c.lead <= 0 /\ (c.nclicks # 0 \/ c.mode = "HOLD")
      BY <2>1, <1>2, <1>5 DEF Over
    <3>2. /\ b \in BuffType /\ b.button = c.button /\ b.nclicks = c.nclicks
          /\ b.mode = c.mode /\ b.lead = c.lead /\ b.late = c.late /\ b.due = NoTimer
      BY <3>1, <1>2, <1>5, TimeoutProperties
    <3> HIDE DEF b
    <3> QED BY <3>2, <1>5
  <2> HIDE DEF b
  <2>3. buff' = f.b /\ Told(buff.for, f.told, owed[buff.for])
    BY <2>2, <1>1, <1>2
  <2>4. /\ f.told = Tell(b.nclicks, b.mode, b.button)
        /\ b.mode # "PRESS" => f.b = Empty
        /\ b.mode = "PRESS" =>
             /\ f.b \in BuffType /\ f.b.button = b.button /\ f.b.nclicks = 0
             /\ f.b.late = b.late /\ f.b.mode = "HOLD" /\ f.b.lead = -MultiClick
             /\ f.b.due = MultiClick /\ f.b.for = buff.for
    <3>1. /\ b \in BuffType /\ buff.for \in Clients /\ b.button # NoButton
          /\ Over(b)
      BY <2>1, <2>2, <1>2 DEF Over
    <3> QED BY <3>1, FlushExpires DEF f
  <2>5. /\ f.told = Tell(buff.nclicks, buff.mode, buff.button)
        /\ buff.mode # "PRESS" => buff' = Empty
        /\ buff.mode = "PRESS" =>
             /\ buff' \in BuffType /\ buff'.button = buff.button /\ buff'.nclicks = 0
             /\ buff'.late = buff.late /\ buff'.mode = "HOLD" /\ buff'.lead = -MultiClick
             /\ buff'.due = MultiClick /\ buff'.for = buff.for
    BY <2>2, <2>3, <2>4
  <2>6. Told(buff.for, f.told, owed[buff.for]) /\ buff.due = 0 /\ hand' = hand /\ buff.for \in Clients
    BY <2>3, <1>1, <1>2
  <2> QED BY <2>1, <2>5, <2>6, <1>4, TimerTells
<1> QED BY <1>6, <1>7

(* Time passes. *)
LEMMA TickStep ==
    ASSUME ButtonInv, Tick
    PROVE  ButtonInv' /\ (ClicksInv => ClicksInv')
<1>1. /\ hand' = [hand EXCEPT !.for = LongAgo(@)]
      /\ owed' = owed /\ said' = said
  BY DEF Tick
<1>2. MultiClick \in Nat /\ MultiClick > 0
  BY ButtonAssumption
<1>3. /\ buff \in BuffType /\ hand \in HandType /\ BuffSound(buff, hand)
      /\ buff.lead \in Int /\ buff.due \in Int /\ buff.late \in Nat /\ buff.nclicks \in Nat
      /\ buff.mode \in {"PRESS", "RELEASE", "HOLD"} /\ hand.for \in Nat
  BY DEF ButtonInv, BuffType, HandType
<1>4. LongAgo(hand.for) = (IF hand.for < 2 * MultiClick THEN hand.for + 1 ELSE hand.for)
      /\ LongAgo(hand.for) \in Nat
  BY <1>2, <1>3 DEF LongAgo
<1>5. /\ hand' \in HandType /\ hand'.in = hand.in /\ hand'.down = hand.down
      /\ hand'.for = IF hand.for < 2 * MultiClick THEN hand.for + 1 ELSE hand.for
  BY <1>1, <1>3, <1>4 DEF HandType
<1>6. /\ buff' \in BuffType /\ buff'.button = buff.button /\ buff'.nclicks = buff.nclicks
      /\ buff'.mode = buff.mode /\ buff'.lead = buff.lead /\ buff'.for = buff.for
      /\ \/ buff'.due = NoTimer /\ buff.due = NoTimer
         \/ buff'.due \in Nat /\ buff.due \in Nat /\ buff'.due - buff'.late = buff.due - buff.late - 1
  <2>1. CASE buff.due = NoTimer
    <3>1. buff' = buff
      BY <2>1 DEF Tick, NoTimer
    <3> QED BY <3>1, <2>1, <1>3
  <2>2. CASE buff.due # NoTimer /\ buff.due > 0
    <3>1. buff' = [buff EXCEPT !.due = @ - 1]
      BY <2>2 DEF Tick
    <3>2. buff.due - 1 \in Int
      BY <1>3
    <3>3. /\ buff' \in BuffType /\ buff'.button = buff.button /\ buff'.nclicks = buff.nclicks
          /\ buff'.mode = buff.mode /\ buff'.lead = buff.lead /\ buff'.for = buff.for
          /\ buff'.due = buff.due - 1 /\ buff'.late = buff.late
      BY <3>1, <3>2, <1>3 DEF BuffType
    <3> QED BY <3>3, <2>2, <1>3
  <2>3. CASE buff.due # NoTimer /\ ~(buff.due > 0)
    <3>1. buff' = [buff EXCEPT !.late = @ + 1]
      BY <2>3 DEF Tick
    <3>2. buff.late + 1 \in Nat
      BY <1>3
    <3>3. /\ buff' \in BuffType /\ buff'.button = buff.button /\ buff'.nclicks = buff.nclicks
          /\ buff'.mode = buff.mode /\ buff'.lead = buff.lead /\ buff'.for = buff.for
          /\ buff'.due = buff.due /\ buff'.late = buff.late + 1
      BY <3>1, <3>2, <1>3 DEF BuffType
    <3>4. buff.due = 0
      BY <2>3, <1>3 DEF BuffSound
    <3> QED BY <3>3, <3>4, <1>3
  <2> QED BY <2>1, <2>2, <2>3
<1>7. BuffSound(buff', hand')
  <2>1. CASE buff.button = NoButton
    BY <2>1, <1>3, <1>6 DEF BuffSound, NoTimer
  <2>2. CASE buff.button # NoButton
    <3>1. buff.due \in Nat /\ buff'.due \in Nat /\ buff'.due - buff'.late = buff.due - buff.late - 1
      BY <2>2, <1>3, <1>6 DEF BuffSound, NoTimer
    <3>2. buff'.late \in Nat
      BY <1>6 DEF BuffType
    <3> QED BY <2>2, <3>1, <3>2, <1>2, <1>3, <1>5, <1>6 DEF BuffSound
  <2> QED BY <2>1, <2>2
<1>8. HoldIsHeld'
  BY <1>1 DEF ButtonInv, HoldIsHeld
<1>9. ASSUME ClicksInv
      PROVE  ClicksInv'
  <2>1. \A w, x : Debt(buff', hand', w, x) = Debt(buff, hand, w, x)
    BY <1>5, <1>6 DEF Debt
  <2> QED BY <2>1, <1>1, <1>5, <1>6, <1>9 DEF ClicksInv
<1> QED BY <1>5, <1>6, <1>7, <1>8, <1>9 DEF ButtonInv

(* The pointer goes to another widget. *)
LEMMA EnterStep ==
    ASSUME ButtonInv, NEW w \in TextWidgets, EnterWidget(w)
    PROVE  ButtonInv' /\ (TameButtons /\ ClicksInv => ClicksInv')
<1>1. /\ hand.down = {} /\ hand' = [hand EXCEPT !.in = w]
      /\ TameButtons => buff.button = NoButton
      /\ buff' = buff /\ owed' = owed /\ said' = said
  BY DEF EnterWidget
<1>2. hand' \in HandType /\ hand'.down = {}
  BY <1>1 DEF ButtonInv, HandType
<1>3. BuffSound(buff', hand')
  BY <1>1, <1>2 DEF ButtonInv, BuffSound
<1>4. HoldIsHeld'
  BY <1>1 DEF ButtonInv, HoldIsHeld
<1>5. ASSUME TameButtons, ClicksInv
      PROVE  ClicksInv'
  <2>1. buff.button = NoButton
    BY <1>1, <1>5
  <2>2. \A v \in TextWidgets, x \in Buttons : Debt(buff', hand', v, x) = Debt(buff, hand, v, x)
    BY <2>1, <1>1, ButtonAssumption DEF Debt, NoButton
  <2> QED BY <2>1, <2>2, <1>1, <1>5 DEF ClicksInv
<1> QED BY <1>1, <1>2, <1>3, <1>4, <1>5 DEF ButtonInv

(* Any step of the buttons. *)
LEMMA ButtonStep ==
    ASSUME ButtonInv, NextButtons \/ UNCHANGED buttonvars
    PROVE  ButtonInv' /\ (TameButtons /\ ClicksInv => ClicksInv')
<1>1. CASE UNCHANGED buttonvars
  <2>1. buff' = buff /\ hand' = hand /\ owed' = owed /\ said' = said
    BY <1>1 DEF buttonvars
  <2> QED BY <2>1 DEF ButtonInv, HoldIsHeld, ClicksInv
<1>2. ASSUME NEW x \in Buttons, ButtonPress(x)
      PROVE  ButtonInv' /\ (ClicksInv => ClicksInv')
  BY <1>2, PressedAgain, PressedOther
<1>3. ASSUME NEW x \in Buttons, ButtonRelease(x)
      PROVE  ButtonInv' /\ (ClicksInv => ClicksInv')
  BY <1>3, ReleasedClick, ReleasedOther
<1>4. CASE NextButtons
  BY <1>2, <1>3, <1>4, MotionStep, EnterStep, KeyStep, TimerStep, TickStep DEF NextButtons
<1> QED BY <1>1, <1>4

(* There is nothing in the buffer at first. *)
LEMMA InitButtonInv ==
    ASSUME InitButtons
    PROVE  ButtonInv /\ ClicksInv
<1>1. buff = Empty /\ said.mode = "RELEASE"
  BY DEF InitButtons
<1>2. Empty \in BuffType /\ Empty.button = NoButton /\ Empty.due = NoTimer /\ Empty.nclicks = 0
  BY DEF Empty, BuffType, NoTimer, NoButton, Clients
<1>3. hand \in HandType
  <2>1. (CHOOSE w \in TextWidgets : TRUE) \in TextWidgets
    BY ButtonAssumption
  <2> QED BY <2>1 DEF InitButtons, HandType
<1>4. /\ owed \in [TextWidgets -> [Buttons -> Debts]]
      /\ \A w \in TextWidgets, x \in Buttons : owed[w][x] = Zero
  BY DEF InitButtons, Debts, Zero
<1>5. \A w \in TextWidgets, x \in Buttons : Debt(buff, hand, w, x) = Zero
  BY <1>1, <1>2 DEF Debt, Zero
<1>6. BuffSound(buff, hand)
  BY <1>1, <1>2 DEF BuffSound
<1>7. HoldIsHeld
  BY <1>1 DEF HoldIsHeld
<1> QED BY <1>1, <1>2, <1>3, <1>4, <1>5, <1>6, <1>7 DEF ButtonInv, ClicksInv

(* The timer of the buffer tells of a held button no earlier than it says, *)
(* and there is none when nothing is kept back (button_timeout,            *)
(* flush_button): for any multi-click time, however late the timers and    *)
(* from whichever widget the button.                                       *)
THEOREM TimersSound == Spec => []TimerSound
<1>1. Spec => Init /\ [][Next]_vars
  BY PTL DEF Spec
<1>2. Init => ButtonInv
  BY InitButtonInv DEF Init
<1>3. ButtonInv /\ [Next]_vars => ButtonInv'
  <2> SUFFICES ASSUME ButtonInv, [Next]_vars
               PROVE  ButtonInv'
    OBVIOUS
  <2>1. NextButtons \/ UNCHANGED buttonvars
    BY DEF Next, vars, OfButtons, Apart
  <2> QED BY <2>1, ButtonStep
<1>4. ButtonInv => TimerSound
  <2> SUFFICES ASSUME ButtonInv
               PROVE  TimerSound
    OBVIOUS
  <2>1. buff.button # NoButton => buff.due # NoTimer
    BY DEF ButtonInv, BuffSound, NoTimer
  <2>2. buff.button = NoButton => buff.due = NoTimer
    BY DEF ButtonInv, BuffSound
  <2> QED BY <2>1, <2>2, ZenonT(60) DEF ButtonInv, TimerSound, TimerForBuffer
<1> QED BY <1>1, <1>2, <1>3, <1>4, PTL

(* Every press and release is told exactly once, or is in the buffer       *)
(* (flush_button, NotifyButtonEvent), for any number of widgets, buttons   *)
(* and clicks kept back, if no other widget is used within the multi-click *)
(* time.                                                                   *)
THEOREM EveryClickTold == TameButtons => (Spec => []ClicksTold)
<1> SUFFICES ASSUME TameButtons
             PROVE  Spec => []ClicksTold
  OBVIOUS
<1> DEFINE Inv == ButtonInv /\ ClicksInv
<1>1. Spec => Init /\ [][Next]_vars
  BY PTL DEF Spec
<1>2. Init => Inv
  BY InitButtonInv DEF Init
<1>3. Inv /\ [Next]_vars => Inv'
  <2> SUFFICES ASSUME Inv, [Next]_vars
               PROVE  Inv'
    OBVIOUS
  <2>1. NextButtons \/ UNCHANGED buttonvars
    BY DEF Next, vars, OfButtons, Apart
  <2> QED BY <2>1, ButtonStep
<1>4. Inv => ClicksTold
  BY DEF ClicksInv, ClicksTold, Debt
<1> HIDE DEF Inv
<1> QED BY <1>1, <1>2, <1>3, <1>4, PTL

-----------------------------------------------------------------------------
(* Colours. *)

(* The fonts that are drawn with are two, or one. *)
FontsApart(r) == r.fonts[1] = NoFont \/ r.fonts[1] # r.fonts[0]

(* The inductive invariant of the colours: besides contexts and shadows    *)
(* being current, the fonts differ, and no context is given in vain.       *)
ColourInv ==
    /\ DOMAIN array = Index /\ NoContext \notin DOMAIN given
    /\ ColoursCurrent
    /\ res # NoContext =>
        DOMAIN res = Resources /\ WellTyped(res) /\ DOMAIN res.fonts = Fonts /\ FontsApart(res)

(* There are finitely many contexts. *)
LEMMA IndexFinite == IsFiniteSet(Index)
<1> DEFINE Of(n, font, status) == {<<col, font, status>> : col \in 0 .. n - 1}
           C == {<<Cursor, 0, FALSE>>, <<Cursor, 0, TRUE>>}
           All == Of(NormalColors, 0, FALSE) \cup Of(NormalColors, 1, FALSE)
                    \cup Of(StatusColors, 0, TRUE) \cup Of(StatusColors, 1, TRUE) \cup C
<1>1. ASSUME NEW n \in Nat, NEW font, NEW status
      PROVE  IsFiniteSet(Of(n, font, status))
  <2> DEFINE g == [col \in 0 .. n - 1 |-> <<col, font, status>>]
  <2>1. g \in Surjection(0 .. n - 1, Of(n, font, status))
    BY DEF Surjection
  <2>2. IsFiniteSet(0 .. n - 1)
    BY FS_Interval
  <2> QED BY <2>1, <2>2, FS_Surjection
<1>2. Index \subseteq All
  <2>1. \A n, status : (0 .. n - 1) \X Fonts \X {status} = Of(n, 0, status) \cup Of(n, 1, status)
    BY DEF Fonts
  <2> HIDE DEF Of
  <2>2. /\ (0 .. NormalColors - 1) \X Fonts \X {FALSE}
              = Of(NormalColors, 0, FALSE) \cup Of(NormalColors, 1, FALSE)
        /\ (0 .. StatusColors - 1) \X Fonts \X {TRUE}
              = Of(StatusColors, 0, TRUE) \cup Of(StatusColors, 1, TRUE)
    BY <2>1
  <2> QED BY <2>2 DEF Index
<1> HIDE DEF Of
<1>3. NormalColors \in Nat /\ StatusColors \in Nat
  BY ColourAssumption
<1>4. /\ IsFiniteSet(Of(NormalColors, 0, FALSE)) /\ IsFiniteSet(Of(NormalColors, 1, FALSE))
      /\ IsFiniteSet(Of(StatusColors, 0, TRUE)) /\ IsFiniteSet(Of(StatusColors, 1, TRUE))
  BY <1>1, <1>3
<1>5. IsFiniteSet(C)
  <2>1. IsFiniteSet({<<Cursor, 0, FALSE>>}) /\ IsFiniteSet({<<Cursor, 0, TRUE>>})
    BY FS_Singleton
  <2>2. C = {<<Cursor, 0, FALSE>>} \cup {<<Cursor, 0, TRUE>>}
    OBVIOUS
  <2> QED BY <2>1, <2>2, FS_Union
<1> HIDE DEF C
<1> QED BY <1>2, <1>4, <1>5, FS_Union, FS_Subset

(* How many of the contexts which of an array are v. *)
Among(a, which, v) == Cardinality({i \in which : a[i] = v})

(* Those that are not among them are the others.                           *)
LEMMA UsesSplit ==
    ASSUME NEW a, DOMAIN a = Index, NEW which \in SUBSET Index, NEW v
    PROVE  /\ Uses(a, v) \in Nat /\ Among(a, which, v) \in Nat
           /\ Among(a, Index \ which, v) \in Nat
           /\ Uses(a, v) = Among(a, which, v) + Among(a, Index \ which, v)
           /\ Uses(a, v) = 0 <=> \A i \in Index : a[i] # v
<1> DEFINE S == {i \in Index : a[i] = v}
           T == {i \in which : a[i] = v}
           U == {i \in Index \ which : a[i] = v}
<1>1. S = T \cup U /\ T \cap U = {} /\ T \subseteq Index /\ U \subseteq Index /\ S \subseteq Index
  OBVIOUS
<1>2. IsFiniteSet(S) /\ IsFiniteSet(T) /\ IsFiniteSet(U)
  BY <1>1, IndexFinite, FS_Subset
<1>3. Cardinality(S) = Cardinality(T) + Cardinality(U) - Cardinality(T \cap U)
  BY <1>1, <1>2, FS_Union
<1>4. Cardinality(S) \in Nat /\ Cardinality(T) \in Nat /\ Cardinality(U) \in Nat
  BY <1>2, FS_CardinalityType
<1>5. Cardinality(T \cap U) = 0
  BY <1>1, FS_EmptySet
<1>6. Cardinality(S) = 0 <=> S = {}
  BY <1>2, FS_EmptySet
<1>7. Uses(a, v) = Cardinality(S)
  BY DEF Uses
<1>8. S = {} <=> \A i \in Index : a[i] # v
  OBVIOUS
<1>9. Among(a, which, v) = Cardinality(T) /\ Among(a, Index \ which, v) = Cardinality(U)
  BY DEF Among
<1> HIDE DEF S, T, U
<1>10. Cardinality(S) = Cardinality(T) + Cardinality(U)
  BY <1>3, <1>4, <1>5
<1> QED BY <1>4, <1>6, <1>7, <1>8, <1>9, <1>10

(* What is given is counted.                                               *)
LEMMA ContextsCounted ==
    ASSUME DOMAIN array = Index, NoContext \notin DOMAIN given, ContextsReleased,
           NEW r, NEW which \in SUBSET Index, GetNewGCs(r, which)
    PROVE  /\ array' = [i \in Index |-> IF i \in which THEN Context(r, i) ELSE array[i]]
           /\ DOMAIN array' = Index /\ NoContext \notin DOMAIN given' /\ ContextsReleased'
<1> DEFINE new == [i \in Index |-> IF i \in which THEN Context(r, i) ELSE array[i]]
           made == {new[i] : i \in which} \ {NoContext}
           G(v) == IF v \in DOMAIN given THEN given[v] ELSE 0
           Count(v) == G(v) + Among(new, which, v) - Among(array, which, v)
           D == {x \in DOMAIN given \cup made : Count(x) > 0}
<1>1. array' = new /\ given' = [v \in D |-> Count(v)]
  BY DEF GetNewGCs, Among
<1>2. DOMAIN new = Index
  OBVIOUS
<1>3. ASSUME NEW v, v # NoContext
      PROVE  Count(v) = Uses(new, v)
  <2>1. G(v) = Uses(array, v)
    <3>1. CASE v \in DOMAIN given
      BY <3>1, <1>3 DEF ContextsReleased
    <3>2. CASE v \notin DOMAIN given
      <4>1. \A i \in Index : array[i] # v
        BY <3>2, <1>3 DEF ContextsReleased
      <4> QED BY <4>1, <3>2, UsesSplit
    <3> QED BY <3>1, <3>2
  <2>2. {i \in Index \ which : new[i] = v} = {i \in Index \ which : array[i] = v}
    OBVIOUS
  <2>3. Among(new, Index \ which, v) = Among(array, Index \ which, v)
    BY <2>2 DEF Among
  <2> HIDE DEF new, G
  <2>4. /\ Uses(array, v) = Among(array, which, v) + Among(array, Index \ which, v)
        /\ Among(array, which, v) \in Nat /\ Among(array, Index \ which, v) \in Nat
    <3>1. DOMAIN array = Index
      OBVIOUS
    <3> HIDE DEF Count, made, D
    <3> QED BY <3>1, UsesSplit
  <2>5. /\ Uses(new, v) = Among(new, which, v) + Among(new, Index \ which, v)
        /\ Among(new, which, v) \in Nat /\ Among(new, Index \ which, v) \in Nat
    BY UsesSplit, <1>2
  <2> QED BY <2>1, <2>3, <2>4, <2>5
<1>4. NoContext \notin D
  OBVIOUS
<1>5. ASSUME NEW v \in {new[i] : i \in Index} \cup D, v # NoContext
      PROVE  v \in D /\ Count(v) = Uses(new, v)
  <2>1. CASE v \in D
    BY <2>1, <1>3, <1>5
  <2>2. CASE v \in {new[i] : i \in Index}
    <3>1. PICK i \in Index : new[i] = v
      BY <2>2
    <3>2. v \in made \/ v = array[i]
      BY <3>1, <1>5
    <3>3. v \in DOMAIN given \cup made
      BY <3>2, <1>5 DEF ContextsReleased
    <3>4. Uses(new, v) \in Nat /\ Uses(new, v) # 0
      <4> HIDE DEF new
      <4> QED BY <3>1, <1>2, UsesSplit
    <3>5. Count(v) = Uses(new, v)
      BY <1>3, <1>5
    <3> HIDE DEF new, made, Count
    <3> QED BY <3>3, <3>4, <3>5
  <2> QED BY <1>5, <2>1, <2>2
<1> HIDE DEF new, D, Count
<1>6. \A v \in {array'[i] : i \in Index} \cup DOMAIN given' :
            v # NoContext => v \in DOMAIN given' /\ given'[v] = Uses(array', v)
  BY <1>1, <1>5
<1> QED BY <1>1, <1>2, <1>4, <1>6 DEF new, ContextsReleased

(* A number of a colour that is not made anew stands for the same colours. *)
LEMMA ColoursSame ==
    ASSUME NEW old, NEW new, WellTyped(old), WellTyped(new), new.monochrome = old.monochrome,
           NEW col \in 0 .. NAllColors - 1, NEW status \in BOOLEAN,
           col \notin ColoursToRemake(old, new, status)
    PROVE  ColorFgBg(new, col, status) = ColorFgBg(old, col, status)
<1>1. CASE CheckAll(old, new)
  BY <1>1 DEF ColoursToRemake, Differing
<1>2. CASE ~CheckAll(old, new)
  <2>1. /\ new.foreground = old.foreground /\ new.background = old.background
        /\ new.status_foreground = old.status_foreground
        /\ new.status_background = old.status_background
        /\ new.default_color_mask = old.default_color_mask
    BY <1>2 DEF CheckAll, MainChanged, StatusChanged, Changed
  <2>2. 1 \in DOMAIN new.alt_colors /\ new.alt_colors[1] = old.alt_colors[1]
    BY <1>2, ColourAssumption DEF CheckAll, AltChanged, WellTyped
  <2>3. col # 0 => new.alt_colors[col] = old.alt_colors[col]
    BY <1>2 DEF ColoursToRemake, AltChanged, WellTyped
  <2>4. col # Cursor
    BY ColourAssumption DEF Cursor
  <2> QED BY <2>1, <2>2, <2>3, <2>4, ColourAssumption DEF ColorFgBg, Foreground, Background, Cursor
<1> QED BY <1>1, <1>2

(* The same for the cursor.  On a monochrome screen it has the colours of  *)
(* number 0 or of number 1.                                                *)
LEMMA CursorSame ==
    ASSUME NEW old, NEW new, WellTyped(old), WellTyped(new), new.monochrome = old.monochrome,
           new.monochrome => /\ new.alt_colors = old.alt_colors
                             /\ new.default_color_mask = old.default_color_mask,
           NEW status \in BOOLEAN, <<Cursor, 0, status>> \notin CursorsToRemake(old, new)
    PROVE  ColorFgBg(new, Cursor, status) = ColorFgBg(old, Cursor, status)
<1>1. <<Cursor, 0, status>> \in Cursors(status)
  BY DEF Cursors, Index
<1>2. /\ new.background = old.background /\ new.cursor_color = old.cursor_color
      /\ ~status => new.foreground = old.foreground
      /\ status => /\ new.status_foreground = old.status_foreground
                   /\ new.status_background = old.status_background
  BY <1>1 DEF CursorsToRemake, Changed, StatusChanged
<1>3. Foreground(new, status) = Foreground(old, status) /\ Background(new, status) = Background(old, status)
  BY <1>2 DEF Foreground, Background
<1>4. Cursor # 0 /\ Cursor # 1
  BY ColourAssumption DEF Cursor
<1>5. CASE new.monochrome
  BY <1>2, <1>3, <1>4, <1>5 DEF ColorFgBg
<1>6. CASE ~new.monochrome
  BY <1>2, <1>3, <1>4, <1>6 DEF ColorFgBg
<1> QED BY <1>5, <1>6

(* Shadows depend on what is looked at.                                    *)
LEMMA ShadowSame ==
    ASSUME NEW old, NEW new, WellTyped(old), WellTyped(new), new.monochrome = old.monochrome,
           ~ColoursChanged(old, new), NEW status \in BOOLEAN
    PROVE  /\ new.draw_shadow_mask = old.draw_shadow_mask
           /\ ShadowOf(new, status) = ShadowOf(old, status)
<1>1. new.draw_shadow_mask = old.draw_shadow_mask
  BY DEF ColoursChanged, Changed
<1>2. ASSUME NEW col \in 0 .. NAllColors - 1
      PROVE  ColorFgBg(new, col, status) = ColorFgBg(old, col, status)
  <2>1. col \notin ColoursToRemake(old, new, status)
    BY DEF ColoursChanged, ColoursToRemake
  <2> QED BY <2>1, ColoursSame
<1>3. 0 \in 0 .. NAllColors - 1
  BY ColourAssumption
<1>4. \A r : ShadowOf(r, status) =
        IF r.draw_shadow_mask = {} THEN [white |-> NoPixel, bits |-> {}]
        ELSE [white |-> IF Lightness(ColorFgBg(r, 0, status).fg) > Lightness(ColorFgBg(r, 0, status).bg)
                        THEN ColorFgBg(r, 0, status).fg ELSE ColorFgBg(r, 0, status).bg,
              bits |-> {col \in 0 .. NAllColors - 1 : Lightness(ColorFgBg(r, col, status).bg) = 0}]
  BY DEF ShadowOf
<1>5. {col \in 0 .. NAllColors - 1 : Lightness(ColorFgBg(new, col, status).bg) = 0}
        = {col \in 0 .. NAllColors - 1 : Lightness(ColorFgBg(old, col, status).bg) = 0}
  BY <1>2
<1> QED BY <1>1, <1>2, <1>3, <1>4, <1>5

(* The fonts as SetupFonts leaves them.                                    *)
LEMMA SetupFontsProperties ==
    ASSUME NEW r, DOMAIN r = Resources, DOMAIN r.fonts = Fonts
    PROVE  /\ DOMAIN SetupFonts(r) = Resources
           /\ \A f \in Resources \ {"fonts"} : SetupFonts(r)[f] = r[f]
           /\ DOMAIN SetupFonts(r).fonts = Fonts
           /\ SetupFonts(r).fonts[0] = r.fonts[0]
           /\ SetupFonts(r).fonts[1] = IF r.fonts[1] = r.fonts[0] THEN NoFont ELSE r.fonts[1]
           /\ FontsApart(SetupFonts(r))
BY DEF SetupFonts, Resources, Fonts, FontsApart

(* The first colour has a context with each font. *)
LEMMA FirstColour == \A font \in Fonts : <<0, font, FALSE>> \in Index
<1>1. NColors \in Nat /\ NormalColors \in 1 .. NColors
  BY ColourAssumption
<1>2. 0 \in 0 .. NormalColors - 1
  BY <1>1
<1> QED BY <1>2 DEF Index

(* A new widget. *)
LEMMA InitializeStep ==
    ASSUME ColourInv, res = NoContext, NEW r \in FirstResources, ScrollTextInitialize(r)
    PROVE  ColourInv'
<1>1. /\ DOMAIN r = Resources /\ DOMAIN r.fonts = Fonts /\ WellTyped(r)
      /\ res' = SetupFonts(r)
  BY ColourAssumption DEF ScrollTextInitialize
<1>2. DOMAIN res' = Resources /\ WellTyped(res') /\ DOMAIN res'.fonts = Fonts /\ FontsApart(res')
  BY <1>1, SetupFontsProperties DEF WellTyped, Resources
<1>3. GetNewGCs(res', Index) /\ shadow' = SetShadowBits(res')
  BY DEF ScrollTextInitialize
<1>4. /\ array' = [i \in Index |-> Context(res', i)]
      /\ DOMAIN array' = Index /\ NoContext \notin DOMAIN given' /\ ContextsReleased'
  <2> DEFINE x == res'
  <2>1. GetNewGCs(x, Index)
    BY <1>3
  <2> HIDE DEF x
  <2>2. /\ array' = [i \in Index |-> IF i \in Index THEN Context(x, i) ELSE array[i]]
        /\ DOMAIN array' = Index /\ NoContext \notin DOMAIN given' /\ ContextsReleased'
    BY <2>1, ContextsCounted DEF ColourInv, ColoursCurrent
  <2> QED BY <2>2 DEF x
<1>5. \A font \in Fonts : <<0, font, FALSE>> \in Index
  BY FirstColour
<1>6. ContextsCurrent'
  BY <1>4, <1>5 DEF ContextsCurrent, Context
<1>7. ShadowsCurrent'
  BY <1>3 DEF SetShadowBits, ShadowsCurrent
<1> QED BY <1>2, <1>4, <1>6, <1>7 DEF ColourInv, ColoursCurrent

(* Which contexts XtSetValues makes anew. *)
Remade(old, new) ==
    GCSelect(ColoursToRemake(old, new, FALSE), FALSE)
        \cup GCSelect(ColoursToRemake(old, new, TRUE), TRUE)
        \cup CursorsToRemake(old, new)
        \cup IF new.fontsets # old.fontsets THEN FontsToRemake(old, new) ELSE {}

(* What XtSetValues makes of the resources: all but the fonts that are     *)
(* drawn with are as given, and a font is another only if its font set is. *)
LEMMA ResourcesGiven ==
    ASSUME ColourInv, res # NoContext, TameColours,
           NEW change \in Changes, Benign(change), ScrollTextSetValues(change)
    PROVE  /\ DOMAIN res' = Resources /\ WellTyped(res') /\ DOMAIN res'.fonts = Fonts
           /\ FontsApart(res')
           /\ res'.monochrome = res.monochrome
           /\ res'.monochrome => /\ res'.alt_colors = res.alt_colors
                                 /\ res'.default_color_mask = res.default_color_mask
           /\ \A f \in Fonts : res'.fonts[f] # res.fonts[f] =>
                res'.fontsets # res.fontsets /\ res'.fontsets[f] # res.fontsets[f]
           /\ GetNewGCs(res', Remade(res, res'))
<1> DEFINE given0 == [f \in Resources |-> IF f \in DOMAIN change THEN change[f] ELSE res[f]]
           F == [f \in Fonts |-> IF given0.fontsets[f] # res.fontsets[f] THEN given0.fontsets[f]
                                 ELSE given0.fonts[f]]
           set == [given0 EXCEPT !.fonts = F]
           fonts == set.fontsets # res.fontsets
           new == IF fonts THEN SetupFonts(set) ELSE set
<1>1. /\ res' = new
      /\ GetNewGCs(new, GCSelect(ColoursToRemake(res, new, FALSE), FALSE)
                    \cup GCSelect(ColoursToRemake(res, new, TRUE), TRUE)
                    \cup CursorsToRemake(res, new)
                    \cup IF fonts THEN FontsToRemake(res, new) ELSE {})
  BY DEF ScrollTextSetValues
<1>2. /\ DOMAIN res = Resources /\ WellTyped(res) /\ DOMAIN res.fonts = Fonts /\ FontsApart(res)
      /\ DOMAIN change \subseteq Resources \ {"monochrome", "fonts"}
      /\ "alt_colors" \in DOMAIN change => DOMAIN change.alt_colors = 1 .. NAllColors - 1
      /\ "fontsets" \in DOMAIN change => DOMAIN change.fontsets = Fonts
  BY ColourAssumption DEF ColourInv
<1>3. /\ DOMAIN given0 = Resources /\ WellTyped(given0)
      /\ given0.fonts = res.fonts /\ given0.monochrome = res.monochrome
      /\ given0.monochrome => /\ given0.alt_colors = res.alt_colors
                              /\ given0.default_color_mask = res.default_color_mask
      /\ "fontsets" \notin DOMAIN change => given0.fontsets = res.fontsets
      /\ "fontsets" \in DOMAIN change =>
            given0.fontsets = change.fontsets /\ given0.fontsets[0] \notin {res.fonts[1], given0.fontsets[1]}
  BY <1>2 DEF WellTyped, Resources, Benign
<1> HIDE DEF given0
<1>4. /\ DOMAIN set = Resources /\ set.fonts = F
      /\ \A f \in Resources \ {"fonts"} : set[f] = given0[f]
  BY <1>3 DEF Resources
<1>5. /\ set.fontsets = given0.fontsets /\ set.monochrome = given0.monochrome
      /\ set.alt_colors = given0.alt_colors
      /\ set.default_color_mask = given0.default_color_mask
  BY <1>4 DEF Resources
<1>6. DOMAIN F = Fonts /\ 0 \in Fonts /\ 1 \in Fonts
      /\ \A f \in Fonts : F[f] = IF given0.fontsets[f] # res.fontsets[f] THEN given0.fontsets[f]
                                 ELSE res.fonts[f]
  BY <1>3 DEF Fonts
<1> HIDE DEF set, F
<1>7. fonts /\ given0.fontsets[1] = res.fontsets[1] => F[1] = NoFont \/ F[1] # F[0]
  <2> SUFFICES ASSUME fonts, given0.fontsets[1] = res.fontsets[1]
               PROVE  F[1] = NoFont \/ F[1] # F[0]
    OBVIOUS
  <2>1. given0.fontsets[0] # res.fonts[1]
    BY <1>3, <1>5
  <2>2. F[1] = res.fonts[1]
    BY <1>6
  <2>3. F[0] = given0.fontsets[0] \/ F[0] = res.fonts[0]
    BY <1>6
  <2> QED BY <2>1, <2>2, <2>3, <1>2 DEF FontsApart
<1>8. ~fonts => \A f \in Fonts : F[f] = res.fonts[f]
  BY <1>5, <1>6
<1>9. /\ DOMAIN new = Resources /\ DOMAIN new.fonts = Fonts /\ FontsApart(new)
      /\ \A f \in Resources \ {"fonts"} : new[f] = given0[f]
      /\ \A f \in Fonts : new.fonts[f] = F[f] \/ (fonts /\ given0.fontsets[f] # res.fontsets[f])
  <2>1. CASE fonts
    <3>1. new = SetupFonts(set)
      BY <2>1
    <3> HIDE DEF new
    <3>2. /\ DOMAIN new = Resources /\ DOMAIN new.fonts = Fonts /\ FontsApart(new)
          /\ \A f \in Resources \ {"fonts"} : new[f] = given0[f]
          /\ new.fonts[0] = F[0]
          /\ new.fonts[1] = IF F[1] = F[0] THEN NoFont ELSE F[1]
      BY <3>1, <1>4, <1>6, SetupFontsProperties
    <3>3. new.fonts[1] = F[1] \/ given0.fontsets[1] # res.fontsets[1]
      BY <3>2, <2>1, <1>7
    <3> HIDE DEF fonts
    <3> QED BY <2>1, <3>2, <3>3 DEF Fonts
  <2>2. CASE ~fonts
    BY <2>2, <1>2, <1>4, <1>6, <1>8 DEF FontsApart
  <2> QED BY <2>1, <2>2
<1> HIDE DEF new
<1>10. /\ new.fontsets = given0.fontsets /\ new.monochrome = given0.monochrome
       /\ new.alt_colors = given0.alt_colors
       /\ new.default_color_mask = given0.default_color_mask
  BY <1>9 DEF Resources
<1>11. WellTyped(new)
  BY <1>3, <1>10 DEF WellTyped
<1>12. ASSUME NEW f \in Fonts, new.fonts[f] # res.fonts[f]
       PROVE  new.fontsets # res.fontsets /\ new.fontsets[f] # res.fontsets[f]
  <2>1. given0.fontsets[f] # res.fontsets[f]
    BY <1>6, <1>9, <1>12
  <2> QED BY <2>1, <1>10
<1>13. fonts <=> new.fontsets # res.fontsets
  BY <1>5, <1>10
<1> HIDE DEF fonts
<1>14. GetNewGCs(new, Remade(res, new))
  BY <1>1, <1>13 DEF Remade
<1> QED BY <1>1, <1>3, <1>9, <1>10, <1>11, <1>12, <1>14

(* A context of a colour number. *)
LEMMA OfNumber ==
    ASSUME NEW n, NEW status, NEW i \in (0 .. n - 1) \X Fonts \X {status}
    PROVE  \E col \in 0 .. n - 1, font \in Fonts : i = <<col, font, status>>
<1>1. i = <<i[1], i[2], i[3]>> /\ i[1] \in 0 .. n - 1 /\ i[2] \in Fonts /\ i[3] = status
  OBVIOUS
<1> QED BY <1>1

(* What XtSetValues does not make anew it need not.                        *)
LEMMA ContextSame ==
    ASSUME NEW old, NEW new, WellTyped(old), WellTyped(new), new.monochrome = old.monochrome,
           new.monochrome => /\ new.alt_colors = old.alt_colors
                             /\ new.default_color_mask = old.default_color_mask,
           \A f \in Fonts : new.fonts[f] # old.fonts[f] =>
                new.fontsets # old.fontsets /\ new.fontsets[f] # old.fontsets[f],
           NEW i \in Index,
           i \notin Remade(old, new)
    PROVE  Context(new, i) = Context(old, i)
<1>1. NColors \in Nat /\ NAllColors \in Nat /\ NColors <= NAllColors
      /\ NormalColors \in 1 .. NColors /\ StatusColors \in 1 .. NColors
  BY ColourAssumption
<1>2. PICK col, font, status : i = <<col, font, status>> /\ font \in Fonts /\ status \in BOOLEAN
        /\ \/ col = Cursor /\ font = 0
           \/ col \in 0 .. NColors - 1
  <2>1. CASE i \in (0 .. NormalColors - 1) \X Fonts \X {FALSE}
    <3> DEFINE n == NormalColors  b == FALSE
    <3>1. i \in (0 .. n - 1) \X Fonts \X {b}
      BY <2>1
    <3> HIDE DEF n, b
    <3>2. PICK col \in 0 .. n - 1, font \in Fonts : i = <<col, font, b>>
      BY <3>1, OfNumber
    <3>3. col \in 0 .. NColors - 1 /\ b \in BOOLEAN
      BY <1>1, <3>2 DEF n, b
    <3> QED BY <3>2, <3>3
  <2>2. CASE i \in (0 .. StatusColors - 1) \X Fonts \X {TRUE}
    <3> DEFINE n == StatusColors  b == TRUE
    <3>1. i \in (0 .. n - 1) \X Fonts \X {b}
      BY <2>2
    <3> HIDE DEF n, b
    <3>2. PICK col \in 0 .. n - 1, font \in Fonts : i = <<col, font, b>>
      BY <3>1, OfNumber
    <3>3. col \in 0 .. NColors - 1 /\ b \in BOOLEAN
      BY <1>1, <3>2 DEF n, b
    <3> QED BY <3>2, <3>3
  <2>3. CASE i \in {<<Cursor, 0, FALSE>>, <<Cursor, 0, TRUE>>}
    BY <2>3 DEF Fonts
  <2> QED BY <2>1, <2>2, <2>3 DEF Index
<1>3. new.fonts[font] = old.fonts[font]
  <2> SUFFICES ASSUME new.fonts[font] # old.fonts[font]
               PROVE  FALSE
    OBVIOUS
  <2>1. new.fontsets # old.fontsets /\ new.fontsets[font] # old.fontsets[font]
    BY <1>2
  <2>2. i \in OfFont(font) \/ (font = 0 /\ i \in Cursors(status))
    <3>1. i[1] = col /\ i[2] = font /\ i[3] = status
      BY <1>2
    <3>2. col \in 0 .. NColors - 1 => col # Cursor
      BY <1>1 DEF Cursor
    <3> QED BY <1>2, <3>1, <3>2 DEF OfFont, Cursors
  <2>3. i \in FontsToRemake(old, new)
    BY <1>2, <2>1, <2>2 DEF FontsToRemake, Fonts
  <2>4. i \notin FontsToRemake(old, new)
    BY <2>1 DEF Remade
  <2> QED BY <2>3, <2>4
<1>4. ColorFgBg(new, col, status) = ColorFgBg(old, col, status)
  <2>1. CASE col = Cursor /\ font = 0
    <3>1. <<Cursor, 0, status>> \notin CursorsToRemake(old, new)
      BY <1>2, <2>1 DEF Remade
    <3> QED BY <1>2, <2>1, <3>1, CursorSame
  <2>2. CASE col \in 0 .. NColors - 1
    <3>1. col \notin ColoursToRemake(old, new, status)
      <4>1. i[1] = col /\ i[3] = status /\ col < NColors
        BY <1>1, <1>2, <2>2
      <4>2. i \notin GCSelect(ColoursToRemake(old, new, status), status)
        <5>1. CASE status
          BY <5>1, <1>2 DEF Remade
        <5>2. CASE ~status
          BY <5>2, <1>2 DEF Remade
        <5> QED BY <5>1, <5>2
      <4> QED BY <4>1, <4>2 DEF GCSelect
    <3>2. col \in 0 .. NAllColors - 1
      BY <1>1, <2>2
    <3> QED BY <1>2, <3>1, <3>2, ColoursSame
  <2> QED BY <1>2, <2>1, <2>2
<1> QED BY <1>2, <1>3, <1>4 DEF Context

(* A call of XtSetValues. *)
LEMMA SetValuesStep ==
    ASSUME ColourInv, res # NoContext, TameColours,
           NEW change \in Changes, Benign(change), ScrollTextSetValues(change)
    PROVE  ColourInv'
<1> DEFINE old == res
           new == res'
           which == Remade(old, new)
<1>1. /\ DOMAIN new = Resources /\ WellTyped(new) /\ DOMAIN new.fonts = Fonts /\ FontsApart(new)
      /\ new.monochrome = old.monochrome
      /\ new.monochrome => /\ new.alt_colors = old.alt_colors
                           /\ new.default_color_mask = old.default_color_mask
      /\ \A f \in Fonts : new.fonts[f] # old.fonts[f] =>
                new.fontsets # old.fontsets /\ new.fontsets[f] # old.fontsets[f]
      /\ GetNewGCs(new, which)
  BY ResourcesGiven
<1>2. WellTyped(old) /\ ColoursCurrent
  BY DEF ColourInv
<1>4. shadow' = IF ColoursChanged(old, new) THEN SetShadowBits(new) ELSE shadow
  BY DEF ScrollTextSetValues
<1>5. which \in SUBSET Index
  BY DEF Remade, GCSelect, CursorsToRemake, Cursors, FontsToRemake, OfFont
<1> HIDE DEF new, old, which
<1>6. /\ array' = [i \in Index |-> IF i \in which THEN Context(new, i) ELSE array[i]]
      /\ DOMAIN array' = Index /\ NoContext \notin DOMAIN given' /\ ContextsReleased'
  BY <1>1, <1>5, ContextsCounted DEF ColourInv, ColoursCurrent
<1>7. ASSUME NEW i \in Index
      PROVE  array'[i] = Context(new, i)
  <2>1. CASE i \in which
    BY <1>6, <2>1
  <2>2. CASE i \notin which
    <3>1. array'[i] = Context(old, i)
      BY <1>2, <1>6, <2>2 DEF ColoursCurrent, ContextsCurrent, old
    <3>2. i \notin Remade(old, new)
      BY <2>2 DEF which
    <3> QED BY <1>1, <1>2, <3>1, <3>2, ContextSame
  <2> QED BY <2>1, <2>2
<1>8. \A font \in Fonts : array'[<<0, font, FALSE>>] # NoContext => new.fonts[font] # NoFont
  BY <1>7, FirstColour DEF Context
<1>9. ASSUME NEW status \in BOOLEAN, new.draw_shadow_mask # {}
      PROVE  shadow'[status] = ShadowOf(new, status)
  <2>1. CASE ColoursChanged(old, new)
    BY <1>4, <2>1 DEF SetShadowBits
  <2>2. CASE ~ColoursChanged(old, new)
    <3>1. /\ new.draw_shadow_mask = old.draw_shadow_mask
          /\ ShadowOf(new, status) = ShadowOf(old, status)
      BY <1>1, <1>2, <2>2, ShadowSame
    <3> QED BY <1>2, <1>4, <1>9, <2>2, <3>1 DEF ColoursCurrent, ShadowsCurrent, old
  <2> QED BY <2>1, <2>2
<1>10. ContextsCurrent' /\ ShadowsCurrent'
  BY <1>7, <1>8, <1>9 DEF ContextsCurrent, ShadowsCurrent, new
<1> QED BY <1>1, <1>6, <1>10 DEF ColourInv, ColoursCurrent, new

(* Any step of the colours. *)
LEMMA ColourStep ==
    ASSUME ColourInv, TameColours, NextColours \/ UNCHANGED colourvars
    PROVE  ColourInv'
<1>1. CASE UNCHANGED colourvars
  <2>1. res' = res /\ array' = array /\ shadow' = shadow /\ given' = given
    BY <1>1 DEF colourvars
  <2> QED BY <2>1 DEF ColourInv, ColoursCurrent, ContextsCurrent, ShadowsCurrent, ContextsReleased
<1>2. CASE ScrollTextDestroy
  <2>1. /\ res' = NoContext /\ array' = [i \in Index |-> NoContext] /\ given' = <<>>
    BY <1>2 DEF ScrollTextDestroy
  <2> QED BY <2>1 DEF ColourInv, ColoursCurrent, ContextsCurrent, ShadowsCurrent, ContextsReleased
<1> QED BY <1>1, <1>2, InitializeStep, SetValuesStep DEF NextColours

(* The contexts, the cursor's and the shadows are those that the resources *)
(* give, and each is released once (ScrollTextSetValues), whatever is      *)
(* changed and however many colours there are, if no alternative font      *)
(* becomes the main one and the colours of a monochrome screen stay.       *)
THEOREM ColoursAreCurrent == TameColours => (Spec => []ColoursCurrent)
<1> SUFFICES ASSUME TameColours
             PROVE  Spec => []ColoursCurrent
  OBVIOUS
<1>1. Spec => Init /\ [][Next]_vars
  BY PTL DEF Spec
<1>2. Init => ColourInv
  BY DEF Init, InitColours, ColourInv, ColoursCurrent, ContextsCurrent, ShadowsCurrent,
         ContextsReleased
<1>3. ColourInv /\ [Next]_vars => ColourInv'
  <2> SUFFICES ASSUME ColourInv, [Next]_vars
               PROVE  ColourInv'
    OBVIOUS
  <2>1. NextColours \/ UNCHANGED colourvars
    BY DEF Next, vars, OfButtons, Apart
  <2> QED BY <2>1, ColourStep
<1>4. ColourInv => ColoursCurrent
  BY DEF ColourInv
<1> QED BY <1>1, <1>2, <1>3, <1>4, PTL
=============================================================================
