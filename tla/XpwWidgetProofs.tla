-------------------------- MODULE XpwWidgetProofs --------------------------
(***************************************************************************)
(* Proofs about the widgets of XpwWidgets, for any number of widgets, any  *)
(* sizes and any number of calls.                                          *)
(*                                                                         *)
(* Every context of the server has its users (GCInv), and the widgets'     *)
(* attributes are what they asked for, with nothing of a change lost and   *)
(* nothing left in the global variables for the next.                      *)
(*                                                                         *)
(* Then, for programs that keep to Tame: every request leaves the display  *)
(* in order (DisplayInv: who owns which pixmap, and what each window shows *)
(* of it), and the colours (ColourInv: the lists of ranges, the colormaps  *)
(* and the cells allocated at the server agree).  Each procedure of the    *)
(* widgets is proved to keep one widget's part of it and to leave that of  *)
(* the others alone.                                                       *)
(***************************************************************************)
EXTENDS XpwWidgets, SequenceLemmas
-----------------------------------------------------------------------------
(* Contexts. *)

(* The attributes of a context. *)
IsAttributes(v) ==
    /\ v = [a \in Attr |-> v[a]]
    /\ v.foreground \in Pixel /\ v.background \in Pixel /\ v.function \in Function

UserType == [gc : GC \cup {NoGC}, shared : BOOLEAN, foreground : Pixel, background : Pixel]

Uses(id) == {w \in Widget : users[w].gc = id}

Owned(id) ==
    IF id \in DOMAIN refs
    THEN /\ refs[id] = Cardinality(Uses(id)) /\ Uses(id) # {}
         /\ \A w \in Uses(id) : users[w].shared
    ELSE Cardinality(Uses(id)) = 1 /\ \A w \in Uses(id) : ~users[w].shared

(* The inductive invariant of the contexts: GCsOwned and the types.        *)
GCInv ==
    /\ users \in [Widget -> UserType]
    /\ gcs = [id \in DOMAIN gcs |-> gcs[id]] /\ DOMAIN gcs \subseteq GC
    /\ \A id \in DOMAIN gcs : IsAttributes(gcs[id])
    /\ refs = [id \in DOMAIN refs |-> refs[id]] /\ DOMAIN refs \subseteq DOMAIN gcs
    /\ \A w \in Widget : Exists(w) => users[w].gc \in DOMAIN gcs
    /\ \A id \in DOMAIN gcs : Owned(id)

(* The values that are passed between the classes.                         *)
ValuesOK == IsAttributes(GCvalues) /\ GCvaluemask \subseteq Attr

(* What the members of a finite set name has no more members than it. *)
LEMMA NamedCardinality ==
    ASSUME NEW W, IsFiniteSet(W), NEW f, NEW S, \A x \in S : \E w \in W : f[w] = x
    PROVE  IsFiniteSet(S) /\ Cardinality(S) \in Nat /\ Cardinality(S) <= Cardinality(W)
<1> DEFINE g == [x \in S |-> CHOOSE w \in W : f[w] = x]
<1>1. \A x \in S : g[x] \in W /\ f[g[x]] = x
  OBVIOUS
<1>2. g \in Injection(S, W)
  <2>1. g \in [S -> W]
    OBVIOUS
  <2>2. \A x, y \in S : g[x] = g[y] => x = y
    BY <1>1
  <2> HIDE DEF g
  <2> QED BY <2>1, <2>2 DEF Injection, IsInjective
<1>3. IsFiniteSet(S) /\ Cardinality(S) <= Cardinality(W)
  BY <1>2, FS_Injection
<1> QED BY <1>3, FS_CardinalityType

(* A context of the server has a user.                                      *)
LEMMA AUsed ==
    ASSUME GCInv, NEW id \in DOMAIN gcs
    PROVE  Uses(id) # {}
<1>1. CASE id \in DOMAIN refs
  BY <1>1 DEF GCInv, Owned
<1>2. CASE id \notin DOMAIN refs
  <2>1. Cardinality(Uses(id)) = 1
    BY <1>2 DEF GCInv, Owned
  <2> QED BY <2>1, FS_EmptySet
<1> QED BY <1>1, <1>2

(* There is a context that nobody uses. *)
LEMMA FreeGCIsFree ==
    ASSUME GCInv
    PROVE  FreeGC \in GC /\ FreeGC \notin DOMAIN gcs /\ FreeGC # NoGC
<1> DEFINE f == [w \in Widget |-> users[w].gc]
<1>1. \A id \in DOMAIN gcs : \E w \in Widget : f[w] = id
  <2> SUFFICES ASSUME NEW id \in DOMAIN gcs
               PROVE  \E w \in Widget : users[w].gc = id
    OBVIOUS
  <2>1. Uses(id) # {}
    BY AUsed
  <2> QED BY <2>1 DEF Uses
<1> HIDE DEF f
<1>2. IsFiniteSet(DOMAIN gcs) /\ Cardinality(DOMAIN gcs) <= Cardinality(Widget)
  BY <1>1, ClassAssumption, NamedCardinality
<1>5. \E id \in GC : id \notin DOMAIN gcs
  BY <1>2, GCAssumption DEF GCInv
<1> QED BY <1>5, GCAssumption DEF FreeGC

(* A widget that begins or ends using a context changes the number of its  *)
(* users by one.                                                           *)
LEMMA UsesChange ==
    ASSUME users \in [Widget -> UserType], NEW w \in Widget, NEW u, users' = [users EXCEPT ![w] = u],
           NEW id
    PROVE  /\ Uses(id) \in SUBSET Widget /\ IsFiniteSet(Uses(id)) /\ Cardinality(Uses(id)) \in Nat
           /\ Uses(id)' = IF u.gc = id THEN Uses(id) \cup {w} ELSE Uses(id) \ {w}
           /\ Cardinality(Uses(id)') =
                IF u.gc = id THEN IF users[w].gc = id THEN Cardinality(Uses(id)) ELSE Cardinality(Uses(id)) + 1
                ELSE IF users[w].gc = id THEN Cardinality(Uses(id)) - 1 ELSE Cardinality(Uses(id))
<1>1. Uses(id) \in SUBSET Widget /\ IsFiniteSet(Uses(id)) /\ Cardinality(Uses(id)) \in Nat
  <2>1. Uses(id) \in SUBSET Widget
    BY DEF Uses
  <2>2. IsFiniteSet(Uses(id))
    BY <2>1, ClassAssumption, FS_Subset
  <2> QED BY <2>1, <2>2, FS_CardinalityType
<1>2. Uses(id)' = IF u.gc = id THEN Uses(id) \cup {w} ELSE Uses(id) \ {w}
  <2>1. \A x \in Widget : users'[x] = IF x = w THEN u ELSE users[x]
    OBVIOUS
  <2> QED BY <2>1 DEF Uses
<1>3. w \in Uses(id) <=> users[w].gc = id
  BY DEF Uses
<1>4. CASE u.gc = id
  <2>1. Cardinality(Uses(id) \cup {w}) =
           IF w \in Uses(id) THEN Cardinality(Uses(id)) ELSE Cardinality(Uses(id)) + 1
    BY <1>1, FS_AddElement
  <2> QED BY <1>1, <1>2, <1>3, <1>4, <2>1
<1>5. CASE u.gc # id
  <2>1. Cardinality(Uses(id) \ {w}) =
           IF w \in Uses(id) THEN Cardinality(Uses(id)) - 1 ELSE Cardinality(Uses(id))
    BY <1>1, FS_RemoveElement
  <2> QED BY <1>1, <1>2, <1>3, <1>5, <2>1
<1> QED BY <1>1, <1>4, <1>5, <1>2

(* A context that the widget neither leaves nor takes is owned as before. *)
LEMMA OwnedUnchanged ==
    ASSUME users \in [Widget -> UserType], NEW w \in Widget, NEW u, users' = [users EXCEPT ![w] = u],
           NEW id, id # users[w].gc, id # u.gc,
           id \in DOMAIN refs' <=> id \in DOMAIN refs,
           id \in DOMAIN refs => refs'[id] = refs[id],
           Owned(id)
    PROVE  Owned(id)'
<1>1. Uses(id)' = Uses(id)
  <2>1. \A x \in Widget : users'[x] = IF x = w THEN u ELSE users[x]
    OBVIOUS
  <2> QED BY <2>1 DEF Uses
<1>2. \A x \in Uses(id) : users'[x] = users[x]
  BY DEF Uses
<1> QED BY <1>1, <1>2 DEF Owned

(* A context of a widget's own has no other user. *)
LEMMA OwnContext ==
    ASSUME GCInv, NEW w \in Widget, Exists(w), ~users[w].shared
    PROVE  /\ users[w].gc \in DOMAIN gcs /\ users[w].gc \notin DOMAIN refs
           /\ Uses(users[w].gc) = {w}
<1> DEFINE id == users[w].gc
<1>1. id \in DOMAIN gcs
  BY DEF GCInv
<1>2. w \in Uses(id)
  BY DEF Uses
<1>3. id \notin DOMAIN refs
  BY <1>1, <1>2 DEF GCInv, Owned
<1>4. Cardinality(Uses(id)) = 1
  BY <1>1, <1>3 DEF GCInv, Owned
<1>5. IsFiniteSet(Uses(id))
  BY ClassAssumption, FS_Subset DEF Uses
<1>6. \E x : Uses(id) = {x}
  BY <1>4, <1>5, FS_Singleton
<1> QED BY <1>1, <1>2, <1>3, <1>6

(* A shared context has as many references as users. *)
LEMMA SharedContext ==
    ASSUME GCInv, NEW w \in Widget, Exists(w), users[w].shared
    PROVE  /\ users[w].gc \in DOMAIN gcs /\ users[w].gc \in DOMAIN refs
           /\ w \in Uses(users[w].gc) /\ refs[users[w].gc] = Cardinality(Uses(users[w].gc))
<1> DEFINE id == users[w].gc
<1>1. id \in DOMAIN gcs
  BY DEF GCInv
<1>2. w \in Uses(id)
  BY DEF Uses
<1>3. id \in DOMAIN refs
  BY <1>1, <1>2 DEF GCInv, Owned
<1> QED BY <1>1, <1>2, <1>3 DEF GCInv, Owned

(* What a widget's change of context must do to leave everything in order: *)
(* to the contexts it leaves and takes, and to no other.                   *)
LEMMA ContextsInOrder ==
    ASSUME GCInv, NEW w \in Widget, NEW u \in UserType, users' = [users EXCEPT ![w] = u],
           gcs' = [id \in DOMAIN gcs' |-> gcs'[id]], DOMAIN gcs' \subseteq GC,
           \A id \in DOMAIN gcs' : IsAttributes(gcs'[id]),
           refs' = [id \in DOMAIN refs' |-> refs'[id]], DOMAIN refs' \subseteq DOMAIN gcs',
           u.gc # NoGC => u.gc \in DOMAIN gcs',
           \A x \in Widget \ {w} : Exists(x) => users[x].gc \in DOMAIN gcs',
           \A id \in DOMAIN gcs' : id # users[w].gc /\ id # u.gc =>
                /\ id \in DOMAIN gcs
                /\ id \in DOMAIN refs' <=> id \in DOMAIN refs
                /\ id \in DOMAIN refs => refs'[id] = refs[id],
           \A id \in DOMAIN gcs' : id = users[w].gc \/ id = u.gc => Owned(id)'
    PROVE  GCInv'
<1>1. users' \in [Widget -> UserType]
  BY DEF GCInv
<1>2. \A x \in Widget : Exists(x)' => users'[x].gc \in DOMAIN gcs'
  <2> SUFFICES ASSUME NEW x \in Widget, Exists(x)'
               PROVE  users'[x].gc \in DOMAIN gcs'
    OBVIOUS
  <2>1. users'[x] = IF x = w THEN u ELSE users[x]
    BY DEF GCInv
  <2> QED BY <2>1 DEF Exists
<1>3. \A id \in DOMAIN gcs' : Owned(id)'
  <2> SUFFICES ASSUME NEW id \in DOMAIN gcs', id # users[w].gc, id # u.gc
               PROVE  Owned(id)'
    OBVIOUS
  <2>1. /\ id \in DOMAIN gcs
        /\ id \in DOMAIN refs' <=> id \in DOMAIN refs
        /\ id \in DOMAIN refs => refs'[id] = refs[id]
    OBVIOUS
  <2>2. Owned(id) /\ users \in [Widget -> UserType]
    BY <2>1 DEF GCInv
  <2> QED BY <2>1, <2>2, OwnedUnchanged
<1> QED BY <1>1, <1>2, <1>3 DEF GCInv

(* With and Without, place by place. *)
LEMMA WithProperties ==
    ASSUME NEW f, NEW id, NEW v
    PROVE  /\ With(f, id, v) = [x \in DOMAIN With(f, id, v) |-> With(f, id, v)[x]]
           /\ DOMAIN With(f, id, v) = DOMAIN f \cup {id}
           /\ With(f, id, v)[id] = v
           /\ \A x \in DOMAIN f : x # id => With(f, id, v)[x] = f[x]
  BY DEF With

(* What is left of a function without one of its arguments.                 *)
LEMMA WithoutProperties ==
    ASSUME NEW f, NEW id
    PROVE  /\ Without(f, id) = [x \in DOMAIN Without(f, id) |-> Without(f, id)[x]]
           /\ DOMAIN Without(f, id) = DOMAIN f \ {id}
           /\ \A x \in DOMAIN f : x # id => Without(f, id)[x] = f[x]
  BY DEF Without

(* The values that a context can be changed to. *)
Resources == [foreground : Pixel, background : Pixel]
Values(m, v) ==
    /\ "foreground" \in m => v["foreground"] \in Pixel
    /\ "background" \in m => v["background"] \in Pixel
    /\ "function" \in m => v["function"] \in Function

(* Values that are merged are values, ...                                   *)
LEMMA MergedAttributes ==
    ASSUME NEW m, NEW v, NEW old, Values(m, v), IsAttributes(old)
    PROVE  IsAttributes(Merged(m, v, old))
  BY DEF Values, IsAttributes, Merged, Attr, Subpart

(* ... the defaults are, ...                                                *)
LEMMA DefaultAttributes == IsAttributes(Default)
  BY PixelAssumption DEF IsAttributes, Default, Attr, Subpart

(* ... and a widget with a context is what it should be.                    *)
LEMMA UsingType ==
    ASSUME NEW id \in GC, NEW shared \in BOOLEAN, NEW res \in Resources
    PROVE  /\ Using(id, shared, res) \in UserType /\ Using(id, shared, res).gc = id
           /\ Using(id, shared, res).shared = shared
           /\ Using(id, shared, res).foreground = res.foreground
           /\ Using(id, shared, res).background = res.background
  BY DEF Using, UserType, Resources

(* What a change of the context of w comes to: w has the resources res and *)
(* draws with the attributes new, every other widget as before.            *)
Changed(w, res, new) ==
    /\ GCInv'
    /\ users' = [users EXCEPT ![w] = users'[w]]
    /\ Exists(w)'
    /\ users'[w].foreground = res.foreground /\ users'[w].background = res.background
    /\ Attributes(w)' = new
    /\ \A x \in Widget \ {w} : Exists(x) => Attributes(x)' = Attributes(x)

(* A context as good as the one wanted is shared, or a new one made. *)
LEMMA GetGCSound ==
    ASSUME GCInv, NEW w \in Widget, ~Exists(w), NEW res \in Resources, NEW m, NEW v, Values(m, v),
           GetGC(w, res, m, v)
    PROVE  Changed(w, res, Merged(m, v, Default))
<1> DEFINE full == Merged(m, v, Default)
           same == {x \in DOMAIN refs : gcs[x] = full}
           chosen == IF same = {} THEN FreeGC ELSE CHOOSE x \in same : TRUE
<1>0. PICK id : id = chosen
  OBVIOUS
<1> DEFINE u == Using(id, TRUE, res)
<1>1. /\ users' = [users EXCEPT ![w] = u]
      /\ gcs' = With(gcs, id, full)
      /\ refs' = With(refs, id, IF same = {} THEN 1 ELSE refs[id] + 1)
  BY <1>0 DEF GetGC
<1>2. IsAttributes(full)
  BY MergedAttributes, DefaultAttributes
<1>3. users \in [Widget -> UserType] /\ users[w].gc = NoGC
  BY DEF GCInv, Exists
<1>4. same # {} => id \in DOMAIN refs /\ id \in DOMAIN gcs /\ gcs[id] = full
  BY <1>0 DEF GCInv
<1>5. same = {} => id \in GC /\ id \notin DOMAIN gcs /\ id \notin DOMAIN refs
  BY <1>0, FreeGCIsFree DEF GCInv
<1>6. id \in GC /\ id # NoGC
  BY <1>4, <1>5, GCAssumption DEF GCInv
<1> HIDE DEF full, same, chosen
<1>7. /\ u \in UserType /\ u.gc = id /\ u.shared = TRUE
      /\ u.foreground = res.foreground /\ u.background = res.background
  BY <1>6 DEF u, Using, UserType, Resources
<1> HIDE DEF u
<1>8. /\ gcs' = [x \in DOMAIN gcs' |-> gcs'[x]] /\ DOMAIN gcs' = DOMAIN gcs \cup {id}
      /\ gcs'[id] = full /\ \A x \in DOMAIN gcs : x # id => gcs'[x] = gcs[x]
  <2> DEFINE g == With(gcs, id, full)
  <2>1. /\ g = [x \in DOMAIN g |-> g[x]] /\ DOMAIN g = DOMAIN gcs \cup {id}
        /\ g[id] = full /\ \A x \in DOMAIN gcs : x # id => g[x] = gcs[x]
    BY DEF With
  <2>2. gcs' = g
    BY <1>1
  <2> QED BY <2>1, <2>2
<1>9. /\ refs' = [x \in DOMAIN refs' |-> refs'[x]] /\ DOMAIN refs' = DOMAIN refs \cup {id}
      /\ refs'[id] = (IF same = {} THEN 1 ELSE refs[id] + 1)
      /\ \A x \in DOMAIN refs : x # id => refs'[x] = refs[x]
  <2> DEFINE n == IF same = {} THEN 1 ELSE refs[id] + 1
             g == With(refs, id, n)
  <2> HIDE DEF n
  <2>1. /\ g = [x \in DOMAIN g |-> g[x]] /\ DOMAIN g = DOMAIN refs \cup {id}
        /\ g[id] = n /\ \A x \in DOMAIN refs : x # id => g[x] = refs[x]
    BY DEF With
  <2>2. refs' = g
    BY <1>1 DEF n
  <2> QED BY <2>1, <2>2 DEF n
<1>10. \A x \in DOMAIN gcs : gcs'[x] = gcs[x]
  BY <1>4, <1>5, <1>8
<1>11. Owned(id)'
  <2>1. Uses(id)' = Uses(id) \cup {w} /\ Cardinality(Uses(id)') = Cardinality(Uses(id)) + 1
    BY <1>1, <1>3, <1>6, <1>7, UsesChange
  <2>2. users'[w].shared = TRUE
    BY <1>1, <1>3, <1>7
  <2>3. CASE same = {}
    <3>1. Uses(id) = {}
      <4>1. \A x \in Widget : users[x].gc # id
        BY <1>5, <1>6, <2>3 DEF GCInv, Exists
      <4> QED BY <4>1 DEF Uses
    <3>2. Uses(id)' = {w} /\ Cardinality(Uses(id)') = 1
      BY <2>1, <3>1, FS_EmptySet
    <3> QED BY <1>9, <2>2, <2>3, <3>2 DEF Owned
  <2>4. CASE same # {}
    <3>1. refs[id] = Cardinality(Uses(id)) /\ \A x \in Uses(id) : users[x].shared
      BY <1>4, <2>4 DEF GCInv, Owned
    <3>2. \A x \in Uses(id)' : users'[x].shared
      <4>1. \A x \in Widget : x # w => users'[x] = users[x]
        BY <1>1, <1>3
      <4>2. \A x \in Uses(id)' : x = w \/ (x # w /\ x \in Uses(id) /\ x \in Widget)
        BY <2>1 DEF Uses
      <4> QED BY <4>1, <4>2, <3>1, <2>2
    <3> QED BY <1>9, <2>1, <2>4, <3>1, <3>2 DEF Owned
  <2> QED BY <2>3, <2>4
<1>12. GCInv'
  <2>1. DOMAIN gcs' \subseteq GC /\ DOMAIN refs' \subseteq DOMAIN gcs'
    BY <1>6, <1>8, <1>9 DEF GCInv
  <2>2. \A x \in DOMAIN gcs' : IsAttributes(gcs'[x])
    BY <1>2, <1>8 DEF GCInv
  <2>3. u.gc \in DOMAIN gcs'
    BY <1>7, <1>8
  <2>4. \A x \in Widget \ {w} : Exists(x) => users[x].gc \in DOMAIN gcs'
    BY <1>8 DEF GCInv
  <2>5. \A x \in DOMAIN gcs' : x # users[w].gc /\ x # u.gc =>
                /\ x \in DOMAIN gcs
                /\ x \in DOMAIN refs' <=> x \in DOMAIN refs
                /\ x \in DOMAIN refs => refs'[x] = refs[x]
    BY <1>7, <1>8, <1>9
  <2>6. \A x \in DOMAIN gcs' : x = users[w].gc \/ x = u.gc => Owned(x)'
    <3>1. NoGC \notin DOMAIN gcs'
      BY <2>1, GCAssumption
    <3> QED BY <3>1, <1>3, <1>7, <1>11
  <2> QED BY ZenonT(60), <1>1, <1>7, <1>8, <1>9, <2>1, <2>2, <2>3, <2>4, <2>5, <2>6, ContextsInOrder
<1>13. users'[w] = u /\ \A x \in Widget : x # w => users'[x] = users[x]
  BY <1>1, <1>3
<1>14. Exists(w)' /\ Attributes(w)' = full
  BY <1>13, <1>6, <1>7, <1>8 DEF Exists, Attributes
<1>15. \A x \in Widget \ {w} : Exists(x) => Attributes(x)' = Attributes(x)
  BY <1>13, <1>10 DEF Attributes, GCInv
<1> QED BY <1>1, <1>7, <1>12, <1>13, <1>14, <1>15 DEF Changed, full

(* A widget leaves a context it shared: one user and one reference less,   *)
(* or none of either and no context.                                       *)
LEMMA LeavesShared ==
    ASSUME GCInv, NEW w \in Widget, Exists(w), users[w].shared,
           NEW u \in UserType, users' = [users EXCEPT ![w] = u],
           NEW id, id = users[w].gc, u.gc # id,
           id \in DOMAIN refs' <=> refs[id] # 1,
           refs[id] # 1 => refs'[id] = refs[id] - 1
    PROVE  /\ refs[id] # 1 => Owned(id)'
           /\ refs[id] = 1 => \A x \in Widget \ {w} : users[x].gc # id
<1>1. users \in [Widget -> UserType]
  BY DEF GCInv
<1>2. id \in DOMAIN gcs /\ id \in DOMAIN refs /\ w \in Uses(id) /\ refs[id] = Cardinality(Uses(id))
  BY SharedContext
<1>3. /\ IsFiniteSet(Uses(id)) /\ Cardinality(Uses(id)) \in Nat
      /\ Uses(id)' = Uses(id) \ {w} /\ Cardinality(Uses(id)') = Cardinality(Uses(id)) - 1
  BY <1>1, UsesChange
<1>4. ASSUME refs[id] # 1
      PROVE  Owned(id)'
  <2>1. Cardinality(Uses(id)') # 0
    BY <1>4, <1>2, <1>3
  <2>2. Uses(id)' # {}
    BY <2>1, FS_EmptySet
  <2>3. \A x \in Uses(id)' : users'[x].shared
    <3>1. \A x \in Uses(id) : users[x].shared
      BY <1>2 DEF GCInv, Owned
    <3>2. \A x \in Uses(id)' : x \in Widget /\ x # w
      BY <1>3 DEF Uses
    <3> QED BY <3>1, <3>2, <1>1, <1>3
  <2>4. Uses(id)' # {} /\ refs'[id] = Cardinality(Uses(id)') /\ id \in DOMAIN refs'
    BY <2>2, <1>2, <1>3, <1>4
  <2> QED BY <2>3, <2>4 DEF Owned
<1>5. ASSUME refs[id] = 1
      PROVE  \A x \in Widget \ {w} : users[x].gc # id
  <2>1. \E x : Uses(id) = {x}
    BY <1>2, <1>3, <1>5, FS_Singleton
  <2> QED BY <2>1, <1>2 DEF Uses
<1> QED BY <1>4, <1>5

(* The context of its own that a widget gets has no other user. *)
LEMMA TakesOwn ==
    ASSUME GCInv, NEW w \in Widget, NEW u \in UserType, users' = [users EXCEPT ![w] = u], ~u.shared,
           NEW id, id = u.gc, id # users[w].gc, id # NoGC, id \notin DOMAIN gcs, id \notin DOMAIN refs'
    PROVE  Owned(id)'
<1>1. users \in [Widget -> UserType]
  BY DEF GCInv
<1>2. Uses(id) = {}
  <2>1. \A x \in Widget : users[x].gc # id
    BY DEF GCInv, Exists
  <2> QED BY <2>1 DEF Uses
<1>3. Uses(id)' = {w}
  <2>1. Uses(id)' = Uses(id) \cup {w}
    BY <1>1, UsesChange
  <2> QED BY <2>1, <1>2
<1>4. Cardinality(Uses(id)') = 1
  BY <1>3, FS_Singleton
<1>5. users'[w] = u
  BY <1>1
<1> QED BY <1>3, <1>4, <1>5 DEF Owned

(* A widget that leaves a shared context gets one of its own.               *)
LEMMA UnshareSound ==
    ASSUME GCInv, NEW w \in Widget, Exists(w), users[w].shared, NEW res \in Resources,
           NEW m, NEW v, Values(m, v), Unshare(w, res, m, v)
    PROVE  Changed(w, res, Merged(m, v, Attributes(w)))
<1>0. PICK old, id : old = users[w].gc /\ id = FreeGC
  OBVIOUS
<1> DEFINE new == Merged(m, v, gcs[old])
           u == Using(id, FALSE, res)
           last == refs[old] = 1
<1>1. /\ users' = [users EXCEPT ![w] = u]
      /\ gcs' = With(IF last THEN Without(gcs, old) ELSE gcs, id, new)
      /\ refs' = IF last THEN Without(refs, old) ELSE [refs EXCEPT ![old] = @ - 1]
  BY <1>0 DEF Unshare
<1>2. old \in DOMAIN gcs /\ old \in DOMAIN refs
  BY <1>0, SharedContext
<1>3. IsAttributes(new)
  <2>1. IsAttributes(gcs[old])
    BY <1>2 DEF GCInv
  <2> QED BY <2>1, MergedAttributes
<1>4. id \in GC /\ id \notin DOMAIN gcs /\ id # NoGC /\ id \notin DOMAIN refs /\ id # old
  BY <1>0, <1>2, FreeGCIsFree DEF GCInv
<1>5. users \in [Widget -> UserType]
  BY DEF GCInv
<1> HIDE DEF new
<1>6. /\ u \in UserType /\ u.gc = id /\ u.shared = FALSE
      /\ u.foreground = res.foreground /\ u.background = res.background
  BY <1>4 DEF u, Using, UserType, Resources
<1> HIDE DEF u
<1>7. /\ gcs' = [x \in DOMAIN gcs' |-> gcs'[x]]
      /\ DOMAIN gcs' = (IF last THEN DOMAIN gcs \ {old} ELSE DOMAIN gcs) \cup {id}
      /\ gcs'[id] = new
      /\ \A x \in DOMAIN gcs' : x # id => gcs'[x] = gcs[x]
  <2>1. CASE last
    <3>1. gcs' = [x \in (DOMAIN gcs \ {old}) \cup {id} |-> IF x = id THEN new ELSE gcs[x]]
      BY <1>1, <2>1 DEF With, Without
    <3> QED BY <3>1, <2>1
  <2>2. CASE ~last
    <3>1. gcs' = [x \in DOMAIN gcs \cup {id} |-> IF x = id THEN new ELSE gcs[x]]
      BY <1>1, <2>2 DEF With
    <3> QED BY <3>1, <2>2
  <2> QED BY <2>1, <2>2
<1>8. /\ refs' = [x \in DOMAIN refs' |-> refs'[x]]
      /\ DOMAIN refs' = (IF last THEN DOMAIN refs \ {old} ELSE DOMAIN refs)
      /\ ~last => refs'[old] = refs[old] - 1
      /\ \A x \in DOMAIN refs' : x # old => refs'[x] = refs[x]
  <2>1. CASE last
    <3>1. refs' = [x \in DOMAIN refs \ {old} |-> refs[x]]
      BY <1>1, <2>1 DEF Without
    <3> QED BY <3>1, <2>1
  <2>2. CASE ~last
    <3>1. refs' = [refs EXCEPT ![old] = refs[old] - 1]
      BY <1>1, <2>2
    <3>2. refs' = [x \in DOMAIN refs |-> IF x = old THEN refs[old] - 1 ELSE refs[x]]
      BY <3>1, <1>2 DEF GCInv
    <3> QED BY <3>2, <2>2, <1>2
  <2> QED BY <2>1, <2>2
<1>9. /\ refs[old] # 1 => Owned(old)'
      /\ refs[old] = 1 => \A x \in Widget \ {w} : users[x].gc # old
  <2>1. users' = [users EXCEPT ![w] = u] /\ u.gc # old /\ u \in UserType
    BY <1>1, <1>4, <1>6
  <2>2. old \in DOMAIN refs' <=> refs[old] # 1
    BY <1>2, <1>8
  <2>3. refs[old] # 1 => refs'[old] = refs[old] - 1
    BY <1>8
  <2>4. old = users[w].gc
    BY <1>0
  <2> HIDE DEF last
  <2> QED BY <2>1, <2>2, <2>3, <2>4, LeavesShared
<1>10. Owned(id)'
  BY <1>0, <1>1, <1>4, <1>6, <1>8, TakesOwn
<1>11. GCInv'
  <2>1. DOMAIN gcs' \subseteq GC /\ DOMAIN refs' \subseteq DOMAIN gcs'
    BY <1>4, <1>7, <1>8 DEF GCInv
  <2>2. \A x \in DOMAIN gcs' : IsAttributes(gcs'[x])
    BY <1>3, <1>7 DEF GCInv
  <2>3. u.gc \in DOMAIN gcs'
    BY <1>6, <1>7
  <2>4. \A x \in Widget \ {w} : Exists(x) => users[x].gc \in DOMAIN gcs'
    BY <1>7, <1>9 DEF GCInv
  <2>5. \A x \in DOMAIN gcs' : x # users[w].gc /\ x # u.gc =>
                /\ x \in DOMAIN gcs
                /\ x \in DOMAIN refs' <=> x \in DOMAIN refs
                /\ x \in DOMAIN refs => refs'[x] = refs[x]
    BY <1>0, <1>6, <1>7, <1>8
  <2>6. \A x \in DOMAIN gcs' : x = users[w].gc \/ x = u.gc => Owned(x)'
    BY <1>0, <1>4, <1>6, <1>7, <1>9, <1>10
  <2>7. /\ users' = [users EXCEPT ![w] = u] /\ u \in UserType
        /\ gcs' = [x \in DOMAIN gcs' |-> gcs'[x]] /\ refs' = [x \in DOMAIN refs' |-> refs'[x]]
    BY <1>1, <1>6, <1>7, <1>8
  <2> QED BY ZenonT(60), <2>1, <2>2, <2>3, <2>4, <2>5, <2>6, <2>7, ContextsInOrder
<1>12. users'[w] = u /\ \A x \in Widget : x # w => users'[x] = users[x]
  BY <1>1, <1>5
<1>13. Exists(w)' /\ Attributes(w)' = new
  BY <1>12, <1>4, <1>6, <1>7 DEF Exists, Attributes
<1>14. \A x \in Widget \ {w} : Exists(x) => Attributes(x)' = Attributes(x)
  <2> SUFFICES ASSUME NEW x \in Widget \ {w}, Exists(x)
               PROVE  Attributes(x)' = Attributes(x)
    OBVIOUS
  <2>1. users[x].gc \in DOMAIN gcs' /\ users[x].gc # id
    BY <1>4, <1>7, <1>9 DEF GCInv
  <2> QED BY <2>1, <1>7, <1>12 DEF Attributes
<1>15. new = Merged(m, v, Attributes(w))
  BY <1>0 DEF new, Attributes
<1> QED BY <1>1, <1>6, <1>11, <1>12, <1>13, <1>14, <1>15 DEF Changed

(* A widget that has one of its own changes that.                           *)
LEMMA ChangeOwnSound ==
    ASSUME GCInv, NEW w \in Widget, Exists(w), ~users[w].shared, NEW res \in Resources,
           NEW m, NEW v, Values(m, v), ChangeOwn(w, res, m, v)
    PROVE  Changed(w, res, Merged(m, v, Attributes(w)))
<1>0. PICK id : id = users[w].gc
  OBVIOUS
<1> DEFINE new == Merged(m, v, gcs[id])
           u == Using(id, FALSE, res)
<1>1. users \in [Widget -> UserType] /\ id \in DOMAIN gcs /\ id \notin DOMAIN refs /\ Uses(id) = {w}
  BY <1>0, OwnContext DEF GCInv
<1>2. /\ users' = [users EXCEPT ![w] = u]
      /\ gcs' = [gcs EXCEPT ![id] = new]
      /\ refs' = refs
  BY <1>0, <1>1 DEF ChangeOwn
<1>3. IsAttributes(new)
  <2>1. IsAttributes(gcs[id])
    BY <1>1 DEF GCInv
  <2> QED BY <2>1, MergedAttributes
<1>4. id \in GC /\ id # NoGC
  BY <1>0, <1>1, GCAssumption DEF GCInv
<1> HIDE DEF new
<1>5. /\ u \in UserType /\ u.gc = id /\ u.shared = FALSE
      /\ u.foreground = res.foreground /\ u.background = res.background
  BY <1>4 DEF u, Using, UserType, Resources
<1> HIDE DEF u
<1>6. /\ gcs' = [x \in DOMAIN gcs' |-> gcs'[x]] /\ DOMAIN gcs' = DOMAIN gcs
      /\ gcs'[id] = new /\ \A x \in DOMAIN gcs : x # id => gcs'[x] = gcs[x]
  <2>1. gcs' = [x \in DOMAIN gcs |-> IF x = id THEN new ELSE gcs[x]]
    BY <1>1, <1>2 DEF GCInv
  <2> QED BY <2>1, <1>1
<1>7. users'[w] = u /\ \A x \in Widget : x # w => users'[x] = users[x]
  BY <1>1, <1>2
<1>8. Owned(id)'
  <2>1. Uses(id)' = {w} /\ Cardinality(Uses(id)') = 1
    <3>1. Uses(id)' = Uses(id) \cup {w}
      BY <1>1, <1>2, <1>5, UsesChange
    <3>2. Uses(id)' = {w}
      BY <3>1, <1>1
    <3> QED BY <3>2, FS_Singleton
  <2> QED BY <2>1, <1>1, <1>2, <1>5, <1>7 DEF Owned
<1>9. GCInv'
  <2>1. DOMAIN gcs' \subseteq GC /\ DOMAIN refs' \subseteq DOMAIN gcs'
        /\ refs' = [x \in DOMAIN refs' |-> refs'[x]]
    BY <1>2, <1>6 DEF GCInv
  <2>2. \A x \in DOMAIN gcs' : IsAttributes(gcs'[x])
    BY <1>3, <1>6 DEF GCInv
  <2>3. u.gc \in DOMAIN gcs'
    BY <1>1, <1>5, <1>6
  <2>4. \A x \in Widget \ {w} : Exists(x) => users[x].gc \in DOMAIN gcs'
    BY <1>6 DEF GCInv
  <2>5. \A x \in DOMAIN gcs' : x # users[w].gc /\ x # u.gc =>
                /\ x \in DOMAIN gcs
                /\ x \in DOMAIN refs' <=> x \in DOMAIN refs
                /\ x \in DOMAIN refs => refs'[x] = refs[x]
    BY <1>2, <1>6
  <2>6. \A x \in DOMAIN gcs' : x = users[w].gc \/ x = u.gc => Owned(x)'
    BY <1>0, <1>5, <1>8
  <2>7. users' = [users EXCEPT ![w] = u] /\ u \in UserType /\ gcs' = [x \in DOMAIN gcs' |-> gcs'[x]]
    BY <1>2, <1>5, <1>6
  <2> QED BY <2>1, <2>2, <2>3, <2>4, <2>5, <2>6, <2>7, ContextsInOrder
<1>10. Exists(w)' /\ Attributes(w)' = new
  BY <1>7, <1>4, <1>5, <1>6 DEF Exists, Attributes
<1>11. \A x \in Widget \ {w} : Exists(x) => Attributes(x)' = Attributes(x)
  <2> SUFFICES ASSUME NEW x \in Widget \ {w}, Exists(x)
               PROVE  Attributes(x)' = Attributes(x)
    OBVIOUS
  <2>1. users[x].gc \in DOMAIN gcs /\ users[x].gc # id
    BY <1>1 DEF GCInv, Uses
  <2> QED BY <2>1, <1>6, <1>7 DEF Attributes
<1>12. new = Merged(m, v, Attributes(w))
  BY <1>0 DEF new, Attributes
<1> QED BY <1>2, <1>5, <1>7, <1>9, <1>10, <1>11, <1>12 DEF Changed

(* XpwUpdateUsersGC. *)
LEMMA UpdateSound ==
    ASSUME GCInv, NEW w \in Widget, NEW res \in Resources, NEW m, NEW v, Values(m, v),
           UpdateUsersGC(w, res, m, v)
    PROVE  Changed(w, res, Merged(m, v, IF Exists(w) THEN Attributes(w) ELSE Default))
<1>1. CASE ~Exists(w)
  BY <1>1, GetGCSound DEF UpdateUsersGC
<1>2. CASE Exists(w) /\ users[w].shared
  BY <1>2, UnshareSound DEF UpdateUsersGC
<1>3. CASE Exists(w) /\ ~users[w].shared
  BY <1>3, ChangeOwnSound DEF UpdateUsersGC
<1> QED BY <1>1, <1>2, <1>3

(* With nothing collected only the resources change. *)
LEMMA ResourcesChange ==
    ASSUME GCInv, NEW w \in Widget, Exists(w), NEW res \in Resources,
           users' = [users EXCEPT ![w] = Using(@.gc, @.shared, res)], UNCHANGED <<gcs, refs>>
    PROVE  Changed(w, res, Attributes(w))
<1>0. PICK id : id = users[w].gc
  OBVIOUS
<1> DEFINE u == Using(id, users[w].shared, res)
<1>1. users \in [Widget -> UserType] /\ id \in DOMAIN gcs
  BY <1>0 DEF GCInv
<1>2. users' = [users EXCEPT ![w] = u]
  BY <1>0, <1>1
<1>3. id \in GC /\ id # NoGC
  BY <1>0, <1>1, GCAssumption DEF GCInv
<1>4. /\ u \in UserType /\ u.gc = id /\ u.shared = users[w].shared
      /\ u.foreground = res.foreground /\ u.background = res.background
  BY <1>1, <1>3 DEF u, Using, UserType, Resources
<1> HIDE DEF u
<1>5. users'[w] = u /\ \A x \in Widget : x # w => users'[x] = users[x]
  BY <1>1, <1>2
<1>6. Owned(id)'
  <2>1. Uses(id)' = Uses(id)
    BY <1>0, <1>4, <1>5 DEF Uses
  <2>2. \A x \in Uses(id) : users'[x].shared = users[x].shared
    BY <1>4, <1>5 DEF Uses
  <2>3. Owned(id)
    BY <1>1 DEF GCInv
  <2> QED BY <2>1, <2>2, <2>3 DEF Owned
<1>7. GCInv'
  <2>1. /\ gcs' = [x \in DOMAIN gcs' |-> gcs'[x]] /\ DOMAIN gcs' \subseteq GC
        /\ \A x \in DOMAIN gcs' : IsAttributes(gcs'[x])
        /\ refs' = [x \in DOMAIN refs' |-> refs'[x]] /\ DOMAIN refs' \subseteq DOMAIN gcs'
    BY DEF GCInv
  <2>2. u.gc \in DOMAIN gcs' /\ \A x \in Widget \ {w} : Exists(x) => users[x].gc \in DOMAIN gcs'
    BY <1>1, <1>4 DEF GCInv
  <2>3. \A x \in DOMAIN gcs' : x # users[w].gc /\ x # u.gc =>
                /\ x \in DOMAIN gcs
                /\ x \in DOMAIN refs' <=> x \in DOMAIN refs
                /\ x \in DOMAIN refs => refs'[x] = refs[x]
    OBVIOUS
  <2>4. \A x \in DOMAIN gcs' : x = users[w].gc \/ x = u.gc => Owned(x)'
    BY <1>0, <1>4, <1>6
  <2> QED BY <1>2, <1>4, <2>1, <2>2, <2>3, <2>4, ContextsInOrder
<1>8. Exists(w)' /\ Attributes(w)' = Attributes(w)
  BY <1>0, <1>3, <1>4, <1>5 DEF Exists, Attributes
<1>9. \A x \in Widget \ {w} : Exists(x) => Attributes(x)' = Attributes(x)
  BY <1>5 DEF Attributes
<1> QED BY <1>2, <1>4, <1>5, <1>7, <1>8, <1>9 DEF Changed

(* _XpwCondUpdateUsersGC, with what was collected.                          *)
LEMMA CondUpdateSound ==
    ASSUME GCInv, NEW w \in Widget, NEW res \in Resources, Values(GCvaluemask', GCvalues'),
           Exists(w) \/ GCvaluemask' # {}, CondUpdate(w, res)
    PROVE  Changed(w, res, Merged(GCvaluemask', GCvalues',
                                  IF Exists(w) THEN Attributes(w) ELSE Default))
<1>1. CASE GCvaluemask' = {}
  <2>1. Changed(w, res, Attributes(w))
    <3>1. users' = [users EXCEPT ![w] = Using(@.gc, @.shared, res)] /\ UNCHANGED <<gcs, refs>>
      BY <1>1 DEF CondUpdate
    <3> QED BY <1>1, <3>1, ResourcesChange
  <2>2. Merged({}, GCvalues', Attributes(w)) = Attributes(w)
    <3>1. IsAttributes(Attributes(w))
      BY <1>1 DEF GCInv, Attributes
    <3> QED BY <3>1 DEF Merged, IsAttributes
  <2> QED BY <1>1, <2>1, <2>2
<1>2. CASE GCvaluemask' # {}
  <2>1. UpdateUsersGC(w, res, GCvaluemask', GCvalues')
    BY <1>2 DEF CondUpdate
  <2> QED BY <2>1, UpdateSound
<1> QED BY <1>1, <1>2

(* The arguments of a call name attributes and give them values. *)
LEMMA ArgumentValues ==
    ASSUME NEW args \in InitArgs \cup Args \cup GCArgs
    PROVE  Values(DOMAIN args, args)
  BY ArgsAssumption DEF Values

(* Initialize gives the widget the context it asks for.                     *)
LEMMA CreateGCSound ==
    ASSUME GCInv, ValuesOK, NEW w \in Widget, NEW args \in InitArgs, CreateGC(w, args)
    PROVE  /\ ~Exists(w) /\ ValuesOK'
           /\ Changed(w, [a \in Attrs!Colours |-> Attrs!Given(w, args, Default)[a]],
                      Attrs!Given(w, args, Default))
<1> DEFINE res == [foreground |-> Given(args, "foreground", 0),
                   background |-> Given(args, "background", 1)]
           function == Given(args, "function", Default.function)
<1>1. /\ ~Exists(w)
      /\ GCvalues' = [foreground |-> res.foreground, background |-> res.background,
                      function |-> IF HasSubpart(w) THEN function ELSE GCvalues.function]
      /\ GCvaluemask' = {"foreground", "background"} \cup
            {a \in Subpart : HasSubpart(w) /\ function # Default[a]}
      /\ CondUpdate(w, res)
  BY DEF CreateGC
<1>2. res \in Resources /\ function \in Function
  BY ArgumentValues, PixelAssumption DEF Values, Given, Resources, Default
<1>3. ValuesOK'
  BY <1>1, <1>2 DEF ValuesOK, IsAttributes, Resources, Attr, Subpart
<1>4. Values(GCvaluemask', GCvalues')
  BY <1>3 DEF ValuesOK, IsAttributes, Values
<1>5. Changed(w, res, Merged(GCvaluemask', GCvalues', Default))
  BY <1>1, <1>2, <1>4, CondUpdateSound
<1>6. Merged(GCvaluemask', GCvalues', Default) = Attrs!Given(w, args, Default)
  BY <1>1 DEF Merged, Attrs!Given, Attr, Subpart, Default, Given, Attrs!Drawing, HasSubpart
<1>7. /\ res.foreground = [a \in Attrs!Colours |-> Attrs!Given(w, args, Default)[a]].foreground
      /\ res.background = [a \in Attrs!Colours |-> Attrs!Given(w, args, Default)[a]].background
  BY DEF Attrs!Given, Attrs!Colours, Default, Given
<1> QED BY <1>1, <1>3, <1>5, <1>6, <1>7 DEF Changed

(* SetValues gives it what is changed, and keeps the rest.                  *)
LEMMA SetValuesGCSound ==
    ASSUME GCInv, ValuesOK, NEW w \in Widget, Exists(w), NEW args \in Args, SetValuesGC(w, args)
    PROVE  /\ ValuesOK'
           /\ Changed(w, [a \in {"foreground", "background"} |-> Given(args, a, users[w][a])],
                [a \in Attr |->
                    IF a \in {"foreground", "background"}
                    THEN IF Given(args, a, users[w][a]) # users[w][a] THEN args[a] ELSE Attributes(w)[a]
                    ELSE IF HasSubpart(w) THEN Given(args, a, Attributes(w)[a])
                    ELSE Attributes(w)[a]])
<1> DEFINE res == [a \in {"foreground", "background"} |-> Given(args, a, users[w][a])]
           function == Given(args, "function", Attributes(w).function)
           core == MaskOfResources(w, res)
<1>1. /\ GCvalues' = [a \in Attr |->
            IF a \in Subpart /\ HasSubpart(w) THEN function
            ELSE IF a \in core \ Subpart THEN res[a]
            ELSE GCvalues[a]]
      /\ GCvaluemask' = core \cup
            {a \in Subpart : HasSubpart(w) /\ function # Attributes(w)[a]}
      /\ CondUpdate(w, res)
  BY DEF SetValuesGC
<1>2. users[w] \in UserType /\ IsAttributes(Attributes(w))
  BY DEF GCInv, Attributes
<1>3. res \in Resources /\ function \in Function
  <2>1. function \in Function
    BY <1>2, ArgumentValues DEF Values, Given, IsAttributes
  <2>2. res["foreground"] \in Pixel /\ res["background"] \in Pixel
    BY <1>2, ArgumentValues DEF Values, Given, UserType
  <2> QED BY <2>1, <2>2 DEF Resources
<1>4. ValuesOK'
  <2>1. IsAttributes(GCvalues')
    BY <1>1, <1>3 DEF ValuesOK, IsAttributes, Resources, Attr, Subpart
  <2> QED BY <2>1, <1>1 DEF ValuesOK, MaskOfResources, Attr
<1>5. Values(GCvaluemask', GCvalues')
  BY <1>4 DEF ValuesOK, IsAttributes, Values
<1>6. Changed(w, res, Merged(GCvaluemask', GCvalues', Attributes(w)))
  BY <1>1, <1>3, <1>5, CondUpdateSound
<1>7. Merged(GCvaluemask', GCvalues', Attributes(w)) =
        [a \in Attr |->
                    IF a \in {"foreground", "background"}
                    THEN IF Given(args, a, users[w][a]) # users[w][a] THEN args[a] ELSE Attributes(w)[a]
                    ELSE IF HasSubpart(w) THEN Given(args, a, Attributes(w)[a])
                    ELSE Attributes(w)[a]]
  BY <1>1 DEF Merged, MaskOfResources, Attr, Subpart, Given
<1> QED BY <1>4, <1>6, <1>7

(* The method XpwMSetGC changes the context, and the resources too.         *)
LEMMA ChangeUsersGCSound ==
    ASSUME GCInv, ValuesOK, NEW w \in Widget, Exists(w), NEW args \in GCArgs, ChangeUsersGC(w, args)
    PROVE  /\ ValuesOK'
           /\ Changed(w, users[w], Merged(DOMAIN args, args, Attributes(w)))
<1> DEFINE res == [foreground |-> users[w].foreground, background |-> users[w].background]
<1>1. UpdateUsersGC(w, res, DOMAIN args, args) /\ UNCHANGED <<GCvalues, GCvaluemask>>
  BY DEF ChangeUsersGC
<1>2. res \in Resources
  BY DEF GCInv, UserType, Resources
<1>3. Changed(w, res, Merged(DOMAIN args, args, Attributes(w)))
  BY <1>1, <1>2, ArgumentValues, UpdateSound
<1> QED BY <1>1, <1>3 DEF Changed, ValuesOK

(* The end of a widget: the context it had alone goes with it, one it      *)
(* shared with its last user.                                              *)
LEMMA DestroyGCSound ==
    ASSUME GCInv, ValuesOK, NEW w \in Widget, Exists(w), DestroyGC(w)
    PROVE  /\ GCInv' /\ ValuesOK' /\ ~Exists(w)'
           /\ users' = [users EXCEPT ![w] = users'[w]]
           /\ \A x \in Widget \ {w} : Exists(x) => Attributes(x)' = Attributes(x)
<1>0. PICK id : id = users[w].gc
  OBVIOUS
<1>1. users \in [Widget -> UserType] /\ id \in DOMAIN gcs /\ id # NoGC
  BY <1>0 DEF GCInv, Exists
<1>2. users' = [users EXCEPT ![w] = NoWidget] /\ UNCHANGED <<GCvalues, GCvaluemask>>
  BY DEF DestroyGC
<1>3. NoWidget \in UserType /\ NoWidget.gc = NoGC
  BY PixelAssumption DEF NoWidget, UserType
<1>4. users'[w] = NoWidget /\ \A x \in Widget : x # w => users'[x] = users[x]
  BY <1>1, <1>2
<1> DEFINE dies == ~users[w].shared \/ refs[id] = 1
<1>5. /\ gcs' = [x \in DOMAIN gcs' |-> gcs'[x]]
      /\ DOMAIN gcs' = (IF dies THEN DOMAIN gcs \ {id} ELSE DOMAIN gcs)
      /\ \A x \in DOMAIN gcs' : gcs'[x] = gcs[x]
  <2>1. gcs' = IF dies THEN Without(gcs, id) ELSE gcs
    BY <1>0 DEF DestroyGC, Release
  <2>2. CASE dies
    <3>1. gcs' = [x \in DOMAIN gcs \ {id} |-> gcs[x]]
      BY <2>1, <2>2 DEF Without
    <3> QED BY <3>1, <2>2
  <2>3. CASE ~dies
    BY <2>1, <2>3 DEF GCInv
  <2> QED BY <2>2, <2>3
<1>6. /\ refs' = [x \in DOMAIN refs' |-> refs'[x]]
      /\ DOMAIN refs' = (IF dies THEN DOMAIN refs \ {id} ELSE DOMAIN refs)
      /\ ~dies => refs'[id] = refs[id] - 1
      /\ \A x \in DOMAIN refs' : x # id => refs'[x] = refs[x]
  <2>1. CASE users[w].shared
    <3>1. refs' = IF refs[id] = 1 THEN Without(refs, id) ELSE [refs EXCEPT ![id] = @ - 1]
      BY <1>0, <2>1 DEF DestroyGC, Release
    <3>2. id \in DOMAIN refs
      BY <1>0, <2>1, SharedContext
    <3>3. CASE refs[id] = 1
      <4>1. refs' = [x \in DOMAIN refs \ {id} |-> refs[x]]
        BY <3>1, <3>3 DEF Without
      <4> QED BY <4>1, <3>3
    <3>4. CASE refs[id] # 1
      <4>1. refs' = [refs EXCEPT ![id] = refs[id] - 1]
        BY <3>1, <3>4
      <4>2. refs' = [x \in DOMAIN refs |-> IF x = id THEN refs[id] - 1 ELSE refs[x]]
        BY <4>1, <3>2 DEF GCInv
      <4> QED BY <4>2, <3>2, <3>4, <2>1
    <3> QED BY <3>3, <3>4
  <2>2. CASE ~users[w].shared
    <3>1. refs' = refs /\ id \notin DOMAIN refs
      BY <1>0, <2>2, OwnContext DEF DestroyGC
    <3> QED BY <3>1, <2>2 DEF GCInv
  <2> QED BY <2>1, <2>2
<1>7. /\ ~dies => Owned(id)'
      /\ dies => \A x \in Widget \ {w} : users[x].gc # id
  <2>1. CASE users[w].shared
    <3>1. id \in DOMAIN refs
      BY <1>0, <2>1, SharedContext
    <3>2. id \in DOMAIN refs' <=> refs[id] # 1
      BY <3>1, <2>1, <1>6
    <3>3. refs[id] # 1 => refs'[id] = refs[id] - 1
      BY <2>1, <1>6
    <3>4. NoWidget.gc # id
      BY <1>1, <1>3
    <3> QED BY <3>2, <3>3, <3>4, <2>1, <1>0, <1>2, <1>3, LeavesShared
  <2>2. CASE ~users[w].shared
    <3>1. Uses(id) = {w}
      BY <1>0, <2>2, OwnContext
    <3> QED BY <3>1, <2>2 DEF Uses
  <2> QED BY <2>1, <2>2
<1> HIDE DEF dies
<1>8. GCInv'
  <2>1. DOMAIN gcs' \subseteq GC /\ DOMAIN refs' \subseteq DOMAIN gcs'
    BY <1>5, <1>6 DEF GCInv
  <2>2. \A x \in DOMAIN gcs' : IsAttributes(gcs'[x])
    BY <1>5 DEF GCInv
  <2>3. \A x \in Widget \ {w} : Exists(x) => users[x].gc \in DOMAIN gcs'
    BY <1>5, <1>7 DEF GCInv
  <2>4. \A x \in DOMAIN gcs' : x # users[w].gc /\ x # NoWidget.gc =>
                /\ x \in DOMAIN gcs
                /\ x \in DOMAIN refs' <=> x \in DOMAIN refs
                /\ x \in DOMAIN refs => refs'[x] = refs[x]
    BY <1>0, <1>5, <1>6
  <2>5. \A x \in DOMAIN gcs' : x = users[w].gc \/ x = NoWidget.gc => Owned(x)'
    <3>1. NoGC \notin DOMAIN gcs'
      BY <2>1, GCAssumption
    <3>2. id \in DOMAIN gcs' => ~dies
      BY <1>5
    <3> QED BY <3>1, <3>2, <1>0, <1>3, <1>7
  <2>6. /\ gcs' = [x \in DOMAIN gcs' |-> gcs'[x]] /\ refs' = [x \in DOMAIN refs' |-> refs'[x]]
    BY <1>5, <1>6
  <2> QED BY <1>2, <1>3, <2>1, <2>2, <2>3, <2>4, <2>5, <2>6, ContextsInOrder
<1>9. \A x \in Widget \ {w} : Exists(x) => Attributes(x)' = Attributes(x)
  BY <1>4, <1>5, <1>7 DEF Attributes, GCInv
<1>10. ~Exists(w)'
  BY <1>3, <1>4 DEF Exists
<1> QED BY <1>2, <1>4, <1>8, <1>9, <1>10 DEF ValuesOK

(* What a program may rely on, as the contexts give it. *)
Drawn == [w \in Widget |-> IF Exists(w) THEN Attributes(w) ELSE NoAttributes]
Kept == [w \in Widget |-> IF Exists(w) THEN [foreground |-> Fg(w), background |-> Bg(w)]
                          ELSE NoAttributes]

(* The attributes of GCAttributes, in a state and ...                       *)
LEMMA DrawnValues ==
    ASSUME GCInv, NEW w \in Widget
    PROVE  /\ Exists(w) => /\ Drawn[w] = Attributes(w) /\ IsAttributes(Drawn[w])
                           /\ Drawn[w] # NoAttributes /\ DOMAIN Drawn[w] = Attr
                           /\ Kept[w] = [a \in {"foreground", "background"} |-> users[w][a]]
           /\ ~Exists(w) => Drawn[w] = NoAttributes /\ Kept[w] = NoAttributes
<1>1. ASSUME Exists(w)
      PROVE  /\ IsAttributes(Attributes(w)) /\ Attributes(w) # NoAttributes
             /\ DOMAIN Attributes(w) = Attr
  <2>1. IsAttributes(Attributes(w))
    BY <1>1 DEF GCInv, Attributes
  <2>3. Attributes(w) \in [foreground : Pixel, background : Pixel, function : Function]
    BY <2>1 DEF IsAttributes, Attr, Subpart
  <2>4. DOMAIN Attributes(w) = Attr
    BY <2>1 DEF IsAttributes
  <2>5. Attributes(w) # NoAttributes
    BY <2>3, NoAttributesAssumption
  <2> QED BY <2>1, <2>4, <2>5
<1> QED BY <1>1 DEF Drawn, Kept, Fg, Bg

(* ... after a change of one widget, ...                                    *)
LEMMA DrawnChanges ==
    ASSUME GCInv, NEW w \in Widget, NEW res, NEW new, Changed(w, res, new)
    PROVE  /\ Drawn' = [Drawn EXCEPT ![w] = new]
           /\ Kept' = [Kept EXCEPT ![w] = [foreground |-> res.foreground,
                                           background |-> res.background]]
<1>1. \A x \in Widget : x # w => users'[x] = users[x] /\ Exists(x)' = Exists(x)
                                 /\ Fg(x)' = Fg(x) /\ Bg(x)' = Bg(x)
  BY DEF Changed, GCInv, Exists, Fg, Bg
<1>2. \A x \in Widget \ {w} : Drawn'[x] = Drawn[x] /\ Kept'[x] = Kept[x]
  BY <1>1 DEF Changed, Drawn, Kept
<1>3. Drawn'[w] = new /\ Kept'[w] = [foreground |-> res.foreground, background |-> res.background]
  BY DEF Changed, Drawn, Kept, Fg, Bg
<1>4. Drawn' = [x \in Widget |-> Drawn'[x]] /\ Kept' = [x \in Widget |-> Kept'[x]]
      /\ Drawn = [x \in Widget |-> Drawn[x]] /\ Kept = [x \in Widget |-> Kept[x]]
  BY DEF Drawn, Kept
<1> HIDE DEF Drawn, Kept
<1> QED BY <1>2, <1>3, <1>4

(* ... and when it is destroyed.                                            *)
LEMMA DrawnEnds ==
    ASSUME GCInv, ValuesOK, NEW w \in Widget, Exists(w), DestroyGC(w)
    PROVE  /\ Drawn' = [Drawn EXCEPT ![w] = NoAttributes]
           /\ Kept' = [Kept EXCEPT ![w] = NoAttributes]
<1>1. /\ GCInv' /\ ~Exists(w)' /\ users' = [users EXCEPT ![w] = users'[w]]
      /\ \A x \in Widget \ {w} : Exists(x) => Attributes(x)' = Attributes(x)
  BY DestroyGCSound
<1>2. \A x \in Widget : x # w => users'[x] = users[x] /\ Exists(x)' = Exists(x)
                                 /\ Fg(x)' = Fg(x) /\ Bg(x)' = Bg(x)
  BY <1>1 DEF GCInv, Exists, Fg, Bg
<1>3. \A x \in Widget \ {w} : Drawn'[x] = Drawn[x] /\ Kept'[x] = Kept[x]
  BY <1>1, <1>2 DEF Drawn, Kept
<1>4. Drawn'[w] = NoAttributes /\ Kept'[w] = NoAttributes
  BY <1>1 DEF Drawn, Kept
<1>5. Drawn' = [x \in Widget |-> Drawn'[x]] /\ Kept' = [x \in Widget |-> Kept'[x]]
      /\ Drawn = [x \in Widget |-> Drawn[x]] /\ Kept = [x \in Widget |-> Kept[x]]
  BY DEF Drawn, Kept
<1> QED BY <1>3, <1>4, <1>5

(* The refinement mapping of Attrs. *)
LEMMA AttrsNames ==
    /\ Attrs!Init <=> Drawn = [w \in Widget |-> NoAttributes] /\ Kept = [w \in Widget |-> NoAttributes]
    /\ Attrs!vars = <<Drawn, Kept>>
  BY DEF Attrs!Init, Attrs!vars, Drawn, Kept

(* Each action of the program is one of GCAttributes: making, ...           *)
LEMMA CreateImplements ==
    ASSUME GCInv, ValuesOK, NEW w \in Widget, NEW args \in InitArgs, CreateGC(w, args)
    PROVE  Attrs!Create(w, args)
<1> DEFINE given == Attrs!Given(w, args, Default)
           res == [a \in Attrs!Colours |-> given[a]]
<1>1. ~Exists(w) /\ Changed(w, res, given)
  BY CreateGCSound
<1>2. Drawn[w] = NoAttributes
  BY <1>1, DrawnValues
<1>3. /\ Drawn' = [Drawn EXCEPT ![w] = given]
      /\ Kept' = [Kept EXCEPT ![w] = [foreground |-> res.foreground, background |-> res.background]]
  BY <1>1, DrawnChanges
<1>4. res = [foreground |-> res.foreground, background |-> res.background]
  BY DEF Attrs!Colours
<1>5. Default = Attrs!Default
  BY DEF Default, Attrs!Default
<1> HIDE DEF given
<1>6. /\ Drawn[w] = NoAttributes
      /\ Drawn' = [Drawn EXCEPT ![w] = given]
      /\ Kept' = [Kept EXCEPT ![w] = [a \in Attrs!Colours |-> given[a]]]
  BY <1>2, <1>3, <1>4
<1> QED BY <1>5, <1>6 DEF Attrs!Create, Drawn, Kept, given

(* ... XtSetValues, ...                                                     *)
LEMMA SetValuesImplements ==
    ASSUME GCInv, ValuesOK, NEW w \in Widget, Exists(w), NEW args \in Args, SetValuesGC(w, args)
    PROVE  Attrs!SetValues(w, args)
<1> DEFINE res == [a \in {"foreground", "background"} |-> Given(args, a, users[w][a])]
           new == [a \in Attr |->
                    IF a \in {"foreground", "background"}
                    THEN IF Given(args, a, users[w][a]) # users[w][a] THEN args[a] ELSE Attributes(w)[a]
                    ELSE IF HasSubpart(w) THEN Given(args, a, Attributes(w)[a])
                    ELSE Attributes(w)[a]]
<1>1. Changed(w, res, new)
  BY SetValuesGCSound
<1>2. /\ Drawn[w] = Attributes(w) /\ Drawn[w] # NoAttributes /\ DOMAIN Drawn[w] = Attr
      /\ Kept[w] = [a \in {"foreground", "background"} |-> users[w][a]]
  BY DrawnValues
<1>3. /\ Drawn' = [Drawn EXCEPT ![w] = new]
      /\ Kept' = [Kept EXCEPT ![w] = [foreground |-> res.foreground, background |-> res.background]]
  BY <1>1, DrawnChanges
<1>4. [foreground |-> res.foreground, background |-> res.background] = Attrs!Given(w, args, Kept[w])
  BY <1>2 DEF Given, Attrs!Given
<1>5. Kept' = [Kept EXCEPT ![w] = Attrs!Given(w, args, @)]
  BY <1>3, <1>4 DEF Kept
<1>6. Kept'[w] = [a \in {"foreground", "background"} |-> Given(args, a, users[w][a])]
  BY <1>3 DEF Kept
<1>7. new = [a \in DOMAIN Drawn[w] |->
                IF a \in Attrs!Colours /\ Kept'[w][a] = Kept[w][a] THEN Drawn[w][a]
                ELSE Attrs!Given(w, args, Drawn[w])[a]]
  BY <1>2, <1>6 DEF Given, Attrs!Given, Attrs!Colours, Attrs!Drawing, HasSubpart, Attr, Subpart
<1> HIDE DEF new
<1>8. Drawn' = [Drawn EXCEPT ![w] = [a \in DOMAIN @ |->
                IF a \in Attrs!Colours /\ Kept'[w][a] = Kept[w][a] THEN @[a]
                ELSE Attrs!Given(w, args, @)[a]]]
  BY <1>3, <1>7 DEF Drawn
<1>9. Drawn[w] # NoAttributes /\ Kept' = [Kept EXCEPT ![w] = Attrs!Given(w, args, @)]
  BY <1>2, <1>5
<1> QED BY <1>8, <1>9 DEF Attrs!SetValues, Drawn, Kept

(* ... the method, ...                                                      *)
LEMMA ChangeUsersGCImplements ==
    ASSUME GCInv, ValuesOK, NEW w \in Widget, Exists(w), NEW args \in GCArgs, ChangeUsersGC(w, args)
    PROVE  Attrs!ChangeUsersGC(w, args)
<1> DEFINE new == Merged(DOMAIN args, args, Attributes(w))
<1>1. Changed(w, users[w], new)
  BY ChangeUsersGCSound
<1>2. /\ Drawn[w] = Attributes(w) /\ Drawn[w] # NoAttributes /\ DOMAIN Drawn[w] = Attr
      /\ Kept[w] = [a \in {"foreground", "background"} |-> users[w][a]]
  BY DrawnValues
<1>3. /\ Drawn' = [Drawn EXCEPT ![w] = new]
      /\ Kept' = [Kept EXCEPT ![w] = [foreground |-> users[w].foreground,
                                      background |-> users[w].background]]
  BY <1>1, DrawnChanges
<1>4. Kept' = Kept
  <2>1. [foreground |-> users[w].foreground, background |-> users[w].background] = Kept[w]
    BY <1>2
  <2> QED BY <1>3, <2>1 DEF Kept
<1>5. new = [a \in DOMAIN Drawn[w] |-> IF a \in DOMAIN args THEN args[a] ELSE Drawn[w][a]]
  BY <1>2 DEF Merged
<1> HIDE DEF new
<1>6. Drawn' = [Drawn EXCEPT ![w] = [a \in DOMAIN @ |-> IF a \in DOMAIN args THEN args[a] ELSE @[a]]]
  BY <1>3, <1>5 DEF Drawn
<1> QED BY <1>2, <1>4, <1>6 DEF Attrs!ChangeUsersGC, Drawn, Kept

(* ... and destruction.                                                     *)
LEMMA DestroyImplements ==
    ASSUME GCInv, ValuesOK, NEW w \in Widget, Exists(w), DestroyGC(w)
    PROVE  Attrs!Destroy(w)
<1>1. Drawn[w] # NoAttributes
  BY DrawnValues
<1>2. /\ Drawn' = [Drawn EXCEPT ![w] = NoAttributes]
      /\ Kept' = [Kept EXCEPT ![w] = NoAttributes]
  BY DrawnEnds
<1> QED BY <1>1, <1>2 DEF Attrs!Destroy, Drawn, Kept

(* Each step keeps the contexts in order and does to the attributes what   *)
(* the abstract specification does.                                        *)
LEMMA ContextsStep ==
    ASSUME GCInv, ValuesOK, [Next]_vars
    PROVE  GCInv' /\ ValuesOK' /\ (Attrs!Next \/ UNCHANGED <<Drawn, Kept>>)
<1> USE DEF Attrs!Next
<1>1. ASSUME NEW w \in Widget, NEW args \in InitArgs, Create(w, args)
      PROVE  GCInv' /\ ValuesOK' /\ Attrs!Next
  <2>1. CreateGC(w, args)
    BY <1>1 DEF Create
  <2>2. GCInv' /\ ValuesOK'
    BY <2>1, CreateGCSound DEF Changed
  <2>3. Attrs!Create(w, args)
    BY <2>1, CreateImplements
  <2> QED BY <2>2, <2>3
<1>2. ASSUME NEW w \in Widget, NEW args \in Args, SetValues(w, args)
      PROVE  GCInv' /\ ValuesOK' /\ Attrs!Next
  <2>1. Exists(w) /\ SetValuesGC(w, args)
    BY <1>2 DEF SetValues
  <2>2. GCInv' /\ ValuesOK'
    BY <2>1, SetValuesGCSound DEF Changed
  <2>3. Attrs!SetValues(w, args)
    BY <2>1, SetValuesImplements
  <2> QED BY <2>2, <2>3
<1>3. ASSUME NEW w \in Widget, NEW args \in GCArgs, SetGC(w, args)
      PROVE  GCInv' /\ ValuesOK' /\ Attrs!Next
  <2>1. Exists(w) /\ ChangeUsersGC(w, args)
    BY <1>3 DEF SetGC
  <2>2. GCInv' /\ ValuesOK'
    BY <2>1, ChangeUsersGCSound DEF Changed
  <2>3. Attrs!ChangeUsersGC(w, args)
    BY <2>1, ChangeUsersGCImplements
  <2> QED BY <2>2, <2>3
<1>4. ASSUME NEW w \in Widget, Destroy(w)
      PROVE  GCInv' /\ ValuesOK' /\ Attrs!Next
  <2>1. Exists(w) /\ DestroyGC(w)
    BY <1>4 DEF Destroy
  <2>2. GCInv' /\ ValuesOK'
    BY <2>1, DestroyGCSound
  <2>3. Attrs!Destroy(w)
    BY <2>1, DestroyImplements
  <2> QED BY <2>2, <2>3
<1>5. ASSUME UNCHANGED gcvars
      PROVE  GCInv' /\ ValuesOK' /\ UNCHANGED <<Drawn, Kept>>
  <2>1. UNCHANGED users /\ UNCHANGED gcs /\ UNCHANGED refs /\ UNCHANGED GCvalues /\ UNCHANGED GCvaluemask
    BY <1>5 DEF gcvars
  <2>2. GCInv'
    <3>1. \A id : Owned(id)' <=> Owned(id)
      BY <2>1 DEF Owned, Uses
    <3> QED BY <2>1, <3>1 DEF GCInv, Exists
  <2>3. ValuesOK'
    BY <2>1 DEF ValuesOK
  <2>4. UNCHANGED <<Drawn, Kept>>
    BY <2>1 DEF Drawn, Kept, Exists, Attributes, Fg, Bg
  <2> QED BY <2>2, <2>3, <2>4
<1>6. ASSUME NEW w \in Widget,
             (\E n \in Sizes : Resize(w, n)) \/ Realize(w) \/ Methods(w) \/ ColorMethods(w) \/ Expose(w)
      PROVE  UNCHANGED gcvars
  BY <1>6 DEF Resize, Realize, Methods, ColorMethods, Expose
<1>7. CoverOrUncover => UNCHANGED gcvars
  BY DEF CoverOrUncover
<1>8. UNCHANGED vars => UNCHANGED gcvars
  BY DEF vars
<1> QED BY <1>1, <1>2, <1>3, <1>4, <1>5, <1>6, <1>7, <1>8 DEF Next

(* No widget, no context.                                                   *)
LEMMA ContextsBegin ==
    ASSUME Init
    PROVE  GCInv /\ ValuesOK /\ Attrs!Init
<1>1. /\ users = [w \in Widget |-> NoWidget] /\ gcs = <<>> /\ refs = <<>>
      /\ GCvalues = Default /\ GCvaluemask = {}
  BY DEF Init, InitGC
<1>2. NoWidget \in UserType /\ \A w \in Widget : ~Exists(w)
  BY <1>1, PixelAssumption DEF NoWidget, UserType, Exists
<1>3. /\ gcs = [x \in DOMAIN gcs |-> gcs[x]] /\ DOMAIN gcs = {}
      /\ refs = [x \in DOMAIN refs |-> refs[x]] /\ DOMAIN refs = {}
  BY <1>1
<1>4. GCInv
  BY <1>1, <1>2, <1>3 DEF GCInv
<1>5. ValuesOK
  BY <1>1, DefaultAttributes DEF ValuesOK
<1>6. Attrs!Init
  BY <1>2, AttrsNames DEF Drawn, Kept
<1> QED BY <1>4, <1>5, <1>6

(* Each context of the server has its users and is released once, whatever *)
(* order widgets share, change and leave contexts in (GCsOwned).           *)
THEOREM ContextsOwned == Spec => []GCsOwned
<1>1. Init => GCInv /\ ValuesOK
  BY ContextsBegin
<1>2. GCInv /\ ValuesOK /\ [Next]_vars => GCInv' /\ ValuesOK'
  BY ContextsStep
<1>3. GCInv => GCsOwned
  BY DEF GCInv, GCsOwned, Owned, Uses
<1> QED BY <1>1, <1>2, <1>3, PTL DEF Spec

(* With the two global variables and the shared contexts of UsersGC.c, each*)
(* widget has the attributes it asked for and no other (GCAttributes).     *)
THEOREM AttributesImplemented == Spec => ImplementsAttributes
<1>1. Init => GCInv /\ ValuesOK /\ Attrs!Init
  BY ContextsBegin
<1>2. GCInv /\ ValuesOK /\ [Next]_vars => GCInv' /\ ValuesOK' /\ [Attrs!Next]_(Attrs!vars)
  BY ContextsStep, AttrsNames DEF Attrs!vars, Drawn, Kept
<1> QED BY <1>1, <1>2, PTL DEF Spec, ImplementsAttributes, Attrs!Spec

-----------------------------------------------------------------------------
(* The display. *)

(* What a cell may look like, once it has been drawn. *)
Look == Int \ {Junk}
IsImage(image, n) == image \in [Cells(n) -> Look]

DisplayFields == {"pm", "win", "pixmaps", "pending", "hidden", "bad"}
PmType == [status : Status, size : Nat, pixmap : Pixmap \cup {NullPixmap, UnspecifiedPixmap},
           tiled : BOOLEAN, pen : Look]

IsDisplay(e) ==
    /\ e = [x \in DisplayFields |-> e[x]]
    /\ e.pm = [w \in Widget |-> e.pm[w]] /\ e.win = [w \in Widget |-> e.win[w]]
    /\ e.pending = [w \in Widget |-> e.pending[w]]
    /\ e.pixmaps = [id \in DOMAIN e.pixmaps |-> e.pixmaps[id]]

(* The pixmaps of the other widgets. *)
Others(e, w) == {e.pm[x].pixmap : x \in {y \in Widget \ {w} : e.pm[y].status # "HasNone"}}

(* Nothing of the other widgets is touched. *)
Frame(e, f, w) ==
    /\ IsDisplay(f) /\ f.bad = FALSE /\ f.hidden = e.hidden
    /\ \A x \in Widget \ {w} :
        f.pm[x] = e.pm[x] /\ f.win[x] = e.win[x] /\ f.pending[x] = e.pending[x]
    /\ \A id \in Others(e, w) : id \in DOMAIN f.pixmaps /\ f.pixmaps[id] = e.pixmaps[id]

(* The widget has the pixmap it should, beside those in ids: what is the   *)
(* others'.                                                                *)
OwnPixmap(f, w, ids) ==
    /\ f.pm[w] \in PmType
    /\ IF f.pm[w].status = "HasNone"
       THEN DOMAIN f.pixmaps = ids /\ f.pm[w].pixmap \notin Pixmap
       ELSE /\ f.pm[w].pixmap \in Pixmap \ ids
            /\ DOMAIN f.pixmaps = ids \cup {f.pm[w].pixmap}
            /\ IsImage(f.pixmaps[f.pm[w].pixmap], f.pm[w].size)

(* Its window, which a graphic widget has once it is realized. *)
OwnWindow(f, w) ==
    /\ Realized(f, w) => Graphic(w) /\ f.pm[w].size \in AnySize /\ IsImage(f.win[w], f.pm[w].size)
    /\ ~Realized(f, w) => f.pending[w] = {}
    /\ \A cells \in f.pending[w] : cells # {} /\ cells \subseteq Int

(* The window shows what is in the pixmap. *)
Mirrored(f, w) ==
    Graphic(w) /\ Realized(f, w) /\ f.pm[w].status = "On" =>
        \A k \in Visible(f, w) \ UNION f.pending[w] :
            f.win[w][k] = f.pixmaps[f.pm[w].pixmap][k]

(* A display in order, for every widget. *)
Sound(e) ==
    /\ IsDisplay(e) /\ e.bad = FALSE /\ e.hidden \in BOOLEAN
    /\ \A w \in Widget : OwnPixmap(e, w, Others(e, w)) /\ OwnWindow(e, w) /\ Mirrored(e, w)

(* A display in order is a frame of itself.                                 *)
LEMMA SoundFrame ==
    ASSUME NEW e, Sound(e), NEW w \in Widget
    PROVE  Frame(e, e, w) /\ Others(e, w) \subseteq Pixmap /\ Others(e, w) \subseteq DOMAIN e.pixmaps
<1>1. Others(e, w) \subseteq DOMAIN e.pixmaps
  BY DEF Sound, OwnPixmap
<1>2. Others(e, w) \subseteq Pixmap
  BY DEF Others, Sound, OwnPixmap
<1> QED BY <1>1, <1>2 DEF Frame, Sound

(* What was done to one widget leaves the display in order if it leaves    *)
(* that widget so.                                                         *)
LEMMA StillSound ==
    ASSUME NEW e, Sound(e), NEW w \in Widget, NEW f, Frame(e, f, w),
           OwnPixmap(f, w, Others(e, w)), OwnWindow(f, w), Mirrored(f, w)
    PROVE  Sound(f)
<1>1. Others(f, w) = Others(e, w)
  BY DEF Frame, Others
<1>2. ASSUME NEW x \in Widget, x # w
      PROVE  OwnPixmap(f, x, Others(f, x)) /\ OwnWindow(f, x) /\ Mirrored(f, x)
  <2>1. f.pm[x] = e.pm[x] /\ f.win[x] = e.win[x] /\ f.pending[x] = e.pending[x] /\ f.hidden = e.hidden
    BY <1>2 DEF Frame
  <2>2. OwnPixmap(e, x, Others(e, x)) /\ OwnWindow(e, x) /\ Mirrored(e, x)
    BY DEF Sound
  <2>3. OwnWindow(f, x)
    BY <2>1, <2>2 DEF OwnWindow, Realized
  <2>4. e.pm[x].status # "HasNone" =>
            e.pm[x].pixmap \in Others(e, w) /\ f.pixmaps[e.pm[x].pixmap] = e.pixmaps[e.pm[x].pixmap]
    BY <1>2 DEF Frame, Others
  <2>5. Mirrored(f, x)
    BY <2>1, <2>2, <2>4 DEF Mirrored, Realized, Visible, All
  <2> DEFINE Shared == {f.pm[y].pixmap : y \in {z \in Widget \ {w, x} : f.pm[z].status # "HasNone"}}
  <2>6. Others(f, w) = Shared \cup (IF f.pm[x].status # "HasNone" THEN {f.pm[x].pixmap} ELSE {})
    BY <1>2 DEF Others
  <2>7. Others(f, x) = Shared \cup (IF f.pm[w].status # "HasNone" THEN {f.pm[w].pixmap} ELSE {})
    BY <1>2 DEF Others
  <2>8. Shared \subseteq Others(e, x)
    BY DEF Others, Frame
  <2> HIDE DEF Shared
  <2>9. DOMAIN f.pixmaps = Others(f, w) \cup (IF f.pm[w].status # "HasNone" THEN {f.pm[w].pixmap} ELSE {})
    BY <1>1 DEF OwnPixmap
  <2>10. DOMAIN f.pixmaps = Others(f, x) \cup (IF f.pm[x].status # "HasNone" THEN {f.pm[x].pixmap} ELSE {})
    BY <2>6, <2>7, <2>9
  <2>11. f.pm[x].status # "HasNone" => f.pm[x].pixmap \notin Others(f, x)
    <3>1. f.pm[x].status # "HasNone" => f.pm[x].pixmap \notin Others(e, x)
      BY <2>1, <2>2 DEF OwnPixmap
    <3>2. f.pm[w].status # "HasNone" => f.pm[w].pixmap \notin Others(f, w)
      BY <1>1 DEF OwnPixmap
    <3> QED BY <3>1, <3>2, <2>6, <2>7, <2>8
  <2>12. OwnPixmap(f, x, Others(f, x))
    BY <2>1, <2>2, <2>4, <2>10, <2>11 DEF OwnPixmap
  <2> QED BY <2>3, <2>5, <2>12
<1>3. OwnPixmap(f, w, Others(f, w))
  BY <1>1
<1>4. f.hidden \in BOOLEAN /\ IsDisplay(f) /\ f.bad = FALSE
  BY DEF Frame, Sound
<1> QED BY <1>2, <1>3, <1>4 DEF Sound

-----------------------------------------------------------------------------
(* What each request does to the display, field by field. *)

(* What the parts of the display are after one of them is assigned. *)
SetPixmaps(e, p) == [e EXCEPT !.pixmaps = p]
SetPm(e, w, r) == [e EXCEPT !.pm[w] = r]
SetPixmap(e, w, id) == [e EXCEPT !.pm[w].pixmap = id]
SetWin(e, w, r) == [e EXCEPT !.win[w] = r]
SetPending(e, w, r) == [e EXCEPT !.pending[w] = r]

(* All the pixmaps, ...                                                     *)
LEMMA PixmapsAssigned ==
    ASSUME NEW e, IsDisplay(e), NEW p, p = [id \in DOMAIN p |-> p[id]],
           NEW f, f = SetPixmaps(e, p)
    PROVE  /\ IsDisplay(f) /\ f.pixmaps = p
           /\ f.pm = e.pm /\ f.win = e.win /\ f.pending = e.pending
           /\ f.hidden = e.hidden /\ f.bad = e.bad
<1>1. f = [x \in DisplayFields |-> IF x = "pixmaps" THEN p ELSE e[x]]
  BY DEF IsDisplay, DisplayFields, SetPixmaps
<1>2. /\ f.pixmaps = p
      /\ f.pm = e.pm /\ f.win = e.win /\ f.pending = e.pending
      /\ f.hidden = e.hidden /\ f.bad = e.bad
      /\ f = [x \in DisplayFields |-> f[x]]
  BY <1>1 DEF DisplayFields
<1> QED BY <1>2 DEF IsDisplay

(* ... what a widget knows of its pixmap, ...                               *)
LEMMA PmAssigned ==
    ASSUME NEW e, IsDisplay(e), NEW w \in Widget, NEW r,
           NEW f, f = SetPm(e, w, r)
    PROVE  /\ IsDisplay(f) /\ f.pm[w] = r /\ \A x \in Widget : x # w => f.pm[x] = e.pm[x]
           /\ f.pixmaps = e.pixmaps /\ f.win = e.win /\ f.pending = e.pending
           /\ f.hidden = e.hidden /\ f.bad = e.bad
<1>1. f = [x \in DisplayFields |-> IF x = "pm" THEN [e.pm EXCEPT ![w] = r] ELSE e[x]]
  BY DEF IsDisplay, DisplayFields, SetPm
<1>2. /\ f.pm = [e.pm EXCEPT ![w] = r]
      /\ f.pixmaps = e.pixmaps /\ f.win = e.win /\ f.pending = e.pending
      /\ f.hidden = e.hidden /\ f.bad = e.bad
      /\ f = [x \in DisplayFields |-> f[x]]
  BY <1>1 DEF DisplayFields
<1>3. f.pm = [x \in Widget |-> IF x = w THEN r ELSE e.pm[x]]
  BY <1>2 DEF IsDisplay
<1>4. /\ f.pm = [x \in Widget |-> f.pm[x]] /\ f.pm[w] = r
      /\ \A x \in Widget : x # w => f.pm[x] = e.pm[x]
  BY <1>3
<1>5. IsDisplay(f)
  BY <1>2, <1>4 DEF IsDisplay
<1> QED BY <1>2, <1>4, <1>5

(* ... what its window shows, ...                                           *)
LEMMA WinAssigned ==
    ASSUME NEW e, IsDisplay(e), NEW w \in Widget, NEW r,
           NEW f, f = SetWin(e, w, r)
    PROVE  /\ IsDisplay(f) /\ f.win[w] = r /\ \A x \in Widget : x # w => f.win[x] = e.win[x]
           /\ f.pixmaps = e.pixmaps /\ f.pm = e.pm /\ f.pending = e.pending
           /\ f.hidden = e.hidden /\ f.bad = e.bad
<1>1. f = [x \in DisplayFields |-> IF x = "win" THEN [e.win EXCEPT ![w] = r] ELSE e[x]]
  BY DEF IsDisplay, DisplayFields, SetWin
<1>2. /\ f.win = [e.win EXCEPT ![w] = r]
      /\ f.pixmaps = e.pixmaps /\ f.pm = e.pm /\ f.pending = e.pending
      /\ f.hidden = e.hidden /\ f.bad = e.bad
      /\ f = [x \in DisplayFields |-> f[x]]
  BY <1>1 DEF DisplayFields
<1>3. f.win = [x \in Widget |-> IF x = w THEN r ELSE e.win[x]]
  BY <1>2 DEF IsDisplay
<1>4. /\ f.win = [x \in Widget |-> f.win[x]] /\ f.win[w] = r
      /\ \A x \in Widget : x # w => f.win[x] = e.win[x]
  BY <1>3
<1>5. IsDisplay(f)
  BY <1>2, <1>4 DEF IsDisplay
<1> QED BY <1>2, <1>4, <1>5

(* ... the exposures to come, ...                                           *)
LEMMA PendingAssigned ==
    ASSUME NEW e, IsDisplay(e), NEW w \in Widget, NEW r,
           NEW f, f = SetPending(e, w, r)
    PROVE  /\ IsDisplay(f) /\ f.pending[w] = r /\ \A x \in Widget : x # w => f.pending[x] = e.pending[x]
           /\ f.pixmaps = e.pixmaps /\ f.pm = e.pm /\ f.win = e.win
           /\ f.hidden = e.hidden /\ f.bad = e.bad
<1>1. f = [x \in DisplayFields |-> IF x = "pending" THEN [e.pending EXCEPT ![w] = r] ELSE e[x]]
  BY DEF IsDisplay, DisplayFields, SetPending
<1>2. /\ f.pending = [e.pending EXCEPT ![w] = r]
      /\ f.pixmaps = e.pixmaps /\ f.pm = e.pm /\ f.win = e.win
      /\ f.hidden = e.hidden /\ f.bad = e.bad
      /\ f = [x \in DisplayFields |-> f[x]]
  BY <1>1 DEF DisplayFields
<1>3. f.pending = [x \in Widget |-> IF x = w THEN r ELSE e.pending[x]]
  BY <1>2 DEF IsDisplay
<1>4. /\ f.pending = [x \in Widget |-> f.pending[x]] /\ f.pending[w] = r
      /\ \A x \in Widget : x # w => f.pending[x] = e.pending[x]
  BY <1>3
<1>5. IsDisplay(f)
  BY <1>2, <1>4 DEF IsDisplay
<1> QED BY <1>2, <1>4, <1>5

(* ... and the pixmap it has.                                               *)
LEMMA PixmapAssigned ==
    ASSUME NEW e, IsDisplay(e), NEW w \in Widget, NEW id \in Pixmap \cup {NullPixmap, UnspecifiedPixmap},
           e.pm[w] \in PmType, NEW f, f = SetPixmap(e, w, id)
    PROVE  /\ IsDisplay(f) /\ f.pm[w] \in PmType
           /\ f.pm[w].pixmap = id /\ f.pm[w].status = e.pm[w].status /\ f.pm[w].size = e.pm[w].size
           /\ f.pm[w].tiled = e.pm[w].tiled /\ f.pm[w].pen = e.pm[w].pen
           /\ \A x \in Widget : x # w => f.pm[x] = e.pm[x]
           /\ f.pixmaps = e.pixmaps /\ f.win = e.win /\ f.pending = e.pending
           /\ f.hidden = e.hidden /\ f.bad = e.bad
<1> DEFINE r == [e.pm[w] EXCEPT !.pixmap = id]
<1>1. f = SetPm(e, w, r)
  BY DEF SetPm, SetPixmap
<1>2. /\ r \in PmType /\ r.pixmap = id /\ r.status = e.pm[w].status /\ r.size = e.pm[w].size
      /\ r.tiled = e.pm[w].tiled /\ r.pen = e.pm[w].pen
  BY DEF PmType
<1> HIDE DEF r
<1>3. /\ IsDisplay(f) /\ f.pm[w] = r /\ \A x \in Widget : x # w => f.pm[x] = e.pm[x]
      /\ f.pixmaps = e.pixmaps /\ f.win = e.win /\ f.pending = e.pending
      /\ f.hidden = e.hidden /\ f.bad = e.bad
  BY <1>1, PmAssigned
<1> QED BY <1>2, <1>3

(* An image over an image, ...                                              *)
LEMMA OverImage ==
    ASSUME NEW n, NEW image, IsImage(image, n), NEW look, \A k \in DOMAIN look : look[k] \in Look
    PROVE  IsImage(Over(image, look), n)
  BY DEF IsImage, Over

(* ... and one colour, are images.                                          *)
LEMMA SolidImage ==
    ASSUME NEW n, NEW colour \in Look
    PROVE  IsImage(Solid(Cells(n), colour), n)
  BY DEF IsImage, Solid

(* Drawing in a pixmap that there is, ...                                   *)
LEMMA PixmapDrawn ==
    ASSUME NEW e, IsDisplay(e), NEW id \in DOMAIN e.pixmaps, NEW look,
           NEW f, f = DrawPixmap(e, id, look)
    PROVE  /\ IsDisplay(f) /\ f.pm = e.pm /\ f.win = e.win /\ f.pending = e.pending
           /\ f.hidden = e.hidden /\ f.bad = e.bad
           /\ DOMAIN f.pixmaps = DOMAIN e.pixmaps /\ f.pixmaps[id] = Over(e.pixmaps[id], look)
           /\ \A x \in DOMAIN e.pixmaps : x # id => f.pixmaps[x] = e.pixmaps[x]
<1> DEFINE p == [e.pixmaps EXCEPT ![id] = Over(e.pixmaps[id], look)]
<1>1. f = SetPixmaps(e, p)
  BY DEF DrawPixmap, SetPixmaps
<1>2. p = [x \in DOMAIN e.pixmaps |-> IF x = id THEN Over(e.pixmaps[id], look) ELSE e.pixmaps[x]]
  BY DEF IsDisplay
<1>3. /\ p = [x \in DOMAIN p |-> p[x]] /\ DOMAIN p = DOMAIN e.pixmaps
      /\ p[id] = Over(e.pixmaps[id], look)
      /\ \A x \in DOMAIN e.pixmaps : x # id => p[x] = e.pixmaps[x]
  BY <1>2
<1> HIDE DEF p
<1>4. /\ IsDisplay(f) /\ f.pixmaps = p
      /\ f.pm = e.pm /\ f.win = e.win /\ f.pending = e.pending
      /\ f.hidden = e.hidden /\ f.bad = e.bad
  BY <1>1, <1>3, PixmapsAssigned
<1> QED BY <1>3, <1>4

(* ... freeing it, ...                                                      *)
LEMMA PixmapFreed ==
    ASSUME NEW e, IsDisplay(e), NEW id \in DOMAIN e.pixmaps, NEW f, f = XFreePixmap(e, id)
    PROVE  /\ IsDisplay(f) /\ f.pm = e.pm /\ f.win = e.win /\ f.pending = e.pending
           /\ f.hidden = e.hidden /\ f.bad = e.bad
           /\ DOMAIN f.pixmaps = DOMAIN e.pixmaps \ {id}
           /\ \A x \in DOMAIN e.pixmaps : x # id => f.pixmaps[x] = e.pixmaps[x]
<1> DEFINE p == [x \in DOMAIN e.pixmaps \ {id} |-> e.pixmaps[x]]
<1>1. f = SetPixmaps(e, p)
  BY DEF XFreePixmap, Without, SetPixmaps
<1>2. /\ p = [x \in DOMAIN p |-> p[x]] /\ DOMAIN p = DOMAIN e.pixmaps \ {id}
      /\ \A x \in DOMAIN e.pixmaps : x # id => p[x] = e.pixmaps[x]
  OBVIOUS
<1> HIDE DEF p
<1>3. /\ IsDisplay(f) /\ f.pixmaps = p
      /\ f.pm = e.pm /\ f.win = e.win /\ f.pending = e.pending
      /\ f.hidden = e.hidden /\ f.bad = e.bad
  BY <1>1, <1>2, PixmapsAssigned
<1> QED BY <1>2, <1>3

(* ... having a new one, ...                                                *)
LEMMA PixmapAdded ==
    ASSUME NEW e, IsDisplay(e), NEW n, NEW colour, NEW f, f = AddPixmap(e, n, colour),
           NEW new, new = NewPixmap(e), new \notin DOMAIN e.pixmaps
    PROVE  /\ IsDisplay(f) /\ f.pm = e.pm /\ f.win = e.win /\ f.pending = e.pending
           /\ f.hidden = e.hidden /\ f.bad = e.bad
           /\ DOMAIN f.pixmaps = DOMAIN e.pixmaps \cup {new}
           /\ f.pixmaps[new] = Solid(Cells(n), colour)
           /\ \A x \in DOMAIN e.pixmaps : f.pixmaps[x] = e.pixmaps[x]
<1> DEFINE image == Solid(Cells(n), colour)
<1> HIDE DEF image
<1> DEFINE p == [x \in DOMAIN e.pixmaps \cup {new} |-> IF x = new THEN image ELSE e.pixmaps[x]]
<1>1. f = SetPixmaps(e, p)
  BY DEF AddPixmap, With, image, SetPixmaps
<1>2. /\ p = [x \in DOMAIN p |-> p[x]] /\ DOMAIN p = DOMAIN e.pixmaps \cup {new}
      /\ p[new] = image /\ \A x \in DOMAIN e.pixmaps : p[x] = e.pixmaps[x]
  OBVIOUS
<1> HIDE DEF p
<1>3. /\ IsDisplay(f) /\ f.pixmaps = p
      /\ f.pm = e.pm /\ f.win = e.win /\ f.pending = e.pending
      /\ f.hidden = e.hidden /\ f.bad = e.bad
  BY <1>1, <1>2, PixmapsAssigned
<1> QED BY <1>2, <1>3 DEF image

(* ... which is filled at once, ...                                         *)
LEMMA PixmapFilled ==
    ASSUME NEW e, IsDisplay(e), NEW w \in Widget, NEW f, f = FilledPixmap(e, w),
           NEW new, new = NewPixmap(e), new \notin DOMAIN e.pixmaps
    PROVE  /\ IsDisplay(f) /\ f.pm = e.pm /\ f.win = e.win /\ f.pending = e.pending
           /\ f.hidden = e.hidden /\ f.bad = e.bad
           /\ DOMAIN f.pixmaps = DOMAIN e.pixmaps \cup {new}
           /\ f.pixmaps[new] = Solid(All(e, w), PrivateColour(e, w))
           /\ \A x \in DOMAIN e.pixmaps : f.pixmaps[x] = e.pixmaps[x]
<1> DEFINE v == CreatePixmap(e, e.pm[w].size)
           look == Solid(All(e, w), PrivateColour(e, w))
<1>1. /\ IsDisplay(v) /\ v.pm = e.pm /\ v.win = e.win /\ v.pending = e.pending
      /\ v.hidden = e.hidden /\ v.bad = e.bad
      /\ DOMAIN v.pixmaps = DOMAIN e.pixmaps \cup {new}
      /\ v.pixmaps[new] = Solid(Cells(e.pm[w].size), Junk)
      /\ \A x \in DOMAIN e.pixmaps : v.pixmaps[x] = e.pixmaps[x]
  BY PixmapAdded DEF CreatePixmap
<1>2. f = DrawPixmap(v, new, look)
  BY DEF FilledPixmap
<1>3. Over(Solid(Cells(e.pm[w].size), Junk), look) = look
  BY DEF Over, Solid, All
<1> HIDE DEF v, look
<1>4. /\ IsDisplay(f) /\ f.pm = v.pm /\ f.win = v.win /\ f.pending = v.pending
      /\ f.hidden = v.hidden /\ f.bad = v.bad
      /\ DOMAIN f.pixmaps = DOMAIN v.pixmaps /\ f.pixmaps[new] = Over(v.pixmaps[new], look)
      /\ \A x \in DOMAIN v.pixmaps : x # new => f.pixmaps[x] = v.pixmaps[x]
  BY <1>1, <1>2, PixmapDrawn
<1>5. f.pixmaps[new] = look
  BY <1>1, <1>3, <1>4
<1> QED BY <1>1, <1>4, <1>5 DEF look

(* ... and drawing in a window.                                             *)
LEMMA WindowDrawn ==
    ASSUME NEW e, IsDisplay(e), NEW w \in Widget, Realized(e, w), NEW look,
           NEW f, f = DrawWindow(e, w, look)
    PROVE  /\ IsDisplay(f) /\ f.pm = e.pm /\ f.pixmaps = e.pixmaps /\ f.pending = e.pending
           /\ f.hidden = e.hidden /\ f.bad = e.bad
           /\ f.win[w] = Over(e.win[w], [k \in DOMAIN look \intersect Visible(e, w) |-> look[k]])
           /\ \A x \in Widget : x # w => f.win[x] = e.win[x]
<1> DEFINE image == Over(e.win[w], [k \in DOMAIN look \intersect Visible(e, w) |-> look[k]])
<1>1. f = SetWin(e, w, image)
  BY DEF DrawWindow, SetWin
<1> HIDE DEF image
<1>2. /\ IsDisplay(f) /\ f.win[w] = image /\ \A x \in Widget : x # w => f.win[x] = e.win[x]
      /\ f.pixmaps = e.pixmaps /\ f.pm = e.pm /\ f.pending = e.pending
      /\ f.hidden = e.hidden /\ f.bad = e.bad
  BY <1>1, WinAssigned
<1> QED BY <1>2 DEF image

(* There is room for a pixmap beside those of the other widgets and one.   *)
LEMMA NewPixmapIsNew ==
    ASSUME NEW e, Sound(e), NEW w \in Widget, NEW p, NEW v, DOMAIN v.pixmaps \subseteq Others(e, w) \cup {p},
           DOMAIN v.pixmaps \subseteq Pixmap
    PROVE  NewPixmap(v) \in Pixmap /\ NewPixmap(v) \notin DOMAIN v.pixmaps
<1> DEFINE g == [x \in Widget |-> IF x = w THEN p ELSE e.pm[x].pixmap]
<1>1. \A id \in DOMAIN v.pixmaps : \E x \in Widget : g[x] = id
  <2> SUFFICES ASSUME NEW id \in DOMAIN v.pixmaps
               PROVE  \E x \in Widget : g[x] = id
    OBVIOUS
  <2>1. CASE id = p
    <3>1. g[w] = id
      BY <2>1
    <3> QED BY <3>1
  <2>2. CASE id \in Others(e, w)
    <3>1. PICK x \in Widget \ {w} : e.pm[x].pixmap = id
      BY <2>2 DEF Others
    <3>2. g[x] = id
      BY <3>1
    <3> QED BY <3>2
  <2> QED BY <2>1, <2>2
<1> HIDE DEF g
<1>2. IsFiniteSet(DOMAIN v.pixmaps) /\ Cardinality(DOMAIN v.pixmaps) <= Cardinality(Widget)
  BY <1>1, ClassAssumption, NamedCardinality
<1>3. \E id \in Pixmap : id \notin DOMAIN v.pixmaps
  BY <1>2, PixmapAssumption
<1> QED BY <1>3 DEF NewPixmap

-----------------------------------------------------------------------------
(* The procedures of the widgets. In the lemmas v is the display in the    *)
(* middle of a procedure of w that found it as it is in e.                 *)

(* The widget's pixmap is of n cells, which need not be its size yet. *)
PixmapOf(v, w, ids, n) ==
    /\ v.pm[w] \in PmType
    /\ IF v.pm[w].status = "HasNone"
       THEN DOMAIN v.pixmaps = ids /\ v.pm[w].pixmap \notin Pixmap
       ELSE /\ v.pm[w].pixmap \in Pixmap \ ids
            /\ DOMAIN v.pixmaps = ids \cup {v.pm[w].pixmap}
            /\ IsImage(v.pixmaps[v.pm[w].pixmap], n)

(* A widget with a pixmap has one that there is, of its size.               *)
LEMMA OwnPixmapOf ==
    ASSUME NEW v, NEW w, NEW ids
    PROVE  OwnPixmap(v, w, ids) <=> PixmapOf(v, w, ids, v.pm[w].size)
  BY DEF OwnPixmap, PixmapOf

(* What a pixmap is filled with can be seen.                                *)
LEMMA ColourLook ==
    ASSUME NEW v, NEW w, v.pm[w] \in PmType
    PROVE  PrivateColour(v, w) \in Look
  BY LookAssumption DEF PrivateColour, PmType, Look

(* What is copied from an image has been drawn there. *)
LEMMA SourceLook ==
    ASSUME NEW v, NEW id \in DOMAIN v.pixmaps, NEW n \in Nat, IsImage(v.pixmaps[id], n),
           NEW cells, NEW offset
    PROVE  /\ DOMAIN Source(v, id, cells, offset) = {k \in cells : k - offset \in Cells(n)}
           /\ \A k \in DOMAIN Source(v, id, cells, offset) :
                /\ Source(v, id, cells, offset)[k] = v.pixmaps[id][k - offset]
                /\ Source(v, id, cells, offset)[k] \in Look
  BY DEF Source, IsImage

(* What is copied of a pixmap is what is in it.                             *)
LEMMA SourceHere ==
    ASSUME NEW v, NEW id \in DOMAIN v.pixmaps, NEW n \in Nat, IsImage(v.pixmaps[id], n),
           NEW cells \in SUBSET Int
    PROVE  /\ DOMAIN Source(v, id, cells, 0) = cells \intersect Cells(n)
           /\ \A k \in DOMAIN Source(v, id, cells, 0) :
                /\ Source(v, id, cells, 0)[k] = v.pixmaps[id][k]
                /\ Source(v, id, cells, 0)[k] \in Look
<1> DEFINE look == Source(v, id, cells, 0)
<1>1. look = [k \in {x \in cells : x - 0 \in Cells(n)} |-> v.pixmaps[id][k - 0]]
  BY DEF Source, IsImage
<1>2. \A x \in Int : x - 0 = x
  OBVIOUS
<1>3. {x \in cells : x - 0 \in Cells(n)} = cells \intersect Cells(n)
  BY <1>2
<1> HIDE DEF look
<1>4. /\ DOMAIN look = cells \intersect Cells(n)
      /\ \A k \in DOMAIN look : look[k] = v.pixmaps[id][k]
  BY <1>1, <1>2, <1>3
<1>5. \A k \in DOMAIN look : look[k] \in Look
  BY <1>4 DEF IsImage
<1> QED BY <1>4, <1>5 DEF look

(* A new pixmap, filled, is the widget's. *)
LEMMA FilledIsOwn ==
    ASSUME NEW e, Sound(e), NEW w \in Widget, NEW v, Frame(e, v, w),
           v.pm[w] \in PmType, v.pm[w].status # "HasNone", DOMAIN v.pixmaps = Others(e, w),
           NEW f, f = SetPixmap(FilledPixmap(v, w), w, NewPixmap(v))
    PROVE  /\ Frame(e, f, w) /\ f.win = v.win /\ f.pending = v.pending
           /\ OwnPixmap(f, w, Others(e, w))
           /\ f.pm[w].status = v.pm[w].status /\ f.pm[w].size = v.pm[w].size
<1> DEFINE u == FilledPixmap(v, w)
<1>0. PICK new : new = NewPixmap(v)
  OBVIOUS
<1>1. new \in Pixmap /\ new \notin DOMAIN v.pixmaps
  BY <1>0, NewPixmapIsNew, SoundFrame
<1>2. IsDisplay(v)
  BY DEF Frame
<1>3. /\ IsDisplay(u) /\ u.pm = v.pm /\ u.win = v.win /\ u.pending = v.pending
      /\ u.hidden = v.hidden /\ u.bad = v.bad
      /\ DOMAIN u.pixmaps = DOMAIN v.pixmaps \cup {new}
      /\ u.pixmaps[new] = Solid(All(v, w), PrivateColour(v, w))
      /\ \A x \in DOMAIN v.pixmaps : u.pixmaps[x] = v.pixmaps[x]
  BY <1>0, <1>1, <1>2, PixmapFilled
<1>4. f = SetPixmap(u, w, new)
  BY <1>0
<1> HIDE DEF u
<1>5. /\ IsDisplay(f) /\ f.pm[w] \in PmType
      /\ f.pm[w].pixmap = new /\ f.pm[w].status = u.pm[w].status /\ f.pm[w].size = u.pm[w].size
      /\ \A x \in Widget : x # w => f.pm[x] = u.pm[x]
      /\ f.pixmaps = u.pixmaps /\ f.win = u.win /\ f.pending = u.pending
      /\ f.hidden = u.hidden /\ f.bad = u.bad
  BY <1>1, <1>3, <1>4, PixmapAssigned
<1>7. Frame(e, f, w)
  BY <1>3, <1>5 DEF Frame
<1>8. IsImage(f.pixmaps[new], f.pm[w].size)
  <2>1. PrivateColour(v, w) \in Look
    BY ColourLook
  <2>2. IsImage(Solid(Cells(v.pm[w].size), PrivateColour(v, w)), v.pm[w].size)
    BY <2>1, SolidImage
  <2> QED BY <2>2, <1>3, <1>5 DEF All
<1>9. OwnPixmap(f, w, Others(e, w))
  BY <1>1, <1>3, <1>5, <1>8 DEF OwnPixmap
<1> QED BY <1>0, <1>3, <1>5, <1>7, <1>9

(* Resize of class pixmap. *)
LEMMA ResizePixmapOwn ==
    ASSUME NEW e, Sound(e), NEW w \in Widget, NEW v, Frame(e, v, w),
           NEW n \in Nat, PixmapOf(v, w, Others(e, w), n),
           NEW f, f = ResizePixmap(v, w)
    PROVE  /\ Frame(e, f, w) /\ f.win = v.win /\ f.pending = v.pending
           /\ OwnPixmap(f, w, Others(e, w))
           /\ f.pm[w].status = v.pm[w].status /\ f.pm[w].size = v.pm[w].size
<1>1. v.pm[w] \in PmType /\ IsDisplay(v)
  BY DEF PixmapOf, Frame
<1>2. CASE v.pm[w].status = "HasNone"
  <2>1. f = v
    BY <1>2 DEF ResizePixmap
  <2> QED BY <1>2, <2>1 DEF PixmapOf, OwnPixmap
<1>3. CASE v.pm[w].status # "HasNone"
  <2>0. PICK new, old, look : /\ new = NewPixmap(v) /\ old = v.pm[w].pixmap
                              /\ look = Source(v, old, All(v, w), 0)
    OBVIOUS
  <2> DEFINE u == FilledPixmap(v, w)
             t == DrawPixmap(u, new, look)
             s == XFreePixmap(t, old)
  <2>1. /\ old \in Pixmap /\ old \notin Others(e, w) /\ DOMAIN v.pixmaps = Others(e, w) \cup {old}
        /\ IsImage(v.pixmaps[old], n) /\ old \in DOMAIN v.pixmaps
    BY <1>3, <2>0 DEF PixmapOf
  <2>2. new \in Pixmap /\ new \notin DOMAIN v.pixmaps
    <3>1. DOMAIN v.pixmaps \subseteq Pixmap /\ DOMAIN v.pixmaps \subseteq Others(e, w) \cup {old}
      BY <2>1, SoundFrame
    <3> QED BY <3>1, <2>0, NewPixmapIsNew
  <2>3. \A k \in DOMAIN look : look[k] \in Look
    <3>1. look = Source(v, old, All(v, w), 0)
      BY <2>0
    <3>2. All(v, w) \subseteq Int
      BY DEF All, Cells
    <3> QED BY <3>1, <3>2, <2>1, SourceHere
  <2>4. /\ IsDisplay(u) /\ u.pm = v.pm /\ u.win = v.win /\ u.pending = v.pending
        /\ u.hidden = v.hidden /\ u.bad = v.bad
        /\ DOMAIN u.pixmaps = DOMAIN v.pixmaps \cup {new}
        /\ u.pixmaps[new] = Solid(All(v, w), PrivateColour(v, w))
        /\ \A x \in DOMAIN v.pixmaps : u.pixmaps[x] = v.pixmaps[x]
    BY <1>1, <2>0, <2>2, PixmapFilled
  <2>5. f = SetPixmap(s, w, new)
    BY <1>3, <2>0, <2>1 DEF ResizePixmap, SetPixmap
  <2> HIDE DEF u
  <2>6. /\ IsDisplay(t) /\ t.pm = u.pm /\ t.win = u.win /\ t.pending = u.pending
        /\ t.hidden = u.hidden /\ t.bad = u.bad
        /\ DOMAIN t.pixmaps = DOMAIN u.pixmaps /\ t.pixmaps[new] = Over(u.pixmaps[new], look)
        /\ \A x \in DOMAIN u.pixmaps : x # new => t.pixmaps[x] = u.pixmaps[x]
    BY <2>4, PixmapDrawn
  <2> HIDE DEF t
  <2>7. /\ IsDisplay(s) /\ s.pm = t.pm /\ s.win = t.win /\ s.pending = t.pending
        /\ s.hidden = t.hidden /\ s.bad = t.bad
        /\ DOMAIN s.pixmaps = DOMAIN t.pixmaps \ {old}
        /\ \A x \in DOMAIN t.pixmaps : x # old => s.pixmaps[x] = t.pixmaps[x]
    <3>1. old \in DOMAIN t.pixmaps
      BY <2>1, <2>4, <2>6
    <3> QED BY <3>1, <2>6, PixmapFreed
  <2> HIDE DEF s
  <2>8. s.pm = v.pm /\ s.pm[w] \in PmType
    BY <1>1, <2>4, <2>6, <2>7
  <2>10. /\ IsDisplay(f) /\ f.pm[w] \in PmType
         /\ f.pm[w].pixmap = new /\ f.pm[w].status = s.pm[w].status /\ f.pm[w].size = s.pm[w].size
         /\ \A x \in Widget : x # w => f.pm[x] = s.pm[x]
         /\ f.pixmaps = s.pixmaps /\ f.win = s.win /\ f.pending = s.pending
         /\ f.hidden = s.hidden /\ f.bad = s.bad
    BY <2>2, <2>5, <2>7, <2>8, PixmapAssigned
  <2>11. Frame(e, f, w)
    <3>1. \A id \in Others(e, w) : id \in DOMAIN f.pixmaps /\ f.pixmaps[id] = v.pixmaps[id]
      BY <2>1, <2>2, <2>4, <2>6, <2>7, <2>10
    <3> QED BY <3>1, <2>4, <2>6, <2>7, <2>10 DEF Frame
  <2>12. IsImage(f.pixmaps[new], f.pm[w].size)
    <3>1. IsImage(u.pixmaps[new], v.pm[w].size)
      BY <1>1, <2>4, ColourLook, SolidImage DEF All
    <3>2. IsImage(t.pixmaps[new], v.pm[w].size)
      BY <3>1, <2>3, <2>6, OverImage
    <3>3. new # old /\ new \in DOMAIN t.pixmaps
      BY <2>1, <2>2, <2>4, <2>6
    <3> QED BY <3>2, <3>3, <2>7, <2>8, <2>10
  <2>13. DOMAIN f.pixmaps = Others(e, w) \cup {new} /\ new \notin Others(e, w)
    BY <2>1, <2>2, <2>4, <2>6, <2>7, <2>10
  <2>14. OwnPixmap(f, w, Others(e, w))
    BY <1>3, <2>2, <2>8, <2>10, <2>12, <2>13 DEF OwnPixmap
  <2> QED BY <2>4, <2>6, <2>7, <2>8, <2>10, <2>11, <2>14
<1> QED BY <1>2, <1>3

(* Redisplay draws from the pixmap, while it is on, what is to be seen.    *)
LEMMA RedisplayShows ==
    ASSUME NEW v, IsDisplay(v), NEW w \in Widget, NEW ids, OwnPixmap(v, w, ids), OwnWindow(v, w),
           Realized(v, w), NEW cells \in SUBSET Int, NEW f, f = Redisplay(v, w, cells)
    PROVE  /\ IsDisplay(f) /\ f.pm = v.pm /\ f.pixmaps = v.pixmaps /\ f.pending = v.pending
           /\ f.hidden = v.hidden /\ f.bad = v.bad
           /\ \A x \in Widget : x # w => f.win[x] = v.win[x]
           /\ OwnWindow(f, w)
           /\ v.pm[w].status = "On" => \A k \in Visible(v, w) :
                f.win[w][k] = IF k \in cells THEN v.pixmaps[v.pm[w].pixmap][k] ELSE v.win[w][k]
           /\ Realized(f, w)
<1>1. CASE v.pm[w].status # "On"
  BY <1>1 DEF Redisplay
<1>2. CASE v.pm[w].status = "On"
  <2>0. PICK id, n, look : id = v.pm[w].pixmap /\ n = v.pm[w].size /\ look = Source(v, id, cells, 0)
    OBVIOUS
  <2>1. id \in DOMAIN v.pixmaps /\ n \in Nat /\ IsImage(v.pixmaps[id], n) /\ IsImage(v.win[w], n)
        /\ n \in AnySize
    BY <1>2, <2>0 DEF OwnPixmap, OwnWindow, PmType
  <2>2. /\ DOMAIN look = cells \intersect Cells(n)
        /\ \A k \in DOMAIN look : look[k] = v.pixmaps[id][k] /\ look[k] \in Look
    <3>1. look = Source(v, id, cells, 0)
      BY <2>0
    <3>2. id \in DOMAIN v.pixmaps /\ n \in Nat /\ IsImage(v.pixmaps[id], n)
      BY <2>1
    <3>3. /\ DOMAIN Source(v, id, cells, 0) = cells \intersect Cells(n)
          /\ \A k \in DOMAIN Source(v, id, cells, 0) :
                /\ Source(v, id, cells, 0)[k] = v.pixmaps[id][k]
                /\ Source(v, id, cells, 0)[k] \in Look
      BY <3>2, SourceHere
    <3> QED BY <3>1, <3>3
  <2>3. f = DrawWindow(v, w, look)
    BY <1>2, <2>0, <2>1 DEF Redisplay
  <2> DEFINE seen == [k \in DOMAIN look \intersect Visible(v, w) |-> look[k]]
  <2>4. /\ IsDisplay(f) /\ f.pm = v.pm /\ f.pixmaps = v.pixmaps /\ f.pending = v.pending
        /\ f.hidden = v.hidden /\ f.bad = v.bad
        /\ f.win[w] = Over(v.win[w], seen)
        /\ \A x \in Widget : x # w => f.win[x] = v.win[x]
    BY <2>3, WindowDrawn
  <2>5. IsImage(f.win[w], n)
    <3>1. \A k \in DOMAIN seen : seen[k] \in Look
      BY <2>2
    <3> HIDE DEF seen
    <3> QED BY <3>1, <2>1, <2>4, OverImage
  <2>6. Realized(f, w)
    <3>1. f.win[w] \in [Cells(n) -> Int]
      BY <2>5 DEF IsImage, Look
    <3> QED BY <3>1, <2>1, SizesAssumption DEF Realized
  <2>7. OwnWindow(f, w)
    BY <2>0, <2>1, <2>4, <2>5, <2>6 DEF OwnWindow
  <2>8. \A k \in Visible(v, w) :
                f.win[w][k] = IF k \in cells THEN v.pixmaps[id][k] ELSE v.win[w][k]
    <3> SUFFICES ASSUME NEW k \in Visible(v, w)
                 PROVE  f.win[w][k] = IF k \in cells THEN v.pixmaps[id][k] ELSE v.win[w][k]
      OBVIOUS
    <3>1. k \in Cells(n)
      BY <2>0, <2>1 DEF Visible, All, Cells
    <3>2. k \in DOMAIN v.win[w]
      BY <3>1, <2>1 DEF IsImage
    <3>3. f.win[w][k] = IF k \in DOMAIN seen THEN seen[k] ELSE v.win[w][k]
      BY <3>2, <2>4 DEF Over
    <3>4. k \in DOMAIN seen <=> k \in cells
      BY <3>1, <2>2
    <3>5. k \in DOMAIN seen => seen[k] = v.pixmaps[id][k]
      BY <3>1, <2>2
    <3> QED BY <3>3, <3>4, <3>5
  <2> QED BY <2>0, <2>4, <2>6, <2>7, <2>8
<1> QED BY <1>1, <1>2

(* A pixmap given away is none of the widgets'. *)
LEMMA GaveFrame ==
    ASSUME NEW e, Sound(e), NEW w \in Widget, NEW args \in InitArgs \cup Args, NEW n \in Nat,
           NEW g, g = Gave(e, args, n), NEW a, a = Giving(e, args)
    PROVE  /\ Frame(e, g, w) /\ g.pm = e.pm /\ g.win = e.win /\ g.pending = e.pending
           /\ \A id \in DOMAIN e.pixmaps : id \in DOMAIN g.pixmaps /\ g.pixmaps[id] = e.pixmaps[id]
           /\ DOMAIN a = DOMAIN args
           /\ \A x \in DOMAIN args : x # "pixmap" => a[x] = args[x]
           /\ ~GivesPixmap(args) => DOMAIN g.pixmaps = DOMAIN e.pixmaps /\ a = args
           /\ GivesPixmap(args) =>
                /\ a.pixmap \in Pixmap /\ a.pixmap \notin DOMAIN e.pixmaps
                /\ DOMAIN g.pixmaps = DOMAIN e.pixmaps \cup {a.pixmap}
                /\ IsImage(g.pixmaps[a.pixmap], n)
<1>0. PICK new : new = NewPixmap(e)
  OBVIOUS
<1>1. IsDisplay(e) /\ Frame(e, e, w) /\ Others(e, w) \subseteq DOMAIN e.pixmaps
  BY SoundFrame DEF Sound
<1>2. new \in Pixmap /\ new \notin DOMAIN e.pixmaps
  <2>1. DOMAIN e.pixmaps \subseteq Pixmap /\ DOMAIN e.pixmaps \subseteq Others(e, w) \cup {e.pm[w].pixmap}
    BY SoundFrame DEF Sound, OwnPixmap
  <2> QED BY <1>0, <2>1, NewPixmapIsNew
<1>3. CASE ~GivesPixmap(args)
  <2>1. g = e /\ a = args
    BY <1>3 DEF Gave, Giving
  <2> QED BY <1>1, <1>3, <2>1
<1>4. CASE GivesPixmap(args)
  <2>1. g = AddPixmap(e, n, Ink)
    BY <1>4 DEF Gave
  <2>2. a = [args EXCEPT !.pixmap = new] /\ "pixmap" \in DOMAIN args
    BY <1>0, <1>4 DEF Giving, GivesPixmap
  <2>3. a.pixmap = new /\ DOMAIN a = DOMAIN args /\ \A x \in DOMAIN args : x # "pixmap" => a[x] = args[x]
    BY <2>2
  <2>4. /\ IsDisplay(g) /\ g.pm = e.pm /\ g.win = e.win /\ g.pending = e.pending
        /\ g.hidden = e.hidden /\ g.bad = e.bad
        /\ DOMAIN g.pixmaps = DOMAIN e.pixmaps \cup {new}
        /\ g.pixmaps[new] = Solid(Cells(n), Ink)
        /\ \A x \in DOMAIN e.pixmaps : g.pixmaps[x] = e.pixmaps[x]
    BY <1>0, <1>1, <1>2, <2>1, PixmapAdded
  <2>5. Frame(e, g, w)
    BY <1>1, <2>4 DEF Frame
  <2>6. IsImage(g.pixmaps[new], n)
    <3>1. Ink \in Look
      BY LookAssumption DEF Look
    <3> QED BY <3>1, <2>4, SolidImage
  <2> QED BY <1>2, <1>4, <2>3, <2>4, <2>5, <2>6
<1> QED BY <1>3, <1>4

(* Initialize of class pixmap. *)
LEMMA InitializePixmapSound ==
    ASSUME NEW e, Sound(e), NEW w \in Widget, e.pm[w].status = "HasNone", ~Realized(e, w),
           NEW args \in InitArgs, GivesPixmap(args) => args.status # "HasNone",
           NEW fg \in Pixel, NEW bg \in Pixel,
           NEW f, f = InitializePixmap(Gave(e, args, args.size), w, Giving(e, args), fg, bg)
    PROVE  /\ Sound(f) /\ f.win = e.win /\ f.pending = e.pending /\ f.pm[w].size = args.size
           /\ \A x \in Widget : x # w => f.pm[x] = e.pm[x]
<1>0. PICK g, a, r : /\ g = Gave(e, args, args.size) /\ a = Giving(e, args)
                     /\ r = [status |-> a.status, size |-> a.size, pixmap |-> a.pixmap,
                             tiled |-> a.tiled, pen |-> IF a.tiled THEN fg ELSE bg]
  OBVIOUS
<1>1. /\ {"status", "size", "pixmap", "tiled"} \subseteq DOMAIN args
      /\ args.status \in Status /\ args.tiled \in BOOLEAN
      /\ args.pixmap \in {"given", NullPixmap, UnspecifiedPixmap}
      /\ args.size \in Nat
  BY ArgsAssumption, SizesAssumption DEF AnySize
<1>2. /\ Frame(e, g, w) /\ g.pm = e.pm /\ g.win = e.win /\ g.pending = e.pending
      /\ DOMAIN a = DOMAIN args
      /\ \A x \in DOMAIN args : x # "pixmap" => a[x] = args[x]
      /\ ~GivesPixmap(args) => DOMAIN g.pixmaps = DOMAIN e.pixmaps /\ a = args
      /\ GivesPixmap(args) =>
                /\ a.pixmap \in Pixmap /\ a.pixmap \notin DOMAIN e.pixmaps
                /\ DOMAIN g.pixmaps = DOMAIN e.pixmaps \cup {a.pixmap}
                /\ IsImage(g.pixmaps[a.pixmap], args.size)
  BY <1>0, <1>1, GaveFrame
<1>3. /\ a.status = args.status /\ a.size = args.size /\ a.tiled = args.tiled
      /\ ~GivesPixmap(args) => a.pixmap \in {NullPixmap, UnspecifiedPixmap}
  <2>1. a["status"] = args["status"] /\ a["size"] = args["size"] /\ a["tiled"] = args["tiled"]
    BY <1>1, <1>2
  <2>2. ~GivesPixmap(args) => args.pixmap # "given"
    BY <1>1 DEF GivesPixmap
  <2> QED BY <1>1, <1>2, <2>1, <2>2
<1>4. r \in PmType
  <2>1. fg \in Look /\ bg \in Look
    BY LookAssumption DEF Look
  <2>2. a.pixmap \in Pixmap \cup {NullPixmap, UnspecifiedPixmap}
    BY <1>2, <1>3
  <2> QED BY <1>0, <1>1, <1>3, <2>1, <2>2 DEF PmType
<1>5. r.status = args.status /\ r.size = args.size /\ r.pixmap = a.pixmap
  BY <1>0, <1>3
<1>6. DOMAIN e.pixmaps = Others(e, w)
  BY DEF Sound, OwnPixmap
<1>7. PICK v : v = SetPm(g, w, r)
  OBVIOUS
<1>8. /\ IsDisplay(v) /\ v.pm[w] = r /\ \A x \in Widget : x # w => v.pm[x] = g.pm[x]
      /\ v.pixmaps = g.pixmaps /\ v.win = g.win /\ v.pending = g.pending
      /\ v.hidden = g.hidden /\ v.bad = g.bad
  BY <1>2, <1>7, PmAssigned DEF Frame
<1>9. Frame(e, v, w)
  BY <1>2, <1>8 DEF Frame
<1>10. f = IF args.status = "HasNone" THEN v
           ELSE IF ~HasGiven(a.pixmap) THEN SetPixmap(FilledPixmap(v, w), w, NewPixmap(v))
           ELSE SetPixmap(XFreePixmap(DrawPixmap(FilledPixmap(v, w), NewPixmap(v),
                                                 Source(v, a.pixmap, All(v, w), 0)), a.pixmap),
                          w, NewPixmap(v))
  <2> DEFINE rr == [status |-> a.status, size |-> a.size, pixmap |-> a.pixmap,
                    tiled |-> a.tiled, pen |-> IF a.tiled THEN fg ELSE bg]
             vv == SetPm(g, w, rr)
             filled == FilledPixmap(vv, w)
             moved == XFreePixmap(DrawPixmap(filled, NewPixmap(vv),
                                             Source(vv, a.pixmap, All(vv, w), 0)), a.pixmap)
  <2>1. InitializePixmap(g, w, a, fg, bg) =
            IF a.status = "HasNone" THEN vv
            ELSE SetPixmap(IF ~HasGiven(a.pixmap) THEN filled ELSE moved, w, NewPixmap(vv))
    BY DEF InitializePixmap, SetPm, SetPixmap
  <2>2. vv = v
    BY <1>0, <1>7
  <2> HIDE DEF vv
  <2> QED BY <1>0, <1>3, <2>1, <2>2
<1>11. /\ Frame(e, f, w) /\ f.win = v.win /\ f.pending = v.pending
       /\ OwnPixmap(f, w, Others(e, w)) /\ f.pm[w].size = args.size
  <2>1. CASE args.status = "HasNone"
    <3>1. f = v /\ ~GivesPixmap(args) /\ a.pixmap \notin Pixmap
      BY <1>3, <1>10, <2>1, PixmapAssumption
    <3> QED BY <3>1, <2>1, <1>2, <1>4, <1>5, <1>6, <1>8, <1>9 DEF OwnPixmap
  <2>2. CASE args.status # "HasNone" /\ ~HasGiven(a.pixmap)
    <3>1. ~GivesPixmap(args)
      BY <1>2, <2>2, PixmapAssumption DEF HasGiven
    <3>2. v.pm[w] \in PmType /\ v.pm[w].status # "HasNone" /\ DOMAIN v.pixmaps = Others(e, w)
      BY <1>2, <1>4, <1>5, <1>6, <1>8, <2>2, <3>1
    <3>3. f = SetPixmap(FilledPixmap(v, w), w, NewPixmap(v))
      BY <1>10, <2>2
    <3>4. /\ Frame(e, f, w) /\ f.win = v.win /\ f.pending = v.pending
          /\ OwnPixmap(f, w, Others(e, w))
          /\ f.pm[w].size = v.pm[w].size
      BY <1>9, <3>2, <3>3, FilledIsOwn
    <3> QED BY <3>4, <1>5, <1>8
  <2>3. CASE args.status # "HasNone" /\ HasGiven(a.pixmap)
    <3>1. GivesPixmap(args)
      BY <1>3, <2>3 DEF HasGiven
    <3>2. PixmapOf(v, w, Others(e, w), args.size)
      BY <1>2, <1>4, <1>5, <1>6, <1>8, <2>3, <3>1 DEF PixmapOf
    <3>3. f = ResizePixmap(v, w)
      <4>1. v.pm[w].status # "HasNone" /\ v.pm[w].pixmap = a.pixmap /\ a.pixmap \in DOMAIN v.pixmaps
        BY <1>2, <1>5, <1>8, <2>3, <3>1
      <4> QED BY <1>10, <2>3, <4>1 DEF ResizePixmap, SetPixmap
    <3>4. /\ Frame(e, f, w) /\ f.win = v.win /\ f.pending = v.pending
          /\ OwnPixmap(f, w, Others(e, w))
          /\ f.pm[w].size = v.pm[w].size
      BY <1>1, <1>9, <3>2, <3>3, ResizePixmapOwn
    <3> QED BY <3>4, <1>5, <1>8
  <2> QED BY <2>1, <2>2, <2>3
<1>12. f.win = e.win /\ f.pending = e.pending
  BY <1>2, <1>8, <1>11
<1>13. OwnWindow(f, w) /\ Mirrored(f, w)
  <2>1. OwnWindow(e, w) /\ ~Realized(f, w)
    BY <1>12 DEF Sound, Realized
  <2> QED BY <2>1, <1>12 DEF OwnWindow, Mirrored, Realized
<1>14. Sound(f)
  BY <1>11, <1>13, StillSound
<1> QED BY <1>11, <1>12, <1>14 DEF Frame

(* SetValues of class pixmap. *)
SetStatus(e, w, status) == [e EXCEPT !.pm[w].status = status]

(* The status, ...                                                          *)
LEMMA StatusAssigned ==
    ASSUME NEW e, IsDisplay(e), NEW w \in Widget, NEW status \in Status, e.pm[w] \in PmType,
           NEW f, f = SetStatus(e, w, status)
    PROVE  /\ IsDisplay(f) /\ f.pm[w] \in PmType
           /\ f.pm[w].status = status /\ f.pm[w].pixmap = e.pm[w].pixmap /\ f.pm[w].size = e.pm[w].size
           /\ f.pm[w].tiled = e.pm[w].tiled /\ f.pm[w].pen = e.pm[w].pen
           /\ \A x \in Widget : x # w => f.pm[x] = e.pm[x]
           /\ f.pixmaps = e.pixmaps /\ f.win = e.win /\ f.pending = e.pending
           /\ f.hidden = e.hidden /\ f.bad = e.bad
<1> DEFINE r == [e.pm[w] EXCEPT !.status = status]
<1>1. f = SetPm(e, w, r)
  BY DEF SetPm, SetStatus
<1>2. /\ r \in PmType /\ r.status = status /\ r.pixmap = e.pm[w].pixmap /\ r.size = e.pm[w].size
      /\ r.tiled = e.pm[w].tiled /\ r.pen = e.pm[w].pen
  BY DEF PmType
<1> HIDE DEF r
<1>3. /\ IsDisplay(f) /\ f.pm[w] = r /\ \A x \in Widget : x # w => f.pm[x] = e.pm[x]
      /\ f.pixmaps = e.pixmaps /\ f.win = e.win /\ f.pending = e.pending
      /\ f.hidden = e.hidden /\ f.bad = e.bad
  BY <1>1, PmAssigned
<1> QED BY <1>2, <1>3

(* ... or whether it is tiled, ...                                          *)
LEMMA TiledAssigned ==
    ASSUME NEW e, IsDisplay(e), NEW w \in Widget, NEW tiled \in BOOLEAN, e.pm[w] \in PmType,
           NEW f, f = Retiled(e, w, tiled)
    PROVE  /\ IsDisplay(f) /\ f.pm[w] \in PmType
           /\ f.pm[w].status = e.pm[w].status /\ f.pm[w].pixmap = e.pm[w].pixmap
           /\ f.pm[w].size = e.pm[w].size /\ f.pm[w].pen = e.pm[w].pen
           /\ \A x \in Widget : x # w => f.pm[x] = e.pm[x]
           /\ f.pixmaps = e.pixmaps /\ f.win = e.win /\ f.pending = e.pending
           /\ f.hidden = e.hidden /\ f.bad = e.bad
<1> DEFINE r == [e.pm[w] EXCEPT !.tiled = tiled]
<1>1. f = SetPm(e, w, r)
  BY DEF SetPm, Retiled
<1>2. /\ r \in PmType /\ r.status = e.pm[w].status /\ r.pixmap = e.pm[w].pixmap
      /\ r.size = e.pm[w].size /\ r.pen = e.pm[w].pen
  <2>1. \A b \in BOOLEAN : [e.pm[w] EXCEPT !.tiled = b] \in PmType
    BY DEF PmType
  <2>2. r \in PmType
    BY <2>1
  <2> QED BY <2>2 DEF PmType
<1> HIDE DEF r
<1>3. /\ IsDisplay(f) /\ f.pm[w] = r /\ \A x \in Widget : x # w => f.pm[x] = e.pm[x]
      /\ f.pixmaps = e.pixmaps /\ f.win = e.win /\ f.pending = e.pending
      /\ f.hidden = e.hidden /\ f.bad = e.bad
  BY <1>1, PmAssigned
<1> QED BY <1>2, <1>3

(* The server's pixmaps are those in ids and the widget's, if it names one. *)
Names(v, w, ids) ==
    /\ v.pm[w] \in PmType
    /\ IF v.pm[w].pixmap \in Pixmap
       THEN v.pm[w].pixmap \notin ids /\ DOMAIN v.pixmaps = ids \cup {v.pm[w].pixmap}
       ELSE DOMAIN v.pixmaps = ids

(* ... or the pixmap that the program gives.                                *)
LEMMA GivenIsPixmap ==
    ASSUME NEW v, NEW w, v.pm[w] \in PmType
    PROVE  HasGiven(v.pm[w].pixmap) <=> v.pm[w].pixmap \in Pixmap
  BY PixmapAssumption DEF HasGiven, PmType

(* The pixmap is freed when there is none to be any more. *)
LEMMA StatusToNone ==
    ASSUME NEW e, Sound(e), NEW w \in Widget, NEW v, Frame(e, v, w), Names(v, w, Others(e, w)),
           NEW f, f = StatusChanged(v, w, "HasNone")
    PROVE  /\ Frame(e, f, w) /\ f.win = v.win /\ f.pending = v.pending
           /\ OwnPixmap(f, w, Others(e, w))
           /\ f.pm[w].status = "HasNone" /\ f.pm[w].size = v.pm[w].size
<1>0. PICK u, id : u = SetStatus(v, w, "HasNone") /\ id = v.pm[w].pixmap
  OBVIOUS
<1>1. IsDisplay(v) /\ v.pm[w] \in PmType /\ "HasNone" \in Status
  BY DEF Frame, Names, Status
<1>2. /\ IsDisplay(u) /\ u.pm[w] \in PmType
      /\ u.pm[w].status = "HasNone" /\ u.pm[w].pixmap = id /\ u.pm[w].size = v.pm[w].size
      /\ \A x \in Widget : x # w => u.pm[x] = v.pm[x]
      /\ u.pixmaps = v.pixmaps /\ u.win = v.win /\ u.pending = v.pending
      /\ u.hidden = v.hidden /\ u.bad = v.bad
  BY <1>0, <1>1, StatusAssigned
<1>3. HasGiven(id) <=> id \in Pixmap
  BY <1>0, <1>1, GivenIsPixmap
<1>4. PICK t : t = IF HasGiven(u.pm[w].pixmap) THEN XFreePixmap(u, u.pm[w].pixmap) ELSE u
  OBVIOUS
<1>5. f = SetPixmap(t, w, UnspecifiedPixmap)
  BY SMTT(30), <1>0, <1>4 DEF StatusChanged, SetStatus, SetPixmap
<1>6. /\ IsDisplay(t) /\ t.pm = u.pm /\ t.win = u.win /\ t.pending = u.pending
      /\ t.hidden = u.hidden /\ t.bad = u.bad
      /\ DOMAIN t.pixmaps = Others(e, w)
      /\ \A x \in Others(e, w) : t.pixmaps[x] = u.pixmaps[x]
  <2>1. CASE id \in Pixmap
    <3>1. t = XFreePixmap(u, id) /\ id \in DOMAIN u.pixmaps /\ id \notin Others(e, w)
          /\ DOMAIN u.pixmaps = Others(e, w) \cup {id}
      BY <1>0, <1>2, <1>3, <1>4, <2>1 DEF Names
    <3>2. /\ IsDisplay(t) /\ t.pm = u.pm /\ t.win = u.win /\ t.pending = u.pending
          /\ t.hidden = u.hidden /\ t.bad = u.bad
          /\ DOMAIN t.pixmaps = DOMAIN u.pixmaps \ {id}
          /\ \A x \in DOMAIN u.pixmaps : x # id => t.pixmaps[x] = u.pixmaps[x]
      BY <1>2, <3>1, PixmapFreed
    <3> QED BY <3>1, <3>2
  <2>2. CASE id \notin Pixmap
    BY <1>0, <1>2, <1>3, <1>4, <2>2 DEF Names
  <2> QED BY <2>1, <2>2
<1>7. /\ IsDisplay(f) /\ f.pm[w] \in PmType
      /\ f.pm[w].pixmap = UnspecifiedPixmap /\ f.pm[w].status = t.pm[w].status
      /\ f.pm[w].size = t.pm[w].size
      /\ \A x \in Widget : x # w => f.pm[x] = t.pm[x]
      /\ f.pixmaps = t.pixmaps /\ f.win = t.win /\ f.pending = t.pending
      /\ f.hidden = t.hidden /\ f.bad = t.bad
  <2>1. t.pm[w] \in PmType
    BY <1>2, <1>6
  <2> QED BY <2>1, <1>5, <1>6, PixmapAssigned
<1>8. Frame(e, f, w)
  BY <1>2, <1>6, <1>7 DEF Frame
<1>9. OwnPixmap(f, w, Others(e, w))
  BY <1>2, <1>6, <1>7, PixmapAssumption DEF OwnPixmap
<1> QED BY <1>2, <1>6, <1>7, <1>8, <1>9

(* There is a pixmap of the widget's as soon as there is to be one. *)
LEMMA StatusFromAny ==
    ASSUME NEW e, Sound(e), NEW w \in Widget, NEW v, Frame(e, v, w), OwnPixmap(v, w, Others(e, w)),
           NEW status \in Status, status # "HasNone", NEW f, f = StatusChanged(v, w, status)
    PROVE  /\ Frame(e, f, w) /\ f.win = v.win /\ f.pending = v.pending
           /\ OwnPixmap(f, w, Others(e, w))
           /\ f.pm[w].status = status /\ f.pm[w].size = v.pm[w].size
<1>0. PICK u, id : u = SetStatus(v, w, status) /\ id = v.pm[w].pixmap
  OBVIOUS
<1>1. IsDisplay(v) /\ v.pm[w] \in PmType
  BY DEF Frame, OwnPixmap
<1>2. /\ IsDisplay(u) /\ u.pm[w] \in PmType
      /\ u.pm[w].status = status /\ u.pm[w].pixmap = id /\ u.pm[w].size = v.pm[w].size
      /\ \A x \in Widget : x # w => u.pm[x] = v.pm[x]
      /\ u.pixmaps = v.pixmaps /\ u.win = v.win /\ u.pending = v.pending
      /\ u.hidden = v.hidden /\ u.bad = v.bad
  BY <1>0, <1>1, StatusAssigned
<1>3. HasGiven(id) <=> id \in Pixmap
  BY <1>0, <1>1, GivenIsPixmap
<1>4. Frame(e, u, w)
  BY <1>2 DEF Frame
<1>5. f = IF HasGiven(id) THEN u ELSE SetPixmap(FilledPixmap(u, w), w, NewPixmap(u))
  <2>1. f = IF HasGiven(u.pm[w].pixmap) THEN u ELSE SetPixmap(FilledPixmap(u, w), w, NewPixmap(u))
    BY <1>0 DEF StatusChanged, SetStatus, SetPixmap
  <2> QED BY <2>1, <1>2
<1>6. CASE id \in Pixmap
  <2>1. f = u
    BY <1>3, <1>5, <1>6
  <2>2. OwnPixmap(u, w, Others(e, w))
    BY <1>0, <1>2, <1>6 DEF OwnPixmap
  <2> QED BY <1>2, <1>4, <2>1, <2>2
<1>7. CASE id \notin Pixmap
  <2>1. f = SetPixmap(FilledPixmap(u, w), w, NewPixmap(u))
    BY <1>3, <1>5, <1>7
  <2>2. DOMAIN u.pixmaps = Others(e, w)
    BY <1>0, <1>2, <1>7 DEF OwnPixmap
  <2>3. /\ Frame(e, f, w) /\ f.win = u.win /\ f.pending = u.pending
        /\ OwnPixmap(f, w, Others(e, w))
        /\ f.pm[w].status = u.pm[w].status /\ f.pm[w].size = u.pm[w].size
    BY <1>2, <1>4, <2>1, <2>2, FilledIsOwn
  <2> QED BY <1>2, <2>3
<1> QED BY <1>6, <1>7

(* The old pixmap is freed and another one named. *)
LEMMA ReplacedNames ==
    ASSUME NEW e, Sound(e), NEW w \in Widget, NEW v, Frame(e, v, w),
           NullPixmap \notin DOMAIN v.pixmaps, v.pm[w] \in PmType, v.pm[w].pixmap # UnspecifiedPixmap,
           v.pm[w].pixmap \in Pixmap => v.pm[w].pixmap \in DOMAIN v.pixmaps \ Others(e, w),
           NEW id \in Pixmap \cup {NullPixmap, UnspecifiedPixmap},
           NEW f, f = Replaced(v, w, id)
    PROVE  /\ Frame(e, f, w) /\ f.win = v.win /\ f.pending = v.pending
           /\ f.pm[w] \in PmType /\ f.pm[w].pixmap = id /\ f.pm[w].status = v.pm[w].status
           /\ f.pm[w].size = v.pm[w].size
           /\ DOMAIN f.pixmaps = DOMAIN v.pixmaps \ {v.pm[w].pixmap}
           /\ \A x \in DOMAIN f.pixmaps : f.pixmaps[x] = v.pixmaps[x]
<1>0. PICK old, t : /\ old = v.pm[w].pixmap
                    /\ t = IF v.pm[w].pixmap # NullPixmap THEN XFreePixmap(v, v.pm[w].pixmap) ELSE v
  OBVIOUS
<1>1. IsDisplay(v) /\ f = SetPixmap(t, w, id)
  BY <1>0 DEF Replaced, SetPixmap, Frame
<1>2. /\ IsDisplay(t) /\ t.pm = v.pm /\ t.win = v.win /\ t.pending = v.pending
      /\ t.hidden = v.hidden /\ t.bad = v.bad
      /\ DOMAIN t.pixmaps = DOMAIN v.pixmaps \ {old}
      /\ \A x \in DOMAIN t.pixmaps : t.pixmaps[x] = v.pixmaps[x]
      /\ old \notin Others(e, w)
  <2>1. CASE old # NullPixmap
    <3>1. old \in DOMAIN v.pixmaps /\ old \notin Others(e, w)
      BY <1>0, <2>1 DEF PmType
    <3>2. t = XFreePixmap(v, old)
      BY <1>0, <2>1
    <3>3. /\ IsDisplay(t) /\ t.pm = v.pm /\ t.win = v.win /\ t.pending = v.pending
          /\ t.hidden = v.hidden /\ t.bad = v.bad
          /\ DOMAIN t.pixmaps = DOMAIN v.pixmaps \ {old}
          /\ \A x \in DOMAIN v.pixmaps : x # old => t.pixmaps[x] = v.pixmaps[x]
      BY <1>1, <3>1, <3>2, PixmapFreed
    <3> QED BY <3>1, <3>3
  <2>2. CASE old = NullPixmap
    <3>1. old \notin DOMAIN v.pixmaps /\ old \notin Others(e, w)
      BY <2>2 DEF Frame
    <3> QED BY <1>0, <1>1, <2>2, <3>1
  <2> QED BY <2>1, <2>2
<1>3. /\ IsDisplay(f) /\ f.pm[w] \in PmType
      /\ f.pm[w].pixmap = id /\ f.pm[w].status = t.pm[w].status
      /\ f.pm[w].size = t.pm[w].size
      /\ \A x \in Widget : x # w => f.pm[x] = t.pm[x]
      /\ f.pixmaps = t.pixmaps /\ f.win = t.win /\ f.pending = t.pending
      /\ f.hidden = t.hidden /\ f.bad = t.bad
  <2>1. t.pm[w] \in PmType
    BY <1>2
  <2> QED BY <2>1, <1>1, <1>2, PixmapAssigned
<1>4. Frame(e, f, w)
  <2>1. \A x \in Others(e, w) : x \in DOMAIN f.pixmaps /\ f.pixmaps[x] = e.pixmaps[x]
    BY <1>2, <1>3 DEF Frame
  <2> QED BY <2>1, <1>2, <1>3 DEF Frame
<1>5. f.win = v.win /\ f.pending = v.pending /\ f.pm[w].status = v.pm[w].status /\ f.pm[w].size = v.pm[w].size
  BY <1>2, <1>3
<1>6. DOMAIN f.pixmaps = DOMAIN v.pixmaps \ {v.pm[w].pixmap}
  BY <1>0, <1>2, <1>3
<1>7. \A x \in DOMAIN f.pixmaps : f.pixmaps[x] = v.pixmaps[x]
  BY <1>2, <1>3
<1> QED BY <1>3, <1>4, <1>5, <1>6, <1>7

(* What a program avoids, of the pixmap's resources (SetValuesIsTame). *)
TameChange(e, w, args) ==
    LET status == IF "status" \in DOMAIN args THEN args.status ELSE e.pm[w].status
        newpixmap == "pixmap" \in DOMAIN args /\ args.pixmap # e.pm[w].pixmap
        retiled == "tiled" \in DOMAIN args /\ args.tiled # e.pm[w].tiled
    IN /\ newpixmap => e.pm[w].pixmap # UnspecifiedPixmap
       /\ newpixmap /\ args.pixmap = NullPixmap => status = "HasNone"
       /\ GivesPixmap(args) => status # "HasNone"
       /\ retiled /\ e.pm[w].status = "HasNone" => status = "HasNone" \/ GivesPixmap(args)

(* The procedure, up to where it redraws the window. *)
Reconfigured(g, w, a) ==
    LET tiled == IF "tiled" \in DOMAIN a THEN a.tiled ELSE g.pm[w].tiled
        pixmap == IF "pixmap" \in DOMAIN a THEN a.pixmap ELSE g.pm[w].pixmap
        newpixmap == pixmap # g.pm[w].pixmap
        status == IF newpixmap /\ pixmap = UnspecifiedPixmap THEN "HasNone"
                  ELSE IF "status" \in DOMAIN a THEN a.status ELSE g.pm[w].status
        changed == status # g.pm[w].status
        redraw == tiled # g.pm[w].tiled \/ (newpixmap /\ pixmap # UnspecifiedPixmap)
        v1 == Retiled(g, w, tiled)
        v2 == IF newpixmap THEN Replaced(v1, w, pixmap) ELSE v1
        v3 == IF redraw THEN ResizePixmap(SetStatus(v2, w, status), w) ELSE v2
    IN [after |-> IF changed THEN StatusChanged(v3, w, status) ELSE v3,
        shows |-> redraw \/ (changed /\ status = "On"), same |-> ~redraw /\ ~newpixmap /\ ~changed]

(* What SetValues does to a pixmap, one thing after the other.              *)
LEMMA SetPixmapValuesParts ==
    ASSUME NEW g, NEW w, NEW a
    PROVE  SetPixmapValues(g, w, a) =
            IF Reconfigured(g, w, a).shows /\ Graphic(w) /\ Realized(g, w)
            THEN Redisplay(Reconfigured(g, w, a).after, w, All(g, w))
            ELSE Reconfigured(g, w, a).after
  BY ZenonT(60) DEF SetPixmapValues, Reconfigured, SetStatus

(* After all of them the widget has the pixmap it should.                   *)
LEMMA ReconfiguredOwn ==
    ASSUME NEW e, Sound(e), NEW w \in Widget, NEW args \in Args, TameChange(e, w, args),
           NEW g, g = Gave(e, args, e.pm[w].size), NEW a, a = Giving(e, args),
           NEW f, f = Reconfigured(g, w, a).after
    PROVE  /\ Frame(e, f, w) /\ f.win = e.win /\ f.pending = e.pending
           /\ OwnPixmap(f, w, Others(e, w)) /\ f.pm[w].size = e.pm[w].size
           /\ f.pm[w].status = "On" /\ ~Reconfigured(g, w, a).shows =>
                /\ e.pm[w].status = "On" /\ f.pm[w].pixmap = e.pm[w].pixmap
                /\ f.pixmaps[e.pm[w].pixmap] = e.pixmaps[e.pm[w].pixmap]
<1>0. PICK ids, n, old : ids = Others(e, w) /\ n = e.pm[w].size /\ old = e.pm[w].pixmap
  OBVIOUS
<1>1. /\ e.pm[w] \in PmType /\ n \in Nat /\ ids \subseteq Pixmap
      /\ old \in Pixmap \cup {NullPixmap, UnspecifiedPixmap}
      /\ e.pm[w].status \in Status /\ e.pm[w].tiled \in BOOLEAN
      /\ IF e.pm[w].status = "HasNone" THEN DOMAIN e.pixmaps = ids /\ old \notin Pixmap
         ELSE /\ old \in Pixmap \ ids /\ DOMAIN e.pixmaps = ids \cup {old}
              /\ IsImage(e.pixmaps[old], n)
  BY <1>0, SoundFrame DEF Sound, OwnPixmap, PmType
<1>2. /\ Frame(e, g, w) /\ g.pm = e.pm /\ g.win = e.win /\ g.pending = e.pending
      /\ \A id \in DOMAIN e.pixmaps : id \in DOMAIN g.pixmaps /\ g.pixmaps[id] = e.pixmaps[id]
      /\ DOMAIN a = DOMAIN args
      /\ \A x \in DOMAIN args : x # "pixmap" => a[x] = args[x]
      /\ ~GivesPixmap(args) => DOMAIN g.pixmaps = DOMAIN e.pixmaps /\ a = args
      /\ GivesPixmap(args) =>
                /\ a.pixmap \in Pixmap /\ a.pixmap \notin DOMAIN e.pixmaps
                /\ DOMAIN g.pixmaps = DOMAIN e.pixmaps \cup {a.pixmap}
                /\ IsImage(g.pixmaps[a.pixmap], n)
  <2>1. e.pm[w].size \in Nat /\ args \in InitArgs \cup Args
    BY <1>0, <1>1
  <2> QED BY <1>0, <2>1, GaveFrame
<1> DEFINE tiled_ == IF "tiled" \in DOMAIN a THEN a.tiled ELSE g.pm[w].tiled
           pixmap_ == IF "pixmap" \in DOMAIN a THEN a.pixmap ELSE g.pm[w].pixmap
           given_ == IF "status" \in DOMAIN a THEN a.status ELSE g.pm[w].status
<1>3. PICK tiled, pixmap, given : tiled = tiled_ /\ pixmap = pixmap_ /\ given = given_
  OBVIOUS
<1> DEFINE newpixmap == pixmap # old
           status_ == IF newpixmap /\ pixmap = UnspecifiedPixmap THEN "HasNone" ELSE given
<1>4. PICK status : status = status_
  OBVIOUS
<1> DEFINE changed == status # e.pm[w].status
           redraw == tiled # e.pm[w].tiled \/ (newpixmap /\ pixmap # UnspecifiedPixmap)
<1>5. PICK v1, v2, v3 : /\ v1 = Retiled(g, w, tiled)
                        /\ v2 = IF newpixmap THEN Replaced(v1, w, pixmap) ELSE v1
                        /\ v3 = IF redraw THEN ResizePixmap(SetStatus(v2, w, status), w) ELSE v2
  OBVIOUS
<1>6. /\ f = IF changed THEN StatusChanged(v3, w, status) ELSE v3
      /\ Reconfigured(g, w, a).shows = (redraw \/ (changed /\ status = "On"))
  BY <1>0, <1>2, <1>3, <1>4, <1>5 DEF Reconfigured
<1> HIDE DEF tiled_, pixmap_, given_
(* what the arguments may be *)
<1>7. /\ tiled \in BOOLEAN /\ given \in Status /\ status \in Status
      /\ pixmap \in Pixmap \cup {NullPixmap, UnspecifiedPixmap}
  <2>1. "tiled" \in DOMAIN args => a["tiled"] \in BOOLEAN
    BY <1>2, ArgsAssumption
  <2>2. "status" \in DOMAIN args => a["status"] \in Status
    BY <1>2, ArgsAssumption
  <2>3. "pixmap" \in DOMAIN args => a.pixmap \in Pixmap \cup {NullPixmap, UnspecifiedPixmap}
    <3>1. CASE GivesPixmap(args)
      BY <1>2, <3>1
    <3>2. CASE ~GivesPixmap(args)
      BY <1>2, <3>2, ArgsAssumption DEF GivesPixmap
    <3> QED BY <3>1, <3>2
  <2>4. "HasNone" \in Status
    BY DEF Status
  <2> QED BY <1>0, <1>1, <1>2, <1>3, <1>4, <2>1, <2>2, <2>3, <2>4 DEF tiled_, pixmap_, given_
<1>8. /\ newpixmap /\ ~GivesPixmap(args) => pixmap \in {NullPixmap, UnspecifiedPixmap}
      /\ GivesPixmap(args) => newpixmap /\ pixmap = a.pixmap
  <2>1. GivesPixmap(args) => pixmap = a.pixmap /\ a.pixmap # old
    <3>1. GivesPixmap(args) => "pixmap" \in DOMAIN a
      BY <1>2 DEF GivesPixmap
    <3>2. GivesPixmap(args) => a.pixmap # old
      BY <1>1, <1>2
    <3> QED BY <3>1, <3>2, <1>3 DEF pixmap_
  <2>2. ASSUME newpixmap, ~GivesPixmap(args)
        PROVE  pixmap \in {NullPixmap, UnspecifiedPixmap}
    <3>1. "pixmap" \in DOMAIN args /\ pixmap = args.pixmap
      BY <2>2, <1>0, <1>2, <1>3 DEF pixmap_
    <3> QED BY <3>1, <2>2, ArgsAssumption DEF GivesPixmap
  <2> QED BY <2>1, <2>2
(* and what they may not *)
<1>9. /\ newpixmap => old # UnspecifiedPixmap
      /\ newpixmap /\ pixmap = NullPixmap => status = "HasNone"
      /\ GivesPixmap(args) => status # "HasNone"
      /\ tiled # e.pm[w].tiled /\ e.pm[w].status = "HasNone" => status = "HasNone" \/ GivesPixmap(args)
  <2> DEFINE wanted == IF "status" \in DOMAIN args THEN args.status ELSE e.pm[w].status
             another == "pixmap" \in DOMAIN args /\ args.pixmap # e.pm[w].pixmap
             retiled == "tiled" \in DOMAIN args /\ args.tiled # e.pm[w].tiled
  <2>1. /\ another => old # UnspecifiedPixmap
        /\ another /\ args.pixmap = NullPixmap => wanted = "HasNone"
        /\ GivesPixmap(args) => wanted # "HasNone"
        /\ retiled /\ e.pm[w].status = "HasNone" => wanted = "HasNone" \/ GivesPixmap(args)
    BY <1>0 DEF TameChange
  <2>2. given = wanted
    <3>1. "status" \in DOMAIN args => a["status"] = args["status"]
      BY <1>2
    <3> QED BY <3>1, <1>2, <1>3 DEF given_
  <2>3. tiled # e.pm[w].tiled => retiled
    <3>1. "tiled" \in DOMAIN args => a["tiled"] = args["tiled"]
      BY <1>2
    <3> QED BY <3>1, <1>2, <1>3 DEF tiled_
  <2>4. newpixmap => another
    <3>1. CASE GivesPixmap(args)
      <4>1. "pixmap" \in DOMAIN args /\ args.pixmap = "given"
        BY <3>1 DEF GivesPixmap
      <4> QED BY <4>1, <1>0, <1>1, ArgsAssumption
    <3>2. CASE ~GivesPixmap(args)
      BY <3>2, <1>0, <1>2, <1>3 DEF pixmap_
    <3> QED BY <3>1, <3>2
  <2>5. newpixmap /\ pixmap = NullPixmap => args.pixmap = NullPixmap
    <3>1. newpixmap /\ pixmap = NullPixmap => ~GivesPixmap(args)
      BY <1>2, <1>8, PixmapAssumption
    <3> QED BY <3>1, <1>0, <1>2, <1>3 DEF pixmap_
  <2> HIDE DEF wanted, another, retiled
  <2>6. status = "HasNone" \/ status = given
    BY <1>4
  <2>7. GivesPixmap(args) => status = given
    BY <1>2, <1>4, <1>8, PixmapAssumption
  <2>8. newpixmap /\ pixmap = NullPixmap => status = given
    BY <1>4, PixmapAssumption
  <2> QED BY <2>1, <2>2, <2>3, <2>4, <2>5, <2>6, <2>7, <2>8
<1>10. /\ Frame(e, v1, w) /\ v1.win = e.win /\ v1.pending = e.pending
       /\ v1.pm[w] \in PmType /\ v1.pm[w].pixmap = old /\ v1.pm[w].size = n
       /\ v1.pm[w].status = e.pm[w].status /\ v1.pixmaps = g.pixmaps
  <2>1. /\ IsDisplay(v1) /\ v1.pm[w] \in PmType
        /\ v1.pm[w].status = g.pm[w].status /\ v1.pm[w].pixmap = g.pm[w].pixmap
        /\ v1.pm[w].size = g.pm[w].size
        /\ \A x \in Widget : x # w => v1.pm[x] = g.pm[x]
        /\ v1.pixmaps = g.pixmaps /\ v1.win = g.win /\ v1.pending = g.pending
        /\ v1.hidden = g.hidden /\ v1.bad = g.bad
    <3>1. IsDisplay(g) /\ g.pm[w] \in PmType
      BY <1>1, <1>2 DEF Frame
    <3> QED BY <3>1, <1>5, <1>7, TiledAssigned
  <2>2. Frame(e, v1, w)
    BY SMTT(30), <2>1, <1>2 DEF Frame
  <2> QED BY <2>1, <2>2, <1>0, <1>2
<1>11. /\ Frame(e, v2, w) /\ v2.win = e.win /\ v2.pending = e.pending
       /\ v2.pm[w] \in PmType /\ v2.pm[w].pixmap = pixmap /\ v2.pm[w].size = n
       /\ v2.pm[w].status = e.pm[w].status
       /\ DOMAIN v2.pixmaps = IF newpixmap THEN DOMAIN g.pixmaps \ {old} ELSE DOMAIN g.pixmaps
       /\ \A x \in DOMAIN v2.pixmaps : v2.pixmaps[x] = g.pixmaps[x]
  <2>1. CASE newpixmap
    <3>1. v2 = Replaced(v1, w, pixmap)
      BY <1>5, <2>1
    <3>2. NullPixmap \notin DOMAIN v1.pixmaps
      BY <1>1, <1>2, <1>10, PixmapAssumption
    <3>3. old \in Pixmap => old \in DOMAIN v1.pixmaps \ Others(e, w)
      BY <1>0, <1>1, <1>2, <1>10
    <3>4. old # UnspecifiedPixmap
      BY <1>9, <2>1
    <3>5. /\ Frame(e, v2, w) /\ v2.win = v1.win /\ v2.pending = v1.pending
          /\ v2.pm[w] \in PmType /\ v2.pm[w].pixmap = pixmap /\ v2.pm[w].status = v1.pm[w].status
          /\ v2.pm[w].size = v1.pm[w].size
          /\ DOMAIN v2.pixmaps = DOMAIN v1.pixmaps \ {v1.pm[w].pixmap}
          /\ \A x \in DOMAIN v2.pixmaps : v2.pixmaps[x] = v1.pixmaps[x]
      BY <1>7, <1>10, <3>1, <3>2, <3>3, <3>4, ReplacedNames
    <3> QED BY <3>5, <2>1, <1>10
  <2>2. CASE ~newpixmap
    BY <2>2, <1>5, <1>10
  <2> QED BY <2>1, <2>2
(* the widget's pixmap is that which is new, or the old one *)
<1>12. Names(v2, w, ids)
  <2>1. CASE GivesPixmap(args)
    BY SMTT(30), <2>1, <1>1, <1>2, <1>8, <1>11 DEF Names
  <2>2. CASE ~GivesPixmap(args) /\ newpixmap
    BY SMTT(30), <2>2, <1>1, <1>2, <1>8, <1>11, PixmapAssumption DEF Names
  <2>3. CASE ~newpixmap
    BY <2>3, <1>1, <1>2, <1>8, <1>11 DEF Names
  <2> QED BY <2>1, <2>2, <2>3
<1>13. PICK u : u = SetStatus(v2, w, status)
  OBVIOUS
<1>14. /\ Frame(e, u, w) /\ u.win = e.win /\ u.pending = e.pending
       /\ u.pm[w] \in PmType /\ u.pm[w].pixmap = pixmap /\ u.pm[w].size = n
       /\ u.pm[w].status = status /\ u.pixmaps = v2.pixmaps /\ Names(u, w, ids)
  <2>1. /\ IsDisplay(u) /\ u.pm[w] \in PmType
        /\ u.pm[w].status = status /\ u.pm[w].pixmap = v2.pm[w].pixmap
        /\ u.pm[w].size = v2.pm[w].size
        /\ \A x \in Widget : x # w => u.pm[x] = v2.pm[x]
        /\ u.pixmaps = v2.pixmaps /\ u.win = v2.win /\ u.pending = v2.pending
        /\ u.hidden = v2.hidden /\ u.bad = v2.bad
    <3>1. IsDisplay(v2)
      BY <1>11 DEF Frame
    <3> QED BY <3>1, <1>7, <1>11, <1>13, StatusAssigned
  <2>2. Frame(e, u, w)
    BY <2>1, <1>11 DEF Frame
  <2>3. Names(u, w, ids)
    BY <2>1, <1>12 DEF Names
  <2> QED BY <2>1, <2>2, <2>3, <1>11
<1>15. CASE status = "HasNone"
  <2>1. /\ Frame(e, v3, w) /\ v3.win = e.win /\ v3.pending = e.pending /\ Names(v3, w, ids)
        /\ v3.pm[w].size = n /\ v3.pm[w].pixmap = pixmap
        /\ ~changed => v3.pm[w].status = "HasNone"
    <3>1. CASE redraw
      <4>1. v3 = u
        BY <1>5, <1>13, <1>14, <1>15, <3>1 DEF ResizePixmap
      <4> QED BY <4>1, <1>14, <1>15
    <3>2. CASE ~redraw
      BY <1>5, <1>11, <1>12, <1>15, <3>2
    <3> QED BY <3>1, <3>2
  <2>2. CASE changed
    <3>1. f = StatusChanged(v3, w, "HasNone")
      BY <1>6, <1>15, <2>2
    <3>2. Names(v3, w, Others(e, w))
      BY <1>0, <2>1
    <3>3. /\ Frame(e, f, w) /\ f.win = v3.win /\ f.pending = v3.pending
          /\ OwnPixmap(f, w, Others(e, w))
          /\ f.pm[w].status = "HasNone" /\ f.pm[w].size = v3.pm[w].size
      BY <2>1, <3>1, <3>2, StatusToNone
    <3> QED BY <3>3, <2>1, <1>0
  <2>3. CASE ~changed
    <3>1. f = v3
      BY <1>6, <2>3
    <3>2. e.pm[w].status = "HasNone"
      BY <1>15, <2>3
    <3>3. pixmap \notin Pixmap
      <4>1. ~GivesPixmap(args)
        BY <1>9, <1>15
      <4> QED BY <4>1, <1>1, <1>8, <3>2, PixmapAssumption
    <3>4. OwnPixmap(v3, w, Others(e, w))
      BY <1>0, <2>1, <2>3, <3>3 DEF Names, OwnPixmap
    <3> QED BY <3>1, <3>4, <2>1, <2>3, <1>0
  <2> QED BY <2>2, <2>3
<1>16. CASE status # "HasNone"
  <2>1. newpixmap => GivesPixmap(args)
    BY <1>4, <1>8, <1>9, <1>16
  <2>2. redraw => /\ pixmap \in Pixmap \ ids /\ DOMAIN u.pixmaps = ids \cup {pixmap}
                  /\ IsImage(u.pixmaps[pixmap], n)
    <3>1. CASE GivesPixmap(args)
      BY SMTT(30), <3>1, <1>1, <1>2, <1>8, <1>11, <1>14
    <3>2. CASE ~GivesPixmap(args)
      <4>1. redraw => e.pm[w].status # "HasNone" /\ pixmap = old
        BY <3>2, <1>9, <1>16, <2>1
      <4> QED BY <3>2, <4>1, <1>1, <1>2, <1>11, <1>14
    <3> QED BY <3>1, <3>2
  <2>3. redraw => PixmapOf(u, w, Others(e, w), n)
    BY <1>0, <1>14, <1>16, <2>2 DEF PixmapOf
  <2>7. ~redraw => v3 = v2 /\ ~newpixmap /\ ~GivesPixmap(args)
    <3>1. GivesPixmap(args) => pixmap # UnspecifiedPixmap
      BY <1>2, <1>8, PixmapAssumption
    <3> QED BY <3>1, <2>1, <1>5, <1>8
  <2>4. /\ Frame(e, v3, w) /\ v3.win = e.win /\ v3.pending = e.pending
        /\ OwnPixmap(v3, w, Others(e, w)) /\ v3.pm[w].size = n
        /\ redraw => v3.pm[w].status = status
        /\ ~redraw => v3.pm[w].status = e.pm[w].status
    <3>1. CASE redraw
      <4>1. v3 = ResizePixmap(u, w)
        BY <1>5, <1>13, <3>1
      <4>2. /\ Frame(e, v3, w) /\ v3.win = u.win /\ v3.pending = u.pending
            /\ OwnPixmap(v3, w, Others(e, w))
            /\ v3.pm[w].status = u.pm[w].status /\ v3.pm[w].size = u.pm[w].size
        BY <1>1, <1>14, <2>3, <3>1, <4>1, ResizePixmapOwn
      <4> QED BY <4>2, <3>1, <1>14
    <3>2. CASE ~redraw
      <4>1. v3 = v2 /\ ~newpixmap /\ ~GivesPixmap(args)
        BY <2>7, <3>2
      <4>2. OwnPixmap(v2, w, Others(e, w))
        BY SMTT(30), <4>1, <1>0, <1>1, <1>2, <1>11 DEF OwnPixmap
      <4> QED BY <4>1, <4>2, <1>11, <3>2
    <3> QED BY <3>1, <3>2
  <2>5. CASE changed
    <3>1. f = StatusChanged(v3, w, status)
      BY <1>6, <2>5
    <3>2. /\ Frame(e, f, w) /\ f.win = v3.win /\ f.pending = v3.pending
          /\ OwnPixmap(f, w, Others(e, w))
          /\ f.pm[w].status = status /\ f.pm[w].size = v3.pm[w].size
      BY <1>7, <1>16, <2>4, <3>1, StatusFromAny
    <3>3. f.pm[w].status = "On" => Reconfigured(g, w, a).shows
      BY <1>6, <2>5, <3>2
    <3> QED BY <3>2, <3>3, <2>4, <1>0
  <2>6. CASE ~changed
    <3>1. f = v3
      BY <1>6, <2>6
    <3>2. ASSUME ~redraw, f.pm[w].status = "On"
          PROVE  /\ e.pm[w].status = "On" /\ f.pm[w].pixmap = old
                 /\ f.pixmaps[old] = e.pixmaps[old]
      <4>1. f = v2 /\ ~newpixmap /\ old \in DOMAIN e.pixmaps
        <5>1. e.pm[w].status # "HasNone"
          BY <2>4, <3>1, <3>2, <1>16
        <5> QED BY <5>1, <1>1, <2>7, <3>1, <3>2
      <4>2. e.pm[w].status = "On" /\ f.pm[w].pixmap = old
        BY <4>1, <1>11, <3>2
      <4>3. old \in DOMAIN v2.pixmaps
        BY <4>1, <1>2, <1>11
      <4> QED BY <4>1, <4>2, <4>3, <1>2, <1>11
    <3> QED BY <3>1, <3>2, <2>4, <1>0, <1>6
  <2> QED BY <2>5, <2>6
<1> QED BY <1>15, <1>16

(* Two steps of one procedure. *)
LEMMA FrameTwice ==
    ASSUME NEW e, NEW v, NEW f, NEW w, Frame(e, v, w), Frame(v, f, w)
    PROVE  Frame(e, f, w)
<1>1. Others(v, w) = Others(e, w)
  BY DEF Frame, Others
<1> QED BY <1>1 DEF Frame

(* A window drawn in, with what has been drawn elsewhere. *)
LEMMA WindowDrawnOwn ==
    ASSUME NEW v, IsDisplay(v), NEW w \in Widget, OwnWindow(v, w), Realized(v, w), NEW look,
           \A k \in DOMAIN look : look[k] \in Look, NEW f, f = DrawWindow(v, w, look)
    PROVE  /\ IsDisplay(f) /\ f.pm = v.pm /\ f.pixmaps = v.pixmaps /\ f.pending = v.pending
           /\ f.hidden = v.hidden /\ f.bad = v.bad
           /\ \A x \in Widget : x # w => f.win[x] = v.win[x]
           /\ OwnWindow(f, w) /\ Realized(f, w)
           /\ \A k \in Visible(v, w) :
                f.win[w][k] = IF k \in DOMAIN look THEN look[k] ELSE v.win[w][k]
<1>0. PICK n, seen : n = v.pm[w].size /\ seen = [k \in DOMAIN look \intersect Visible(v, w) |-> look[k]]
  OBVIOUS
<1>1. n \in AnySize /\ n \in Nat /\ IsImage(v.win[w], n)
  BY <1>0, SizesAssumption DEF OwnWindow
<1>2. /\ IsDisplay(f) /\ f.pm = v.pm /\ f.pixmaps = v.pixmaps /\ f.pending = v.pending
      /\ f.hidden = v.hidden /\ f.bad = v.bad
      /\ f.win[w] = Over(v.win[w], [k \in DOMAIN look \intersect Visible(v, w) |-> look[k]])
      /\ \A x \in Widget : x # w => f.win[x] = v.win[x]
  BY WindowDrawn
<1>3. IsImage(f.win[w], n)
  <2>1. \A k \in DOMAIN seen : seen[k] \in Look
    BY <1>0
  <2> QED BY <2>1, <1>0, <1>1, <1>2, OverImage
<1>4. Realized(f, w)
  <2>1. f.win[w] \in [Cells(n) -> Int]
    BY <1>3 DEF IsImage, Look
  <2> QED BY <2>1, <1>1, SizesAssumption DEF Realized
<1>5. OwnWindow(f, w)
  BY <1>0, <1>1, <1>2, <1>3, <1>4 DEF OwnWindow
<1>6. ASSUME NEW k \in Visible(v, w)
      PROVE  f.win[w][k] = IF k \in DOMAIN look THEN look[k] ELSE v.win[w][k]
  <2>1. k \in DOMAIN v.win[w]
    BY <1>6, <1>0, <1>1 DEF Visible, All, IsImage
  <2>2. f.win[w][k] = IF k \in DOMAIN seen THEN seen[k] ELSE v.win[w][k]
    BY <2>1, <1>0, <1>2 DEF Over
  <2> QED BY <2>2, <1>0, <1>6
<1> QED BY <1>2, <1>4, <1>5, <1>6

(* The window is redrawn where it has to be. *)
LEMMA SetPixmapValuesSound ==
    ASSUME NEW e, Sound(e), NEW w \in Widget, NEW args \in Args, TameChange(e, w, args),
           NEW f, f = SetPixmapValues(Gave(e, args, e.pm[w].size), w, Giving(e, args))
    PROVE  /\ Sound(f) /\ Frame(e, f, w) /\ f.pm[w].size = e.pm[w].size
           /\ Realized(f, w) <=> Realized(e, w)
<1>0. PICK g, a, h : /\ g = Gave(e, args, e.pm[w].size) /\ a = Giving(e, args)
                     /\ h = Reconfigured(g, w, a).after
  OBVIOUS
<1>1. /\ Frame(e, h, w) /\ h.win = e.win /\ h.pending = e.pending
      /\ OwnPixmap(h, w, Others(e, w)) /\ h.pm[w].size = e.pm[w].size
      /\ h.pm[w].status = "On" /\ ~Reconfigured(g, w, a).shows =>
            /\ e.pm[w].status = "On" /\ h.pm[w].pixmap = e.pm[w].pixmap
            /\ h.pixmaps[e.pm[w].pixmap] = e.pixmaps[e.pm[w].pixmap]
  BY SMTT(30), <1>0, ReconfiguredOwn
<1>2. OwnPixmap(e, w, Others(e, w)) /\ OwnWindow(e, w) /\ Mirrored(e, w) /\ e.pm[w].size \in Nat
  BY DEF Sound, OwnPixmap, PmType
<1>3. g.pm = e.pm /\ g.win = e.win
  BY <1>0, <1>2, GaveFrame
<1>4. f = IF Reconfigured(g, w, a).shows /\ Graphic(w) /\ Realized(g, w)
          THEN Redisplay(h, w, All(g, w)) ELSE h
  <2>1. f = SetPixmapValues(g, w, a)
    BY <1>0
  <2> QED BY <2>1, <1>0, SetPixmapValuesParts
<1>5. /\ Realized(g, w) <=> Realized(e, w)
      /\ Realized(h, w) <=> Realized(e, w)
      /\ All(g, w) = All(e, w) /\ All(h, w) = All(e, w) /\ All(e, w) \in SUBSET Int
  BY <1>1, <1>2, <1>3 DEF Realized, All, Cells
<1>6. OwnWindow(h, w)
  BY <1>1, <1>2, <1>5 DEF OwnWindow
<1>7. CASE Reconfigured(g, w, a).shows /\ Graphic(w) /\ Realized(g, w)
  <2>0. f = Redisplay(h, w, All(e, w)) /\ IsDisplay(h) /\ Realized(h, w) /\ All(e, w) \in SUBSET Int
    BY <1>1, <1>4, <1>5, <1>7 DEF Frame
  <2>1. /\ IsDisplay(f) /\ f.pm = h.pm /\ f.pixmaps = h.pixmaps /\ f.pending = h.pending
        /\ f.hidden = h.hidden /\ f.bad = h.bad
        /\ \A x \in Widget : x # w => f.win[x] = h.win[x]
        /\ OwnWindow(f, w)
        /\ h.pm[w].status = "On" => \A k \in Visible(h, w) :
            f.win[w][k] = IF k \in All(e, w) THEN h.pixmaps[h.pm[w].pixmap][k] ELSE h.win[w][k]
        /\ Realized(f, w)
    BY <2>0, <1>1, <1>6, RedisplayShows
  <2>2. Frame(e, f, w)
    BY <2>1, <1>1 DEF Frame
  <2>3. OwnPixmap(f, w, Others(e, w))
    BY <2>1, <1>1 DEF OwnPixmap
  <2>4. Visible(f, w) = Visible(h, w) /\ Visible(h, w) \subseteq All(e, w)
    BY <2>1, <1>5 DEF Visible, All
  <2>5. Mirrored(f, w)
    BY <2>1, <2>4 DEF Mirrored
  <2>6. Sound(f)
    BY <2>1, <2>2, <2>3, <2>5, StillSound
  <2> QED BY <2>1, <2>2, <2>6, <1>1, <1>5, <1>7
<1>8. CASE ~(Reconfigured(g, w, a).shows /\ Graphic(w) /\ Realized(g, w))
  <2>1. f = h
    BY <1>4, <1>8
  <2>2. Mirrored(h, w)
    <3>1. h.hidden = e.hidden
      BY <1>1 DEF Frame
    <3>2. Visible(h, w) = Visible(e, w)
      BY <3>1, <1>5 DEF Visible
    <3> QED BY <3>2, <1>1, <1>2, <1>5, <1>8 DEF Mirrored
  <2> QED BY <2>1, <2>2, <1>1, <1>5, <1>6, StillSound
<1> QED BY <1>7, <1>8

(* What is cleared is to be exposed. *)
LEMMA ClearedSound ==
    ASSUME NEW e, Sound(e), NEW w \in Widget, Realized(e, w), NEW cells \in SUBSET Int,
           NEW f, f = ClearWindowArea(e, w, cells)
    PROVE  /\ Sound(f) /\ Frame(e, f, w) /\ f.pm = e.pm /\ f.pixmaps = e.pixmaps
           /\ Realized(f, w) /\ cells \intersect All(e, w) \subseteq UNION f.pending[w]
<1>0. PICK look, h, more : /\ look = Solid(cells, 0) /\ h = DrawWindow(e, w, look)
                           /\ more = {cells \intersect All(e, w)} \ {{}}
  OBVIOUS
<1>1. IsDisplay(e) /\ OwnPixmap(e, w, Others(e, w)) /\ OwnWindow(e, w) /\ Mirrored(e, w)
      /\ Frame(e, e, w)
  BY SoundFrame DEF Sound
<1>2. DOMAIN look = cells /\ \A k \in DOMAIN look : look[k] \in Look
  <2>1. 0 \in Look
    BY PixelAssumption, LookAssumption DEF Look
  <2> QED BY <2>1, <1>0 DEF Solid
<1>3. /\ IsDisplay(h) /\ h.pm = e.pm /\ h.pixmaps = e.pixmaps /\ h.pending = e.pending
      /\ h.hidden = e.hidden /\ h.bad = e.bad
      /\ \A x \in Widget : x # w => h.win[x] = e.win[x]
      /\ OwnWindow(h, w) /\ Realized(h, w)
      /\ \A k \in Visible(e, w) : h.win[w][k] = IF k \in DOMAIN look THEN look[k] ELSE e.win[w][k]
  BY <1>0, <1>1, <1>2, WindowDrawnOwn
<1>4. f = SetPending(h, w, h.pending[w] \cup more)
  BY <1>0 DEF ClearWindowArea, SetPending
<1>5. /\ IsDisplay(f) /\ f.pending[w] = h.pending[w] \cup more
      /\ \A x \in Widget : x # w => f.pending[x] = h.pending[x]
      /\ f.pixmaps = h.pixmaps /\ f.pm = h.pm /\ f.win = h.win
      /\ f.hidden = h.hidden /\ f.bad = h.bad
  BY <1>3, <1>4, PendingAssigned
<1>6. Frame(e, f, w)
  BY <1>1, <1>3, <1>5 DEF Frame
<1>7. OwnPixmap(f, w, Others(e, w))
  BY <1>1, <1>3, <1>5 DEF OwnPixmap
<1>8. Realized(f, w)
  BY <1>3, <1>5 DEF Realized
<1>9. OwnWindow(f, w)
  BY <1>0, <1>3, <1>5, <1>8 DEF OwnWindow
<1>10. cells \intersect All(e, w) \subseteq UNION f.pending[w]
  BY <1>0, <1>5
<1>11. Mirrored(f, w)
  <2> SUFFICES ASSUME Graphic(w), f.pm[w].status = "On",
                      NEW k \in Visible(f, w) \ UNION f.pending[w]
               PROVE  f.win[w][k] = f.pixmaps[f.pm[w].pixmap][k]
    BY DEF Mirrored
  <2>1. k \in Visible(e, w) /\ k \in All(e, w) /\ k \notin UNION e.pending[w]
    BY <1>3, <1>5 DEF Visible, All
  <2>2. k \notin DOMAIN look
    BY <2>1, <1>2, <1>10
  <2> QED BY <2>1, <2>2, <1>1, <1>3, <1>5 DEF Mirrored
<1> QED BY <1>3, <1>5, <1>6, <1>7, <1>8, <1>9, <1>10, <1>11, StillSound

(* XtSetValues. *)
LEMMA SetValuesPixmapSound ==
    ASSUME NEW e, Sound(e), NEW w \in Widget, NEW args \in Args, TameChange(e, w, args), NEW background,
           NEW f, f = SetValuesPixmap(Gave(e, args, e.pm[w].size), w, Giving(e, args), background)
    PROVE  /\ Sound(f) /\ Frame(e, f, w) /\ f.pm[w].size = e.pm[w].size
           /\ Realized(f, w) <=> Realized(e, w)
<1>0. PICK g, v : g = Gave(e, args, e.pm[w].size) /\ v = SetPixmapValues(g, w, Giving(e, args))
  OBVIOUS
<1>1. /\ Sound(v) /\ Frame(e, v, w) /\ v.pm[w].size = e.pm[w].size
      /\ Realized(v, w) <=> Realized(e, w)
  BY <1>0, SetPixmapValuesSound
<1>2. e.pm[w].size \in Nat
  BY DEF Sound, OwnPixmap, PmType
<1>3. g.pm = e.pm /\ g.win = e.win
  BY <1>0, <1>2, GaveFrame
<1>4. Realized(g, w) <=> Realized(e, w)
  BY <1>3 DEF Realized
<1>5. All(g, w) \in SUBSET Int
  BY <1>2, <1>3 DEF All, Cells
<1>6. f = v \/ (Realized(v, w) /\ f = ClearWindowArea(v, w, All(g, w)))
  BY <1>0, <1>1, <1>4 DEF SetValuesPixmap
<1>7. CASE Realized(v, w) /\ f = ClearWindowArea(v, w, All(g, w))
  <2>1. Sound(f) /\ Frame(v, f, w) /\ f.pm = v.pm /\ Realized(f, w)
    BY <1>1, <1>5, <1>7, ClearedSound
  <2>2. Frame(e, f, w)
    BY <2>1, <1>1, FrameTwice
  <2> QED BY <2>1, <2>2, <1>1, <1>7
<1> QED BY <1>1, <1>6, <1>7

SetSize(e, w, n) == [e EXCEPT !.pm[w].size = n]

(* The size is assigned before the rest follows it.                         *)
LEMMA SizeAssigned ==
    ASSUME NEW e, IsDisplay(e), NEW w \in Widget, NEW n \in Nat, e.pm[w] \in PmType,
           NEW f, f = SetSize(e, w, n)
    PROVE  /\ IsDisplay(f) /\ f.pm[w] \in PmType
           /\ f.pm[w].status = e.pm[w].status /\ f.pm[w].pixmap = e.pm[w].pixmap
           /\ f.pm[w].size = n
           /\ \A x \in Widget : x # w => f.pm[x] = e.pm[x]
           /\ f.pixmaps = e.pixmaps /\ f.win = e.win /\ f.pending = e.pending
           /\ f.hidden = e.hidden /\ f.bad = e.bad
<1> DEFINE r == [e.pm[w] EXCEPT !.size = n]
<1>1. f = SetPm(e, w, r)
  BY DEF SetPm, SetSize
<1>2. /\ r \in PmType /\ r.status = e.pm[w].status /\ r.pixmap = e.pm[w].pixmap /\ r.size = n
  BY DEF PmType
<1> HIDE DEF r
<1>3. /\ IsDisplay(f) /\ f.pm[w] = r /\ \A x \in Widget : x # w => f.pm[x] = e.pm[x]
      /\ f.pixmaps = e.pixmaps /\ f.win = e.win /\ f.pending = e.pending
      /\ f.hidden = e.hidden /\ f.bad = e.bad
  BY <1>1, PmAssigned
<1> QED BY <1>2, <1>3

(* A blank window of n cells that is exposed. *)
Blank(e, w, n) ==
    SetPending(SetWin(e, w, Solid(Cells(n), 0)), w, {Cells(n)})

(* A window of another size is blank.                                       *)
LEMMA Blanked ==
    ASSUME NEW e, IsDisplay(e), NEW w \in Widget, Graphic(w), NEW n \in AnySize,
           e.pm[w].size = n, NEW f, f = Blank(e, w, n)
    PROVE  /\ IsDisplay(f) /\ f.pm = e.pm /\ f.pixmaps = e.pixmaps
           /\ f.hidden = e.hidden /\ f.bad = e.bad
           /\ \A x \in Widget : x # w => f.win[x] = e.win[x] /\ f.pending[x] = e.pending[x]
           /\ OwnWindow(f, w) /\ Realized(f, w) /\ UNION f.pending[w] = Cells(n)
<1>0. PICK h, image : image = Solid(Cells(n), 0) /\ h = SetWin(e, w, image)
  OBVIOUS
<1>1. n \in AnySize /\ n \in Nat /\ 0 \in Cells(n) /\ Cells(n) \subseteq Int
  <2>1. n \in AnySize /\ n \in Nat \ {0}
    BY SizesAssumption
  <2> QED BY <2>1 DEF Cells
<1>2. /\ IsDisplay(h) /\ h.win[w] = image /\ \A x \in Widget : x # w => h.win[x] = e.win[x]
      /\ h.pixmaps = e.pixmaps /\ h.pm = e.pm /\ h.pending = e.pending
      /\ h.hidden = e.hidden /\ h.bad = e.bad
  BY <1>0, WinAssigned
<1>3. f = SetPending(h, w, {Cells(n)})
  BY <1>0 DEF Blank
<1>4. /\ IsDisplay(f) /\ f.pending[w] = {Cells(n)}
      /\ \A x \in Widget : x # w => f.pending[x] = h.pending[x]
      /\ f.pixmaps = h.pixmaps /\ f.pm = h.pm /\ f.win = h.win
      /\ f.hidden = h.hidden /\ f.bad = h.bad
  BY <1>2, <1>3, PendingAssigned
<1>5. IsImage(image, n)
  <2>1. 0 \in Look
    BY PixelAssumption, LookAssumption DEF Look
  <2> QED BY <2>1, <1>0, SolidImage
<1>6. Realized(f, w)
  <2>1. image \in [Cells(n) -> Int]
    BY <1>5 DEF IsImage, Look
  <2> QED BY <2>1, <1>1, <1>2, <1>4, SizesAssumption DEF Realized
<1>7. OwnWindow(f, w)
  BY <1>0, <1>1, <1>2, <1>4, <1>5, <1>6 DEF OwnWindow
<1>8. UNION f.pending[w] = Cells(n)
  BY <1>4
<1> QED BY <1>0, <1>2, <1>4, <1>6, <1>7, <1>8

(* Realize: a window that is to be exposed.                                 *)
LEMMA RealizeWindowSound ==
    ASSUME NEW e, Sound(e), NEW w \in Widget, Graphic(w), e.pm[w].size \in AnySize,
           NEW f, f = RealizeWindow(e, w)
    PROVE  Sound(f) /\ Frame(e, f, w) /\ f.pm = e.pm /\ Realized(f, w)
<1>0. PICK n \in AnySize : e.pm[w].size = n
  OBVIOUS
<1>1. IsDisplay(e) /\ OwnPixmap(e, w, Others(e, w)) /\ Frame(e, e, w)
  BY SoundFrame DEF Sound
<1>2. f = Blank(e, w, n)
  BY <1>0 DEF RealizeWindow, Blank, SetWin, SetPending, All
<1>3. /\ IsDisplay(f) /\ f.pm = e.pm /\ f.pixmaps = e.pixmaps
      /\ f.hidden = e.hidden /\ f.bad = e.bad
      /\ \A x \in Widget : x # w => f.win[x] = e.win[x] /\ f.pending[x] = e.pending[x]
      /\ OwnWindow(f, w) /\ Realized(f, w) /\ UNION f.pending[w] = Cells(n)
  BY <1>0, <1>1, <1>2, Blanked
<1>4. Frame(e, f, w)
  BY <1>1, <1>3 DEF Frame
<1>5. OwnPixmap(f, w, Others(e, w))
  BY <1>1, <1>3 DEF OwnPixmap
<1>6. Mirrored(f, w)
  BY <1>0, <1>3 DEF Mirrored, Visible, All
<1> QED BY <1>3, <1>4, <1>5, <1>6, StillSound

(* Resize: the window and the pixmap are of the new size.                   *)
LEMMA ResizeWidgetSound ==
    ASSUME NEW e, Sound(e), NEW w \in Widget, NEW n \in AnySize, NEW f, f = ResizeWidget(e, w, n)
    PROVE  /\ Sound(f) /\ Frame(e, f, w) /\ f.pm[w].size = n
           /\ Realized(f, w) <=> Realized(e, w)
<1>0. PICK g, v, u, m : /\ g = SetSize(e, w, n) /\ m = e.pm[w].size
                        /\ v = IF Realized(g, w) THEN Blank(g, w, n) ELSE g
                        /\ u = ResizePixmap(v, w)
  OBVIOUS
<1>1. /\ IsDisplay(e) /\ OwnPixmap(e, w, Others(e, w)) /\ OwnWindow(e, w) /\ Frame(e, e, w)
      /\ e.pm[w] \in PmType /\ m \in Nat /\ n \in Nat
  BY <1>0, SoundFrame, SizesAssumption DEF Sound, OwnPixmap, PmType
<1>2. /\ IsDisplay(g) /\ g.pm[w] \in PmType
      /\ g.pm[w].status = e.pm[w].status /\ g.pm[w].pixmap = e.pm[w].pixmap
      /\ g.pm[w].size = n
      /\ \A x \in Widget : x # w => g.pm[x] = e.pm[x]
      /\ g.pixmaps = e.pixmaps /\ g.win = e.win /\ g.pending = e.pending
      /\ g.hidden = e.hidden /\ g.bad = e.bad
  BY <1>0, <1>1, SizeAssigned
<1>3. Realized(g, w) <=> Realized(e, w)
  BY <1>2 DEF Realized
<1>4. f = IF Realized(g, w) THEN Redisplay(u, w, Cells(n)) ELSE u
  BY <1>0 DEF ResizeWidget, SetSize, Blank, SetWin, SetPending
<1>5. /\ Frame(e, v, w) /\ v.pm = g.pm /\ v.pixmaps = g.pixmaps
      /\ OwnWindow(v, w) /\ (Realized(v, w) <=> Realized(e, w))
  <2>1. CASE Realized(g, w)
    <3>0. Graphic(w) /\ v = Blank(g, w, n)
      BY <2>1, <1>0, <1>1, <1>3 DEF OwnWindow
    <3>1. /\ IsDisplay(v) /\ v.pm = g.pm /\ v.pixmaps = g.pixmaps
          /\ v.hidden = g.hidden /\ v.bad = g.bad
          /\ \A x \in Widget : x # w => v.win[x] = g.win[x] /\ v.pending[x] = g.pending[x]
          /\ OwnWindow(v, w) /\ Realized(v, w)
      BY <3>0, <1>2, Blanked
    <3> QED BY <2>1, <3>1, <1>1, <1>2, <1>3 DEF Frame
  <2>2. CASE ~Realized(g, w)
    <3>1. v = g
      BY <2>2, <1>0
    <3>2. Frame(e, g, w)
      BY <1>1, <1>2 DEF Frame
    <3>3. OwnWindow(g, w)
      BY <2>2, <1>1, <1>2, <1>3 DEF OwnWindow
    <3> QED BY <2>2, <3>1, <3>2, <3>3, <1>3
  <2> QED BY <2>1, <2>2
<1>6. PixmapOf(v, w, Others(e, w), m)
  BY <1>0, <1>1, <1>2, <1>5 DEF PixmapOf, OwnPixmap
<1>7. /\ Frame(e, u, w) /\ u.win = v.win /\ u.pending = v.pending
      /\ OwnPixmap(u, w, Others(e, w))
      /\ u.pm[w].status = v.pm[w].status /\ u.pm[w].size = v.pm[w].size
  BY <1>0, <1>1, <1>5, <1>6, ResizePixmapOwn
<1>8. OwnWindow(u, w) /\ (Realized(u, w) <=> Realized(e, w)) /\ u.pm[w].size = n
  BY <1>2, <1>5, <1>7 DEF OwnWindow, Realized
<1>9. CASE Realized(g, w)
  <2>0. f = Redisplay(u, w, Cells(n)) /\ IsDisplay(u) /\ Realized(u, w) /\ Cells(n) \in SUBSET Int
    BY <1>3, <1>4, <1>7, <1>8, <1>9 DEF Frame, Cells
  <2>1. /\ IsDisplay(f) /\ f.pm = u.pm /\ f.pixmaps = u.pixmaps /\ f.pending = u.pending
        /\ f.hidden = u.hidden /\ f.bad = u.bad
        /\ \A x \in Widget : x # w => f.win[x] = u.win[x]
        /\ OwnWindow(f, w)
        /\ u.pm[w].status = "On" => \A k \in Visible(u, w) :
            f.win[w][k] = IF k \in Cells(n) THEN u.pixmaps[u.pm[w].pixmap][k] ELSE u.win[w][k]
        /\ Realized(f, w)
    BY <2>0, <1>7, <1>8, RedisplayShows
  <2>2. Frame(e, f, w)
    BY <2>1, <1>7 DEF Frame
  <2>3. OwnPixmap(f, w, Others(e, w))
    BY <2>1, <1>7 DEF OwnPixmap
  <2>4. Visible(f, w) = Visible(u, w) /\ Visible(u, w) \subseteq Cells(n)
    BY <2>1, <1>8 DEF Visible, All
  <2>5. Mirrored(f, w)
    BY <2>1, <2>4 DEF Mirrored
  <2>6. Sound(f)
    BY <2>1, <2>2, <2>3, <2>5, StillSound
  <2> QED BY <2>1, <2>2, <2>6, <1>3, <1>8, <1>9
<1>10. CASE ~Realized(g, w)
  <2>1. f = u /\ Mirrored(u, w)
    BY <1>3, <1>4, <1>8, <1>10 DEF Mirrored
  <2> QED BY <2>1, <1>7, <1>8, StillSound
<1> QED BY <1>9, <1>10

(* Destroy: no window and no pixmap of the widget is left.                  *)
LEMMA DestroyPixmapSound ==
    ASSUME NEW e, Sound(e), NEW w \in Widget, NEW f, f = DestroyPixmap(e, w)
    PROVE  /\ Sound(f) /\ Frame(e, f, w) /\ f.pm[w].status = "HasNone" /\ ~Realized(f, w)
           /\ f.pm[w].size = 0
<1>0. PICK id, h, r, h1, h2 :
        /\ id = e.pm[w].pixmap
        /\ h = IF e.pm[w].status # "HasNone" THEN XFreePixmap(e, id) ELSE e
        /\ r = [status |-> "HasNone", size |-> 0, pixmap |-> NullPixmap, tiled |-> FALSE, pen |-> 0]
        /\ h1 = SetPm(h, w, r) /\ h2 = SetWin(h1, w, NoWindow)
  OBVIOUS
<1>1. /\ IsDisplay(e) /\ OwnPixmap(e, w, Others(e, w)) /\ Frame(e, e, w)
      /\ Others(e, w) \subseteq DOMAIN e.pixmaps
  BY SoundFrame DEF Sound
<1>2. f = SetPending(h2, w, {})
  BY <1>0 DEF DestroyPixmap, SetPm, SetWin, SetPending
<1>3. /\ Frame(e, h, w) /\ IsDisplay(h) /\ DOMAIN h.pixmaps = Others(e, w)
  <2>1. CASE e.pm[w].status # "HasNone"
    <3>1. h = XFreePixmap(e, id) /\ id \in DOMAIN e.pixmaps /\ id \notin Others(e, w)
          /\ DOMAIN e.pixmaps = Others(e, w) \cup {id}
      BY <2>1, <1>0, <1>1 DEF OwnPixmap
    <3>2. /\ IsDisplay(h) /\ h.pm = e.pm /\ h.win = e.win /\ h.pending = e.pending
          /\ h.hidden = e.hidden /\ h.bad = e.bad
          /\ DOMAIN h.pixmaps = DOMAIN e.pixmaps \ {id}
          /\ \A x \in DOMAIN e.pixmaps : x # id => h.pixmaps[x] = e.pixmaps[x]
      BY <3>1, <1>1, PixmapFreed
    <3> QED BY <3>1, <3>2, <1>1 DEF Frame
  <2>2. CASE e.pm[w].status = "HasNone"
    BY <2>2, <1>0, <1>1 DEF OwnPixmap
  <2> QED BY <2>1, <2>2
<1>4. /\ IsDisplay(h1) /\ h1.pm[w] = r /\ \A x \in Widget : x # w => h1.pm[x] = h.pm[x]
      /\ h1.pixmaps = h.pixmaps /\ h1.win = h.win /\ h1.pending = h.pending
      /\ h1.hidden = h.hidden /\ h1.bad = h.bad
  BY SMTT(30), <1>0, <1>3, PmAssigned
<1>5. /\ IsDisplay(h2) /\ h2.win[w] = NoWindow /\ \A x \in Widget : x # w => h2.win[x] = h1.win[x]
      /\ h2.pixmaps = h1.pixmaps /\ h2.pm = h1.pm /\ h2.pending = h1.pending
      /\ h2.hidden = h1.hidden /\ h2.bad = h1.bad
  <2>1. IsDisplay(h1) /\ h2 = SetWin(h1, w, NoWindow)
    BY <1>0, <1>4
  <2> QED BY <2>1, WinAssigned
<1>6. /\ IsDisplay(f) /\ f.pending[w] = {}
      /\ \A x \in Widget : x # w => f.pending[x] = h2.pending[x]
      /\ f.pixmaps = h2.pixmaps /\ f.pm = h2.pm /\ f.win = h2.win
      /\ f.hidden = h2.hidden /\ f.bad = h2.bad
  BY <1>2, <1>5, PendingAssigned
<1>7. r \in PmType /\ r.status = "HasNone" /\ r.pixmap = NullPixmap /\ r.size = 0
  <2>1. 0 \in Look
    BY PixelAssumption, LookAssumption DEF Look
  <2> QED BY <2>1, <1>0 DEF PmType, Status
<1>8. Frame(e, f, w)
  BY <1>3, <1>4, <1>5, <1>6 DEF Frame
<1>9. OwnPixmap(f, w, Others(e, w))
  BY <1>3, <1>4, <1>5, <1>6, <1>7, PixmapAssumption DEF OwnPixmap
<1>10. ~Realized(f, w) /\ OwnWindow(f, w) /\ Mirrored(f, w)
  BY <1>5, <1>6 DEF Realized, OwnWindow, Mirrored
<1> QED BY <1>4, <1>5, <1>6, <1>7, <1>8, <1>9, <1>10, StillSound

(* An exposed part of the window is restored from the pixmap. *)
LEMMA HandleExposeSound ==
    ASSUME NEW e, Sound(e), NEW w \in Widget, NEW cells \in e.pending[w],
           NEW f, f = HandleExpose(e, w, cells)
    PROVE  Sound(f) /\ Frame(e, f, w) /\ f.pm = e.pm /\ Realized(f, w) /\ Realized(e, w)
<1>0. PICK h : h = SetPending(e, w, e.pending[w] \ {cells})
  OBVIOUS
<1>1. /\ IsDisplay(e) /\ OwnPixmap(e, w, Others(e, w)) /\ OwnWindow(e, w) /\ Mirrored(e, w)
      /\ Frame(e, e, w)
  BY SoundFrame DEF Sound
<1>2. Realized(e, w) /\ cells \in SUBSET Int
  BY <1>1 DEF OwnWindow
<1>3. /\ IsDisplay(h) /\ h.pending[w] = e.pending[w] \ {cells}
      /\ \A x \in Widget : x # w => h.pending[x] = e.pending[x]
      /\ h.pixmaps = e.pixmaps /\ h.pm = e.pm /\ h.win = e.win
      /\ h.hidden = e.hidden /\ h.bad = e.bad
  BY <1>0, <1>1, PendingAssigned
<1>4. OwnPixmap(h, w, Others(e, w)) /\ OwnWindow(h, w) /\ Realized(h, w)
  BY <1>1, <1>2, <1>3 DEF OwnPixmap, OwnWindow, Realized
<1>5. f = Redisplay(h, w, cells)
  BY <1>0 DEF HandleExpose, SetPending
<1>6. /\ IsDisplay(f) /\ f.pm = h.pm /\ f.pixmaps = h.pixmaps /\ f.pending = h.pending
      /\ f.hidden = h.hidden /\ f.bad = h.bad
      /\ \A x \in Widget : x # w => f.win[x] = h.win[x]
      /\ OwnWindow(f, w)
      /\ h.pm[w].status = "On" => \A k \in Visible(h, w) :
            f.win[w][k] = IF k \in cells THEN h.pixmaps[h.pm[w].pixmap][k] ELSE h.win[w][k]
      /\ Realized(f, w)
  BY SMTT(30), <1>2, <1>3, <1>4, <1>5, RedisplayShows
<1>7. Frame(e, f, w)
  BY <1>1, <1>3, <1>6 DEF Frame
<1>8. OwnPixmap(f, w, Others(e, w))
  BY <1>1, <1>3, <1>6 DEF OwnPixmap
<1>9. Mirrored(f, w)
  <2> SUFFICES ASSUME Graphic(w), f.pm[w].status = "On",
                      NEW k \in Visible(f, w) \ UNION f.pending[w]
               PROVE  f.win[w][k] = f.pixmaps[f.pm[w].pixmap][k]
    BY DEF Mirrored
  <2>1. k \in Visible(e, w) /\ k \in Visible(h, w)
    BY <1>3, <1>6 DEF Visible, All
  <2>2. k \in cells \/ k \notin UNION e.pending[w]
    BY <1>3, <1>6
  <2> QED BY <2>1, <2>2, <1>1, <1>2, <1>3, <1>6 DEF Mirrored
<1> QED BY <1>2, <1>3, <1>6, <1>7, <1>8, <1>9, StillSound

(* Another window covers the windows of the widgets, or goes away. *)
LEMMA CoverWindowsSound ==
    ASSUME NEW e, Sound(e), NEW f, f = CoverWindows(e)
    PROVE  Sound(f) /\ f.pm = e.pm /\ \A w \in Widget : Realized(f, w) <=> Realized(e, w)
<1>0. PICK win : win = [w \in Widget |-> IF e.win[w] = NoWindow THEN NoWindow
                        ELSE [k \in DOMAIN e.win[w] |-> IF k \in Covered THEN 0 ELSE e.win[w][k]]]
  OBVIOUS
<1>1. /\ f.win = win /\ f.hidden = TRUE
      /\ f.pm = e.pm /\ f.pending = e.pending /\ f.pixmaps = e.pixmaps /\ f.bad = e.bad
      /\ f = [x \in DisplayFields |-> f[x]]
  BY <1>0 DEF CoverWindows, Sound, IsDisplay, DisplayFields
<1>2. IsDisplay(f)
  BY <1>0, <1>1 DEF Sound, IsDisplay
<1>3. ASSUME NEW w \in Widget
      PROVE  OwnPixmap(f, w, Others(f, w)) /\ OwnWindow(f, w) /\ Mirrored(f, w)
             /\ (Realized(f, w) <=> Realized(e, w))
  <2>1. Others(f, w) = Others(e, w)
    BY <1>1 DEF Others
  <2>2. OwnPixmap(e, w, Others(e, w)) /\ OwnWindow(e, w) /\ Mirrored(e, w)
    BY DEF Sound
  <2>3. OwnPixmap(f, w, Others(f, w))
    BY <1>1, <2>1, <2>2 DEF OwnPixmap
  <2>4. CASE ~Realized(e, w)
    BY <2>2, <2>3, <2>4, <1>0, <1>1 DEF Realized, OwnWindow, Mirrored
  <2>5. CASE Realized(e, w)
    <3>0. PICK n : n = e.pm[w].size
      OBVIOUS
    <3>1. IsImage(e.win[w], n) /\ n \in AnySize /\ Graphic(w)
      BY <2>2, <2>5, <3>0 DEF OwnWindow
    <3>2. f.win[w] = [k \in DOMAIN e.win[w] |-> IF k \in Covered THEN 0 ELSE e.win[w][k]]
      BY <2>5, <1>0, <1>1 DEF Realized
    <3>3. IsImage(f.win[w], n)
      <4>1. 0 \in Look
        BY PixelAssumption, LookAssumption DEF Look
      <4> QED BY <3>1, <3>2, <4>1 DEF IsImage
    <3>4. Realized(f, w)
      <4>1. f.win[w] \in [Cells(n) -> Int]
        BY <3>3 DEF IsImage, Look
      <4> QED BY <4>1, <3>1, SizesAssumption DEF Realized
    <3>5. OwnWindow(f, w)
      BY <3>0, <3>1, <3>3, <3>4, <2>2, <1>1 DEF OwnWindow
    <3>6. Mirrored(f, w)
      <4> SUFFICES ASSUME f.pm[w].status = "On", NEW k \in Visible(f, w) \ UNION f.pending[w]
                   PROVE  f.win[w][k] = f.pixmaps[f.pm[w].pixmap][k]
        BY DEF Mirrored
      <4>1. k \in Visible(e, w) /\ k \notin Covered /\ k \in Cells(n)
        BY <3>0, <1>1 DEF Visible, All
      <4>2. f.win[w][k] = e.win[w][k]
        BY <3>1, <3>2, <4>1 DEF IsImage
      <4> QED BY <4>1, <4>2, <3>1, <2>2, <2>5, <1>1 DEF Mirrored
    <3> QED BY <2>3, <2>5, <3>4, <3>5, <3>6
  <2> QED BY <2>4, <2>5
<1> QED BY <1>1, <1>2, <1>3 DEF Sound

(* What was covered is to be exposed.                                       *)
LEMMA UncoverWindowsSound ==
    ASSUME NEW e, Sound(e), NEW f, f = UncoverWindows(e)
    PROVE  Sound(f) /\ f.pm = e.pm /\ f.win = e.win
<1>0. PICK pending : pending = [w \in Widget |-> IF e.win[w] = NoWindow THEN e.pending[w]
                            ELSE e.pending[w] \cup ({Covered \intersect All(e, w)} \ {{}})]
  OBVIOUS
<1>1. /\ f.pending = pending /\ f.hidden = FALSE
      /\ f.pm = e.pm /\ f.win = e.win /\ f.pixmaps = e.pixmaps /\ f.bad = e.bad
      /\ f = [x \in DisplayFields |-> f[x]]
  BY <1>0 DEF UncoverWindows, Sound, IsDisplay, DisplayFields
<1>2. IsDisplay(f)
  BY <1>0, <1>1 DEF Sound, IsDisplay
<1>3. ASSUME NEW w \in Widget
      PROVE  OwnPixmap(f, w, Others(f, w)) /\ OwnWindow(f, w) /\ Mirrored(f, w)
  <2>1. Others(f, w) = Others(e, w)
    BY <1>1 DEF Others
  <2>2. OwnPixmap(e, w, Others(e, w)) /\ OwnWindow(e, w) /\ Mirrored(e, w)
    BY DEF Sound
  <2>3. OwnPixmap(f, w, Others(f, w))
    BY <1>1, <2>1, <2>2 DEF OwnPixmap
  <2>4. CASE ~Realized(e, w)
    BY <2>2, <2>3, <2>4, <1>0, <1>1 DEF Realized, OwnWindow, Mirrored
  <2>5. CASE Realized(e, w)
    <3>1. f.pending[w] = e.pending[w] \cup ({Covered \intersect All(e, w)} \ {{}})
      BY <2>5, <1>0, <1>1 DEF Realized
    <3>2. All(e, w) \subseteq Int /\ Realized(f, w)
      BY <2>5, <1>1 DEF All, Cells, Realized
    <3>3. OwnWindow(f, w)
      BY <2>2, <2>5, <3>1, <3>2, <1>1 DEF OwnWindow
    <3>4. Mirrored(f, w)
      <4> SUFFICES ASSUME Graphic(w), f.pm[w].status = "On",
                          NEW k \in Visible(f, w) \ UNION f.pending[w]
                   PROVE  f.win[w][k] = f.pixmaps[f.pm[w].pixmap][k]
        BY DEF Mirrored
      <4>1. k \in All(e, w)
        BY <1>1 DEF Visible, All
      <4>2. k \notin Covered /\ k \notin UNION e.pending[w]
        <5>1. PICK both : both = Covered \intersect All(e, w)
          OBVIOUS
        <5>2. f.pending[w] = e.pending[w] \cup ({both} \ {{}})
          BY <3>1, <5>1
        <5>3. k \in both => both \in f.pending[w]
          BY <5>2
        <5>4. k \notin both
          BY <5>3
        <5> QED BY <4>1, <5>1, <5>2, <5>4
      <4>3. k \in Visible(e, w)
        BY <4>1, <4>2 DEF Visible
      <4> QED BY <4>2, <4>3, <2>2, <2>5, <1>1 DEF Mirrored
    <3> QED BY <2>3, <3>3, <3>4
  <2> QED BY <2>4, <2>5
<1> QED BY <1>1, <1>2, <1>3 DEF Sound

-----------------------------------------------------------------------------
(* The methods. *)

(* The widget has what it should, beside the others, but its window need   *)
(* not show what is in its pixmap yet.                                     *)
Own(e, v, w) == Frame(e, v, w) /\ OwnPixmap(v, w, Others(e, w)) /\ OwnWindow(v, w)

(* What the widget has, before a method draws, ...                          *)
LEMMA OwnAtFirst ==
    ASSUME NEW e, Sound(e), NEW w \in Widget
    PROVE  Own(e, e, w) /\ Mirrored(e, w) /\ IsDisplay(e)
  BY SoundFrame DEF Sound, Own

(* ... is what it must have afterwards.                                     *)
LEMMA OwnSound ==
    ASSUME NEW e, Sound(e), NEW w \in Widget, NEW f, Own(e, f, w), Mirrored(f, w)
    PROVE  Sound(f)
  BY StillSound DEF Own

(* A drawing; in the window, and in the pixmap, what each cell is afterwards. *)
IsDrawing(look) == \A k \in DOMAIN look : look[k] \in Look
WindowShows(f, v, w, look) ==
    \A k \in Visible(v, w) : f.win[w][k] = IF k \in DOMAIN look THEN look[k] ELSE v.win[w][k]
PixmapShows(f, v, w, id, look) ==
    \A k \in All(v, w) :
        f.pixmaps[id][k] = IF k \in DOMAIN look THEN look[k] ELSE v.pixmaps[id][k]

(* Drawing in the window, ...                                               *)
LEMMA DrawWindowOwn ==
    ASSUME NEW e, NEW w \in Widget, NEW v, Own(e, v, w), Realized(v, w), NEW look,
           IsDrawing(look), NEW f, f = DrawWindow(v, w, look)
    PROVE  /\ Own(e, f, w) /\ f.pm = v.pm /\ f.pixmaps = v.pixmaps /\ f.pending = v.pending
           /\ f.hidden = v.hidden /\ Realized(f, w) /\ WindowShows(f, v, w, look)
<1>1. IsDisplay(v) /\ OwnWindow(v, w)
  BY DEF Own, Frame
<1>2. /\ IsDisplay(f) /\ f.pm = v.pm /\ f.pixmaps = v.pixmaps /\ f.pending = v.pending
      /\ f.hidden = v.hidden /\ f.bad = v.bad
      /\ \A x \in Widget : x # w => f.win[x] = v.win[x]
      /\ OwnWindow(f, w) /\ Realized(f, w)
      /\ \A k \in Visible(v, w) :
            f.win[w][k] = IF k \in DOMAIN look THEN look[k] ELSE v.win[w][k]
  BY <1>1, WindowDrawnOwn DEF IsDrawing
<1>3. Frame(e, f, w)
  BY <1>2 DEF Own, Frame
<1>4. OwnPixmap(f, w, Others(e, w))
  BY <1>2 DEF Own, OwnPixmap
<1> QED BY <1>2, <1>3, <1>4 DEF Own, WindowShows

(* ... in the pixmap, ...                                                   *)
LEMMA DrawPixmapOwn ==
    ASSUME NEW e, Sound(e), NEW w \in Widget, NEW v, Own(e, v, w), v.pm[w].status # "HasNone",
           NEW id, id = v.pm[w].pixmap, NEW look,
           IsDrawing(look), NEW f, f = DrawPixmap(v, id, look)
    PROVE  /\ Own(e, f, w) /\ f.pm = v.pm /\ f.win = v.win /\ f.pending = v.pending
           /\ f.hidden = v.hidden /\ PixmapShows(f, v, w, id, look)
<1>0. PICK n : n = v.pm[w].size
  OBVIOUS
<1>1. /\ IsDisplay(v) /\ OwnPixmap(v, w, Others(e, w)) /\ OwnWindow(v, w) /\ Frame(e, v, w)
      /\ v.pm[w] \in PmType
  BY DEF Own, Frame, OwnPixmap
<1>2. id \notin Others(e, w) /\ DOMAIN v.pixmaps = Others(e, w) \cup {id} /\ IsImage(v.pixmaps[id], n)
  BY <1>0, <1>1 DEF OwnPixmap
<1>3. id \in DOMAIN v.pixmaps
  BY <1>2
<1>4. /\ IsDisplay(f) /\ f.pm = v.pm /\ f.win = v.win /\ f.pending = v.pending
      /\ f.hidden = v.hidden /\ f.bad = v.bad
      /\ DOMAIN f.pixmaps = DOMAIN v.pixmaps /\ f.pixmaps[id] = Over(v.pixmaps[id], look)
      /\ \A x \in DOMAIN v.pixmaps : x # id => f.pixmaps[x] = v.pixmaps[x]
  BY <1>1, <1>3, PixmapDrawn
<1>5. IsImage(f.pixmaps[id], n)
  BY SMTT(30), <1>2, <1>4, OverImage DEF IsDrawing
<1>6. Frame(e, f, w)
  BY SMTT(30), <1>1, <1>2, <1>4 DEF Frame
<1>7. OwnPixmap(f, w, Others(e, w))
  BY <1>0, <1>1, <1>4, <1>5 DEF OwnPixmap
<1>8. OwnWindow(f, w)
  BY <1>1, <1>4 DEF OwnWindow, Realized
<1>9. ASSUME NEW k \in All(v, w)
      PROVE  f.pixmaps[id][k] = IF k \in DOMAIN look THEN look[k] ELSE v.pixmaps[id][k]
  <2>1. k \in DOMAIN v.pixmaps[id]
    BY <1>0, <1>2 DEF IsImage, All
  <2> QED BY <2>1, <1>4 DEF Over
<1> QED BY <1>4, <1>6, <1>7, <1>8, <1>9 DEF Own, PixmapShows

(* What is drawn in the window is drawn in the pixmap: where it is, both   *)
(* look the same, and elsewhere they are as they were.                     *)
LEMMA DrawnAlike ==
    ASSUME NEW e, Sound(e), NEW w \in Widget, NEW f, Own(e, f, w), f.pm[w].status = e.pm[w].status,
           f.pm[w].pixmap = e.pm[w].pixmap, f.pm[w].size = e.pm[w].size, f.hidden = e.hidden,
           f.pending[w] = e.pending[w], Realized(f, w) => Realized(e, w),
           Graphic(w) /\ Realized(e, w) /\ e.pm[w].status = "On" =>
            \A k \in Visible(e, w) :
                e.win[w][k] = e.pixmaps[e.pm[w].pixmap][k]
                    => f.win[w][k] = f.pixmaps[e.pm[w].pixmap][k]
    PROVE  Sound(f)
<1>1. Mirrored(e, w)
  BY DEF Sound
<1>2. Visible(f, w) = Visible(e, w)
  BY DEF Visible, All
<1>3. Mirrored(f, w)
  BY <1>1, <1>2 DEF Mirrored
<1> QED BY <1>3, OwnSound

(* A cell users_gc has drawn in has been drawn in. *)
LEMMA PaintedLook ==
    ASSUME NEW w, Attributes(w).foreground \in Pixel, NEW look \in Look
    PROVE  Painted(w, look) \in Look
  BY LookAssumption DEF Painted, Look

(* ... and so in both.                                                      *)
LEMMA DrawSound ==
    ASSUME NEW e, Sound(e), NEW w \in Widget, Attributes(w).foreground \in Pixel,
           NEW cells \in SUBSET Int, NEW f, f = Draw(e, w, cells)
    PROVE  Sound(f) /\ Frame(e, f, w) /\ f.pm = e.pm /\ (Realized(f, w) <=> Realized(e, w))
<1>0. PICK n, id, v, wlook, plook :
        /\ n = e.pm[w].size /\ id = e.pm[w].pixmap
        /\ wlook = [k \in cells \intersect All(e, w) |-> Painted(w, e.win[w][k])]
        /\ v = IF InWindow(e, w) /\ Realized(e, w) THEN DrawWindow(e, w, wlook) ELSE e
        /\ plook = [k \in cells \intersect All(e, w) |-> Painted(w, v.pixmaps[id][k])]
  OBVIOUS
<1>1. Own(e, e, w) /\ Mirrored(e, w) /\ IsDisplay(e)
  BY OwnAtFirst
<1>2. f = IF InPixmap(e, w) THEN DrawPixmap(v, id, plook) ELSE v
  BY <1>0 DEF Draw
<1>3. /\ Own(e, v, w) /\ v.pm = e.pm /\ v.pixmaps = e.pixmaps /\ v.pending = e.pending
      /\ v.hidden = e.hidden /\ (Realized(v, w) <=> Realized(e, w))
      /\ InWindow(e, w) /\ Realized(e, w) => WindowShows(v, e, w, wlook)
  <2>1. CASE InWindow(e, w) /\ Realized(e, w)
    <3>1. v = DrawWindow(e, w, wlook)
      BY <2>1, <1>0
    <3>2. IsImage(e.win[w], n)
      BY <2>1, <1>0, <1>1 DEF Own, OwnWindow
    <3>3. IsDrawing(wlook)
      <4>1. \A k \in All(e, w) : e.win[w][k] \in Look
        BY <3>2, <1>0 DEF IsImage, All
      <4>2. \A k \in All(e, w) : Painted(w, e.win[w][k]) \in Look
        BY <4>1, PaintedLook
      <4> QED BY <4>2, <1>0 DEF IsDrawing
    <3>4. /\ Own(e, v, w) /\ v.pm = e.pm /\ v.pixmaps = e.pixmaps /\ v.pending = e.pending
          /\ v.hidden = e.hidden /\ Realized(v, w) /\ WindowShows(v, e, w, wlook)
      <4>1. Own(e, e, w) /\ Realized(e, w)
        BY <2>1, <1>1
      <4> QED BY <4>1, <3>1, <3>3, DrawWindowOwn
    <3> QED BY <2>1, <3>4
  <2>2. CASE ~(InWindow(e, w) /\ Realized(e, w))
    BY <2>2, <1>0, <1>1
  <2> QED BY <2>1, <2>2
<1>4. CASE ~InPixmap(e, w)
  <2>1. f = v /\ e.pm[w].status # "On"
    BY <1>2, <1>4 DEF InPixmap, HasPixmap
  <2> QED BY <2>1, <1>3, DrawnAlike DEF Own
<1>5. CASE InPixmap(e, w)
  <2>1. f = DrawPixmap(v, id, plook) /\ v.pm[w].status # "HasNone" /\ id = v.pm[w].pixmap
    BY <1>0, <1>2, <1>3, <1>5 DEF InPixmap, HasPixmap
  <2>2. IsImage(v.pixmaps[id], n)
    BY <2>1, <1>0, <1>3 DEF Own, OwnPixmap
  <2>3. IsDrawing(plook)
    <3>1. \A k \in All(e, w) : v.pixmaps[id][k] \in Look
      BY <2>2, <1>0 DEF IsImage, All
    <3>2. \A k \in All(e, w) : Painted(w, v.pixmaps[id][k]) \in Look
      BY <3>1, PaintedLook
    <3> QED BY <3>2, <1>0 DEF IsDrawing
  <2>4. /\ Own(e, f, w) /\ f.pm = v.pm /\ f.win = v.win /\ f.pending = v.pending
        /\ f.hidden = v.hidden /\ PixmapShows(f, v, w, id, plook)
    <3>1. Own(e, v, w) /\ v.pm[w].status # "HasNone" /\ id = v.pm[w].pixmap
          /\ f = DrawPixmap(v, id, plook)
      BY <2>1, <1>3
    <3> QED BY <3>1, <2>3, DrawPixmapOwn
  <2>5. Realized(f, w) <=> Realized(e, w)
    BY <2>4, <1>3 DEF Realized
  <2>6. ASSUME Graphic(w), Realized(e, w), e.pm[w].status = "On", NEW k \in Visible(e, w),
               e.win[w][k] = e.pixmaps[id][k]
        PROVE  f.win[w][k] = f.pixmaps[id][k]
    <3>1. InWindow(e, w)
      BY <2>6 DEF InWindow
    <3>2. k \in All(e, w) /\ All(v, w) = All(e, w)
      BY <2>6, <1>3 DEF Visible, All
    <3>3. f.win[w][k] = IF k \in DOMAIN wlook THEN wlook[k] ELSE e.win[w][k]
      BY <3>1, <2>4, <2>6, <1>3 DEF WindowShows
    <3>4. f.pixmaps[id][k] = IF k \in DOMAIN plook THEN plook[k] ELSE e.pixmaps[id][k]
      BY <3>2, <2>4, <1>3 DEF PixmapShows
    <3>5. k \in cells => wlook[k] = Painted(w, e.win[w][k]) /\ plook[k] = Painted(w, e.pixmaps[id][k])
      BY <3>2, <1>0, <1>3
    <3>6. (k \in DOMAIN wlook <=> k \in cells) /\ (k \in DOMAIN plook <=> k \in cells)
      BY <3>2, <1>0
    <3> QED BY <3>3, <3>4, <3>5, <3>6, <2>6
  <2>7. Sound(f)
    BY <2>4, <2>5, <2>6, <1>0, <1>3, DrawnAlike
  <2> QED BY <2>4, <2>5, <2>7, <1>3 DEF Own
<1> QED BY <1>4, <1>5

SetPen(e, w, pen) == [e EXCEPT !.pm[w].pen = pen]

(* Another colour of the private context.                                   *)
LEMMA PenAssigned ==
    ASSUME NEW e, IsDisplay(e), NEW w \in Widget, NEW pen \in Look, e.pm[w] \in PmType,
           NEW f, f = SetPen(e, w, pen)
    PROVE  /\ IsDisplay(f) /\ f.pm[w] \in PmType
           /\ f.pm[w].status = e.pm[w].status /\ f.pm[w].pixmap = e.pm[w].pixmap
           /\ f.pm[w].size = e.pm[w].size
           /\ \A x \in Widget : x # w => f.pm[x] = e.pm[x]
           /\ f.pixmaps = e.pixmaps /\ f.win = e.win /\ f.pending = e.pending
           /\ f.hidden = e.hidden /\ f.bad = e.bad
<1> DEFINE r == [e.pm[w] EXCEPT !.pen = pen]
<1>1. f = SetPm(e, w, r)
  BY DEF SetPm, SetPen
<1>2. /\ r \in PmType /\ r.status = e.pm[w].status /\ r.pixmap = e.pm[w].pixmap
      /\ r.size = e.pm[w].size
  BY DEF PmType
<1> HIDE DEF r
<1>3. /\ IsDisplay(f) /\ f.pm[w] = r /\ \A x \in Widget : x # w => f.pm[x] = e.pm[x]
      /\ f.pixmaps = e.pixmaps /\ f.win = e.win /\ f.pending = e.pending
      /\ f.hidden = e.hidden /\ f.bad = e.bad
  BY <1>1, PmAssigned
<1> QED BY <1>2, <1>3

(* The same of a procedure of w that found the display as it is in e. *)
LEMMA PenOwn ==
    ASSUME NEW e, NEW w \in Widget, NEW v, Own(e, v, w), NEW pen \in Look,
           NEW f, f = SetPen(v, w, pen)
    PROVE  /\ Own(e, f, w) /\ f.pm[w].status = v.pm[w].status /\ f.pm[w].pixmap = v.pm[w].pixmap
           /\ f.pm[w].size = v.pm[w].size
           /\ f.pixmaps = v.pixmaps /\ f.win = v.win /\ f.pending = v.pending /\ f.hidden = v.hidden
<1>1. IsDisplay(v) /\ v.pm[w] \in PmType
  BY DEF Own, Frame, OwnPixmap
<1>2. /\ IsDisplay(f) /\ f.pm[w] \in PmType
      /\ f.pm[w].status = v.pm[w].status /\ f.pm[w].pixmap = v.pm[w].pixmap
      /\ f.pm[w].size = v.pm[w].size
      /\ \A x \in Widget : x # w => f.pm[x] = v.pm[x]
      /\ f.pixmaps = v.pixmaps /\ f.win = v.win /\ f.pending = v.pending
      /\ f.hidden = v.hidden /\ f.bad = v.bad
  BY <1>1, PenAssigned
<1>3. Frame(e, f, w)
  BY <1>2 DEF Own, Frame
<1>4. OwnPixmap(f, w, Others(e, w))
  BY <1>2 DEF Own, OwnPixmap
<1>5. OwnWindow(f, w)
  BY <1>2 DEF Own, OwnWindow, Realized
<1> QED BY <1>2, <1>3, <1>4, <1>5 DEF Own

(* What the pixmap alone is cleared of is to be exposed in the window. *)
LEMMA ClearPixmapAreaSound ==
    ASSUME NEW e, Sound(e), NEW w \in Widget, NEW cells \in SUBSET Int, NEW fg \in Pixel, NEW bg \in Pixel,
           Graphic(w) /\ Realized(e, w) /\ e.pm[w].status = "On" =>
                cells \intersect All(e, w) \subseteq UNION e.pending[w],
           NEW f, f = ClearPixmapArea(e, w, cells, fg, bg)
    PROVE  /\ Sound(f) /\ Frame(e, f, w) /\ f.pm[w].size = e.pm[w].size
           /\ Realized(f, w) <=> Realized(e, w)
<1>1. Own(e, e, w) /\ Mirrored(e, w) /\ IsDisplay(e)
  BY OwnAtFirst
<1>2. CASE ~InPixmap(e, w)
  BY <1>1, <1>2 DEF ClearPixmapArea, Own
<1>3. CASE InPixmap(e, w)
  <2>0. PICK v, id, look, u : /\ v = SetPen(e, w, bg) /\ id = e.pm[w].pixmap
                              /\ look = Solid(cells, PrivateColour(v, w))
                              /\ u = DrawPixmap(v, id, look)
    OBVIOUS
  <2>1. f = SetPen(u, w, fg)
    BY <1>3, <2>0 DEF ClearPixmapArea, SetPen
  <2>2. fg \in Look /\ bg \in Look
    BY LookAssumption DEF Look
  <2>3. /\ Own(e, v, w) /\ v.pm[w].status = e.pm[w].status /\ v.pm[w].pixmap = e.pm[w].pixmap
        /\ v.pm[w].size = e.pm[w].size
        /\ v.pixmaps = e.pixmaps /\ v.win = e.win /\ v.pending = e.pending /\ v.hidden = e.hidden
    BY <2>0, <2>2, <1>1, PenOwn
  <2>4. IsDrawing(look) /\ DOMAIN look = cells
    <3>1. v.pm[w] \in PmType
      BY <2>3 DEF Own, OwnPixmap
    <3>2. PrivateColour(v, w) \in Look
      BY <3>1, ColourLook
    <3> QED BY <3>2, <2>0 DEF IsDrawing, Solid
  <2>5. /\ Own(e, u, w) /\ u.pm = v.pm /\ u.win = v.win /\ u.pending = v.pending
        /\ u.hidden = v.hidden /\ PixmapShows(u, v, w, id, look)
    <3>1. v.pm[w].status # "HasNone" /\ id = v.pm[w].pixmap
      BY <2>0, <2>3, <1>3 DEF InPixmap, HasPixmap
    <3> QED BY <3>1, <2>0, <2>3, <2>4, DrawPixmapOwn
  <2>6. /\ Own(e, f, w) /\ f.pm[w].status = u.pm[w].status /\ f.pm[w].pixmap = u.pm[w].pixmap
        /\ f.pm[w].size = u.pm[w].size
        /\ f.pixmaps = u.pixmaps /\ f.win = u.win /\ f.pending = u.pending /\ f.hidden = u.hidden
    BY <2>1, <2>2, <2>5, PenOwn
  <2>7. Realized(f, w) <=> Realized(e, w)
    BY <2>3, <2>5, <2>6 DEF Realized
  <2>8. Mirrored(f, w)
    <3> SUFFICES ASSUME Graphic(w), Realized(f, w), f.pm[w].status = "On",
                        NEW k \in Visible(f, w) \ UNION f.pending[w]
                 PROVE  f.win[w][k] = f.pixmaps[f.pm[w].pixmap][k]
      BY DEF Mirrored
    <3>1. /\ Realized(e, w) /\ e.pm[w].status = "On"
          /\ k \in Visible(e, w) /\ k \in All(e, w) /\ k \notin UNION e.pending[w]
      BY <2>3, <2>5, <2>6, <2>7 DEF Visible, All
    <3>2. k \notin DOMAIN look /\ k \in All(v, w)
      BY <3>1, <2>3, <2>4 DEF All
    <3>3. f.pixmaps[id][k] = e.pixmaps[id][k]
      BY <3>2, <2>3, <2>5, <2>6 DEF PixmapShows
    <3>4. e.win[w][k] = e.pixmaps[id][k]
      BY <3>1, <2>0, <1>1 DEF Mirrored
    <3> QED BY <3>3, <3>4, <2>0, <2>3, <2>5, <2>6
  <2>9. Sound(f)
    BY <2>6, <2>8, OwnSound
  <2> QED BY <2>3, <2>5, <2>6, <2>7, <2>9 DEF Own
<1> QED BY <1>2, <1>3

(* A part of the window is cleared, ...                                     *)
LEMMA ClearAreaSound ==
    ASSUME NEW e, Sound(e), NEW w \in Widget, NEW cells \in SUBSET Int, NEW fg \in Pixel, NEW bg \in Pixel,
           InWindow(e, w) => Realized(e, w),
           NEW f, f = ClearArea(e, w, cells, fg, bg)
    PROVE  /\ Sound(f) /\ Frame(e, f, w) /\ f.pm[w].size = e.pm[w].size
           /\ Realized(f, w) <=> Realized(e, w)
<1>0. PICK v : v = IF InWindow(e, w) THEN ClearWindowArea(e, w, cells) ELSE e
  OBVIOUS
<1>1. f = ClearPixmapArea(v, w, cells, fg, bg)
  BY <1>0 DEF ClearArea
<1>2. /\ Sound(v) /\ Frame(e, v, w) /\ v.pm = e.pm /\ (Realized(v, w) <=> Realized(e, w))
      /\ Graphic(w) /\ Realized(v, w) /\ v.pm[w].status = "On" =>
                cells \intersect All(v, w) \subseteq UNION v.pending[w]
  <2>1. CASE InWindow(e, w)
    <3>1. Realized(e, w) /\ v = ClearWindowArea(e, w, cells)
      BY <2>1, <1>0
    <3>2. /\ Sound(v) /\ Frame(e, v, w) /\ v.pm = e.pm
          /\ Realized(v, w) /\ cells \intersect All(e, w) \subseteq UNION v.pending[w]
      BY <3>1, ClearedSound
    <3> QED BY <3>1, <3>2 DEF All
  <2>2. CASE ~InWindow(e, w)
    <3>1. v = e /\ Frame(e, e, w)
      BY <2>2, <1>0, SoundFrame
    <3>2. ~(Graphic(w) /\ e.pm[w].status = "On")
      BY <2>2 DEF InWindow
    <3> QED BY <3>1, <3>2
  <2> QED BY <2>1, <2>2
<1>3. /\ Sound(f) /\ Frame(v, f, w) /\ f.pm[w].size = v.pm[w].size
      /\ Realized(f, w) <=> Realized(v, w)
  BY <1>1, <1>2, ClearPixmapAreaSound
<1> QED BY <1>2, <1>3, FrameTwice

(* ... or all of it.                                                        *)
LEMMA ClearWindowSound ==
    ASSUME NEW e, Sound(e), NEW w \in Widget, NEW fg \in Pixel, NEW bg \in Pixel,
           NEW f, f = ClearWindow(e, w, fg, bg)
    PROVE  /\ Sound(f) /\ Frame(e, f, w) /\ f.pm[w].size = e.pm[w].size
           /\ Realized(f, w) <=> Realized(e, w)
<1>1. PICK cells \in SUBSET Int : cells = All(e, w)
  BY DEF All, Cells, Sound, OwnPixmap, PmType
<1>2. CASE InWindow(e, w) /\ Realized(e, w)
  <2>1. f = ClearArea(e, w, cells, fg, bg)
    BY <1>1, <1>2 DEF ClearWindow
  <2> QED BY <2>1, <1>2, ClearAreaSound
<1>3. CASE ~(InWindow(e, w) /\ Realized(e, w))
  <2>1. f = ClearPixmapArea(e, w, cells, fg, bg)
    BY <1>1, <1>3 DEF ClearWindow
  <2>2. Graphic(w) /\ Realized(e, w) /\ e.pm[w].status = "On" =>
            cells \intersect All(e, w) \subseteq UNION e.pending[w]
    BY <1>3 DEF InWindow
  <2> HIDE <1>3
  <2> QED BY <2>1, <2>2, ClearPixmapAreaSound
<1> QED BY <1>2, <1>3

(* An image is drawn in the pixmap, which the window is exposed for. *)
LEMMA PutImageSound ==
    ASSUME NEW e, Sound(e), NEW w \in Widget, e.pm[w].size \in Nat \ {0}, NEW cells,
           cells \in {All(e, w), {0}}, Graphic(w) => Realized(e, w),
           NEW f, f = PutImage(e, w, cells)
    PROVE  /\ Sound(f) /\ Frame(e, f, w) /\ f.pm = e.pm /\ (Realized(f, w) <=> Realized(e, w))
<1>0. PICK id, n, look, h : /\ id = e.pm[w].pixmap /\ n = e.pm[w].size /\ look = Solid(cells, Ink)
                            /\ h = DrawPixmap(e, id, look)
  OBVIOUS
<1>1. Own(e, e, w) /\ Mirrored(e, w) /\ IsDisplay(e)
  BY OwnAtFirst
<1>2. IsDrawing(look)
  <2>1. Ink \in Look
    BY LookAssumption DEF Look
  <2> QED BY <2>1, <1>0 DEF IsDrawing, Solid
<1>3. HasPixmap(e, w) =>
        /\ Own(e, h, w) /\ h.pm = e.pm /\ h.win = e.win /\ h.pending = e.pending
        /\ h.hidden = e.hidden
  <2> SUFFICES ASSUME HasPixmap(e, w)
               PROVE  /\ Own(e, h, w) /\ h.pm = e.pm /\ h.win = e.win /\ h.pending = e.pending
                      /\ h.hidden = e.hidden
    OBVIOUS
  <2>1. e.pm[w].status # "HasNone"
    BY DEF HasPixmap
  <2> QED BY <2>1, <1>0, <1>1, <1>2, DrawPixmapOwn
<1>4. CASE f = e
  BY <1>1, <1>4 DEF Own
<1>5. CASE ~Graphic(w) /\ HasPixmap(e, w) /\ f = h
  <2>1. Mirrored(f, w)
    BY <1>5 DEF Mirrored
  <2>2. Sound(f)
    BY <2>1, <1>3, <1>5, OwnSound
  <2> QED BY <2>2, <1>3, <1>5 DEF Own, Realized
<1>6. CASE /\ Graphic(w) /\ InWindow(e, w) /\ ~HasPixmap(e, w) /\ f = DrawWindow(e, w, look)
  <2>0. Realized(e, w)
    BY <1>6
  <2>1. /\ Own(e, f, w) /\ f.pm = e.pm /\ f.pixmaps = e.pixmaps /\ f.pending = e.pending
        /\ f.hidden = e.hidden /\ Realized(f, w) /\ WindowShows(f, e, w, look)
    BY <2>0, <1>1, <1>2, <1>6, DrawWindowOwn
  <2>2. Mirrored(f, w)
    BY <2>1, <1>6 DEF Mirrored, HasPixmap
  <2>3. Sound(f)
    BY <2>1, <2>2, OwnSound
  <2> QED BY <2>0, <2>1, <2>3 DEF Own
<1>7. CASE /\ Graphic(w) /\ InWindow(e, w) /\ HasPixmap(e, w)
           /\ f = SyntheticExposeEvent(h, w, cells)
  <2>0. PICK first : first = CHOOSE k \in cells : \A j \in cells : k <= j
    OBVIOUS
  <2>1. first = 0 /\ n \in Nat \ {0}
    <3>1. n \in Nat \ {0} /\ cells \in {Cells(n), {0}}
      BY <1>0 DEF All
    <3>2. 0 \in cells /\ \A j \in cells : j \in Nat
      BY <3>1 DEF Cells
    <3>3. first \in cells /\ \A j \in cells : first <= j
      <4>1. \A j \in cells : 0 <= j
        BY <3>2
      <4>2. \E k \in cells : \A j \in cells : k <= j
        BY <3>2, <4>1
      <4> QED BY <4>2, <2>0
    <3>4. first <= 0 /\ first \in Nat
      BY <3>2, <3>3
    <3> QED BY <3>1, <3>4
  <2>2. Realized(e, w) /\ Realized(h, w) /\ h.pm[w].size = n
    BY <1>0, <1>3, <1>7 DEF Realized
  <2>3. f = SetPending(h, w, h.pending[w] \cup {Cells(n)})
    BY <2>0, <2>1, <2>2, <1>7 DEF SyntheticExposeEvent, SetPending, Cells
  <2>4. /\ IsDisplay(f) /\ f.pending[w] = h.pending[w] \cup {Cells(n)}
        /\ \A x \in Widget : x # w => f.pending[x] = h.pending[x]
        /\ f.pixmaps = h.pixmaps /\ f.pm = h.pm /\ f.win = h.win
        /\ f.hidden = h.hidden /\ f.bad = h.bad
    <3>1. IsDisplay(h)
      BY <1>3, <1>7 DEF Own, Frame
    <3> QED BY <2>3, <3>1, PendingAssigned
  <2>5. Frame(e, f, w)
    BY <2>4, <1>3, <1>7 DEF Own, Frame
  <2>6. OwnPixmap(f, w, Others(e, w))
    BY <2>4, <1>3, <1>7 DEF Own, OwnPixmap
  <2>7. OwnWindow(f, w) /\ Realized(f, w)
    <3>1. OwnWindow(h, w)
      BY <1>3, <1>7 DEF Own
    <3>2. 0 \in Cells(n) /\ Cells(n) \subseteq Int
      BY <2>1 DEF Cells
    <3>3. Realized(f, w)
      BY <2>2, <2>4 DEF Realized
    <3> QED BY <3>1, <3>2, <3>3, <2>2, <2>4 DEF OwnWindow
  <2>8. Mirrored(f, w)
    BY <2>2, <2>4 DEF Mirrored, Visible, All
  <2>9. Sound(f)
    BY <2>5, <2>6, <2>7, <2>8, StillSound
  <2> QED BY <2>2, <2>4, <2>5, <2>7, <2>9, <1>3, <1>7
<1>8. \/ f = e
      \/ ~Graphic(w) /\ HasPixmap(e, w) /\ f = h
      \/ Graphic(w) /\ InWindow(e, w) /\ ~HasPixmap(e, w) /\ f = DrawWindow(e, w, look)
      \/ Graphic(w) /\ InWindow(e, w) /\ HasPixmap(e, w) /\ f = SyntheticExposeEvent(h, w, cells)
  BY <1>0 DEF PutImage, InPixmap
<1> QED BY <1>4, <1>5, <1>6, <1>7, <1>8

(* What a widget's pixmap, or its window, has at some cells. *)
Reading(e, w, cells, offset) ==
    IF HasPixmap(e, w) THEN Source(e, e.pm[w].pixmap, cells, offset)
    ELSE [k \in {j \in cells : j - offset \in Visible(e, w)} |-> e.win[w][k - offset]]

(* What is read of a widget can be seen.                                    *)
LEMMA ReadingLook ==
    ASSUME NEW e, Sound(e), NEW w \in Widget, HasPixmap(e, w) \/ Realized(e, w),
           NEW cells, NEW offset, NEW look, look = Reading(e, w, cells, offset)
    PROVE  /\ IsDrawing(look) /\ DOMAIN look \subseteq cells
           /\ (HasPixmap(e, w) \/ ~e.hidden) /\ (\A k \in cells : k - offset \in All(e, w)) =>
                DOMAIN look = cells
<1>0. PICK n, id : n = e.pm[w].size /\ id = e.pm[w].pixmap
  OBVIOUS
<1>1. OwnPixmap(e, w, Others(e, w)) /\ OwnWindow(e, w) /\ n \in Nat
  BY <1>0 DEF Sound, OwnPixmap, PmType
<1>2. CASE HasPixmap(e, w)
  <2>1. id \in DOMAIN e.pixmaps /\ IsImage(e.pixmaps[id], n)
    BY <1>0, <1>1, <1>2 DEF OwnPixmap, HasPixmap
  <2>2. look = Source(e, id, cells, offset)
    BY <1>0, <1>2 DEF Reading
  <2>3. /\ DOMAIN look = {k \in cells : k - offset \in Cells(n)}
        /\ \A k \in DOMAIN look : look[k] \in Look
    <3>1. /\ DOMAIN Source(e, id, cells, offset) = {k \in cells : k - offset \in Cells(n)}
          /\ \A k \in DOMAIN Source(e, id, cells, offset) :
                /\ Source(e, id, cells, offset)[k] = e.pixmaps[id][k - offset]
                /\ Source(e, id, cells, offset)[k] \in Look
      BY <2>1, <1>1, SourceLook
    <3> QED BY <3>1, <2>2
  <2> QED BY <2>3, <1>0 DEF IsDrawing, All
<1>3. CASE ~HasPixmap(e, w)
  <2>1. IsImage(e.win[w], n)
    BY <1>0, <1>1, <1>3 DEF OwnWindow
  <2>2. look = [k \in {j \in cells : j - offset \in Visible(e, w)} |-> e.win[w][k - offset]]
    BY <1>3 DEF Reading
  <2>3. Visible(e, w) \subseteq Cells(n) /\ (~e.hidden => Visible(e, w) = All(e, w))
    BY <1>0 DEF Visible, All
  <2>4. \A k \in Visible(e, w) : e.win[w][k] \in Look
    BY <2>1, <2>3 DEF IsImage
  <2>5. IsDrawing(look) /\ DOMAIN look = {j \in cells : j - offset \in Visible(e, w)}
    BY <2>2, <2>4 DEF IsDrawing
  <2> QED BY <2>3, <2>5, <1>3
<1> QED BY <1>2, <1>3

(* What is copied appears in the window, with blanks, and in the pixmap:   *)
(* without blanks if both are there and are to look the same.              *)
Copied(e, w, cells, from, v, f) ==
    /\ IsDrawing(from) /\ DOMAIN from \subseteq cells
    /\ v = e \/ (Realized(e, w) /\ v = DrawWindow(e, w, OnBlank(cells, from)))
    /\ f = v \/ (HasPixmap(e, w) /\ f = DrawPixmap(v, e.pm[w].pixmap, from))
    /\ Graphic(w) /\ Realized(e, w) /\ e.pm[w].status = "On" =>
        /\ DOMAIN from = cells /\ v = DrawWindow(e, w, OnBlank(cells, from))
        /\ f = DrawPixmap(v, e.pm[w].pixmap, from)

(* It is copied to the window and to the pixmap ...                         *)
LEMMA CopiedSound ==
    ASSUME NEW e, Sound(e), NEW w \in Widget, NEW cells \in SUBSET Int,
           NEW from, NEW v, NEW f, Copied(e, w, cells, from, v, f)
    PROVE  Sound(f) /\ Frame(e, f, w) /\ f.pm = e.pm /\ (Realized(f, w) <=> Realized(e, w))
<1>0. PICK id, look : id = e.pm[w].pixmap /\ look = OnBlank(cells, from)
  OBVIOUS
<1> USE DEF Copied
<1>1. Own(e, e, w) /\ Mirrored(e, w) /\ IsDisplay(e)
  BY OwnAtFirst
<1>2. /\ DOMAIN look = cells /\ IsDrawing(look)
      /\ \A k \in DOMAIN from : look[k] = from[k]
  <2>1. 0 \in Look
    BY PixelAssumption, LookAssumption DEF Look
  <2>2. look = [k \in cells |-> IF k \in DOMAIN from THEN from[k] ELSE 0]
    BY <1>0 DEF OnBlank, Over, Solid
  <2>3. DOMAIN look = cells /\ \A k \in cells : look[k] = IF k \in DOMAIN from THEN from[k] ELSE 0
    BY <2>2
  <2>4. \A k \in DOMAIN from : from[k] \in Look
    BY DEF IsDrawing
  <2>5. \A k \in DOMAIN look : look[k] \in Look
    BY <2>1, <2>3, <2>4
  <2> QED BY <2>3, <2>5 DEF IsDrawing
<1>3. /\ Own(e, v, w) /\ v.pm = e.pm /\ v.pixmaps = e.pixmaps /\ v.pending = e.pending
      /\ v.hidden = e.hidden /\ (Realized(v, w) <=> Realized(e, w))
      /\ Realized(e, w) /\ v = DrawWindow(e, w, look) => WindowShows(v, e, w, look)
  <2>1. CASE Realized(e, w) /\ v = DrawWindow(e, w, look)
    <3>1. Realized(e, w) /\ v = DrawWindow(e, w, look)
      BY <2>1
    <3>2. /\ Own(e, v, w) /\ v.pm = e.pm /\ v.pixmaps = e.pixmaps /\ v.pending = e.pending
          /\ v.hidden = e.hidden /\ Realized(v, w) /\ WindowShows(v, e, w, look)
      BY <3>1, <1>1, <1>2, DrawWindowOwn
    <3> QED BY <3>1, <3>2
  <2>2. CASE ~(Realized(e, w) /\ v = DrawWindow(e, w, look))
    <3>1. v = e
      BY <2>2, <1>0
    <3> QED BY <3>1, <2>2, <1>1
  <2> QED BY <2>1, <2>2
<1>4. CASE f = v /\ ~(Graphic(w) /\ Realized(e, w) /\ e.pm[w].status = "On")
  <2>1. Mirrored(f, w)
    BY <1>3, <1>4 DEF Mirrored
  <2>2. Sound(f)
    BY <2>1, <1>3, <1>4, OwnSound
  <2> QED BY <2>2, <1>3, <1>4 DEF Own
<1>5. CASE HasPixmap(e, w) /\ f = DrawPixmap(v, id, from)
  <2>1. /\ Own(e, v, w) /\ v.pm[w].status # "HasNone" /\ id = v.pm[w].pixmap
        /\ f = DrawPixmap(v, id, from)
    BY <1>0, <1>3, <1>5 DEF HasPixmap
  <2>2. /\ Own(e, f, w) /\ f.pm = v.pm /\ f.win = v.win /\ f.pending = v.pending
        /\ f.hidden = v.hidden /\ PixmapShows(f, v, w, id, from)
    BY <2>1, DrawPixmapOwn
  <2>3. Realized(f, w) <=> Realized(e, w)
    BY <2>2, <1>3 DEF Realized
  <2>4. ASSUME Graphic(w), Realized(e, w), e.pm[w].status = "On", NEW k \in Visible(e, w),
               e.win[w][k] = e.pixmaps[id][k]
        PROVE  f.win[w][k] = f.pixmaps[id][k]
    <3>1. DOMAIN from = cells /\ WindowShows(v, e, w, look)
      BY <2>4, <1>0, <1>3
    <3>2. k \in All(v, w)
      BY <2>4, <1>3 DEF Visible, All
    <3>3. f.pixmaps[id][k] = IF k \in DOMAIN from THEN from[k] ELSE e.pixmaps[id][k]
      BY <3>2, <2>2, <1>3 DEF PixmapShows
    <3>4. f.win[w][k] = IF k \in DOMAIN look THEN look[k] ELSE e.win[w][k]
      BY <3>1, <2>2, <2>4 DEF WindowShows
    <3> QED BY <3>1, <3>3, <3>4, <2>4, <1>2
  <2>5. Sound(f)
    BY <2>2, <2>3, <2>4, <1>0, <1>3, DrawnAlike
  <2> QED BY <2>2, <2>3, <2>5, <1>3 DEF Own
<1> QED BY <1>0, <1>4, <1>5 DEF HasPixmap

(* ... of another widget, ...                                               *)
LEMMA CopyToSound ==
    ASSUME NEW e, Sound(e), NEW w \in Widget, NEW x \in Widget, NEW cells \in SUBSET Int, NEW offset,
           \/ ~HasPixmap(e, x)
           \/ (HasPixmap(e, w) \/ ~e.hidden) /\ \A k \in cells : k - offset \in All(e, w),
           NEW f, f = CopyTo(e, w, x, cells, offset)
    PROVE  Sound(f) /\ Frame(e, f, x) /\ f.pm = e.pm /\ (Realized(f, x) <=> Realized(e, x))
<1>0. PICK from, v : /\ from = Reading(e, w, cells, offset)
                     /\ v = IF Realized(e, x) THEN DrawWindow(e, x, OnBlank(cells, from)) ELSE e
  OBVIOUS
<1>1. CASE f = e
  BY <1>1, OwnAtFirst DEF Own
<1>2. CASE /\ HasPixmap(e, w) \/ Realized(e, w)
           /\ f = IF Graphic(x) /\ HasPixmap(e, x) THEN DrawPixmap(v, e.pm[x].pixmap, from) ELSE v
  <2>1. /\ IsDrawing(from) /\ DOMAIN from \subseteq cells
        /\ (HasPixmap(e, w) \/ ~e.hidden) /\ (\A k \in cells : k - offset \in All(e, w)) =>
                DOMAIN from = cells
    BY <1>0, <1>2, ReadingLook
  <2>2. HasPixmap(e, x) => DOMAIN from = cells
    BY <2>1
  <2>3. v = e \/ (Realized(e, x) /\ v = DrawWindow(e, x, OnBlank(cells, from)))
    BY <1>0
  <2>4. f = v \/ (HasPixmap(e, x) /\ f = DrawPixmap(v, e.pm[x].pixmap, from))
    BY <1>2
  <2>5. Graphic(x) /\ Realized(e, x) /\ e.pm[x].status = "On" =>
            /\ DOMAIN from = cells /\ v = DrawWindow(e, x, OnBlank(cells, from))
            /\ f = DrawPixmap(v, e.pm[x].pixmap, from)
    BY <2>2, <1>0, <1>2 DEF HasPixmap
  <2>6. Copied(e, x, cells, from, v, f)
    BY <2>1, <2>3, <2>4, <2>5 DEF Copied
  <2> QED BY <2>6, CopiedSound
<1> QED BY <1>0, <1>1, <1>2 DEF CopyTo, Reading

(* ... or from one.                                                         *)
LEMMA CopyFromSound ==
    ASSUME NEW e, Sound(e), NEW w \in Widget, NEW x \in Widget, NEW cells \in SUBSET Int, NEW offset,
           \/ ~HasPixmap(e, w)
           \/ (HasPixmap(e, x) \/ ~e.hidden) /\ \A k \in cells : k - offset \in All(e, x),
           NEW f, f = CopyFrom(e, w, x, cells, offset)
    PROVE  Sound(f) /\ Frame(e, f, w) /\ f.pm = e.pm /\ (Realized(f, w) <=> Realized(e, w))
<1>0. PICK from, v : /\ from = Reading(e, x, cells, offset)
                     /\ v = IF InWindow(e, w) /\ Realized(e, w)
                            THEN DrawWindow(e, w, OnBlank(cells, from)) ELSE e
  OBVIOUS
<1>1. CASE f = e
  BY <1>1, OwnAtFirst DEF Own
<1>2. CASE /\ HasPixmap(e, x) \/ Realized(e, x)
           /\ f = IF InPixmap(e, w)
                  THEN DrawPixmap(v, e.pm[w].pixmap, Reading(v, x, cells, offset)) ELSE v
  <2>1. /\ IsDrawing(from) /\ DOMAIN from \subseteq cells
        /\ (HasPixmap(e, x) \/ ~e.hidden) /\ (\A k \in cells : k - offset \in All(e, x)) =>
                DOMAIN from = cells
    BY <1>0, <1>2, ReadingLook
  <2>2. HasPixmap(e, w) => DOMAIN from = cells
    BY <2>1
  <2>3. v = e \/ (Realized(e, w) /\ v = DrawWindow(e, w, OnBlank(cells, from)))
    BY <1>0
  <2>4. HasPixmap(e, w) => Reading(v, x, cells, offset) = from
    <3> SUFFICES ASSUME HasPixmap(e, w), Realized(e, w), v = DrawWindow(e, w, OnBlank(cells, from))
                 PROVE  Reading(v, x, cells, offset) = from
      BY <2>3, <1>0
    <3>0. IsDisplay(e)
      BY DEF Sound
    <3>1. /\ v.pm = e.pm /\ v.pixmaps = e.pixmaps /\ v.hidden = e.hidden
          /\ \A y \in Widget : y # w => v.win[y] = e.win[y]
      <4>1. PICK look : look = OnBlank(cells, from)
        OBVIOUS
      <4>2. IsDisplay(e) /\ Realized(e, w) /\ v = DrawWindow(e, w, look)
        BY <3>0, <4>1
      <4>3. /\ IsDisplay(v) /\ v.pm = e.pm /\ v.pixmaps = e.pixmaps /\ v.pending = e.pending
            /\ v.hidden = e.hidden /\ v.bad = e.bad
            /\ v.win[w] = Over(e.win[w], [k \in DOMAIN look \intersect Visible(e, w) |-> look[k]])
            /\ \A y \in Widget : y # w => v.win[y] = e.win[y]
        BY <4>2, WindowDrawn
      <4> QED BY <4>3
    <3>2. (HasPixmap(v, x) <=> HasPixmap(e, x)) /\ Visible(v, x) = Visible(e, x)
      BY <3>1 DEF HasPixmap, Visible, All
    <3>3. CASE HasPixmap(e, x)
      BY <3>1, <3>2, <3>3, <1>0 DEF Reading, Source
    <3>4. CASE ~HasPixmap(e, x)
      <4>1. x # w
        BY <3>4
      <4>2. v.win[x] = e.win[x]
        BY <3>1, <4>1
      <4> QED BY <4>2, <3>2, <3>4, <1>0 DEF Reading
    <3> QED BY <3>3, <3>4
  <2>5. f = v \/ (HasPixmap(e, w) /\ f = DrawPixmap(v, e.pm[w].pixmap, from))
    BY <2>4, <1>2 DEF InPixmap
  <2>6. Graphic(w) /\ Realized(e, w) /\ e.pm[w].status = "On" =>
            /\ DOMAIN from = cells /\ v = DrawWindow(e, w, OnBlank(cells, from))
            /\ f = DrawPixmap(v, e.pm[w].pixmap, from)
    BY <2>2, <2>4, <1>0, <1>2 DEF HasPixmap, InPixmap, InWindow
  <2>7. Copied(e, w, cells, from, v, f)
    BY <2>1, <2>3, <2>5, <2>6 DEF Copied
  <2> QED BY <2>7, CopiedSound
<1> QED BY <1>0, <1>1, <1>2 DEF CopyFrom, Reading

-----------------------------------------------------------------------------
(* The display of all the widgets. *)

(* A widget that has a pixmap or a window exists and is not of class core. *)
Fits(e, w, exists) ==
    IF exists /\ HasSubpart(w) THEN e.pm[w].size \in AnySize
    ELSE e.pm[w].status = "HasNone" /\ ~Realized(e, w)

(* The inductive invariant of the display. *)
DisplayInv == Sound(d) /\ \A w \in Widget : Fits(d, w, Exists(w))

(* Nothing else than Realize makes a window.                               *)
NoNewWindow == \A x \in Widget : Realized(d', x) => Realized(d, x) \/ Realize(x)

(* One widget is changed, and the display is left in order. *)
LEMMA DisplayChanged ==
    ASSUME DisplayInv, NEW w \in Widget, Sound(d'),
           \A x \in Widget : x # w => d'.pm[x] = d.pm[x] /\ d'.win[x] = d.win[x],
           \A x \in Widget : x # w => (Exists(x)' <=> Exists(x)),
           Fits(d', w, Exists(w)'), Realized(d', w) => Realized(d, w) \/ Realize(w)
    PROVE  DisplayInv' /\ NoNewWindow
<1>1. ASSUME NEW x \in Widget, x # w
      PROVE  Fits(d', x, Exists(x)')
  BY <1>1 DEF DisplayInv, Fits, Realized
<1>2. \A x \in Widget : Fits(d', x, Exists(x)')
  BY <1>1
<1>3. NoNewWindow
  BY DEF NoNewWindow, Realized
<1> QED BY <1>2, <1>3 DEF DisplayInv, Fits, Realized

(* The same, of a widget that was there and keeps its size.                 *)
LEMMA DisplayFramed ==
    ASSUME DisplayInv, NEW w \in Widget, Sound(d'), Frame(d, d', w), Exists(w), Exists(w)',
           \A x \in Widget : x # w => (Exists(x)' <=> Exists(x)),
           d'.pm[w].size = d.pm[w].size, HasSubpart(w),
           Realized(d', w) => Realized(d, w) \/ Realize(w)
    PROVE  DisplayInv' /\ NoNewWindow
<1>1. \A x \in Widget : x # w => d'.pm[x] = d.pm[x] /\ d'.win[x] = d.win[x]
  BY DEF Frame
<1>2. Fits(d', w, Exists(w)')
  BY DEF DisplayInv, Fits
<1> QED BY <1>1, <1>2, DisplayChanged

(* Who exists after a change of the context of w. *)
LEMMA ChangedExists ==
    ASSUME GCInv, NEW w \in Widget, NEW res, NEW new, Changed(w, res, new)
    PROVE  /\ Exists(w)' /\ users'[w].foreground \in Pixel /\ users'[w].background \in Pixel
           /\ \A x \in Widget : x # w => (Exists(x)' <=> Exists(x))
<1>1. /\ users \in [Widget -> UserType] /\ users' \in [Widget -> UserType]
      /\ users' = [users EXCEPT ![w] = users'[w]] /\ Exists(w)'
  BY DEF Changed, GCInv
<1>2. \A x \in Widget : x # w => users'[x] = users[x]
  BY <1>1
<1>3. users'[w] \in UserType
  BY <1>1
<1> QED BY <1>1, <1>2, <1>3 DEF Exists, UserType

(* A new widget has the pixmap it asks for.                                 *)
LEMMA CreateDisplay ==
    ASSUME Tame, GCInv, ValuesOK, DisplayInv, NEW w \in Widget, NEW args \in InitArgs, Create(w, args)
    PROVE  DisplayInv' /\ NoNewWindow
<1>0. PICK res, new : res = [a \in Attrs!Colours |-> Attrs!Given(w, args, Default)[a]]
                      /\ new = Attrs!Given(w, args, Default)
  OBVIOUS
<1>1. ~Exists(w) /\ Changed(w, res, new)
  BY <1>0, CreateGCSound DEF Create
<1>2. /\ Exists(w)' /\ users'[w].foreground \in Pixel /\ users'[w].background \in Pixel
      /\ \A x \in Widget : x # w => (Exists(x)' <=> Exists(x))
  BY <1>1, ChangedExists
<1>3. Sound(d) /\ d.pm[w].status = "HasNone" /\ ~Realized(d, w)
  BY <1>1 DEF DisplayInv, Fits
<1>4. CASE HasSubpart(w)
  <2>1. GivesPixmap(args) => args.status # "HasNone"
    BY DEF Create
  <2>2. PICK fg \in Pixel, bg \in Pixel : fg = users'[w].foreground /\ bg = users'[w].background
    BY <1>2
  <2>3. d' = InitializePixmap(Gave(d, args, args.size), w, Giving(d, args), fg, bg)
    BY <1>4, <2>2 DEF Create
  <2>4. PICK e, f : e = d /\ f = d'
    OBVIOUS
  <2>5. /\ Sound(f) /\ f.win = e.win /\ f.pending = e.pending /\ f.pm[w].size = args.size
        /\ \A x \in Widget : x # w => f.pm[x] = e.pm[x]
    BY <2>1, <2>3, <2>4, <1>3, InitializePixmapSound
  <2>6. Fits(d', w, Exists(w)')
    BY <2>4, <2>5, <1>2, <1>4 DEF Fits, AnySize
  <2>7. /\ Sound(d') /\ \A x \in Widget : x # w => d'.pm[x] = d.pm[x] /\ d'.win[x] = d.win[x]
        /\ Realized(d', w) => Realized(d, w) \/ Realize(w)
    BY <2>4, <2>5 DEF Realized
  <2> QED BY <2>6, <2>7, <1>2, DisplayChanged
<1>5. CASE ~HasSubpart(w)
  <2>1. d' = d
    BY <1>5 DEF Create
  <2>2. Fits(d', w, Exists(w)')
    BY <2>1, <1>3, <1>5 DEF Fits, Realized
  <2>3. /\ Sound(d') /\ \A x \in Widget : x # w => d'.pm[x] = d.pm[x] /\ d'.win[x] = d.win[x]
        /\ Realized(d', w) => Realized(d, w) \/ Realize(w)
    BY <2>1, <1>3 DEF Realized
  <2> QED BY <2>2, <2>3, <1>2, DisplayChanged
<1> QED BY <1>4, <1>5

(* XtSetValues, of any of the resources.                                    *)
LEMMA SetValuesDisplay ==
    ASSUME Tame, GCInv, ValuesOK, DisplayInv, NEW w \in Widget, NEW args \in Args, SetValues(w, args)
    PROVE  DisplayInv' /\ NoNewWindow
<1>0. Exists(w) /\ SetValuesGC(w, args) /\ SetValuesIsTame(w, args)
  BY DEF SetValues
<1>1. PICK res, new : Changed(w, res, new)
  BY <1>0, SetValuesGCSound
<1>2. /\ Exists(w)' /\ \A x \in Widget : x # w => (Exists(x)' <=> Exists(x))
  BY <1>1, ChangedExists
<1>3. CASE HasSubpart(w)
  <2>1. PICK e, f, background : /\ e = d /\ f = d'
                                /\ background = (users'[w].background # users[w].background)
    OBVIOUS
  <2>2. Sound(e) /\ TameChange(e, w, args)
    BY <2>1, <1>0 DEF DisplayInv, SetValuesIsTame, TameChange
  <2>3. f = SetValuesPixmap(Gave(e, args, e.pm[w].size), w, Giving(e, args), background)
    BY <2>1, <1>3 DEF SetValues
  <2>4. /\ Sound(f) /\ Frame(e, f, w) /\ f.pm[w].size = e.pm[w].size
        /\ Realized(f, w) <=> Realized(e, w)
    BY <2>2, <2>3, SetValuesPixmapSound
  <2> QED BY <2>1, <2>4, <1>0, <1>2, <1>3, DisplayFramed
<1>4. CASE ~HasSubpart(w)
  <2>1. d' = d
    BY <1>4 DEF SetValues
  <2>2. Fits(d', w, Exists(w)')
    BY <2>1, <1>4 DEF DisplayInv, Fits, Realized
  <2>3. /\ Sound(d') /\ \A x \in Widget : x # w => d'.pm[x] = d.pm[x] /\ d'.win[x] = d.win[x]
        /\ Realized(d', w) => Realized(d, w) \/ Realize(w)
    BY <2>1 DEF DisplayInv, Realized
  <2> QED BY <2>2, <2>3, <1>2, DisplayChanged
<1> QED BY <1>3, <1>4

(* A widget that is gone has no pixmap and no window.                       *)
LEMMA DestroyDisplay ==
    ASSUME GCInv, ValuesOK, DisplayInv, NEW w \in Widget, Destroy(w)
    PROVE  DisplayInv' /\ NoNewWindow /\ ~Realized(d', w)
<1>1. Exists(w) /\ DestroyGC(w) /\ d' = IF HasSubpart(w) THEN DestroyPixmap(d, w) ELSE d
  BY DEF Destroy
<1>2. GCInv' /\ ~Exists(w)' /\ users' = [users EXCEPT ![w] = users'[w]]
  BY <1>1, DestroyGCSound
<1>3. \A x \in Widget : x # w => (Exists(x)' <=> Exists(x))
  BY <1>2 DEF GCInv, Exists
<1>4. CASE HasSubpart(w)
  <2>1. PICK e, f : e = d /\ f = d'
    OBVIOUS
  <2>2. Sound(e) /\ f = DestroyPixmap(e, w)
    BY <2>1, <1>1, <1>4 DEF DisplayInv
  <2>3. /\ Sound(f) /\ Frame(e, f, w) /\ f.pm[w].status = "HasNone" /\ ~Realized(f, w)
        /\ f.pm[w].size = 0
    BY <2>2, DestroyPixmapSound
  <2>4. \A x \in Widget : x # w => f.pm[x] = e.pm[x] /\ f.win[x] = e.win[x]
    BY <2>3 DEF Frame
  <2>5. Fits(d', w, Exists(w)')
    BY <2>1, <2>3, <1>2 DEF Fits
  <2>6. /\ Sound(d') /\ \A x \in Widget : x # w => d'.pm[x] = d.pm[x] /\ d'.win[x] = d.win[x]
        /\ ~Realized(d', w)
    BY <2>1, <2>3, <2>4
  <2> QED BY <2>5, <2>6, <1>3, DisplayChanged
<1>5. CASE ~HasSubpart(w)
  <2>1. d' = d
    BY <1>1, <1>5
  <2>2. Fits(d', w, Exists(w)')
    BY <2>1, <1>5 DEF DisplayInv, Fits, Realized
  <2>3. /\ Sound(d') /\ \A x \in Widget : x # w => d'.pm[x] = d.pm[x] /\ d'.win[x] = d.win[x]
        /\ ~Realized(d', w)
    BY <2>1, <1>5 DEF DisplayInv, Fits, Realized
  <2> QED BY <2>2, <2>3, <1>3, DisplayChanged
<1> QED BY <1>4, <1>5

(* What a method does, of a widget x that need not be the one it is called *)
(* for.                                                                    *)
LEMMA MethodDone ==
    ASSUME DisplayInv, NEW x \in Widget, Exists(x), HasSubpart(x), UNCHANGED gcvars,
           Sound(d'), Frame(d, d', x), d'.pm[x].size = d.pm[x].size,
           Realized(d', x) => Realized(d, x)
    PROVE  DisplayInv' /\ NoNewWindow
<1>1. \A y \in Widget : Exists(y)' <=> Exists(y)
  BY DEF gcvars, Exists
<1> QED BY <1>1, DisplayFramed

(* The cells of a widget are numbers.                                       *)
LEMMA CellsAreNumbers ==
    ASSUME NEW w \in Widget, Sound(d)
    PROVE  All(d, w) \in SUBSET Int
  BY DEF Sound, OwnPixmap, PmType, All, Cells

(* Every method that draws, clears, puts or copies.                         *)
LEMMA MethodsDisplay ==
    ASSUME Tame, GCInv, DisplayInv, NEW w \in Widget, Methods(w)
    PROVE  DisplayInv' /\ NoNewWindow
<1>0. PICK e, f : e = d /\ f = d'
  OBVIOUS
<1>1. /\ Exists(w) /\ HasSubpart(w) /\ UNCHANGED gcvars
      /\ Sound(e) /\ e.pm[w].size \in Nat \ {0}
  BY <1>0, SizesAssumption DEF Methods, DisplayInv, Fits
<1>2. Fg(w) \in Pixel /\ Bg(w) \in Pixel /\ Attributes(w).foreground \in Pixel
  BY <1>1 DEF GCInv, UserType, Fg, Bg, Attributes, IsAttributes
<1>3. All(e, w) \in SUBSET Int
  BY <1>0, <1>1, CellsAreNumbers
<1>4. ASSUME NEW cells \in Places(w), DrawShape(w, cells)
      PROVE  DisplayInv' /\ NoNewWindow
  <2>1. cells \in SUBSET Int /\ f = Draw(e, w, cells)
    BY <1>0, <1>3, <1>4 DEF Places, DrawShape
  <2>2. Sound(f) /\ Frame(e, f, w) /\ f.pm = e.pm /\ (Realized(f, w) <=> Realized(e, w))
    BY <2>1, <1>1, <1>2, DrawSound
  <2> QED BY <2>2, <1>0, <1>1, MethodDone
<1>5. ASSUME NEW cells \in Places(w), ClearRectangle(w, cells)
      PROVE  DisplayInv' /\ NoNewWindow
  <2>1. PICK fg \in Pixel, bg \in Pixel : fg = Fg(w) /\ bg = Bg(w)
    BY <1>2
  <2>2. /\ cells \in SUBSET Int /\ f = ClearArea(e, w, cells, fg, bg)
        /\ InWindow(e, w) => Realized(e, w)
    BY <2>1, <1>0, <1>3, <1>5 DEF Places, ClearRectangle, InWindow
  <2>3. /\ Sound(f) /\ Frame(e, f, w) /\ f.pm[w].size = e.pm[w].size
        /\ Realized(f, w) <=> Realized(e, w)
    BY <2>2, <1>1, ClearAreaSound
  <2> QED BY <2>3, <1>0, <1>1, MethodDone
<1>6. ASSUME NEW cells \in Places(w), Put(w, cells)
      PROVE  DisplayInv' /\ NoNewWindow
  <2>1. /\ cells \in {All(e, w), {0}} /\ f = PutImage(e, w, cells)
        /\ Graphic(w) => Realized(e, w)
    BY <1>0, <1>6 DEF Places, Put
  <2>2. Sound(f) /\ Frame(e, f, w) /\ f.pm = e.pm /\ (Realized(f, w) <=> Realized(e, w))
    BY <2>1, <1>1, PutImageSound
  <2> QED BY <2>2, <1>0, <1>1, MethodDone
<1>7. CASE Clear(w)
  <2>1. PICK fg \in Pixel, bg \in Pixel : fg = Fg(w) /\ bg = Bg(w)
    BY <1>2
  <2>2. f = ClearWindow(e, w, fg, bg)
    BY <2>1, <1>0, <1>7 DEF Clear
  <2>3. /\ Sound(f) /\ Frame(e, f, w) /\ f.pm[w].size = e.pm[w].size
        /\ Realized(f, w) <=> Realized(e, w)
    BY <2>2, <1>1, ClearWindowSound
  <2> QED BY <2>3, <1>0, <1>1, MethodDone
<1>8. ASSUME NEW x \in Widget, NEW offset \in {0, 1}, NEW cells \in SUBSET All(e, x),
             Copy(w, x, cells, offset)
      PROVE  DisplayInv' /\ NoNewWindow
  <2>1. Exists(x) /\ HasSubpart(x) /\ cells \in SUBSET Int
    BY <1>0, <1>1, <1>8, CellsAreNumbers DEF Copy
  <2>2. CASE CopyIsTame(w, x, cells, offset) /\ d' = CopyTo(d, w, x, cells, offset)
    <3>1. /\ f = CopyTo(e, w, x, cells, offset)
          /\ \/ ~HasPixmap(e, x)
             \/ (HasPixmap(e, w) \/ ~e.hidden) /\ \A k \in cells : k - offset \in All(e, w)
      BY <2>2, <1>0 DEF CopyIsTame
    <3>2. Sound(f) /\ Frame(e, f, x) /\ f.pm = e.pm /\ (Realized(f, x) <=> Realized(e, x))
      BY <3>1, <2>1, <1>1, CopyToSound
    <3> QED BY <3>2, <2>1, <1>0, <1>1, MethodDone
  <2>3. CASE CopyIsTame(x, w, cells, offset) /\ d' = CopyFrom(d, w, x, cells, offset)
    <3>1. /\ f = CopyFrom(e, w, x, cells, offset)
          /\ \/ ~HasPixmap(e, w)
             \/ (HasPixmap(e, x) \/ ~e.hidden) /\ \A k \in cells : k - offset \in All(e, x)
      BY <2>3, <1>0 DEF CopyIsTame
    <3>2. Sound(f) /\ Frame(e, f, w) /\ f.pm = e.pm /\ (Realized(f, w) <=> Realized(e, w))
      BY <3>1, <2>1, <1>1, CopyFromSound
    <3> QED BY <3>2, <1>0, <1>1, MethodDone
  <2> QED BY <2>2, <2>3, <1>8 DEF Copy
<1>9. \/ \E cells \in Places(w) : DrawShape(w, cells) \/ ClearRectangle(w, cells) \/ Put(w, cells)
      \/ Clear(w)
      \/ \E x \in Widget : \E offset \in {0, 1}, cells \in SUBSET All(e, x) :
            Copy(w, x, cells, offset)
  <2>1. \A x \in Widget, first \in {0, 1} : {k \in All(d, x) : k >= first} \in SUBSET All(e, x)
    BY <1>0
  <2> QED BY <2>1 DEF Methods
<1> QED BY <1>4, <1>5, <1>6, <1>7, <1>8, <1>9

(* What the Intrinsics, the server and the window manager do.               *)
LEMMA OtherSteps ==
    ASSUME DisplayInv, UNCHANGED <<gcvars, ops>> \/ UNCHANGED gcvars,
           \/ UNCHANGED d
           \/ \E w \in Widget : Realize(w) \/ Expose(w) \/ \E n \in Sizes : Resize(w, n)
           \/ CoverOrUncover
    PROVE  DisplayInv' /\ NoNewWindow
<1>0. PICK e, f : e = d /\ f = d'
  OBVIOUS
<1>1. Sound(e) /\ \A w \in Widget : Exists(w)' <=> Exists(w)
  BY <1>0 DEF DisplayInv, gcvars, Exists
<1>2. CASE UNCHANGED d
  BY <1>1, <1>2 DEF DisplayInv, Fits, Realized, NoNewWindow
<1>3. ASSUME NEW w \in Widget, Realize(w)
      PROVE  DisplayInv' /\ NoNewWindow
  <2>1. Exists(w) /\ Graphic(w) /\ HasSubpart(w) /\ e.pm[w].size \in AnySize /\ f = RealizeWindow(e, w)
    BY <1>0, <1>3 DEF Realize, Graphic, HasSubpart, DisplayInv, Fits
  <2>2. Sound(f) /\ Frame(e, f, w) /\ f.pm = e.pm /\ Realized(f, w)
    BY <2>1, <1>1, RealizeWindowSound
  <2> QED BY <2>1, <2>2, <1>0, <1>1, <1>3, DisplayFramed
<1>4. ASSUME NEW w \in Widget, Expose(w)
      PROVE  DisplayInv' /\ NoNewWindow
  <2>1. PICK cells \in e.pending[w] : f = HandleExpose(e, w, cells)
    BY <1>0, <1>4 DEF Expose
  <2>2. Sound(f) /\ Frame(e, f, w) /\ f.pm = e.pm /\ Realized(f, w) /\ Realized(e, w)
    BY <2>1, <1>1, HandleExposeSound
  <2>3. Exists(w) /\ HasSubpart(w)
    BY <2>2, <1>0 DEF DisplayInv, Fits
  <2> QED BY <2>2, <2>3, <1>0, <1>1, DisplayFramed
<1>5. ASSUME NEW w \in Widget, NEW n \in Sizes, Resize(w, n)
      PROVE  DisplayInv' /\ NoNewWindow
  <2>1. n \in AnySize /\ Exists(w) /\ HasSubpart(w) /\ f = ResizeWidget(e, w, n)
    BY <1>0, <1>5 DEF Resize, AnySize
  <2>2. /\ Sound(f) /\ Frame(e, f, w) /\ f.pm[w].size = n
        /\ Realized(f, w) <=> Realized(e, w)
    BY <2>1, <1>1, ResizeWidgetSound
  <2>3. \A x \in Widget : x # w => f.pm[x] = e.pm[x] /\ f.win[x] = e.win[x]
    BY <2>2 DEF Frame
  <2>4. Fits(d', w, Exists(w)')
    BY <2>1, <2>2, <1>0, <1>1 DEF Fits
  <2> QED BY <2>2, <2>3, <2>4, <1>0, <1>1, DisplayChanged
<1>6. CASE CoverOrUncover
  <2>1. f = CoverWindows(e) \/ f = UncoverWindows(e)
    BY <1>0, <1>6 DEF CoverOrUncover
  <2>2. Sound(f) /\ f.pm = e.pm /\ \A w \in Widget : Realized(f, w) <=> Realized(e, w)
    <3>1. CASE f = CoverWindows(e)
      BY <3>1, <1>1, CoverWindowsSound
    <3>2. CASE f = UncoverWindows(e)
      BY <3>2, <1>1, UncoverWindowsSound DEF Realized
    <3> QED BY <2>1, <3>1, <3>2
  <2>3. ASSUME NEW w \in Widget
        PROVE  Fits(f, w, Exists(w)')
    BY <2>2, <1>0, <1>1 DEF DisplayInv, Fits
  <2>4. DisplayInv'
    BY <2>2, <2>3, <1>0 DEF DisplayInv, Fits, Realized
  <2>5. NoNewWindow
    BY <2>2, <1>0 DEF NoNewWindow
  <2> QED BY <2>4, <2>5
<1> QED BY <1>2, <1>3, <1>4, <1>5, <1>6

(* Every step leaves the display in order.                                  *)
LEMMA DisplayStep ==
    ASSUME Tame, GCInv, ValuesOK, DisplayInv, [Next]_vars
    PROVE  DisplayInv' /\ NoNewWindow
<1>1. ASSUME NEW w \in Widget, NEW args \in GCArgs, SetGC(w, args)
      PROVE  DisplayInv' /\ NoNewWindow
  <2>1. Exists(w) /\ ChangeUsersGC(w, args) /\ d' = d
    BY <1>1 DEF SetGC
  <2>2. PICK res, new : Changed(w, res, new)
    BY <2>1, ChangeUsersGCSound
  <2>3. /\ Exists(w)' /\ \A x \in Widget : x # w => (Exists(x)' <=> Exists(x))
    BY <2>2, ChangedExists
  <2>4. Fits(d', w, Exists(w)')
    BY <2>1, <2>3 DEF DisplayInv, Fits, Realized
  <2> QED BY <2>1, <2>3, <2>4, DisplayChanged DEF DisplayInv
<1>2. ASSUME NEW w \in Widget, ColorMethods(w)
      PROVE  DisplayInv' /\ NoNewWindow
  <2>1. UNCHANGED gcvars /\ UNCHANGED d
    BY <1>2 DEF ColorMethods
  <2> QED BY <2>1, OtherSteps
<1>3. ASSUME NEW w \in Widget, Realize(w) \/ Expose(w) \/ \E n \in Sizes : Resize(w, n)
      PROVE  DisplayInv' /\ NoNewWindow
  <2>1. UNCHANGED gcvars
    BY <1>3 DEF Realize, Expose, Resize
  <2> QED BY <2>1, <1>3, OtherSteps
<1>4. CASE CoverOrUncover
  <2>1. UNCHANGED gcvars
    BY <1>4 DEF CoverOrUncover
  <2> QED BY <2>1, <1>4, OtherSteps
<1>5. CASE UNCHANGED vars
  <2>1. UNCHANGED gcvars /\ UNCHANGED d
    BY <1>5 DEF vars
  <2> QED BY <2>1, OtherSteps
<1> QED BY <1>1, <1>2, <1>3, <1>4, <1>5, CreateDisplay, SetValuesDisplay, DestroyDisplay,
           MethodsDisplay DEF Next

(* It is in order when there are no widgets.                                *)
LEMMA DisplayBegins ==
    ASSUME Init
    PROVE  DisplayInv
<1>0. PICK none : none = [status |-> "HasNone", size |-> 0, pixmap |-> NullPixmap,
                          tiled |-> FALSE, pen |-> 0]
  OBVIOUS
<1>1. /\ d.pm = [w \in Widget |-> none] /\ d.win = [w \in Widget |-> NoWindow]
      /\ d.pixmaps = <<>> /\ d.pending = [w \in Widget |-> {}]
      /\ d.hidden = FALSE /\ d.bad = FALSE /\ d = [x \in DisplayFields |-> d[x]]
  BY <1>0 DEF Init, InitDisplay, DisplayFields
<1>2. DOMAIN d.pixmaps = {} /\ d.pixmaps = [id \in DOMAIN d.pixmaps |-> d.pixmaps[id]]
  BY <1>1
<1>3. IsDisplay(d)
  BY <1>1, <1>2 DEF IsDisplay
<1>4. none \in PmType /\ none.status = "HasNone" /\ none.pixmap = NullPixmap
  <2>1. 0 \in Look
    BY PixelAssumption, LookAssumption DEF Look
  <2> QED BY <2>1, <1>0 DEF PmType, Status
<1>5. ASSUME NEW w \in Widget
      PROVE  OwnPixmap(d, w, Others(d, w)) /\ OwnWindow(d, w) /\ Mirrored(d, w) /\ Fits(d, w, Exists(w))
  <2>1. d.pm[w] = none /\ ~Realized(d, w) /\ d.pending[w] = {}
    BY <1>1 DEF Realized
  <2>2. Others(d, w) = {}
    BY <1>1, <1>4 DEF Others
  <2>3. OwnPixmap(d, w, Others(d, w))
    BY <2>1, <2>2, <1>2, <1>4, PixmapAssumption DEF OwnPixmap
  <2>4. OwnWindow(d, w) /\ Mirrored(d, w)
    BY <2>1 DEF OwnWindow, Mirrored
  <2>5. ~Exists(w)
    BY DEF Init, InitGC, NoWidget, Exists
  <2> QED BY <2>1, <2>3, <2>4, <2>5, <1>4 DEF Fits
<1> QED BY <1>1, <1>3, <1>5 DEF DisplayInv, Sound

(* It is so always.                                                         *)
LEMMA DisplayInOrder == ASSUME Tame PROVE Spec => []DisplayInv
<1>1. Init => GCInv /\ ValuesOK /\ DisplayInv
  BY ContextsBegin, DisplayBegins
<1>2. GCInv /\ ValuesOK /\ DisplayInv /\ [Next]_vars => (GCInv /\ ValuesOK /\ DisplayInv)'
  BY ContextsStep, DisplayStep
<1> QED BY <1>1, <1>2, PTL DEF Spec

(* A display in order has the properties that the run checks.               *)
LEMMA DisplayImplies ==
    ASSUME DisplayInv
    PROVE  Mirror /\ PixmapsOwned /\ TypeOKDisplay /\ ~d.bad
<1>1. Sound(d)
  BY DEF DisplayInv
<1>2. \A w \in Widget : OwnPixmap(d, w, Others(d, w)) /\ OwnWindow(d, w) /\ Mirrored(d, w)
  BY <1>1 DEF Sound
<1>3. Mirror
  BY <1>2 DEF Mirror, Mirrored
<1>4. \A w \in Widget : d.pm[w].status # "HasNone" =>
        /\ d.pm[w].pixmap \in Pixmap \ Others(d, w) /\ d.pm[w].pixmap \in DOMAIN d.pixmaps
        /\ IsImage(d.pixmaps[d.pm[w].pixmap], d.pm[w].size)
  BY <1>2 DEF OwnPixmap
<1>5. PixmapsOwned
  <2>1. DOMAIN d.pixmaps = {d.pm[w].pixmap : w \in {x \in Widget : d.pm[x].status # "HasNone"}}
    <3>1. ASSUME NEW id \in DOMAIN d.pixmaps
          PROVE  \E w \in Widget : d.pm[w].status # "HasNone" /\ d.pm[w].pixmap = id
      <4>0. PICK u \in Widget : TRUE
        BY ClassAssumption
      <4>1. CASE d.pm[u].status = "HasNone"
        BY <4>1, <3>1, <1>2 DEF OwnPixmap, Others
      <4>2. CASE d.pm[u].status # "HasNone"
        <5>1. id \in Others(d, u) \/ id = d.pm[u].pixmap
          BY <4>2, <3>1, <1>2 DEF OwnPixmap
        <5> QED BY <4>2, <5>1 DEF Others
      <4> QED BY <4>1, <4>2
    <3> QED BY <3>1, <1>4
  <2>2. ASSUME NEW w \in Widget, NEW x \in Widget, d.pm[w].pixmap = d.pm[x].pixmap, w # x,
               d.pm[w].pixmap \in Pixmap
        PROVE  FALSE
    <3>1. d.pm[w].status # "HasNone" /\ d.pm[x].status # "HasNone"
      BY <2>2, <1>2 DEF OwnPixmap
    <3>2. d.pm[x].pixmap \in Others(d, w)
      BY <2>2, <3>1 DEF Others
    <3> QED BY <2>2, <3>1, <3>2, <1>4
  <2>3. ASSUME NEW w \in Widget, d.pm[w].status # "HasNone"
        PROVE  /\ DOMAIN d.pixmaps[d.pm[w].pixmap] = All(d, w)
               /\ \A k \in DOMAIN d.pixmaps[d.pm[w].pixmap] : d.pixmaps[d.pm[w].pixmap][k] # Junk
    BY <2>3, <1>4 DEF IsImage, Look, All
  <2> QED BY <2>1, <2>2, <2>3 DEF PixmapsOwned
<1>6. TypeOKDisplay
  <2>1. DOMAIN d.pixmaps \subseteq Pixmap
    BY <1>4, <1>5 DEF PixmapsOwned
  <2>2. ASSUME NEW w \in Widget
        PROVE  /\ d.pm[w].status \in {"On", "Off", "HasNone", "Only"}
               /\ d.pm[w].pixmap \in Pixmap \cup {NullPixmap, UnspecifiedPixmap}
               /\ Realized(d, w) => DOMAIN d.win[w] = All(d, w)
               /\ \A cells \in d.pending[w] : cells # {}
    BY <1>2 DEF OwnPixmap, OwnWindow, PmType, Status, IsImage, All
  <2> QED BY <2>1, <2>2 DEF TypeOKDisplay
<1> QED BY <1>1, <1>3, <1>5, <1>6 DEF Sound

(* A window whose pixmap is on shows what is in the pixmap, wherever it    *)
(* can be seen and no exposure is due: drawing twice, copying, clearing,   *)
(* resizing and restoring agree (Mirror).                                  *)
THEOREM WindowsMirror == ASSUME Tame PROVE Spec => []Mirror
  BY DisplayInOrder, DisplayImplies, PTL

(* Each pixmap of the server is that of one widget, of its size and filled *)
(* before it is seen: none leaks, none is freed twice (PixmapsOwned).      *)
THEOREM PixmapsHaveOwners == ASSUME Tame PROVE Spec => []PixmapsOwned
  BY DisplayInOrder, DisplayImplies, PTL

-----------------------------------------------------------------------------
(* The colours. *)

ColourFields == {"colormap", "window", "allocated", "cells", "stored", "bad"}
AnyColormap == Colormap \cup {DefaultColormap}
RangeType == [cmap : AnyColormap, cells : SUBSET Cell]
StoredType == [cmap : AnyColormap, cell : Cell]

IsColours(e) ==
    /\ e = [x \in ColourFields |-> e[x]]
    /\ e.colormap \in [Widget -> AnyColormap]
    /\ e.window \in [Widget -> AnyColormap \cup {NoWindow}]
    /\ e.allocated \in [Widget -> Seq(RangeType)]
    /\ e.cells = [m \in DOMAIN e.cells |-> e.cells[m]]
    /\ \A m \in DOMAIN e.cells : m \in AnyColormap /\ e.cells[m] \subseteq Cell
    /\ e.stored \subseteq StoredType
    /\ e.bad = FALSE

(* Cell x of colormap m is in a range of some widget's list.               *)
InRange(range, m, x) == range.cmap = m /\ x \in range.cells
Ranged(a, m, x) == \E w \in Widget : \E i \in 1 .. Len(a[w]) : InRange(a[w][i], m, x)
IsStored(e, m, x) == [cmap |-> m, cell |-> x] \in e.stored

(* Ranges of one colormap have nothing in common but, perhaps, cell 0.     *)
Apart(a) ==
    \A w, y \in Widget : \A i \in 1 .. Len(a[w]), j \in 1 .. Len(a[y]) :
        \A x \in Cell \ {0}, m \in AnyColormap :
            InRange(a[w][i], m, x) /\ InRange(a[y][j], m, x) => w = y /\ i = j

RangesLive(e) ==
    \A w \in Widget : \A i \in 1 .. Len(e.allocated[w]) : e.allocated[w][i].cmap \in DOMAIN e.cells
StoredLive(e) ==
    \A s \in e.stored : s.cmap \in DOMAIN e.cells /\ s.cell \in e.cells[s.cmap]

(* What is allocated at the server is what the lists hold, and what was    *)
(* stored.                                                                 *)
Accounted(e) ==
    \A m \in DOMAIN e.cells, x \in Cell \ {0} :
        x \in e.cells[m] <=> IsStored(e, m, x) \/ Ranged(e.allocated, m, x)
Disjoint(e) ==
    \A m \in DOMAIN e.cells, x \in Cell \ {0} : ~(IsStored(e, m, x) /\ Ranged(e.allocated, m, x))

Balanced(e) ==
    /\ IsColours(e) /\ RangesLive(e) /\ StoredLive(e)
    /\ Accounted(e) /\ Disjoint(e) /\ Apart(e.allocated)

(* What freeing ranges leaves alone.                                       *)
SameMaps(e, f) ==
    /\ f.colormap = e.colormap /\ f.window = e.window /\ f.stored = e.stored
    /\ DOMAIN f.cells = DOMAIN e.cells

(* What the parts of the colours are after some of them are assigned. *)
SetCells(e, m, s) == [e EXCEPT !.cells[m] = s]
SetList(e, w, s) == [e EXCEPT !.allocated[w] = s]

(* The cells of one colormap, ...                                           *)
LEMMA CellsAssigned ==
    ASSUME NEW e, IsColours(e), NEW m \in DOMAIN e.cells, NEW s, s \subseteq Cell,
           NEW f, f = SetCells(e, m, s)
    PROVE  /\ IsColours(f) /\ SameMaps(e, f) /\ f.allocated = e.allocated
           /\ f.cells[m] = s /\ \A n \in DOMAIN e.cells : n # m => f.cells[n] = e.cells[n]
<1>1. f = [x \in ColourFields |-> IF x = "cells" THEN [e.cells EXCEPT ![m] = s] ELSE e[x]]
  BY DEF IsColours, ColourFields, SetCells
<1>2. /\ f.cells = [e.cells EXCEPT ![m] = s] /\ f.colormap = e.colormap /\ f.window = e.window
      /\ f.allocated = e.allocated /\ f.stored = e.stored /\ f.bad = e.bad
      /\ f = [x \in ColourFields |-> f[x]]
  BY <1>1 DEF ColourFields
<1>3. f.cells = [n \in DOMAIN e.cells |-> IF n = m THEN s ELSE e.cells[n]]
  BY <1>2 DEF IsColours
<1>4. /\ DOMAIN f.cells = DOMAIN e.cells /\ f.cells = [n \in DOMAIN f.cells |-> f.cells[n]]
      /\ \A n \in DOMAIN f.cells : n \in AnyColormap /\ f.cells[n] \subseteq Cell
  BY <1>3 DEF IsColours
<1>5. IsColours(f)
  BY <1>2, <1>4 DEF IsColours
<1> QED BY <1>2, <1>3, <1>5 DEF SameMaps

(* ... or the list of one widget.                                           *)
LEMMA ListAssigned ==
    ASSUME NEW e, IsColours(e), NEW w \in Widget, NEW s \in Seq(RangeType),
           NEW f, f = SetList(e, w, s)
    PROVE  /\ IsColours(f) /\ SameMaps(e, f) /\ f.cells = e.cells
           /\ f.allocated[w] = s /\ \A y \in Widget : y # w => f.allocated[y] = e.allocated[y]
<1>1. f = [x \in ColourFields |-> IF x = "allocated" THEN [e.allocated EXCEPT ![w] = s] ELSE e[x]]
  BY DEF IsColours, ColourFields, SetList
<1>2. /\ f.allocated = [e.allocated EXCEPT ![w] = s] /\ f.colormap = e.colormap
      /\ f.window = e.window /\ f.cells = e.cells /\ f.stored = e.stored /\ f.bad = e.bad
      /\ f = [x \in ColourFields |-> f[x]]
  BY <1>1 DEF ColourFields
<1>3. f.allocated \in [Widget -> Seq(RangeType)]
  BY <1>2 DEF IsColours
<1>4. f.allocated[w] = s /\ \A y \in Widget : y # w => f.allocated[y] = e.allocated[y]
  BY <1>2 DEF IsColours
<1>5. IsColours(f)
  BY <1>2, <1>3 DEF IsColours
<1> QED BY <1>2, <1>4, <1>5 DEF SameMaps

(* A range that is removed from a list, and nothing else.                  *)
LEMMA RangedAfterRemoval ==
    ASSUME NEW e, IsColours(e), Apart(e.allocated), NEW w \in Widget, NEW i \in 1 .. Len(e.allocated[w]),
           NEW a, a[w] = RemoveAt(e.allocated[w], i), \A y \in Widget : y # w => a[y] = e.allocated[y]
    PROVE  /\ Apart(a)
           /\ \A m \in AnyColormap, x \in Cell \ {0} :
                Ranged(a, m, x) <=> Ranged(e.allocated, m, x) /\ ~InRange(e.allocated[w][i], m, x)
           /\ \A j \in 1 .. Len(a[w]) : \E k \in 1 .. Len(e.allocated[w]) : a[w][j] = e.allocated[w][k]
<1> DEFINE b == e.allocated
           s == b[w]
<1>1. s \in Seq(RangeType) /\ Len(s) \in Nat
  BY LenProperties DEF IsColours
<1>0. i \in Nat /\ i <= Len(s)
  BY <1>1
<1>2. Len(a[w]) = Len(s) - 1 /\ \A k \in 1 .. Len(s) - 1 : a[w][k] = IF k < i THEN s[k] ELSE s[k + 1]
  BY SMTT(30), <1>1, RemoveAtProperties
<1> HIDE DEF b
<1>3. PICK old : old = [k \in 1 .. Len(s) - 1 |-> IF k < i THEN k ELSE k + 1]
  OBVIOUS
<1>4. \A k \in 1 .. Len(s) - 1 : /\ old[k] \in 1 .. Len(s) /\ old[k] # i
                                 /\ a[w][k] = s[old[k]]
  BY <1>1, <1>2, <1>3
<1>5. \A k, l \in 1 .. Len(s) - 1 : old[k] = old[l] => k = l
  BY <1>1, <1>3
<1>6. \A k \in 1 .. Len(s) : k # i => \E l \in 1 .. Len(s) - 1 : a[w][l] = s[k]
  <2>1. ASSUME NEW k \in 1 .. Len(s), k < i
        PROVE  k \in 1 .. Len(s) - 1 /\ a[w][k] = s[k]
    <3>1. k \in 1 .. Len(s) - 1
      BY <2>1, <1>0, <1>1
    <3> QED BY <3>1, <2>1, <1>2
  <2>2. ASSUME NEW k \in 1 .. Len(s), k > i
        PROVE  k - 1 \in 1 .. Len(s) - 1 /\ a[w][k - 1] = s[k]
    <3>1. k - 1 \in 1 .. Len(s) - 1 /\ ~(k - 1 < i) /\ (k - 1) + 1 = k
      BY <2>2, <1>1
    <3> QED BY <3>1, <1>2
  <2> QED BY <2>1, <2>2, <1>1
<1>7. ASSUME NEW m \in AnyColormap, NEW x \in Cell \ {0}
      PROVE  Ranged(a, m, x) <=> Ranged(b, m, x) /\ ~InRange(s[i], m, x)
  <2>1. ASSUME Ranged(a, m, x)
        PROVE  Ranged(b, m, x) /\ ~InRange(s[i], m, x)
    <3>0. PICK y \in Widget : \E j \in 1 .. Len(a[y]) : InRange(a[y][j], m, x)
      BY <2>1 DEF Ranged
    <3>1. PICK j \in 1 .. Len(a[y]) : InRange(a[y][j], m, x)
      BY <3>0
    <3>2. CASE y = w
      <4>1. j \in 1 .. Len(s) - 1
        BY <3>2, <1>2
      <4>2. old[j] \in 1 .. Len(s) /\ old[j] # i /\ InRange(s[old[j]], m, x)
        BY <4>1, <3>1, <3>2, <1>4
      <4> QED BY <4>2 DEF Ranged, Apart, b
    <3>3. CASE y # w
      <4>1. j \in 1 .. Len(b[y]) /\ InRange(b[y][j], m, x)
        BY <3>1, <3>3 DEF b
      <4> QED BY <4>1, <3>3 DEF Ranged, Apart, b
    <3> QED BY <3>2, <3>3
  <2>2. ASSUME Ranged(b, m, x), ~InRange(s[i], m, x)
        PROVE  Ranged(a, m, x)
    <3>0. PICK y \in Widget : \E j \in 1 .. Len(b[y]) : InRange(b[y][j], m, x)
      BY <2>2 DEF Ranged
    <3>1. PICK j \in 1 .. Len(b[y]) : InRange(b[y][j], m, x)
      BY <3>0
    <3>2. CASE y = w
      <4>1. j # i
        BY <3>1, <3>2, <2>2
      <4>2. PICK l \in 1 .. Len(s) - 1 : a[w][l] = s[j]
        BY <4>1, <3>1, <3>2, <1>6
      <4> QED BY <4>2, <3>1, <3>2, <1>2 DEF Ranged
    <3>3. CASE y # w
      BY <3>1, <3>3 DEF Ranged, b
    <3> QED BY <3>2, <3>3
  <2> QED BY <2>1, <2>2
<1>8. Apart(a)
  <2> SUFFICES ASSUME NEW y \in Widget, NEW z \in Widget, NEW j \in 1 .. Len(a[y]), NEW k \in 1 .. Len(a[z]),
                      NEW x \in Cell \ {0}, NEW m \in AnyColormap,
                      InRange(a[y][j], m, x), InRange(a[z][k], m, x)
               PROVE  y = z /\ j = k
    BY DEF Apart
  <2> DEFINE J == IF y = w THEN old[j] ELSE j
             K == IF z = w THEN old[k] ELSE k
  <2>1. J \in 1 .. Len(b[y]) /\ InRange(b[y][J], m, x)
    BY <1>2, <1>4 DEF b
  <2>2. K \in 1 .. Len(b[z]) /\ InRange(b[z][K], m, x)
    BY <1>2, <1>4 DEF b
  <2>3. y = z /\ J = K
    <3> HIDE DEF J, K
    <3> QED BY <2>1, <2>2 DEF Apart, b
  <2> QED BY <2>3, <1>2, <1>5
<1> QED BY <1>2, <1>4, <1>7, <1>8 DEF b

(* _XpwFreeColors: what a widget no longer lists is no longer allocated.   *)
LEMMA FreeColorsBalanced ==
    ASSUME NEW e, Balanced(e), NEW w \in Widget, NEW i \in 1 .. Len(e.allocated[w]),
           NEW f, f = FreeColors(e, w, i)
    PROVE  /\ Balanced(f) /\ SameMaps(e, f)
           /\ f.allocated[w] = RemoveAt(e.allocated[w], i)
           /\ \A y \in Widget : y # w => f.allocated[y] = e.allocated[y]
<1>1. PICK r : r = e.allocated[w][i]
  OBVIOUS
<1>2. /\ e.allocated[w] \in Seq(RangeType) /\ r \in RangeType /\ r.cmap \in DOMAIN e.cells
      /\ IsColours(e)
  BY <1>1, ElementOfSeq DEF Balanced, IsColours, RangesLive
<1>3. \A x \in r.cells \ {0} : Ranged(e.allocated, r.cmap, x)
  BY <1>1 DEF Ranged, InRange
<1>4. r.cells \subseteq Cell
  BY <1>2 DEF RangeType
<1>5. r.cells \ {0} \subseteq e.cells[r.cmap]
  BY <1>2, <1>3, <1>4 DEF Balanced, Accounted
<1>6. PICK s : s = e.cells[r.cmap] \ (r.cells \ {0})
  OBVIOUS
<1>7. s \subseteq Cell
  BY <1>2, <1>6 DEF IsColours
<1>8. PICK g : g = SetCells(e, r.cmap, s)
  OBVIOUS
<1>9. PICK l : l = RemoveAt(e.allocated[w], i)
  OBVIOUS
<1>10. /\ IsColours(g) /\ SameMaps(e, g) /\ g.allocated = e.allocated
       /\ g.cells[r.cmap] = s /\ \A n \in DOMAIN e.cells : n # r.cmap => g.cells[n] = e.cells[n]
  BY <1>2, <1>7, <1>8, CellsAssigned
<1>11. g = FreeCells(e, r.cmap, r.cells \ {0})
  BY <1>2, <1>5, <1>6, <1>8 DEF FreeCells, LiveColormaps, SetCells
<1>12. f = SetList(g, w, l)
  BY <1>1, <1>9, <1>10, <1>11 DEF FreeColors, SetList
<1>13. l \in Seq(RangeType)
  BY <1>2, <1>9, RemoveAtProperties
<1>14. /\ IsColours(f) /\ SameMaps(g, f) /\ f.cells = g.cells
       /\ f.allocated[w] = l /\ \A y \in Widget : y # w => f.allocated[y] = g.allocated[y]
  BY <1>10, <1>12, <1>13, ListAssigned
<1>15. SameMaps(e, f) /\ \A y \in Widget : y # w => f.allocated[y] = e.allocated[y]
  BY <1>10, <1>14 DEF SameMaps
<1>16. PICK a : a = f.allocated
  OBVIOUS
<1>17. Apart(e.allocated) /\ a[w] = RemoveAt(e.allocated[w], i) /\ \A y \in Widget : y # w => a[y] = e.allocated[y]
  BY <1>9, <1>14, <1>15, <1>16 DEF Balanced
<1>18. /\ Apart(a)
       /\ \A m \in AnyColormap, x \in Cell \ {0} :
            Ranged(a, m, x) <=> Ranged(e.allocated, m, x) /\ ~InRange(e.allocated[w][i], m, x)
       /\ \A j \in 1 .. Len(a[w]) : \E k \in 1 .. Len(e.allocated[w]) : a[w][j] = e.allocated[w][k]
  BY <1>2, <1>17, RangedAfterRemoval
<1>19. /\ f.stored = e.stored /\ DOMAIN f.cells = DOMAIN e.cells /\ DOMAIN e.cells \subseteq AnyColormap
  BY <1>2, <1>15 DEF SameMaps, IsColours
<1>20. \A m \in DOMAIN e.cells, x \in Cell \ {0} :
            x \in f.cells[m] <=> x \in e.cells[m] /\ ~InRange(r, m, x)
  BY <1>6, <1>10, <1>14 DEF InRange
<1>21. \A m, x : IsStored(f, m, x) <=> IsStored(e, m, x)
  BY <1>19 DEF IsStored
<1>22. Accounted(f)
  <2> SUFFICES ASSUME NEW m \in DOMAIN e.cells, NEW x \in Cell \ {0}
               PROVE  x \in f.cells[m] <=> IsStored(f, m, x) \/ Ranged(a, m, x)
    BY <1>16, <1>19 DEF Accounted
  <2>1. x \in e.cells[m] <=> IsStored(e, m, x) \/ Ranged(e.allocated, m, x)
    BY DEF Balanced, Accounted
  <2>2. ~(IsStored(e, m, x) /\ Ranged(e.allocated, m, x))
    BY DEF Balanced, Disjoint
  <2>3. Ranged(a, m, x) <=> Ranged(e.allocated, m, x) /\ ~InRange(r, m, x)
    BY <1>1, <1>18, <1>19
  <2>4. InRange(r, m, x) => Ranged(e.allocated, m, x)
    BY <1>1 DEF Ranged
  <2> QED BY <2>1, <2>2, <2>3, <2>4, <1>20, <1>21
<1>23. Disjoint(f)
  <2> SUFFICES ASSUME NEW m \in DOMAIN e.cells, NEW x \in Cell \ {0}
               PROVE  ~(IsStored(f, m, x) /\ Ranged(a, m, x))
    BY <1>16, <1>19 DEF Disjoint
  <2> QED BY <1>18, <1>19, <1>21 DEF Balanced, Disjoint
<1>24. RangesLive(f)
  BY SMTT(30), <1>15, <1>16, <1>18, <1>19 DEF Balanced, RangesLive
<1>25. StoredLive(f)
  <2> SUFFICES ASSUME NEW t \in e.stored
               PROVE  t.cmap \in DOMAIN e.cells /\ t.cell \in f.cells[t.cmap]
    BY <1>19 DEF StoredLive
  <2>1. /\ t \in StoredType /\ t.cmap \in DOMAIN e.cells /\ t.cell \in e.cells[t.cmap]
    BY <1>2 DEF Balanced, StoredLive, IsColours
  <2>2. t = [cmap |-> t.cmap, cell |-> t.cell] /\ t.cell \in Cell
    BY <2>1 DEF StoredType
  <2>3. IsStored(e, t.cmap, t.cell)
    BY <2>2 DEF IsStored
  <2>4. t.cell # 0 => ~Ranged(e.allocated, t.cmap, t.cell)
    BY <2>1, <2>2, <2>3 DEF Balanced, Disjoint
  <2>5. t.cell \in s \/ t.cmap # r.cmap
    BY <2>1, <2>4, <1>3, <1>6
  <2> QED BY <2>1, <2>5, <1>10, <1>14
<1> QED BY <1>9, <1>14, <1>15, <1>16, <1>18, <1>22, <1>23, <1>24, <1>25 DEF Balanced

-----------------------------------------------------------------------------
(* The walk along a list, and what is left when every range is freed, both *)
(* are defined: there are functions that satisfy their equations.          *)
Start(e) == [left |-> e, at |-> 1]
WalkStep(g, e, w, m, N) == [n \in 0 .. N |-> IF n = 0 THEN Start(e) ELSE Visited(g[n - 1], w, m)]
FreedStep(g, e, w, N) == [n \in 0 .. N |-> IF n = 0 THEN e ELSE FreeColors(g[n - 1], w, 1)]

(* The walk, ...                                                            *)
LEMMA WalkExists ==
    ASSUME NEW e, NEW w, NEW m, NEW N \in Nat
    PROVE  \E g : g = WalkStep(g, e, w, m, N)
<1> DEFINE T == {n \in Nat : \E g : g = WalkStep(g, e, w, m, n)}
<1>1. 0 \in T
  <2> DEFINE g == [n \in 0 .. 0 |-> Start(e)]
  <2>1. g = WalkStep(g, e, w, m, 0)
    BY DEF WalkStep
  <2> QED BY <2>1
<1>2. ASSUME NEW n \in Nat, n \in T
      PROVE  n + 1 \in T
  <2>1. PICK g : g = WalkStep(g, e, w, m, n)
    BY <1>2
  <2>2. PICK next : next = Visited(g[n], w, m)
    OBVIOUS
  <2>3. PICK h : h = [i \in 0 .. n + 1 |-> IF i = n + 1 THEN next ELSE g[i]]
    OBVIOUS
  <2>4. ASSUME NEW i \in 0 .. n + 1
        PROVE  h[i] = IF i = 0 THEN Start(e) ELSE Visited(h[i - 1], w, m)
    <3>1. CASE i = n + 1
      <4>1. h[i] = next /\ i # 0 /\ h[i - 1] = g[n]
        BY <3>1, <2>3
      <4> QED BY <4>1, <2>2
    <3>2. CASE i \in 1 .. n
      <4>1. h[i] = g[i] /\ i # 0 /\ h[i - 1] = g[i - 1] /\ i \in 0 .. n
        BY <3>2, <2>3
      <4>2. g[i] = Visited(g[i - 1], w, m)
        BY <4>1, <2>1 DEF WalkStep
      <4> QED BY <4>1, <4>2
    <3>3. CASE i = 0
      <4>1. h[0] = g[0] /\ 0 \in 0 .. n
        BY <2>3
      <4>2. g[0] = Start(e)
        BY <4>1, <2>1 DEF WalkStep
      <4> QED BY <3>3, <4>1, <4>2
    <3> QED BY <3>1, <3>2, <3>3
  <2>5. h = WalkStep(h, e, w, m, n + 1)
    BY <2>3, <2>4 DEF WalkStep
  <2> QED BY <2>5
<1>3. N \in T
  <2> HIDE DEF T
  <2> QED BY <1>1, <1>2, NatSetInduction
<1> QED BY <1>3

(* ... and the loop of Destroy.                                             *)
LEMMA FreedExists ==
    ASSUME NEW e, NEW w, NEW N \in Nat
    PROVE  \E g : g = FreedStep(g, e, w, N)
<1> DEFINE T == {n \in Nat : \E g : g = FreedStep(g, e, w, n)}
<1>1. 0 \in T
  <2> DEFINE g == [n \in 0 .. 0 |-> e]
  <2>1. g = FreedStep(g, e, w, 0)
    BY DEF FreedStep
  <2> QED BY <2>1
<1>2. ASSUME NEW n \in Nat, n \in T
      PROVE  n + 1 \in T
  <2>1. PICK g : g = FreedStep(g, e, w, n)
    BY <1>2
  <2>2. PICK next : next = FreeColors(g[n], w, 1)
    OBVIOUS
  <2>3. PICK h : h = [i \in 0 .. n + 1 |-> IF i = n + 1 THEN next ELSE g[i]]
    OBVIOUS
  <2>4. ASSUME NEW i \in 0 .. n + 1
        PROVE  h[i] = IF i = 0 THEN e ELSE FreeColors(h[i - 1], w, 1)
    <3>1. CASE i = n + 1
      <4>1. h[i] = next /\ i # 0 /\ h[i - 1] = g[n]
        BY <3>1, <2>3
      <4> QED BY <4>1, <2>2
    <3>2. CASE i \in 1 .. n
      <4>1. h[i] = g[i] /\ i # 0 /\ h[i - 1] = g[i - 1] /\ i \in 0 .. n
        BY <3>2, <2>3
      <4>2. g[i] = FreeColors(g[i - 1], w, 1)
        BY <4>1, <2>1 DEF FreedStep
      <4> QED BY <4>1, <4>2
    <3>3. CASE i = 0
      <4>1. h[0] = g[0] /\ 0 \in 0 .. n
        BY <2>3
      <4>2. g[0] = e
        BY <4>1, <2>1 DEF FreedStep
      <4> QED BY <3>3, <4>1, <4>2
    <3> QED BY <3>1, <3>2, <3>3
  <2>5. h = FreedStep(h, e, w, n + 1)
    BY <2>3, <2>4 DEF FreedStep
  <2> QED BY <2>5
<1>3. N \in T
  <2> HIDE DEF T
  <2> QED BY <1>1, <1>2, NatSetInduction
<1> QED BY <1>3

(* Some of the ranges of w are freed, and nothing else is changed.         *)
IsOneOf(f, e, w, j) == \E k \in 1 .. Len(e.allocated[w]) : f.allocated[w][j] = e.allocated[w][k]
Freed(e, f, w) ==
    /\ Balanced(f) /\ SameMaps(e, f)
    /\ \A y \in Widget : y # w => f.allocated[y] = e.allocated[y]
    /\ \A j \in 1 .. Len(f.allocated[w]) : IsOneOf(f, e, w, j)

(* One more is freed.                                                       *)
LEMMA FreedOne ==
    ASSUME NEW e, NEW f, NEW w \in Widget, Freed(e, f, w), NEW i \in 1 .. Len(f.allocated[w]),
           NEW g, g = FreeColors(f, w, i)
    PROVE  Freed(e, g, w) /\ g.allocated[w] = RemoveAt(f.allocated[w], i)
<1>1. /\ Balanced(g) /\ SameMaps(f, g) /\ g.allocated[w] = RemoveAt(f.allocated[w], i)
      /\ \A y \in Widget : y # w => g.allocated[y] = f.allocated[y]
  BY FreeColorsBalanced DEF Freed
<1>2. SameMaps(e, g) /\ \A y \in Widget : y # w => g.allocated[y] = e.allocated[y]
  BY <1>1 DEF Freed, SameMaps
<1>3. PICK s : s = f.allocated[w]
  OBVIOUS
<1>4. s \in Seq(RangeType) /\ Len(s) \in Nat /\ i \in 1 .. Len(s)
  BY <1>3, LenProperties DEF Freed, Balanced, IsColours
<1>5. /\ Len(RemoveAt(s, i)) = Len(s) - 1
      /\ \A k \in 1 .. Len(s) - 1 : RemoveAt(s, i)[k] = IF k < i THEN s[k] ELSE s[k + 1]
  BY <1>4, RemoveAtProperties
<1>6. ASSUME NEW j \in 1 .. Len(g.allocated[w])
      PROVE  IsOneOf(g, e, w, j)
  <2>1. j \in 1 .. Len(s) - 1
    BY <1>1, <1>3, <1>5
  <2>2. PICK k \in 1 .. Len(s) : g.allocated[w][j] = s[k]
    <3>1. j \in 1 .. Len(s) /\ j + 1 \in 1 .. Len(s)
      BY <2>1, <1>4
    <3> QED BY <2>1, <3>1, <1>1, <1>3, <1>5
  <2>3. IsOneOf(f, e, w, k)
    BY <1>3 DEF Freed
  <2> QED BY <2>2, <2>3, <1>3 DEF IsOneOf
<1> QED BY <1>1, <1>2, <1>6 DEF Freed

(* Before the first is.                                                     *)
LEMMA FreedNone ==
    ASSUME NEW e, Balanced(e), NEW w \in Widget
    PROVE  Freed(e, e, w) /\ e.allocated[w] \in Seq(RangeType) /\ Len(e.allocated[w]) \in Nat
<1>1. e.allocated[w] \in Seq(RangeType) /\ Len(e.allocated[w]) \in Nat
  BY LenProperties DEF Balanced, IsColours
<1> QED BY <1>1 DEF Freed, SameMaps, IsOneOf

(* How far the walk has come after n ranges: those behind it are of other  *)
(* colormaps than m.                                                       *)
OnTheWalk(s, e, w, m, n) ==
    /\ Freed(e, s.left, w)
    /\ s.at \in Nat \ {0}
    /\ Len(s.left.allocated[w]) = Len(e.allocated[w]) - n + s.at - 1
    /\ \A j \in 1 .. s.at - 1 : s.left.allocated[w][j].cmap # m

(* The walk visits one range.                                               *)
LEMMA OneVisited ==
    ASSUME NEW e, Balanced(e), NEW w \in Widget, NEW m, NEW n \in Nat, n < Len(e.allocated[w]),
           NEW s, OnTheWalk(s, e, w, m, n)
    PROVE  OnTheWalk(Visited(s, w, m), e, w, m, n + 1)
<1>1. PICK f, at : f = s.left /\ at = s.at
  OBVIOUS
<1>2. PICK l, N : l = f.allocated[w] /\ N = Len(e.allocated[w])
  OBVIOUS
<1>3. Freed(e, f, w) /\ at \in Nat \ {0} /\ Len(l) = N - n + at - 1 /\ \A j \in 1 .. at - 1 : l[j].cmap # m
  BY <1>1, <1>2 DEF OnTheWalk
<1>4. N \in Nat /\ n < N /\ l \in Seq(RangeType) /\ Len(l) \in Nat
  BY <1>2, <1>3, FreedNone DEF Freed
<1>5. at \in 1 .. Len(l)
  BY <1>3, <1>4
<1>6. CASE l[at].cmap = m
  <2>1. PICK g : g = FreeColors(f, w, at)
    OBVIOUS
  <2>2. Freed(e, g, w) /\ g.allocated[w] = RemoveAt(l, at)
    <3>1. at \in 1 .. Len(f.allocated[w]) /\ Freed(e, f, w)
      BY <1>2, <1>3, <1>5
    <3>2. Freed(e, g, w) /\ g.allocated[w] = RemoveAt(f.allocated[w], at)
      BY <2>1, <3>1, FreedOne
    <3> QED BY <3>2, <1>2
  <2>3. /\ Len(RemoveAt(l, at)) = Len(l) - 1
        /\ \A k \in 1 .. Len(l) - 1 : RemoveAt(l, at)[k] = IF k < at THEN l[k] ELSE l[k + 1]
    BY <1>4, <1>5, RemoveAtProperties
  <2>4. Len(g.allocated[w]) = N - (n + 1) + at - 1
    BY <2>2, <2>3, <1>3, <1>4
  <2>5. ASSUME NEW j \in 1 .. at - 1
        PROVE  g.allocated[w][j].cmap # m
    <3>1. j \in 1 .. Len(l) - 1 /\ j < at
      BY <1>3, <1>4, <1>5
    <3> QED BY <3>1, <2>2, <2>3, <1>3
  <2>6. PICK v : v = [left |-> g, at |-> at]
    OBVIOUS
  <2>7. Visited(s, w, m) = v
    BY <2>1, <2>6, <1>1, <1>2, <1>6 DEF Visited
  <2>8. v.left = g /\ v.at = at
    BY <2>6
  <2> QED BY <2>2, <2>4, <2>5, <2>7, <2>8, <1>2, <1>3 DEF OnTheWalk
<1>7. CASE l[at].cmap # m
  <2>1. PICK v : v = [left |-> f, at |-> at + 1]
    OBVIOUS
  <2>2. Visited(s, w, m) = v
    BY <2>1, <1>1, <1>2, <1>7 DEF Visited
  <2>3. v.left = f /\ v.at = at + 1
    BY <2>1
  <2>4. at + 1 \in Nat \ {0} /\ Len(l) = N - (n + 1) + (at + 1) - 1
    BY <1>3, <1>4
  <2>5. ASSUME NEW j \in 1 .. (at + 1) - 1
        PROVE  l[j].cmap # m
    <3>1. j \in 1 .. at - 1 \/ j = at
      BY <1>3
    <3> QED BY <3>1, <1>3, <1>7
  <2> QED BY <2>2, <2>3, <2>4, <2>5, <1>2, <1>3 DEF OnTheWalk
<1> QED BY <1>6, <1>7

(* _XpwFreeColormap's loop frees all the ranges of the colormap.           *)
LEMMA FreeColorsOfDone ==
    ASSUME NEW e, Balanced(e), NEW w \in Widget, NEW m, NEW f, f = FreeColorsOf(e, w, m)
    PROVE  /\ Freed(e, f, w)
           /\ \A j \in 1 .. Len(f.allocated[w]) : f.allocated[w][j].cmap # m
<1>1. PICK N : N = Len(e.allocated[w])
  OBVIOUS
<1>2. N \in Nat /\ Freed(e, e, w)
  BY <1>1, FreedNone
<1> DEFINE walk == CHOOSE g : g = WalkStep(g, e, w, m, N)
<1>3. walk = WalkStep(walk, e, w, m, N)
  BY <1>2, WalkExists
<1>4. f = walk[N].left
  BY <1>1 DEF FreeColorsOf, WalkStep, Start
<1> HIDE DEF walk
<1>5. walk[0] = Start(e) /\ \A n \in 1 .. N : walk[n] = Visited(walk[n - 1], w, m)
  <2>1. ASSUME NEW n \in 0 .. N
        PROVE  walk[n] = IF n = 0 THEN Start(e) ELSE Visited(walk[n - 1], w, m)
    BY <1>3 DEF WalkStep
  <2> QED BY <2>1, <1>2
<1>6. OnTheWalk(walk[0], e, w, m, 0)
  <2>1. walk[0].left = e /\ walk[0].at = 1
    BY <1>5 DEF Start
  <2>2. Len(e.allocated[w]) = Len(e.allocated[w]) - 0 + 1 - 1
    BY <1>1, <1>2
  <2> QED BY <2>1, <2>2, <1>2 DEF OnTheWalk
<1>7. ASSUME NEW n \in Nat, n < N, OnTheWalk(walk[n], e, w, m, n)
      PROVE  OnTheWalk(walk[n + 1], e, w, m, n + 1)
  <2>1. OnTheWalk(Visited(walk[n], w, m), e, w, m, n + 1)
    BY <1>1, <1>7, OneVisited
  <2>2. n + 1 \in 1 .. N /\ (n + 1) - 1 = n
    BY <1>2, <1>7
  <2> QED BY <2>1, <2>2, <1>5
<1>8. OnTheWalk(walk[N], e, w, m, N)
  <2> DEFINE T == {n \in Nat : n <= N => OnTheWalk(walk[n], e, w, m, n)}
  <2>1. 0 \in T
    BY <1>6
  <2>2. \A n \in Nat : n \in T => n + 1 \in T
    BY <1>2, <1>7
  <2>3. Nat \subseteq T
    <3> HIDE DEF T
    <3> QED BY <2>1, <2>2, NatSetInduction
  <2> QED BY <2>3, <1>2
<1>9. PICK at : at = walk[N].at
  OBVIOUS
<1>10. /\ Freed(e, f, w) /\ at \in Nat /\ Len(f.allocated[w]) = N - N + at - 1
       /\ \A j \in 1 .. at - 1 : f.allocated[w][j].cmap # m
  BY <1>1, <1>4, <1>8, <1>9 DEF OnTheWalk
<1>11. Len(f.allocated[w]) = at - 1
  BY <1>2, <1>10
<1> QED BY <1>10, <1>11

(* Destroy frees all the ranges.                                           *)
LEMMA FreeAllColorsDone ==
    ASSUME NEW e, Balanced(e), NEW w \in Widget, NEW f, f = FreeAllColors(e, w)
    PROVE  Freed(e, f, w) /\ Len(f.allocated[w]) = 0
<1>1. PICK N : N = Len(e.allocated[w])
  OBVIOUS
<1>2. N \in Nat /\ Freed(e, e, w)
  BY <1>1, FreedNone
<1> DEFINE freed == CHOOSE g : g = FreedStep(g, e, w, N)
<1>3. freed = FreedStep(freed, e, w, N)
  BY <1>2, FreedExists
<1>4. f = freed[N]
  BY <1>1 DEF FreeAllColors, FreedStep
<1> HIDE DEF freed
<1>5. freed[0] = e /\ \A n \in 1 .. N : freed[n] = FreeColors(freed[n - 1], w, 1)
  <2>1. ASSUME NEW n \in 0 .. N
        PROVE  freed[n] = IF n = 0 THEN e ELSE FreeColors(freed[n - 1], w, 1)
    BY <1>3 DEF FreedStep
  <2> QED BY <2>1, <1>2
<1>6. ASSUME NEW n \in Nat, n < N, Freed(e, freed[n], w), Len(freed[n].allocated[w]) = N - n
      PROVE  Freed(e, freed[n + 1], w) /\ Len(freed[n + 1].allocated[w]) = N - (n + 1)
  <2>1. PICK v, s : v = freed[n] /\ s = v.allocated[w]
    OBVIOUS
  <2>2. Balanced(v) /\ Freed(e, v, w) /\ 1 \in 1 .. Len(v.allocated[w])
    BY <2>1, <1>2, <1>6 DEF Freed
  <2>3. PICK g : g = FreeColors(v, w, 1)
    OBVIOUS
  <2>4. Freed(e, g, w) /\ g.allocated[w] = RemoveAt(v.allocated[w], 1)
    BY <2>2, <2>3, FreedOne
  <2>5. s \in Seq(RangeType) /\ Len(s) \in Nat /\ 1 \in 1 .. Len(s)
    BY <2>1, <2>2, FreedNone
  <2>6. Len(RemoveAt(s, 1)) = Len(s) - 1
    BY <2>5, RemoveAtProperties
  <2>7. n + 1 \in 1 .. N /\ (n + 1) - 1 = n
    BY <1>2, <1>6
  <2>8. freed[n + 1] = g
    BY <2>1, <2>3, <2>7, <1>5
  <2> QED BY <2>1, <2>4, <2>6, <2>8, <1>2, <1>6
<1>7. Freed(e, freed[N], w) /\ Len(freed[N].allocated[w]) = N - N
  <2> DEFINE T == {n \in Nat : n <= N => Freed(e, freed[n], w) /\ Len(freed[n].allocated[w]) = N - n}
  <2>1. 0 \in T
    BY <1>1, <1>2, <1>5
  <2>2. \A n \in Nat : n \in T => n + 1 \in T
    BY <1>2, <1>6
  <2>3. Nat \subseteq T
    <3> HIDE DEF T
    <3> QED BY <2>1, <2>2, NatSetInduction
  <2> QED BY <2>3, <1>2
<1> QED BY <1>2, <1>4, <1>7

-----------------------------------------------------------------------------
(* The colormaps. *)

(* The books are balanced as long as they are the same. *)
LEMMA SameBooks ==
    ASSUME NEW e, Balanced(e), NEW f, IsColours(f),
           f.allocated = e.allocated, f.cells = e.cells, f.stored = e.stored
    PROVE  Balanced(f)
  BY DEF Balanced, RangesLive, StoredLive, Accounted, Disjoint, IsStored

SetWindow(e, w, m) == [e EXCEPT !.window[w] = m]
SetMap(e, w, m) == [e EXCEPT !.colormap[w] = m]
AddMap(e, m) == [e EXCEPT !.cells = With(@, m, {})]
SetMapAndWindow(e, w, m, n) == [e EXCEPT !.colormap[w] = m, !.window[w] = n]

(* The colormap of a window, ...                                            *)
LEMMA WindowAssigned ==
    ASSUME NEW e, Balanced(e), NEW w \in Widget, NEW m \in AnyColormap \cup {NoWindow},
           NEW f, f = SetWindow(e, w, m)
    PROVE  /\ Balanced(f) /\ f.window[w] = m /\ \A y \in Widget : y # w => f.window[y] = e.window[y]
           /\ f.colormap = e.colormap /\ f.allocated = e.allocated /\ f.cells = e.cells
<1>1. IsColours(e)
  BY DEF Balanced
<1>2. f = [x \in ColourFields |-> IF x = "window" THEN [e.window EXCEPT ![w] = m] ELSE e[x]]
  BY <1>1 DEF IsColours, ColourFields, SetWindow
<1>3. /\ f.window = [e.window EXCEPT ![w] = m] /\ f.colormap = e.colormap
      /\ f.allocated = e.allocated /\ f.cells = e.cells /\ f.stored = e.stored /\ f.bad = e.bad
      /\ f = [x \in ColourFields |-> f[x]]
  BY <1>2 DEF ColourFields
<1>4. /\ f.window \in [Widget -> AnyColormap \cup {NoWindow}]
      /\ f.window[w] = m /\ \A y \in Widget : y # w => f.window[y] = e.window[y]
  BY <1>1, <1>3 DEF IsColours
<1>5. IsColours(f)
  BY <1>1, <1>3, <1>4 DEF IsColours
<1> QED BY <1>3, <1>4, <1>5, SameBooks

(* ... or of a widget, is assigned.                                         *)
LEMMA MapAssigned ==
    ASSUME NEW e, Balanced(e), NEW w \in Widget, NEW m \in AnyColormap,
           NEW f, f = SetMap(e, w, m)
    PROVE  /\ Balanced(f) /\ f.colormap[w] = m /\ \A y \in Widget : y # w => f.colormap[y] = e.colormap[y]
           /\ f.window = e.window /\ f.allocated = e.allocated /\ f.cells = e.cells
<1>1. IsColours(e)
  BY DEF Balanced
<1>2. f = [x \in ColourFields |-> IF x = "colormap" THEN [e.colormap EXCEPT ![w] = m] ELSE e[x]]
  BY <1>1 DEF IsColours, ColourFields, SetMap
<1>3. /\ f.colormap = [e.colormap EXCEPT ![w] = m] /\ f.window = e.window
      /\ f.allocated = e.allocated /\ f.cells = e.cells /\ f.stored = e.stored /\ f.bad = e.bad
      /\ f = [x \in ColourFields |-> f[x]]
  BY <1>2 DEF ColourFields
<1>4. /\ f.colormap \in [Widget -> AnyColormap]
      /\ f.colormap[w] = m /\ \A y \in Widget : y # w => f.colormap[y] = e.colormap[y]
  BY <1>1, <1>3 DEF IsColours
<1>5. IsColours(f)
  BY <1>1, <1>3, <1>4 DEF IsColours
<1> QED BY <1>3, <1>4, <1>5, SameBooks

(* A colormap that is new has no cells.                                    *)
LEMMA MapAdded ==
    ASSUME NEW e, Balanced(e), NEW m \in AnyColormap, m \notin DOMAIN e.cells,
           NEW f, f = AddMap(e, m)
    PROVE  /\ Balanced(f) /\ DOMAIN f.cells = DOMAIN e.cells \cup {m}
           /\ f.colormap = e.colormap /\ f.window = e.window /\ f.allocated = e.allocated
<1>1. IsColours(e)
  BY DEF Balanced
<1>2. f = [x \in ColourFields |-> IF x = "cells" THEN With(e.cells, m, {}) ELSE e[x]]
  BY <1>1 DEF IsColours, ColourFields, AddMap
<1>3. /\ f.cells = With(e.cells, m, {}) /\ f.colormap = e.colormap /\ f.window = e.window
      /\ f.allocated = e.allocated /\ f.stored = e.stored /\ f.bad = e.bad
      /\ f = [x \in ColourFields |-> f[x]]
  BY <1>2 DEF ColourFields
<1>4. /\ DOMAIN f.cells = DOMAIN e.cells \cup {m} /\ f.cells = [n \in DOMAIN f.cells |-> f.cells[n]]
      /\ f.cells[m] = {} /\ \A n \in DOMAIN e.cells : f.cells[n] = e.cells[n]
  BY <1>3 DEF With
<1>5. IsColours(f)
  <2>1. \A n \in DOMAIN f.cells : n \in AnyColormap /\ f.cells[n] \subseteq Cell
    BY <1>1, <1>4 DEF IsColours
  <2> QED BY <2>1, <1>1, <1>3, <1>4 DEF IsColours
<1>6. \A x : ~Ranged(f.allocated, m, x) /\ ~IsStored(f, m, x)
  BY <1>3 DEF Balanced, RangesLive, StoredLive, Ranged, InRange, IsStored
<1>7. \A n, x : IsStored(f, n, x) <=> IsStored(e, n, x)
  BY <1>3 DEF IsStored
<1>8. Accounted(f) /\ Disjoint(f)
  <2> SUFFICES ASSUME NEW n \in DOMAIN f.cells, NEW x \in Cell \ {0}
               PROVE  /\ x \in f.cells[n] <=> IsStored(f, n, x) \/ Ranged(f.allocated, n, x)
                      /\ ~(IsStored(f, n, x) /\ Ranged(f.allocated, n, x))
    BY DEF Accounted, Disjoint
  <2>1. CASE n = m
    BY <2>1, <1>4, <1>6
  <2>2. CASE n # m
    <3>1. n \in DOMAIN e.cells
      BY <2>2, <1>4
    <3> QED BY <3>1, <1>3, <1>4, <1>7 DEF Balanced, Accounted, Disjoint
  <2> QED BY <2>1, <2>2
<1>9. RangesLive(f)
  BY <1>3, <1>4 DEF Balanced, RangesLive
<1>10. StoredLive(f)
  BY <1>3, <1>4 DEF Balanced, StoredLive
<1> QED BY <1>3, <1>4, <1>5, <1>8, <1>9, <1>10 DEF Balanced

(* A colormap that no range is from can be freed.                          *)
NoRangeOf(e, m) == \A w \in Widget : \A i \in 1 .. Len(e.allocated[w]) : e.allocated[w][i].cmap # m

(* XFreeColormap of such a one.                                             *)
LEMMA MapFreed ==
    ASSUME NEW e, Balanced(e), NEW m \in DOMAIN e.cells, NoRangeOf(e, m),
           NEW f, f = XFreeColormap(e, m)
    PROVE  /\ Balanced(f) /\ DOMAIN f.cells = DOMAIN e.cells \ {m}
           /\ f.colormap = e.colormap /\ f.window = e.window /\ f.allocated = e.allocated
<1>1. IsColours(e)
  BY DEF Balanced
<1>2. PICK kept : kept = {s \in e.stored : s.cmap # m}
  OBVIOUS
<1>3. f = [e EXCEPT !.cells = Without(@, m), !.stored = kept]
  BY <1>2 DEF XFreeColormap, LiveColormaps
<1>4. f = [x \in ColourFields |-> IF x = "cells" THEN Without(e.cells, m)
                                  ELSE IF x = "stored" THEN kept ELSE e[x]]
  BY <1>1, <1>3 DEF IsColours, ColourFields
<1>5. /\ f.cells = Without(e.cells, m) /\ f.colormap = e.colormap /\ f.window = e.window
      /\ f.allocated = e.allocated /\ f.stored = kept /\ f.bad = e.bad
      /\ f = [x \in ColourFields |-> f[x]]
  BY <1>4 DEF ColourFields
<1>6. /\ DOMAIN f.cells = DOMAIN e.cells \ {m} /\ f.cells = [n \in DOMAIN f.cells |-> f.cells[n]]
      /\ \A n \in DOMAIN e.cells \ {m} : f.cells[n] = e.cells[n]
  BY <1>5 DEF Without
<1>7. IsColours(f)
  <2>1. \A n \in DOMAIN f.cells : n \in AnyColormap /\ f.cells[n] \subseteq Cell
    BY <1>1, <1>6 DEF IsColours
  <2>2. f.stored \subseteq StoredType
    BY <1>1, <1>2, <1>5 DEF IsColours
  <2> QED BY <2>1, <2>2, <1>1, <1>5, <1>6 DEF IsColours
<1>8. \A n, x : n # m => (IsStored(f, n, x) <=> IsStored(e, n, x))
  BY <1>2, <1>5 DEF IsStored
<1>9. Accounted(f) /\ Disjoint(f)
  <2> SUFFICES ASSUME NEW n \in DOMAIN e.cells \ {m}, NEW x \in Cell \ {0}
               PROVE  /\ x \in f.cells[n] <=> IsStored(f, n, x) \/ Ranged(f.allocated, n, x)
                      /\ ~(IsStored(f, n, x) /\ Ranged(f.allocated, n, x))
    BY <1>6 DEF Accounted, Disjoint
  <2> QED BY <1>5, <1>6, <1>8 DEF Balanced, Accounted, Disjoint
<1>10. RangesLive(f)
  BY <1>5, <1>6 DEF Balanced, RangesLive, NoRangeOf
<1>11. StoredLive(f)
  BY <1>2, <1>5, <1>6 DEF Balanced, StoredLive
<1> QED BY <1>5, <1>6, <1>7, <1>9, <1>10, <1>11 DEF Balanced

-----------------------------------------------------------------------------
(* The colours in order: ColoursSound, and what it rests on. *)
OwnRanges(e, w) ==
    \A i \in 1 .. Len(e.allocated[w]) : e.allocated[w][i].cmap \in {DefaultColormap, e.colormap[w]}
MapsLive(e) == DOMAIN e.cells = {DefaultColormap} \cup {e.colormap[w] : w \in Widget}
MapsPrivate(e) ==
    \A w, y \in Widget : e.colormap[w] = e.colormap[y] => w = y \/ e.colormap[w] = DefaultColormap
WindowsHaveMaps(e) ==
    \A w \in Widget : e.window[w] # NoWindow => e.window[w] = e.colormap[w]

ColoursInOrder(e) ==
    /\ Balanced(e) /\ MapsLive(e) /\ MapsPrivate(e) /\ WindowsHaveMaps(e)
    /\ \A w \in Widget : OwnRanges(e, w)

(* A widget that gets no window, and no other does.                        *)
KeepsWindows(e, f) == \A w \in Widget : f.window[w] # NoWindow <=> e.window[w] # NoWindow

(* There is room for a colormap beside those of the widgets.               *)
LEMMA FreshColormapIsFresh ==
    ASSUME NEW e, IsColours(e), MapsLive(e)
    PROVE  FreshColormap(e) \in Colormap /\ FreshColormap(e) \notin DOMAIN e.cells
<1> DEFINE S == DOMAIN e.cells \cap Colormap
<1>1. \A m \in S : \E w \in Widget : e.colormap[w] = m
  BY ColormapAssumption DEF MapsLive
<1>2. S \subseteq Colormap
  OBVIOUS
<1> HIDE DEF S
<1>3. PICK g : g = e.colormap
  OBVIOUS
<1>4. \A m \in S : \E w \in Widget : g[w] = m
  BY <1>1, <1>3
<1>5. IsFiniteSet(S) /\ Cardinality(S) <= Cardinality(Widget)
  BY <1>4, ClassAssumption, NamedCardinality
<1>6. \E m \in Colormap : m \notin S
  BY <1>2, <1>5, ColormapAssumption
<1>7. \E m \in Colormap : m \notin DOMAIN e.cells
  BY <1>6 DEF S
<1> QED BY <1>7 DEF FreshColormap, LiveColormaps

(* Nobody else has ranges of a private colormap.                           *)
LEMMA PrivateRanges ==
    ASSUME NEW e, ColoursInOrder(e), NEW w \in Widget, Private(e, w), NEW f, Freed(e, f, w),
           \A j \in 1 .. Len(f.allocated[w]) : f.allocated[w][j].cmap # e.colormap[w]
    PROVE  NoRangeOf(f, e.colormap[w])
<1> SUFFICES ASSUME NEW y \in Widget, y # w, NEW i \in 1 .. Len(f.allocated[y])
             PROVE  f.allocated[y][i].cmap # e.colormap[w]
  BY DEF NoRangeOf
<1>1. f.allocated[y] = e.allocated[y]
  BY DEF Freed
<1>2. f.allocated[y][i].cmap \in {DefaultColormap, e.colormap[y]}
  BY <1>1 DEF ColoursInOrder, OwnRanges
<1>3. e.colormap[y] # e.colormap[w]
  BY DEF ColoursInOrder, MapsPrivate, Private
<1> QED BY <1>2, <1>3 DEF Private

(* The ranges that are left are still of colormaps of their widget.        *)
LEMMA RangesLeft ==
    ASSUME NEW e, ColoursInOrder(e), NEW w \in Widget, NEW f, Freed(e, f, w)
    PROVE  /\ \A y \in Widget : OwnRanges(f, y)
           /\ DOMAIN f.cells = DOMAIN e.cells /\ f.colormap = e.colormap /\ f.window = e.window
           /\ Balanced(f)
<1>1. /\ DOMAIN f.cells = DOMAIN e.cells /\ f.colormap = e.colormap /\ f.window = e.window
      /\ Balanced(f)
  BY DEF Freed, SameMaps
<1>2. ASSUME NEW y \in Widget
      PROVE  OwnRanges(f, y)
  <2>1. CASE y = w
    BY <2>1, <1>1 DEF Freed, IsOneOf, OwnRanges, ColoursInOrder
  <2>2. CASE y # w
    BY <2>2, <1>1 DEF Freed, OwnRanges, ColoursInOrder
  <2> QED BY <2>1, <2>2
<1> QED BY <1>1, <1>2

(* So the colours are still in order.                                       *)
LEMMA LeftInOrder ==
    ASSUME NEW e, ColoursInOrder(e), NEW w \in Widget, NEW f, Freed(e, f, w)
    PROVE  ColoursInOrder(f) /\ f.window = e.window
<1>1. /\ \A y \in Widget : OwnRanges(f, y)
      /\ DOMAIN f.cells = DOMAIN e.cells /\ f.colormap = e.colormap /\ f.window = e.window
      /\ Balanced(f)
  BY RangesLeft
<1> QED BY <1>1 DEF ColoursInOrder, MapsLive, MapsPrivate, WindowsHaveMaps

(* The colormaps when w has m, and the other widgets have what they had.   *)
MapsWith(e, w, m) == {DefaultColormap, m} \cup {e.colormap[y] : y \in Widget \ {w}}
NobodyElses(e, w, m) == m = DefaultColormap \/ \A y \in Widget : y # w => e.colormap[y] # m

(* They are those there are, but for the private one of w, ...              *)
LEMMA MapsWithout ==
    ASSUME NEW e, ColoursInOrder(e), NEW w \in Widget, Private(e, w)
    PROVE  /\ DOMAIN e.cells \ {e.colormap[w]} = MapsWith(e, w, DefaultColormap)
           /\ e.colormap[w] \in DOMAIN e.cells /\ DefaultColormap \in DOMAIN e.cells \ {e.colormap[w]}
<1>1. /\ DOMAIN e.cells = {DefaultColormap} \cup {e.colormap[y] : y \in Widget}
      /\ e.colormap[w] # DefaultColormap
      /\ \A y \in Widget : y # w => e.colormap[y] # e.colormap[w]
  BY DEF ColoursInOrder, MapsLive, MapsPrivate, Private
<1>2. \A m : m \in DOMAIN e.cells \ {e.colormap[w]} <=> m \in MapsWith(e, w, DefaultColormap)
  BY <1>1 DEF MapsWith
<1> QED BY <1>1, <1>2

(* ... or those there are and a new one.                                    *)
LEMMA MapsAndOne ==
    ASSUME NEW e, ColoursInOrder(e), NEW w \in Widget, ~Private(e, w), NEW m, m \notin DOMAIN e.cells
    PROVE  /\ DOMAIN e.cells \cup {m} = MapsWith(e, w, m)
           /\ NobodyElses(e, w, m) /\ DefaultColormap \in DOMAIN e.cells
<1>1. /\ DOMAIN e.cells = {DefaultColormap} \cup {e.colormap[y] : y \in Widget}
      /\ e.colormap[w] = DefaultColormap
  BY DEF ColoursInOrder, MapsLive, Private
<1>2. \A n : n \in DOMAIN e.cells \cup {m} <=> n \in MapsWith(e, w, m)
  BY <1>1 DEF MapsWith
<1>3. NobodyElses(e, w, m)
  BY <1>1 DEF NobodyElses
<1> QED BY <1>1, <1>2, <1>3

(* One widget gets another colormap, and the colours are left in order.    *)
LEMMA SwitchedInOrder ==
    ASSUME NEW e, ColoursInOrder(e), NEW w \in Widget, NEW m, NobodyElses(e, w, m),
           NEW f, Balanced(f), f.colormap[w] = m, DOMAIN f.cells = MapsWith(e, w, m),
           \A y \in Widget : y # w => f.colormap[y] = e.colormap[y],
           \A y \in Widget : y # w => f.window[y] = e.window[y],
           \A y \in Widget : y # w => f.allocated[y] = e.allocated[y],
           f.window[w] = m \/ f.window[w] = NoWindow, OwnRanges(f, w)
    PROVE  ColoursInOrder(f)
<1>1. MapsLive(f)
  <2>1. \A n : n \in MapsWith(e, w, m) <=> n \in {DefaultColormap} \cup {f.colormap[y] : y \in Widget}
    BY DEF MapsWith
  <2> QED BY <2>1 DEF MapsLive
<1>2. MapsPrivate(f)
  <2> SUFFICES ASSUME NEW y \in Widget, NEW z \in Widget, f.colormap[y] = f.colormap[z],
                      y # z, f.colormap[y] # DefaultColormap
               PROVE  FALSE
    BY DEF MapsPrivate
  <2>1. CASE y # w /\ z # w
    BY <2>1 DEF ColoursInOrder, MapsPrivate
  <2>2. CASE y = w \/ z = w
    BY <2>2 DEF NobodyElses
  <2> QED BY <2>1, <2>2
<1>3. WindowsHaveMaps(f)
  BY DEF WindowsHaveMaps, ColoursInOrder
<1>4. ASSUME NEW y \in Widget, y # w
      PROVE  OwnRanges(f, y)
  BY <1>4 DEF OwnRanges, ColoursInOrder
<1> QED BY <1>1, <1>2, <1>3, <1>4 DEF ColoursInOrder

(* XSetWindowColormap of a window that exists. *)
LEMMA WindowSet ==
    ASSUME NEW e, NEW w, NEW m \in DOMAIN e.cells, e.window[w] # NoWindow
    PROVE  SetWindowColormap(e, w, m) = SetWindow(e, w, m)
  BY DEF SetWindowColormap, SetWindow, LiveColormaps

(* _XpwFreeColormap: the ranges first, then the colormap.                   *)
LEMMA FreeColormapInOrder ==
    ASSUME NEW e, ColoursInOrder(e), NEW w \in Widget, e.window[w] # NoWindow,
           NEW f, f = FreeColormap(e, w)
    PROVE  ColoursInOrder(f) /\ KeepsWindows(e, f) /\ ~Private(f, w)
<1>1. PICK m, v : m = e.colormap[w] /\ v = FreeColorsOf(e, w, m)
  OBVIOUS
<1>2. Balanced(e) /\ IsColours(e)
  BY DEF ColoursInOrder, Balanced
<1>3. Freed(e, v, w) /\ \A j \in 1 .. Len(v.allocated[w]) : v.allocated[w][j].cmap # m
  BY <1>1, <1>2, FreeColorsOfDone
<1>4. /\ \A y \in Widget : OwnRanges(v, y)
      /\ DOMAIN v.cells = DOMAIN e.cells /\ v.colormap = e.colormap /\ v.window = e.window
      /\ Balanced(v)
  BY <1>3, RangesLeft
<1>5. CASE ~Private(e, w)
  <2>1. f = v
    BY <1>1, <1>5 DEF FreeColormap
  <2>2. ColoursInOrder(f) /\ f.window = e.window
    BY <2>1, <1>3, LeftInOrder
  <2> QED BY <2>1, <2>2, <1>4, <1>5 DEF KeepsWindows, Private
<1>6. CASE Private(e, w)
  <2>1. PICK x : x = XFreeColormap(v, m)
    OBVIOUS
  <2>2. PICK y : y = SetMap(x, w, DefaultColormap)
    OBVIOUS
  <2>3. /\ DOMAIN e.cells \ {m} = MapsWith(e, w, DefaultColormap)
        /\ m \in DOMAIN e.cells /\ DefaultColormap \in DOMAIN e.cells \ {m}
    BY <1>1, <1>6, MapsWithout
  <2>4. NoRangeOf(v, m) /\ m \in DOMAIN v.cells
    BY <2>3, <1>1, <1>3, <1>4, <1>6, PrivateRanges
  <2>5. /\ Balanced(x) /\ DOMAIN x.cells = DOMAIN v.cells \ {m}
        /\ x.colormap = v.colormap /\ x.window = v.window /\ x.allocated = v.allocated
    BY <2>1, <2>4, <1>4, MapFreed
  <2>6. DefaultColormap \in AnyColormap
    BY DEF AnyColormap
  <2>7. /\ Balanced(y) /\ y.colormap[w] = DefaultColormap
        /\ \A z \in Widget : z # w => y.colormap[z] = x.colormap[z]
        /\ y.window = x.window /\ y.allocated = x.allocated /\ y.cells = x.cells
    BY <2>2, <2>5, <2>6, MapAssigned
  <2>8. f = SetWindowColormap(y, w, DefaultColormap)
    BY <2>1, <2>2, <1>1, <1>4, <1>6 DEF FreeColormap, SetMap
  <2>9. y.window[w] # NoWindow /\ DefaultColormap \in DOMAIN y.cells
    BY <2>3, <2>5, <2>7, <1>4
  <2>10. f = SetWindow(y, w, DefaultColormap)
    BY <2>8, <2>9, WindowSet
  <2>11. DefaultColormap \in AnyColormap \cup {NoWindow}
    BY <2>6
  <2>12. /\ Balanced(f) /\ f.window[w] = DefaultColormap
         /\ \A z \in Widget : z # w => f.window[z] = y.window[z]
         /\ f.colormap = y.colormap /\ f.allocated = y.allocated /\ f.cells = y.cells
    BY <2>7, <2>10, <2>11, WindowAssigned
  <2>13. OwnRanges(f, w)
    BY <2>5, <2>7, <2>12, <1>3, <1>4, <1>1 DEF OwnRanges
  <2>14. NobodyElses(e, w, DefaultColormap)
    BY DEF NobodyElses
  <2>15. /\ f.colormap[w] = DefaultColormap /\ DOMAIN f.cells = MapsWith(e, w, DefaultColormap)
         /\ \A z \in Widget : z # w => f.colormap[z] = e.colormap[z]
         /\ \A z \in Widget : z # w => f.window[z] = e.window[z]
         /\ \A z \in Widget : z # w => f.allocated[z] = e.allocated[z]
    <3>1. f.colormap[w] = DefaultColormap /\ DOMAIN f.cells = MapsWith(e, w, DefaultColormap)
      BY <2>3, <2>5, <2>7, <2>12, <1>4
    <3>2. \A z \in Widget : z # w => f.colormap[z] = e.colormap[z]
      BY <2>5, <2>7, <2>12, <1>4
    <3>3. \A z \in Widget : z # w => f.window[z] = e.window[z]
      BY <2>5, <2>7, <2>12, <1>4
    <3>4. \A z \in Widget : z # w => f.allocated[z] = e.allocated[z]
      BY <2>5, <2>7, <2>12, <1>3 DEF Freed
    <3> QED BY <3>1, <3>2, <3>3, <3>4
  <2>16. ColoursInOrder(f)
    BY <2>12, <2>13, <2>14, <2>15, SwitchedInOrder
  <2>17. KeepsWindows(e, f)
    BY <2>12, <2>15, ColormapAssumption DEF KeepsWindows
  <2> QED BY <2>15, <2>16, <2>17 DEF Private
<1> QED BY <1>5, <1>6

(* CreateColormap: the old colormap of the widget is freed.                 *)
LEMMA CreateColormapInOrder ==
    ASSUME NEW e, ColoursInOrder(e), NEW w \in Widget, e.window[w] # NoWindow,
           NEW f, f = CreateColormap(e, w)
    PROVE  ColoursInOrder(f) /\ KeepsWindows(e, f)
<1>1. PICK v : v = IF Private(e, w) THEN FreeColormap(e, w) ELSE e
  OBVIOUS
<1>2. ColoursInOrder(v) /\ KeepsWindows(e, v) /\ ~Private(v, w)
  <2>1. CASE Private(e, w)
    BY <2>1, <1>1, FreeColormapInOrder
  <2>2. CASE ~Private(e, w)
    BY <2>2, <1>1 DEF KeepsWindows
  <2> QED BY <2>1, <2>2
<1>3. PICK m : m = FreshColormap(v)
  OBVIOUS
<1>4. Balanced(v) /\ IsColours(v) /\ MapsLive(v)
  BY <1>2 DEF ColoursInOrder, Balanced
<1>5. m \in AnyColormap /\ m \notin DOMAIN v.cells /\ m \in Colormap
  BY <1>3, <1>4, FreshColormapIsFresh DEF AnyColormap
<1>6. PICK x, y : x = AddMap(v, m) /\ y = SetMap(x, w, m)
  OBVIOUS
<1>7. /\ Balanced(x) /\ DOMAIN x.cells = DOMAIN v.cells \cup {m}
      /\ x.colormap = v.colormap /\ x.window = v.window /\ x.allocated = v.allocated
  BY <1>4, <1>5, <1>6, MapAdded
<1>8. /\ Balanced(y) /\ y.colormap[w] = m
      /\ \A z \in Widget : z # w => y.colormap[z] = x.colormap[z]
      /\ y.window = x.window /\ y.allocated = x.allocated /\ y.cells = x.cells
  BY <1>5, <1>6, <1>7, MapAssigned
<1>9. f = SetWindowColormap(y, w, m)
  <2>1. f = SetWindowColormap([v EXCEPT !.colormap[w] = m, !.cells = With(@, m, {})], w, m)
    BY <1>1, <1>3 DEF CreateColormap
  <2>2. [v EXCEPT !.colormap[w] = m, !.cells = With(@, m, {})] = y
    BY <1>4, <1>6 DEF IsColours, ColourFields, SetMap, AddMap
  <2> QED BY <2>1, <2>2
<1>10. y.window[w] # NoWindow /\ m \in DOMAIN y.cells
  BY <1>2, <1>7, <1>8 DEF KeepsWindows
<1>11. f = SetWindow(y, w, m)
  BY <1>9, <1>10, WindowSet
<1>12. m \in AnyColormap \cup {NoWindow}
  BY <1>5
<1>13. /\ Balanced(f) /\ f.window[w] = m
       /\ \A z \in Widget : z # w => f.window[z] = y.window[z]
       /\ f.colormap = y.colormap /\ f.allocated = y.allocated /\ f.cells = y.cells
  BY <1>8, <1>11, <1>12, WindowAssigned
<1>14. /\ DOMAIN v.cells \cup {m} = MapsWith(v, w, m)
       /\ NobodyElses(v, w, m) /\ DefaultColormap \in DOMAIN v.cells
  BY <1>2, <1>5, MapsAndOne
<1>15. OwnRanges(f, w)
  BY <1>2, <1>7, <1>8, <1>13 DEF OwnRanges, ColoursInOrder, Private
<1>16. /\ f.colormap[w] = m /\ DOMAIN f.cells = MapsWith(v, w, m)
       /\ \A z \in Widget : z # w => f.colormap[z] = v.colormap[z]
       /\ \A z \in Widget : z # w => f.window[z] = v.window[z]
       /\ \A z \in Widget : z # w => f.allocated[z] = v.allocated[z]
  BY <1>7, <1>8, <1>13, <1>14
<1>17. ColoursInOrder(f)
  BY <1>2, <1>13, <1>14, <1>15, <1>16, SwitchedInOrder
<1>18. KeepsWindows(e, f)
  <2>1. m # NoWindow
    BY <1>5, ColormapAssumption
  <2> QED BY <2>1, <1>2, <1>13, <1>16 DEF KeepsWindows
<1> QED BY <1>17, <1>18

(* SetValues with a colormap: the ranges of the old one are freed.          *)
LEMMA SetColormapInOrder ==
    ASSUME NEW e, ColoursInOrder(e), NEW w \in Widget, e.window[w] # NoWindow, ~Private(e, w),
           NEW f, f = SetColormap(e, w)
    PROVE  ColoursInOrder(f) /\ KeepsWindows(e, f)
<1>1. PICK m : m = FreshColormap(e)
  OBVIOUS
<1>2. Balanced(e) /\ IsColours(e) /\ MapsLive(e)
  BY DEF ColoursInOrder, Balanced
<1>3. m \in AnyColormap /\ m \notin DOMAIN e.cells /\ m \in Colormap
  BY <1>1, <1>2, FreshColormapIsFresh DEF AnyColormap
<1>4. PICK made, x : made = AddMap(e, m) /\ x = SetWindow(made, w, m)
  OBVIOUS
<1>5. /\ Balanced(made) /\ DOMAIN made.cells = DOMAIN e.cells \cup {m}
      /\ made.colormap = e.colormap /\ made.window = e.window /\ made.allocated = e.allocated
  BY <1>2, <1>3, <1>4, MapAdded
<1>6. m \in AnyColormap \cup {NoWindow} /\ m \in DOMAIN made.cells /\ made.window[w] # NoWindow
  BY <1>3, <1>5
<1>7. x = SetWindowColormap(made, w, m)
  BY <1>4, <1>6, WindowSet
<1>8. /\ Balanced(x) /\ x.window[w] = m
      /\ \A z \in Widget : z # w => x.window[z] = made.window[z]
      /\ x.colormap = made.colormap /\ x.allocated = made.allocated /\ x.cells = made.cells
  BY <1>4, <1>5, <1>6, WindowAssigned
<1>9. PICK v : v = FreeColorsOf(x, w, x.colormap[w])
  OBVIOUS
<1>10. Freed(x, v, w)
  BY <1>8, <1>9, FreeColorsOfDone
<1>11. ~Private(x, w) /\ v = FreeColormap(x, w)
  BY <1>5, <1>8, <1>9 DEF Private, FreeColormap
<1>12. f = SetMap(v, w, m)
  BY <1>1, <1>4, <1>7, <1>11 DEF SetColormap, SetMap, AddMap
<1>13. /\ Balanced(v) /\ v.colormap = x.colormap /\ v.window = x.window /\ DOMAIN v.cells = DOMAIN x.cells
       /\ \A z \in Widget : z # w => v.allocated[z] = x.allocated[z]
       /\ \A j \in 1 .. Len(v.allocated[w]) : IsOneOf(v, x, w, j)
  BY <1>10 DEF Freed, SameMaps
<1>14. /\ Balanced(f) /\ f.colormap[w] = m
       /\ \A z \in Widget : z # w => f.colormap[z] = v.colormap[z]
       /\ f.window = v.window /\ f.allocated = v.allocated /\ f.cells = v.cells
  BY <1>3, <1>12, <1>13, MapAssigned
<1>15. /\ DOMAIN e.cells \cup {m} = MapsWith(e, w, m)
       /\ NobodyElses(e, w, m) /\ DefaultColormap \in DOMAIN e.cells
  BY <1>3, MapsAndOne
<1>16. OwnRanges(f, w)
  <2>1. \A k \in 1 .. Len(e.allocated[w]) : e.allocated[w][k].cmap = DefaultColormap
    BY DEF OwnRanges, ColoursInOrder, Private
  <2>2. x.allocated = e.allocated /\ f.allocated = v.allocated
    BY <1>5, <1>8, <1>14
  <2>3. \A j \in 1 .. Len(v.allocated[w]) : v.allocated[w][j].cmap = DefaultColormap
    BY <2>1, <2>2, <1>13 DEF IsOneOf
  <2> QED BY <2>2, <2>3 DEF OwnRanges
<1>17. /\ f.window[w] = m /\ DOMAIN f.cells = MapsWith(e, w, m)
       /\ \A z \in Widget : z # w => f.colormap[z] = e.colormap[z]
       /\ \A z \in Widget : z # w => f.window[z] = e.window[z]
       /\ \A z \in Widget : z # w => f.allocated[z] = e.allocated[z]
  <2>1. f.window[w] = m /\ DOMAIN f.cells = MapsWith(e, w, m)
    BY <1>5, <1>8, <1>13, <1>14, <1>15
  <2>2. \A z \in Widget : z # w => f.colormap[z] = e.colormap[z]
    BY <1>5, <1>8, <1>13, <1>14
  <2>3. \A z \in Widget : z # w => f.window[z] = e.window[z]
    BY <1>5, <1>8, <1>13, <1>14
  <2>4. \A z \in Widget : z # w => f.allocated[z] = e.allocated[z]
    BY <1>5, <1>8, <1>13, <1>14
  <2> QED BY <2>1, <2>2, <2>3, <2>4
<1>18. ColoursInOrder(f)
  BY <1>14, <1>15, <1>16, <1>17, SwitchedInOrder
<1>19. KeepsWindows(e, f)
  <2>1. m # NoWindow
    BY <1>3, ColormapAssumption
  <2> QED BY <2>1, <1>17 DEF KeepsWindows
<1> QED BY <1>18, <1>19

(* Destroy: all the ranges, then the colormap.                              *)
LEMMA DestroyColorsInOrder ==
    ASSUME NEW e, ColoursInOrder(e), NEW w \in Widget, NEW f, f = DestroyColors(e, w)
    PROVE  /\ ColoursInOrder(f) /\ f.window[w] = NoWindow
           /\ \A y \in Widget : y # w => f.window[y] = e.window[y]
<1>1. PICK freed, m : freed = FreeAllColors(e, w) /\ m = e.colormap[w]
  OBVIOUS
<1>2. Balanced(e) /\ IsColours(e)
  BY DEF ColoursInOrder, Balanced
<1>3. Freed(e, freed, w) /\ Len(freed.allocated[w]) = 0
  BY <1>1, <1>2, FreeAllColorsDone
<1>4. /\ \A y \in Widget : OwnRanges(freed, y)
      /\ DOMAIN freed.cells = DOMAIN e.cells /\ freed.colormap = e.colormap /\ freed.window = e.window
      /\ Balanced(freed)
  BY <1>3, RangesLeft
<1>5. PICK v : v = IF Private(e, w) THEN XFreeColormap(freed, m) ELSE freed
  OBVIOUS
<1>6. /\ Balanced(v) /\ DOMAIN v.cells = MapsWith(e, w, DefaultColormap)
      /\ v.colormap = e.colormap /\ v.window = e.window /\ v.allocated = freed.allocated
  <2>1. CASE Private(e, w)
    <3>1. /\ DOMAIN e.cells \ {m} = MapsWith(e, w, DefaultColormap)
          /\ m \in DOMAIN e.cells /\ DefaultColormap \in DOMAIN e.cells \ {m}
      BY <2>1, <1>1, MapsWithout
    <3>2. \A j \in 1 .. Len(freed.allocated[w]) : freed.allocated[w][j].cmap # m
      BY <1>3
    <3>3. NoRangeOf(freed, m) /\ m \in DOMAIN freed.cells
      BY <2>1, <3>1, <3>2, <1>1, <1>3, <1>4, PrivateRanges
    <3>4. v = XFreeColormap(freed, m)
      BY <2>1, <1>5
    <3>5. /\ Balanced(v) /\ DOMAIN v.cells = DOMAIN freed.cells \ {m}
          /\ v.colormap = freed.colormap /\ v.window = freed.window /\ v.allocated = freed.allocated
      BY <3>3, <3>4, <1>4, MapFreed
    <3> QED BY <3>1, <3>5, <1>4
  <2>2. CASE ~Private(e, w)
    <3>1. v = freed
      BY <2>2, <1>5
    <3>2. DOMAIN e.cells = {DefaultColormap} \cup {e.colormap[y] : y \in Widget} /\ e.colormap[w] = DefaultColormap
      BY <2>2 DEF ColoursInOrder, MapsLive, Private
    <3>3. \A n : n \in DOMAIN e.cells <=> n \in MapsWith(e, w, DefaultColormap)
      BY <3>2 DEF MapsWith
    <3> QED BY <3>1, <3>3, <1>4
  <2> QED BY <2>1, <2>2
<1>7. DefaultColormap \in AnyColormap /\ NoWindow \in AnyColormap \cup {NoWindow}
  BY DEF AnyColormap
<1>8. PICK x : x = SetMap(v, w, DefaultColormap)
  OBVIOUS
<1>9. /\ Balanced(x) /\ x.colormap[w] = DefaultColormap
      /\ \A z \in Widget : z # w => x.colormap[z] = v.colormap[z]
      /\ x.window = v.window /\ x.allocated = v.allocated /\ x.cells = v.cells
  BY <1>6, <1>7, <1>8, MapAssigned
<1>10. f = SetWindow(x, w, NoWindow)
  <2>1. IsColours(v)
    BY <1>6 DEF Balanced
  <2>2. f = [v EXCEPT !.colormap[w] = DefaultColormap, !.window[w] = NoWindow]
    BY <1>1, <1>5 DEF DestroyColors
  <2> QED BY <2>1, <2>2, <1>8 DEF IsColours, ColourFields, SetMap, SetWindow
<1>11. /\ Balanced(f) /\ f.window[w] = NoWindow
       /\ \A z \in Widget : z # w => f.window[z] = x.window[z]
       /\ f.colormap = x.colormap /\ f.allocated = x.allocated /\ f.cells = x.cells
  BY <1>7, <1>9, <1>10, WindowAssigned
<1>12. OwnRanges(f, w) /\ NobodyElses(e, w, DefaultColormap)
  BY <1>3, <1>6, <1>9, <1>11 DEF OwnRanges, NobodyElses
<1>13. /\ f.colormap[w] = DefaultColormap /\ DOMAIN f.cells = MapsWith(e, w, DefaultColormap)
       /\ \A z \in Widget : z # w => f.colormap[z] = e.colormap[z]
       /\ \A z \in Widget : z # w => f.window[z] = e.window[z]
       /\ \A z \in Widget : z # w => f.allocated[z] = e.allocated[z]
  BY <1>3, <1>6, <1>9, <1>11 DEF Freed
<1>14. ColoursInOrder(f)
  BY <1>11, <1>12, <1>13, SwitchedInOrder
<1> QED BY <1>11, <1>13, <1>14

(* Realize: the window has the colormap of the widget.                      *)
LEMMA RealizeColorsInOrder ==
    ASSUME NEW e, ColoursInOrder(e), NEW w \in Widget, NEW f, f = RealizeColors(e, w)
    PROVE  /\ ColoursInOrder(f) /\ f.window[w] # NoWindow
           /\ \A y \in Widget : y # w => f.window[y] = e.window[y]
<1>1. PICK m : m = e.colormap[w]
  OBVIOUS
<1>2. Balanced(e) /\ m \in AnyColormap \cup {NoWindow} /\ m # NoWindow
  BY <1>1, ColormapAssumption DEF ColoursInOrder, Balanced, IsColours, AnyColormap
<1>3. f = SetWindow(e, w, m)
  BY <1>1 DEF RealizeColors, SetWindow
<1>4. /\ Balanced(f) /\ f.window[w] = m
      /\ \A y \in Widget : y # w => f.window[y] = e.window[y]
      /\ f.colormap = e.colormap /\ f.allocated = e.allocated /\ f.cells = e.cells
  BY <1>2, <1>3, WindowAssigned
<1> QED BY <1>1, <1>2, <1>4 DEF ColoursInOrder, MapsLive, MapsPrivate, WindowsHaveMaps, OwnRanges

-----------------------------------------------------------------------------
(* The server gives cells that are free. *)
AreLowest(s, free, n) == Cardinality(s) = n /\ \A x \in s, y \in free \ s : x < y

(* Where there are so many, some are the lowest, ...                        *)
LEMMA LowestExist ==
    ASSUME NEW F, F \subseteq Nat, IsFiniteSet(F), NEW n \in {1, 2}, Cardinality(F) >= n
    PROVE  \E s \in SUBSET F : AreLowest(s, F, n)
<1>1. F # {} /\ Cardinality(F) \in Nat
  BY FS_EmptySet, FS_CardinalityType
<1>2. PICK a \in F : \A k \in F : a <= k
  BY <1>1, NatLeast
<1>3. CASE n = 1
  <2>1. Cardinality({a}) = 1
    BY FS_Singleton
  <2>2. \A x \in {a}, y \in F \ {a} : x < y
    BY <1>2
  <2>3. AreLowest({a}, F, n)
    BY <2>1, <2>2, <1>3 DEF AreLowest
  <2> QED BY <2>3
<1>4. CASE n = 2
  <2>1. F \ {a} # {}
    <3>1. Cardinality({a}) = 1
      BY FS_Singleton
    <3>2. F # {a}
      BY <3>1, <1>4
    <3> QED BY <3>2, <1>2
  <2>2. PICK b \in F \ {a} : \A k \in F \ {a} : b <= k
    BY <2>1, NatLeast
  <2>3. Cardinality({a} \cup {b}) = 2
    <3>1. IsFiniteSet({a}) /\ Cardinality({a}) = 1
      BY FS_Singleton
    <3>2. b \notin {a}
      BY <2>2
    <3> QED BY <3>1, <3>2, FS_AddElement
  <2>4. \A x \in {a} \cup {b}, y \in F \ ({a} \cup {b}) : x < y
    BY <1>2, <2>2
  <2>5. AreLowest({a} \cup {b}, F, n)
    BY <2>3, <2>4, <1>4 DEF AreLowest
  <2> QED BY <2>5, <2>2
<1> QED BY <1>3, <1>4

(* ... and those are what the server gives.                                 *)
LEMMA LowestAreFree ==
    ASSUME NEW e, NEW m, NEW n \in {1, 2}, Cardinality(FreeCellsOf(e, m)) >= n
    PROVE  LowestCells(e, m, n) \subseteq FreeCellsOf(e, m) /\ LowestCells(e, m, n) # {}
<1>1. PICK F : F = FreeCellsOf(e, m)
  OBVIOUS
<1>2. F \subseteq Nat /\ IsFiniteSet(F) /\ Cardinality(F) >= n
  BY <1>1, CellAssumption, FS_Subset DEF FreeCellsOf
<1>3. \E s \in SUBSET F : AreLowest(s, F, n)
  BY <1>2, LowestExist
<1>4. LowestCells(e, m, n) = CHOOSE s \in SUBSET F : AreLowest(s, F, n)
  BY <1>1 DEF LowestCells, AreLowest
<1>5. PICK s : s = LowestCells(e, m, n)
  OBVIOUS
<1>6. s \in SUBSET F /\ AreLowest(s, F, n)
  BY <1>3, <1>4, <1>5
<1>7. s # {}
  BY <1>6, FS_EmptySet DEF AreLowest
<1> QED BY <1>1, <1>5, <1>6, <1>7

(* A range that is put at the end of a list.                               *)
LEMMA RangedAfterAppend ==
    ASSUME NEW e, IsColours(e), NEW w \in Widget, NEW r \in RangeType,
           NEW a, a[w] = Append(e.allocated[w], r), \A y \in Widget : y # w => a[y] = e.allocated[y],
           Apart(e.allocated),
           \A m \in AnyColormap, x \in Cell \ {0} : ~(InRange(r, m, x) /\ Ranged(e.allocated, m, x))
    PROVE  /\ Apart(a)
           /\ \A m \in AnyColormap, x \in Cell \ {0} :
                Ranged(a, m, x) <=> Ranged(e.allocated, m, x) \/ InRange(r, m, x)
           /\ \A j \in 1 .. Len(a[w]) : a[w][j] = r \/ \E k \in 1 .. Len(e.allocated[w]) : a[w][j] = e.allocated[w][k]
<1> DEFINE b == e.allocated
           s == b[w]
<1>1. s \in Seq(RangeType) /\ Len(s) \in Nat
  BY LenProperties DEF IsColours
<1>2. /\ Len(a[w]) = Len(s) + 1 /\ a[w][Len(s) + 1] = r
      /\ \A k \in 1 .. Len(s) : a[w][k] = s[k]
  BY <1>1, AppendProperties
<1> HIDE DEF b
<1>3. \A j \in 1 .. Len(a[w]) : j \in 1 .. Len(s) \/ j = Len(s) + 1
  BY <1>1, <1>2
<1>4. \A j \in 1 .. Len(s) : j \in 1 .. Len(a[w])
  BY <1>1, <1>2
<1>5. Len(s) + 1 \in 1 .. Len(a[w])
  BY <1>1, <1>2
<1>6. \A y \in Widget : \A j \in 1 .. Len(b[y]) : j \in 1 .. Len(a[y]) /\ a[y][j] = b[y][j]
  BY <1>2, <1>4 DEF b
<1>7. \A y \in Widget : \A j \in 1 .. Len(a[y]) :
        \/ j \in 1 .. Len(b[y]) /\ a[y][j] = b[y][j]
        \/ y = w /\ j = Len(s) + 1 /\ a[y][j] = r
  BY <1>2, <1>3 DEF b
<1>8. ASSUME NEW m \in AnyColormap, NEW x \in Cell \ {0}
      PROVE  Ranged(a, m, x) <=> Ranged(b, m, x) \/ InRange(r, m, x)
  <2>1. Ranged(a, m, x) => Ranged(b, m, x) \/ InRange(r, m, x)
    BY <1>7 DEF Ranged
  <2>2. Ranged(b, m, x) => Ranged(a, m, x)
    BY <1>6 DEF Ranged
  <2>3. InRange(r, m, x) => Ranged(a, m, x)
    BY <1>2, <1>5 DEF Ranged
  <2> QED BY <2>1, <2>2, <2>3
<1>9. ASSUME NEW y \in Widget, NEW z \in Widget, NEW j \in 1 .. Len(a[y]), NEW k \in 1 .. Len(a[z]),
             NEW x \in Cell \ {0}, NEW m \in AnyColormap
      PROVE  InRange(a[y][j], m, x) /\ InRange(a[z][k], m, x) => y = z /\ j = k
  <2> HAVE InRange(a[y][j], m, x) /\ InRange(a[z][k], m, x)
  <2>1. ~(InRange(r, m, x) /\ Ranged(b, m, x))
    BY DEF b
  <2>2. \/ j \in 1 .. Len(b[y]) /\ InRange(b[y][j], m, x)
        \/ y = w /\ j = Len(s) + 1 /\ InRange(r, m, x)
    BY <1>7
  <2>3. \/ k \in 1 .. Len(b[z]) /\ InRange(b[z][k], m, x)
        \/ z = w /\ k = Len(s) + 1 /\ InRange(r, m, x)
    BY <1>7
  <2>4. \A u \in Widget : \A i \in 1 .. Len(b[u]) : InRange(b[u][i], m, x) => Ranged(b, m, x)
    BY DEF Ranged
  <2>5. Apart(b)
    BY DEF b
  <2> QED BY <2>1, <2>2, <2>3, <2>4, <2>5 DEF Apart
<1>10. Apart(a)
  BY <1>9 DEF Apart
<1> QED BY <1>2, <1>3, <1>8, <1>10 DEF b

Alloc(e, w, m, s) ==
    [e EXCEPT !.cells[m] = @ \cup s, !.allocated[w] = Append(@, [cmap |-> m, cells |-> s])]

(* AddColors: what is allocated is listed.                                  *)
LEMMA AllocBalanced ==
    ASSUME NEW e, Balanced(e), NEW w \in Widget, NEW m \in DOMAIN e.cells,
           NEW s, s \subseteq FreeCellsOf(e, m), NEW f, f = Alloc(e, w, m, s)
    PROVE  /\ Balanced(f) /\ SameMaps(e, f)
           /\ \A y \in Widget : y # w => f.allocated[y] = e.allocated[y]
           /\ \A j \in 1 .. Len(f.allocated[w]) : f.allocated[w][j].cmap = m \/ IsOneOf(f, e, w, j)
<1>1. PICK r, t : r = [cmap |-> m, cells |-> s] /\ t = e.cells[m] \cup s
  OBVIOUS
<1>2. IsColours(e) /\ m \in AnyColormap /\ s \subseteq Cell \ e.cells[m] /\ t \subseteq Cell
  BY <1>1 DEF Balanced, IsColours, FreeCellsOf
<1>3. r \in RangeType /\ r.cmap = m /\ r.cells = s
  BY <1>1, <1>2 DEF RangeType
<1>4. PICK g : g = SetCells(e, m, t)
  OBVIOUS
<1>5. /\ IsColours(g) /\ SameMaps(e, g) /\ g.allocated = e.allocated
      /\ g.cells[m] = t /\ \A n \in DOMAIN e.cells : n # m => g.cells[n] = e.cells[n]
  BY <1>2, <1>4, CellsAssigned
<1>6. PICK l : l = Append(e.allocated[w], r)
  OBVIOUS
<1>7. l \in Seq(RangeType)
  BY <1>2, <1>3, <1>6, AppendProperties DEF IsColours
<1>8. f = SetList(g, w, l)
  BY <1>1, <1>2, <1>4, <1>5, <1>6 DEF Alloc, SetList, SetCells, IsColours, ColourFields
<1>9. /\ IsColours(f) /\ SameMaps(g, f) /\ f.cells = g.cells
      /\ f.allocated[w] = l /\ \A y \in Widget : y # w => f.allocated[y] = g.allocated[y]
  BY <1>5, <1>7, <1>8, ListAssigned
<1>10. SameMaps(e, f) /\ \A y \in Widget : y # w => f.allocated[y] = e.allocated[y]
  BY <1>5, <1>9 DEF SameMaps
<1>11. PICK a : a = f.allocated
  OBVIOUS
<1>12. \A n \in AnyColormap, x \in Cell \ {0} : ~(InRange(r, n, x) /\ Ranged(e.allocated, n, x))
  BY <1>2, <1>3 DEF Balanced, Accounted, InRange
<1>13. /\ Apart(e.allocated) /\ a[w] = Append(e.allocated[w], r)
       /\ \A y \in Widget : y # w => a[y] = e.allocated[y]
  BY <1>6, <1>9, <1>10, <1>11 DEF Balanced
<1>14. /\ Apart(a)
       /\ \A n \in AnyColormap, x \in Cell \ {0} :
            Ranged(a, n, x) <=> Ranged(e.allocated, n, x) \/ InRange(r, n, x)
       /\ \A j \in 1 .. Len(a[w]) : a[w][j] = r \/ \E k \in 1 .. Len(e.allocated[w]) : a[w][j] = e.allocated[w][k]
  BY <1>2, <1>3, <1>12, <1>13, RangedAfterAppend
<1>15. f.stored = e.stored /\ DOMAIN f.cells = DOMAIN e.cells /\ DOMAIN e.cells \subseteq AnyColormap
  BY <1>2, <1>10 DEF SameMaps, IsColours
<1>16. \A n \in DOMAIN e.cells, x \in Cell \ {0} : x \in f.cells[n] <=> x \in e.cells[n] \/ InRange(r, n, x)
  BY <1>1, <1>3, <1>5, <1>9 DEF InRange
<1>17. \A n, x : IsStored(f, n, x) <=> IsStored(e, n, x)
  BY <1>15 DEF IsStored
<1>18. Accounted(f)
  <2> SUFFICES ASSUME NEW n \in DOMAIN e.cells, NEW x \in Cell \ {0}
               PROVE  x \in f.cells[n] <=> IsStored(f, n, x) \/ Ranged(a, n, x)
    BY <1>11, <1>15 DEF Accounted
  <2>1. x \in e.cells[n] <=> IsStored(e, n, x) \/ Ranged(e.allocated, n, x)
    BY DEF Balanced, Accounted
  <2>2. Ranged(a, n, x) <=> Ranged(e.allocated, n, x) \/ InRange(r, n, x)
    BY <1>14, <1>15
  <2> QED BY <2>1, <2>2, <1>16, <1>17
<1>19. Disjoint(f)
  <2> SUFFICES ASSUME NEW n \in DOMAIN e.cells, NEW x \in Cell \ {0}
               PROVE  ~(IsStored(f, n, x) /\ Ranged(a, n, x))
    BY <1>11, <1>15 DEF Disjoint
  <2>1. ~(IsStored(e, n, x) /\ Ranged(e.allocated, n, x))
    BY DEF Balanced, Disjoint
  <2>2. Ranged(a, n, x) <=> Ranged(e.allocated, n, x) \/ InRange(r, n, x)
    BY <1>14, <1>15
  <2>3. IsStored(e, n, x) => x \in e.cells[n]
    BY DEF Balanced, Accounted
  <2>4. InRange(r, n, x) => x \notin e.cells[n]
    BY <1>2, <1>3 DEF InRange
  <2> QED BY <2>1, <2>2, <2>3, <2>4, <1>17
<1>20. RangesLive(f)
  <2>1. \A j \in 1 .. Len(a[w]) : a[w][j].cmap \in DOMAIN e.cells
    BY <1>3, <1>14 DEF Balanced, RangesLive
  <2>2. \A y \in Widget : y # w => \A j \in 1 .. Len(a[y]) : a[y][j].cmap \in DOMAIN e.cells
    BY <1>13 DEF Balanced, RangesLive
  <2> QED BY <2>1, <2>2, <1>11, <1>15 DEF RangesLive
<1>21. StoredLive(f)
  <2> SUFFICES ASSUME NEW q \in e.stored
               PROVE  q.cmap \in DOMAIN e.cells /\ q.cell \in f.cells[q.cmap]
    BY <1>15 DEF StoredLive
  <2>1. q.cmap \in DOMAIN e.cells /\ q.cell \in e.cells[q.cmap]
    BY DEF Balanced, StoredLive
  <2> QED BY <2>1, <1>1, <1>5, <1>9
<1>22. \A j \in 1 .. Len(f.allocated[w]) : f.allocated[w][j].cmap = m \/ IsOneOf(f, e, w, j)
  BY <1>3, <1>11, <1>14 DEF IsOneOf
<1> QED BY <1>9, <1>10, <1>11, <1>14, <1>18, <1>19, <1>20, <1>21, <1>22 DEF Balanced

(* A range, if there are enough free cells for it.                          *)
LEMMA AllocColorRangeInOrder ==
    ASSUME NEW e, ColoursInOrder(e), NEW w \in Widget, NEW f, f = AllocColorRange(e, w, 2)
    PROVE  ColoursInOrder(f) /\ KeepsWindows(e, f)
<1>1. PICK m, s : m = e.colormap[w] /\ s = LowestCells(e, m, 2)
  OBVIOUS
<1>2. m \in DOMAIN e.cells /\ Balanced(e)
  BY <1>1 DEF ColoursInOrder, MapsLive
<1>3. IsFiniteSet(FreeCellsOf(e, m)) /\ Cardinality(FreeCellsOf(e, m)) \in Nat
  BY CellAssumption, FS_Subset, FS_CardinalityType DEF FreeCellsOf
<1>4. CASE Cardinality(FreeCellsOf(e, m)) < 2
  <2>1. f = e
    BY <1>1, <1>2, <1>4 DEF AllocColorRange, LiveColormaps
  <2> QED BY <2>1 DEF KeepsWindows
<1>5. CASE ~(Cardinality(FreeCellsOf(e, m)) < 2)
  <2>1. 2 \in {1, 2} /\ Cardinality(FreeCellsOf(e, m)) >= 2
    BY <1>3, <1>5
  <2>2. s \subseteq FreeCellsOf(e, m)
    BY <2>1, <1>1, LowestAreFree
  <2>3. f = Alloc(e, w, m, s)
    BY <1>1, <1>2, <1>5 DEF AllocColorRange, LiveColormaps, Alloc
  <2>4. /\ Balanced(f) /\ SameMaps(e, f)
        /\ \A y \in Widget : y # w => f.allocated[y] = e.allocated[y]
        /\ \A j \in 1 .. Len(f.allocated[w]) : f.allocated[w][j].cmap = m \/ IsOneOf(f, e, w, j)
    BY <2>2, <2>3, <1>2, AllocBalanced
  <2>5. f.colormap = e.colormap /\ f.window = e.window /\ DOMAIN f.cells = DOMAIN e.cells
    BY <2>4 DEF SameMaps
  <2>6. ASSUME NEW y \in Widget
        PROVE  OwnRanges(f, y)
    <3>1. OwnRanges(e, y)
      BY DEF ColoursInOrder
    <3>2. CASE y = w
      <4>1. \A k \in 1 .. Len(e.allocated[w]) : e.allocated[w][k].cmap \in {DefaultColormap, m}
        BY <3>1, <3>2, <1>1 DEF OwnRanges
      <4>2. ASSUME NEW j \in 1 .. Len(f.allocated[w])
            PROVE  f.allocated[w][j].cmap \in {DefaultColormap, m}
        <5>1. CASE f.allocated[w][j].cmap = m
          BY <5>1
        <5>2. CASE IsOneOf(f, e, w, j)
          BY <5>2, <4>1 DEF IsOneOf
        <5> QED BY <5>1, <5>2, <2>4
      <4> QED BY <4>2, <3>2, <2>5, <1>1 DEF OwnRanges
    <3>3. CASE y # w
      BY <3>1, <3>3, <2>4, <2>5 DEF OwnRanges
    <3> QED BY <3>2, <3>3
  <2> QED BY <2>4, <2>5, <2>6 DEF ColoursInOrder, MapsLive, MapsPrivate, WindowsHaveMaps, KeepsWindows
<1> QED BY <1>4, <1>5

Store(e, m, cell) ==
    [e EXCEPT !.cells[m] = @ \cup {cell}, !.stored = @ \cup {[cmap |-> m, cell |-> cell]}]

(* A cell that is stored, and not listed.                                   *)
LEMMA StoreBalanced ==
    ASSUME NEW e, Balanced(e), NEW m \in DOMAIN e.cells, NEW cell \in FreeCellsOf(e, m),
           NEW f, f = Store(e, m, cell)
    PROVE  /\ Balanced(f) /\ f.allocated = e.allocated /\ f.colormap = e.colormap
           /\ f.window = e.window /\ DOMAIN f.cells = DOMAIN e.cells
<1>1. PICK q, t : q = [cmap |-> m, cell |-> cell] /\ t = e.cells[m] \cup {cell}
  OBVIOUS
<1>2. IsColours(e) /\ m \in AnyColormap /\ cell \in Cell /\ cell \notin e.cells[m] /\ t \subseteq Cell
  BY <1>1 DEF Balanced, IsColours, FreeCellsOf
<1>3. f = [x \in ColourFields |-> IF x = "cells" THEN [e.cells EXCEPT ![m] = t]
                                  ELSE IF x = "stored" THEN e.stored \cup {q} ELSE e[x]]
  BY <1>1, <1>2 DEF Store, IsColours, ColourFields
<1>4. /\ f.cells = [e.cells EXCEPT ![m] = t] /\ f.colormap = e.colormap /\ f.window = e.window
      /\ f.allocated = e.allocated /\ f.stored = e.stored \cup {q} /\ f.bad = e.bad
      /\ f = [x \in ColourFields |-> f[x]]
  BY <1>3 DEF ColourFields
<1>5. f.cells = [n \in DOMAIN e.cells |-> IF n = m THEN t ELSE e.cells[n]]
  BY <1>2, <1>4 DEF IsColours
<1>6. /\ DOMAIN f.cells = DOMAIN e.cells /\ f.cells = [n \in DOMAIN f.cells |-> f.cells[n]]
      /\ f.cells[m] = t /\ \A n \in DOMAIN e.cells : n # m => f.cells[n] = e.cells[n]
  BY <1>5
<1>7. IsColours(f)
  <2>1. \A n \in DOMAIN f.cells : n \in AnyColormap /\ f.cells[n] \subseteq Cell
    BY <1>2, <1>6 DEF IsColours
  <2>2. q \in StoredType
    BY <1>1, <1>2 DEF StoredType
  <2>3. f.stored \subseteq StoredType
    BY <2>2, <1>2, <1>4 DEF IsColours
  <2> QED BY <2>1, <2>3, <1>2, <1>4, <1>6 DEF IsColours
<1>8. \A n, x : IsStored(f, n, x) <=> IsStored(e, n, x) \/ (n = m /\ x = cell)
  BY <1>1, <1>4 DEF IsStored
<1>9. Accounted(f) /\ Disjoint(f)
  <2> SUFFICES ASSUME NEW n \in DOMAIN e.cells, NEW x \in Cell \ {0}
               PROVE  /\ x \in f.cells[n] <=> IsStored(f, n, x) \/ Ranged(e.allocated, n, x)
                      /\ ~(IsStored(f, n, x) /\ Ranged(e.allocated, n, x))
    BY <1>4, <1>6 DEF Accounted, Disjoint
  <2>1. /\ x \in e.cells[n] <=> IsStored(e, n, x) \/ Ranged(e.allocated, n, x)
        /\ ~(IsStored(e, n, x) /\ Ranged(e.allocated, n, x))
    BY DEF Balanced, Accounted, Disjoint
  <2>2. x \in f.cells[n] <=> x \in e.cells[n] \/ (n = m /\ x = cell)
    BY <1>1, <1>6
  <2> QED BY <2>1, <2>2, <1>2, <1>8
<1>10. RangesLive(f) /\ Apart(f.allocated)
  BY <1>4, <1>6 DEF Balanced, RangesLive
<1>11. StoredLive(f)
  <2> SUFFICES ASSUME NEW s \in f.stored
               PROVE  s.cmap \in DOMAIN e.cells /\ s.cell \in f.cells[s.cmap]
    BY <1>6 DEF StoredLive
  <2>1. CASE s \in e.stored
    <3>1. s.cmap \in DOMAIN e.cells /\ s.cell \in e.cells[s.cmap]
      BY <2>1 DEF Balanced, StoredLive
    <3> QED BY <3>1, <1>1, <1>6
  <2>2. CASE s = q
    BY <2>2, <1>1, <1>6
  <2> QED BY <2>1, <2>2, <1>4
<1> QED BY <1>4, <1>6, <1>7, <1>9, <1>10, <1>11 DEF Balanced

(* A cell to store a colour in, if there is one.                            *)
LEMMA AllocStoreColorInOrder ==
    ASSUME NEW e, ColoursInOrder(e), NEW w \in Widget, NEW f, f = AllocStoreColor(e, w)
    PROVE  ColoursInOrder(f) /\ KeepsWindows(e, f)
<1>1. PICK m, s : m = e.colormap[w] /\ s = LowestCells(e, m, 1)
  OBVIOUS
<1>2. m \in DOMAIN e.cells /\ Balanced(e)
  BY <1>1 DEF ColoursInOrder, MapsLive
<1>3. IsFiniteSet(FreeCellsOf(e, m)) /\ Cardinality(FreeCellsOf(e, m)) \in Nat
  BY CellAssumption, FS_Subset, FS_CardinalityType DEF FreeCellsOf
<1>4. CASE FreeCellsOf(e, m) = {}
  <2>1. f = e
    BY <1>1, <1>2, <1>4 DEF AllocStoreColor, LiveColormaps
  <2> QED BY <2>1 DEF KeepsWindows
<1>5. CASE FreeCellsOf(e, m) # {}
  <2>1. 1 \in {1, 2} /\ Cardinality(FreeCellsOf(e, m)) >= 1
    BY <1>3, <1>5, FS_EmptySet
  <2>2. s \subseteq FreeCellsOf(e, m) /\ s # {}
    BY <2>1, <1>1, LowestAreFree
  <2>3. PICK cell : cell = CHOOSE x \in s : TRUE
    OBVIOUS
  <2>4. cell \in FreeCellsOf(e, m)
    BY <2>2, <2>3
  <2>5. f = Store(e, m, cell)
    BY <2>3, <1>1, <1>2, <1>5 DEF AllocStoreColor, LiveColormaps, Store
  <2>6. /\ Balanced(f) /\ f.allocated = e.allocated /\ f.colormap = e.colormap
        /\ f.window = e.window /\ DOMAIN f.cells = DOMAIN e.cells
    BY <2>4, <2>5, <1>2, StoreBalanced
  <2> QED BY <2>6 DEF ColoursInOrder, MapsLive, MapsPrivate, WindowsHaveMaps, OwnRanges, KeepsWindows
<1> QED BY <1>4, <1>5

(* One range is freed by the program.                                       *)
LEMMA FreeColorsInOrder ==
    ASSUME NEW e, ColoursInOrder(e), NEW w \in Widget, NEW i \in 1 .. Len(e.allocated[w]),
           NEW f, f = FreeColors(e, w, i)
    PROVE  ColoursInOrder(f) /\ KeepsWindows(e, f)
<1>1. Freed(e, e, w)
  BY FreedNone DEF ColoursInOrder
<1>2. Freed(e, f, w)
  BY <1>1, FreedOne
<1>3. ColoursInOrder(f) /\ f.window = e.window
  BY <1>2, LeftInOrder
<1> QED BY <1>3 DEF KeepsWindows

-----------------------------------------------------------------------------
(* The colours of all the widgets. *)

(* The inductive invariant of the colours: a window the server has is one  *)
(* that has a colormap.                                                    *)
ColourInv ==
    /\ ColoursInOrder(c)
    /\ \A w \in Widget : Realized(d, w) => c.window[w] # NoWindow

(* A window that is made has a colormap.                                    *)
LEMMA RealizeGivesColormap ==
    ASSUME NEW e, ColoursInOrder(e), NEW w \in Widget, NEW f, f = RealizeColors(e, w)
    PROVE  f.window[w] # NoWindow
  BY RealizeColorsInOrder

(* What is done to a window that has been made. *)
LEMMA WindowsKept ==
    ASSUME ColourInv, NoNewWindow, ColoursInOrder(c'), KeepsWindows(c, c')
    PROVE  ColourInv'
<1> SUFFICES ASSUME NEW x \in Widget, Realized(d', x)
             PROVE  c'.window[x] # NoWindow
  BY DEF ColourInv, Realized
<1>1. CASE Realized(d, x)
  BY <1>1 DEF ColourInv, KeepsWindows
<1>2. CASE Realize(x)
  <2>1. PICK e, f : e = c /\ f = c'
    OBVIOUS
  <2>2. ColoursInOrder(e) /\ f = RealizeColors(e, x)
    BY <2>1, <1>2 DEF Realize, ColourInv
  <2>3. f.window[x] # NoWindow
    BY <2>2, RealizeGivesColormap
  <2> QED BY <2>1, <2>3
<1> QED BY <1>1, <1>2 DEF NoNewWindow

(* Nothing is done to the colours.                                          *)
LEMMA SameColours ==
    ASSUME ColourInv, NoNewWindow, c' = c
    PROVE  ColourInv'
<1>1. ColoursInOrder(c') /\ KeepsWindows(c, c')
  BY DEF ColourInv, KeepsWindows
<1> QED BY <1>1, WindowsKept

(* Only one widget's window was touched. *)
LEMMA RealizeColours ==
    ASSUME ColourInv, NoNewWindow, NEW w \in Widget, Realize(w)
    PROVE  ColourInv'
<1>1. PICK e, f : e = c /\ f = c'
  OBVIOUS
<1>2. ColoursInOrder(e) /\ f = RealizeColors(e, w)
  BY <1>1 DEF Realize, ColourInv
<1>3. /\ ColoursInOrder(f) /\ f.window[w] # NoWindow
      /\ \A y \in Widget : y # w => f.window[y] = e.window[y]
  BY <1>2, RealizeColorsInOrder
<1>4. d' = RealizeWindow(d, w)
  BY DEF Realize
<1>5. ASSUME NEW x \in Widget, Realized(d', x)
      PROVE  c'.window[x] # NoWindow
  <2>1. CASE x = w
    BY <2>1, <1>1, <1>3
  <2>2. CASE x # w /\ Realized(d, x)
    BY <2>2, <1>1, <1>3 DEF ColourInv
  <2>3. CASE Realize(x)
    <3>1. f = RealizeColors(e, x)
      BY <2>3, <1>1 DEF Realize
    <3>2. f.window[x] # NoWindow
      BY <3>1, <1>2, RealizeGivesColormap
    <3> QED BY <3>2, <1>1
  <2> QED BY <2>1, <2>2, <2>3, <1>5 DEF NoNewWindow
<1> QED BY <1>1, <1>3, <1>5 DEF ColourInv, Realized

(* A widget that is destroyed has no window and no colormap.                *)
LEMMA DestroyColours ==
    ASSUME ColourInv, NoNewWindow, NEW w \in Widget, Destroy(w), ~Realized(d', w)
    PROVE  ColourInv'
<1>1. PICK e, f : e = c /\ f = c'
  OBVIOUS
<1>2. CASE Graphic(w)
  <2>1. ColoursInOrder(e) /\ f = DestroyColors(e, w)
    BY <1>1, <1>2 DEF Destroy, ColourInv
  <2>2. /\ ColoursInOrder(f) /\ f.window[w] = NoWindow
        /\ \A y \in Widget : y # w => f.window[y] = e.window[y]
    BY <2>1, DestroyColorsInOrder
  <2>3. ASSUME NEW x \in Widget, Realized(d', x)
        PROVE  c'.window[x] # NoWindow
    <3>1. x # w
      BY <2>3
    <3>2. CASE Realized(d, x)
      BY <3>1, <3>2, <2>2, <1>1 DEF ColourInv
    <3>3. CASE Realize(x)
      <4>1. f = RealizeColors(e, x)
        BY <3>3, <1>1 DEF Realize
      <4>2. f.window[x] # NoWindow
        BY <4>1, <2>1, RealizeGivesColormap
      <4> QED BY <4>2, <1>1
    <3> QED BY <3>2, <3>3, <2>3 DEF NoNewWindow
  <2> QED BY <2>2, <2>3, <1>1 DEF ColourInv, Realized
<1>3. CASE ~Graphic(w)
  <2>1. c' = c
    BY <1>3 DEF Destroy
  <2> QED BY <2>1, SameColours
<1> QED BY <1>2, <1>3

(* XtSetValues gives a widget a colormap.                                   *)
LEMMA SetValuesColours ==
    ASSUME Tame, ColourInv, NoNewWindow, NEW w \in Widget, NEW args \in Args, SetValues(w, args)
    PROVE  ColourInv'
<1>1. CASE Graphic(w) /\ "colormap" \in DOMAIN args
  <2>1. PICK e, f : e = c /\ f = c'
    OBVIOUS
  <2>2. Realized(d, w) /\ ~Private(e, w) /\ f = SetColormap(e, w)
    BY <2>1, <1>1 DEF SetValues, SetValuesIsTame
  <2>3. ColoursInOrder(e) /\ e.window[w] # NoWindow
    BY <2>1, <2>2 DEF ColourInv
  <2>4. ColoursInOrder(f) /\ KeepsWindows(e, f)
    BY <2>2, <2>3, SetColormapInOrder
  <2> QED BY <2>1, <2>4, WindowsKept
<1>2. CASE ~(Graphic(w) /\ "colormap" \in DOMAIN args)
  <2>1. c' = c
    BY <1>2 DEF SetValues
  <2> QED BY <2>1, SameColours
<1> QED BY <1>1, <1>2

(* The methods about colormaps and colours.                                 *)
LEMMA ColorMethodsColours ==
    ASSUME Tame, ColourInv, NoNewWindow, NEW w \in Widget, ColorMethods(w)
    PROVE  ColourInv'
<1>1. PICK e, f : e = c /\ f = c'
  OBVIOUS
<1>2. ColoursInOrder(e)
  BY <1>1 DEF ColourInv
<1>3. CASE Realized(d, w) /\ (f = CreateColormap(e, w) \/ f = FreeColormap(e, w))
  <2>1. e.window[w] # NoWindow
    BY <1>1, <1>3 DEF ColourInv
  <2>2. ColoursInOrder(f) /\ KeepsWindows(e, f)
    <3>1. CASE f = CreateColormap(e, w)
      BY <3>1, <2>1, <1>2, CreateColormapInOrder
    <3>2. CASE f = FreeColormap(e, w)
      BY <3>2, <2>1, <1>2, FreeColormapInOrder
    <3> QED BY <3>1, <3>2, <1>3
  <2> QED BY <2>2, <1>1, WindowsKept
<1>4. CASE f = AllocColorRange(e, w, 2)
  <2>1. ColoursInOrder(f) /\ KeepsWindows(e, f)
    BY <1>2, <1>4, AllocColorRangeInOrder
  <2> QED BY <2>1, <1>1, WindowsKept
<1>5. CASE f = AllocStoreColor(e, w)
  <2>1. ColoursInOrder(f) /\ KeepsWindows(e, f)
    BY <1>2, <1>5, AllocStoreColorInOrder
  <2> QED BY <2>1, <1>1, WindowsKept
<1>6. ASSUME NEW i \in DOMAIN e.allocated[w], f = FreeColors(e, w, i)
      PROVE  ColourInv'
  <2>1. DOMAIN e.allocated[w] = 1 .. Len(e.allocated[w])
    BY <1>2, LenProperties DEF ColoursInOrder, Balanced, IsColours
  <2>2. ColoursInOrder(f) /\ KeepsWindows(e, f)
    BY <2>1, <1>2, <1>6, FreeColorsInOrder
  <2> QED BY <2>2, <1>1, WindowsKept
<1> QED BY <1>1, <1>3, <1>4, <1>5, <1>6 DEF ColorMethods

(* Every step of the widgets leaves the colours in order.                  *)
LEMMA ColoursStep ==
    ASSUME Tame, GCInv, ValuesOK, DisplayInv, ColourInv, [Next]_vars
    PROVE  ColourInv'
<1>1. NoNewWindow
  BY DisplayStep
<1>2. ASSUME NEW w \in Widget, Destroy(w)
      PROVE  ColourInv'
  <2>1. ~Realized(d', w)
    BY <1>2, DestroyDisplay
  <2> QED BY <2>1, <1>1, <1>2, DestroyColours
<1>3. ASSUME NEW w \in Widget,
             \/ \E args \in InitArgs : Create(w, args)
             \/ \E args \in GCArgs : SetGC(w, args)
             \/ \E n \in Sizes : Resize(w, n)
             \/ Methods(w) \/ Expose(w)
      PROVE  ColourInv'
  <2>1. c' = c
    BY <1>3 DEF Create, SetGC, Resize, Methods, Expose
  <2> QED BY <2>1, <1>1, SameColours
<1>4. CASE CoverOrUncover \/ UNCHANGED vars
  <2>1. c' = c
    BY <1>4 DEF CoverOrUncover, vars
  <2> QED BY <2>1, <1>1, SameColours
<1> QED BY <1>1, <1>2, <1>3, <1>4, SetValuesColours, RealizeColours, ColorMethodsColours DEF Next

(* The colours are in order when there are no widgets.                      *)
LEMMA ColoursBegin ==
    ASSUME Init
    PROVE  ColourInv
<1>1. /\ c.colormap = [w \in Widget |-> DefaultColormap] /\ c.window = [w \in Widget |-> NoWindow]
      /\ c.allocated = [w \in Widget |-> <<>>] /\ c.cells = With(<<>>, DefaultColormap, {0})
      /\ c.stored = {} /\ c.bad = FALSE /\ c = [x \in ColourFields |-> c[x]]
  BY DEF Init, InitColors, ColourFields
<1>2. DOMAIN c.cells = {DefaultColormap} /\ c.cells[DefaultColormap] = {0}
      /\ c.cells = [m \in DOMAIN c.cells |-> c.cells[m]]
  BY <1>1 DEF With
<1>3. \A w \in Widget : c.allocated[w] = <<>> /\ Len(c.allocated[w]) = 0
  BY <1>1
<1>4. IsColours(c)
  <2>1. c.allocated \in [Widget -> Seq(RangeType)]
    BY <1>1
  <2>2. \A m \in DOMAIN c.cells : m \in AnyColormap /\ c.cells[m] \subseteq Cell
    BY <1>2, CellAssumption DEF AnyColormap
  <2>3. c.stored \subseteq StoredType
    BY <1>1
  <2>4. /\ c.colormap \in [Widget -> AnyColormap]
        /\ c.window \in [Widget -> AnyColormap \cup {NoWindow}]
    BY <1>1 DEF AnyColormap
  <2> QED BY <2>1, <2>2, <2>3, <2>4, <1>1, <1>2 DEF IsColours
<1>5. \A m, x : ~Ranged(c.allocated, m, x) /\ ~IsStored(c, m, x)
  BY <1>1, <1>3 DEF Ranged, IsStored
<1>6. Balanced(c)
  BY <1>1, <1>2, <1>3, <1>4, <1>5
     DEF Balanced, RangesLive, StoredLive, Accounted, Disjoint, Apart
<1>7. MapsLive(c)
  <2>1. PICK w \in Widget : TRUE
    BY ClassAssumption
  <2>2. {c.colormap[y] : y \in Widget} = {DefaultColormap}
    BY <1>1
  <2> QED BY <2>2, <1>2 DEF MapsLive
<1>8. MapsPrivate(c) /\ WindowsHaveMaps(c) /\ \A w \in Widget : OwnRanges(c, w)
  BY <1>1, <1>3 DEF MapsPrivate, WindowsHaveMaps, OwnRanges
<1>9. \A w \in Widget : ~Realized(d, w)
  BY DEF Init, InitDisplay, Realized
<1> QED BY <1>6, <1>7, <1>8, <1>9 DEF ColourInv, ColoursInOrder

(* Colours in order have the properties that the run checks.                *)
LEMMA ColourImplies ==
    ASSUME ColourInv
    PROVE  ColoursSound /\ TypeOKColors /\ ~c.bad
<1>1. /\ Balanced(c) /\ IsColours(c) /\ MapsLive(c) /\ MapsPrivate(c) /\ WindowsHaveMaps(c)
  BY DEF ColourInv, ColoursInOrder, Balanced
<1>2. \A w \in Widget : /\ DOMAIN c.allocated[w] = 1 .. Len(c.allocated[w])
                        /\ \A i \in 1 .. Len(c.allocated[w]) : c.allocated[w][i] \in RangeType
  BY <1>1, LenProperties, ElementOfSeq DEF IsColours
<1>3. ASSUME NEW m \in LiveColormaps(c)
      PROVE  c.cells[m] \ ({0} \cup {s.cell : s \in {x \in c.stored : x.cmap = m}}) =
                UNION {UNION {range.cells \ {0} : range \in
                                {r \in Range(c.allocated[w]) : r.cmap = m}} : w \in Widget}
  <2>1. m \in DOMAIN c.cells /\ c.cells[m] \subseteq Cell /\ m \in AnyColormap
    BY <1>1 DEF LiveColormaps, IsColours
  <2>2. \A s \in c.stored : s = [cmap |-> s.cmap, cell |-> s.cell]
    <3>1. \A s \in c.stored : s \in StoredType
      BY <1>1 DEF IsColours
    <3> QED BY <3>1 DEF StoredType
  <2>3. \A x : x \in {s.cell : s \in {y \in c.stored : y.cmap = m}} <=> IsStored(c, m, x)
    BY <2>2 DEF IsStored
  <2>4. \A x : x \in UNION {UNION {range.cells \ {0} : range \in
                                {r \in Range(c.allocated[w]) : r.cmap = m}} : w \in Widget}
            <=> x # 0 /\ Ranged(c.allocated, m, x)
    <3>1. \A w \in Widget : \A r : r \in Range(c.allocated[w]) <=>
                                    \E i \in 1 .. Len(c.allocated[w]) : r = c.allocated[w][i]
      BY <1>2 DEF Range
    <3>2. ASSUME NEW x, x # 0, Ranged(c.allocated, m, x)
          PROVE  \E w \in Widget : \E r \in Range(c.allocated[w]) : r.cmap = m /\ x \in r.cells
      BY <3>1, <3>2 DEF Ranged, InRange
    <3>3. ASSUME NEW x, NEW w \in Widget, NEW r \in Range(c.allocated[w]), r.cmap = m, x \in r.cells
          PROVE  Ranged(c.allocated, m, x)
      BY <3>1, <3>3 DEF Ranged, InRange
    <3> QED BY <3>2, <3>3
  <2>5. \A x : Ranged(c.allocated, m, x) => x \in Cell
    BY <1>2 DEF Ranged, InRange, RangeType
  <2>6. \A x \in Cell \ {0} : x \in c.cells[m] /\ ~IsStored(c, m, x) <=> Ranged(c.allocated, m, x)
    BY <2>1, <1>1 DEF Balanced, Accounted, Disjoint
  <2> QED BY <2>1, <2>3, <2>4, <2>5, <2>6
<1>4. ASSUME NEW w \in Widget, NEW x \in Widget,
             NEW i \in DOMAIN c.allocated[w], NEW j \in DOMAIN c.allocated[x]
      PROVE  LET a == c.allocated[w][i]  b == c.allocated[x][j]
             IN /\ a.cmap \in LiveColormaps(c)
                /\ a.cmap = b.cmap /\ (a.cells \intersect b.cells) \ {0} # {} => w = x /\ i = j
  <2>1. PICK a, b : a = c.allocated[w][i] /\ b = c.allocated[x][j]
    OBVIOUS
  <2>2. i \in 1 .. Len(c.allocated[w]) /\ j \in 1 .. Len(c.allocated[x]) /\ a \in RangeType /\ b \in RangeType
    BY <2>1, <1>2
  <2>3. a.cmap \in LiveColormaps(c) /\ a.cmap \in AnyColormap
    BY <2>1, <2>2, <1>1 DEF LiveColormaps, Balanced, RangesLive, RangeType
  <2>4. ASSUME a.cmap = b.cmap, (a.cells \intersect b.cells) \ {0} # {}
        PROVE  w = x /\ i = j
    <3>1. PICK cell : cell \in (a.cells \intersect b.cells) \ {0}
      BY <2>4
    <3>2. cell \in Cell \ {0} /\ InRange(a, a.cmap, cell) /\ InRange(b, a.cmap, cell)
      BY <3>1, <2>2, <2>4 DEF RangeType, InRange
    <3> QED BY <3>2, <2>1, <2>2, <2>3, <1>1 DEF Balanced, Apart
  <2> QED BY <2>1, <2>3, <2>4
<1>5. ColoursOwned
  BY <1>3, <1>4 DEF ColoursOwned
<1>6. ColormapsOwned
  BY <1>1 DEF ColormapsOwned, MapsLive, MapsPrivate, WindowsHaveMaps, LiveColormaps, Private
<1>7. TypeOKColors
  <2>1. LiveColormaps(c) \subseteq Colormap \cup {DefaultColormap}
    BY <1>1 DEF IsColours, LiveColormaps, AnyColormap
  <2>2. \A w \in Widget : \A i \in DOMAIN c.allocated[w] : c.allocated[w][i].cells \subseteq Cell
    BY <1>2 DEF RangeType
  <2> QED BY <2>1, <2>2 DEF TypeOKColors
<1>8. ~c.bad
  BY <1>1 DEF IsColours
<1> QED BY <1>5, <1>6, <1>7, <1>8 DEF ColoursSound

(* They are in order always.                                                *)
LEMMA ColoursInOrderAlways == ASSUME Tame PROVE Spec => []ColourInv
<1>1. Init => GCInv /\ ValuesOK /\ DisplayInv /\ ColourInv
  BY ContextsBegin, DisplayBegins, ColoursBegin
<1>2. GCInv /\ ValuesOK /\ DisplayInv /\ ColourInv /\ [Next]_vars =>
            (GCInv /\ ValuesOK /\ DisplayInv /\ ColourInv)'
  BY ContextsStep, DisplayStep, ColoursStep
<1> QED BY <1>1, <1>2, PTL DEF Spec

(* Every cell and every colormap has one widget that frees it: the lists   *)
(* of AddColors and _XpwFreeColors agree with the server (ColoursSound).   *)
THEOREM ColoursHaveOwners == ASSUME Tame PROVE Spec => []ColoursSound
  BY ColoursInOrderAlways, ColourImplies, PTL

(* Nothing is used after it is freed, nor freed twice (NoBadRequest).      *)
THEOREM RequestsAreGood == ASSUME Tame PROVE Spec => []NoBadRequest
<1>1. DisplayInv /\ ColourInv => NoBadRequest
  BY DisplayImplies, ColourImplies DEF NoBadRequest
<1> QED BY <1>1, DisplayInOrder, ColoursInOrderAlways, PTL

(* How many calls the program makes.                                       *)
LEMMA OpsBounded == Spec => [](ops \in 0 .. MaxOps)
<1>1. Init => ops \in 0 .. MaxOps
  BY SizesAssumption DEF Init
<1>2. ops \in 0 .. MaxOps /\ [Next]_vars => (ops \in 0 .. MaxOps)'
  <2> SUFFICES ASSUME ops \in 0 .. MaxOps, [Next]_vars
               PROVE  ops' = ops \/ Call
    BY SizesAssumption DEF Call
  <2>1. CASE UNCHANGED vars
    BY <2>1 DEF vars
  <2>2. CASE CoverOrUncover
    BY <2>2 DEF CoverOrUncover
  <2>3. ASSUME NEW w \in Widget,
               \/ \E args \in InitArgs : Create(w, args)
               \/ Realize(w) \/ Expose(w)
        PROVE  ops' = ops
    BY <2>3 DEF Create, Realize, Expose
  <2>4. ASSUME NEW w \in Widget,
               \/ \E args \in Args : SetValues(w, args)
               \/ \E args \in GCArgs : SetGC(w, args)
               \/ \E n \in Sizes : Resize(w, n)
               \/ Destroy(w) \/ Methods(w) \/ ColorMethods(w)
        PROVE  Call
    BY <2>4 DEF SetValues, SetGC, Resize, Destroy, Methods, ColorMethods
  <2> QED BY <2>1, <2>2, <2>3, <2>4 DEF Next
<1> QED BY <1>1, <1>2, PTL DEF Spec

(* Contexts, display and colours are of their types, and every context has *)
(* its users (GCsSound).                                                   *)
THEOREM WidgetsSound == ASSUME Tame PROVE Spec => []GCsSound
<1>1. GCInv /\ ValuesOK => TypeOKGC
  BY DEF GCInv, ValuesOK, TypeOKGC, UserType
<1>2. GCInv /\ ValuesOK /\ DisplayInv /\ ColourInv /\ ops \in 0 .. MaxOps /\ GCsOwned => GCsSound
  BY <1>1, DisplayImplies, ColourImplies DEF GCsSound, TypeOK
<1>3. Init => GCInv /\ ValuesOK
  BY ContextsBegin
<1>4. GCInv /\ ValuesOK /\ [Next]_vars => (GCInv /\ ValuesOK)'
  BY ContextsStep
<1>5. Spec => [](GCInv /\ ValuesOK)
  BY <1>3, <1>4, PTL DEF Spec
<1> QED BY <1>2, <1>5, DisplayInOrder, ColoursInOrderAlways, OpsBounded, ContextsOwned, PTL
=============================================================================
