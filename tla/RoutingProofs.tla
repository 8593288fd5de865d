---------------------------- MODULE RoutingProofs ----------------------------
(***************************************************************************)
(* Proofs about the way of an event, for any channels and structs, any     *)
(* number of sockets and of events: which socket a page writes to, which   *)
(* handler a frame reaches, and in which order.                            *)
(***************************************************************************)
EXTENDS Routing, WellFoundedInduction, TLAPS

-----------------------------------------------------------------------------
(***************************************************************************)
(* Induction over the numbers, as a fact about sets.                       *)
(***************************************************************************)
LEMMA LeastNumber ==
  ASSUME NEW T, T \subseteq Nat, T # {}
  PROVE  \E m \in T : \A k \in T : m <= k
<1> DEFINE R == OpToRel(<, Nat)
<1>1. IsWellFoundedOn(R, Nat)
  BY NatLessThanWellFounded
<1>2. \A x, y \in Nat : <<y, x>> \in R <=> y < x
  BY DEF OpToRel
<1> HIDE DEF R
<1>3. PICK m \in T : \A k \in T : ~(<<k, m>> \in R)
  BY <1>1, WFMin, Zenon
<1>4. ASSUME NEW k \in T PROVE m <= k
  <2>1. k \in Nat /\ m \in Nat /\ ~(<<k, m>> \in R)
    BY <1>3
  <2>2. ~(k < m)
    BY <1>2, <2>1, Zenon
  <2> QED
    BY <2>1, <2>2
<1> QED
  BY <1>4

LEMMA CountUp ==
  ASSUME NEW T, 0 \in T, \A n \in Nat : n \in T => n + 1 \in T
  PROVE  Nat \subseteq T
<1> SUFFICES ASSUME Nat \ T # {} PROVE FALSE
  OBVIOUS
<1>1. PICK m \in Nat \ T : \A k \in Nat \ T : m <= k
  BY LeastNumber
<1>2. m - 1 \in Nat /\ m - 1 \notin Nat \ T
  BY <1>1
<1> QED
  BY <1>1, <1>2

-----------------------------------------------------------------------------
(***************************************************************************)
(* Renaming is what its definition says: it starts with the message as it  *)
(* is, and takes one field after the other.                                *)
(***************************************************************************)
RenamingStart(body) == [body |-> body, thrown |-> FALSE]

IsRenaming(g, fs, body, toAliases, n) ==
  g = [k \in 0..n |-> IF k = 0 THEN RenamingStart(body)
                     ELSE RenameField(g[k - 1], fs[k], toAliases)]

LEMMA RenamingExists ==
  ASSUME NEW fs, NEW body, NEW toAliases, NEW n \in Nat
  PROVE  \E g : IsRenaming(g, fs, body, toAliases, n)
<1> DEFINE Is(g, m) == IsRenaming(g, fs, body, toAliases, m)
           T == {m \in Nat : \E g : Is(g, m)}
<1>1. 0 \in T
  <2> DEFINE g == [k \in 0..0 |-> RenamingStart(body)]
  <2>1. Is(g, 0)
    BY DEF IsRenaming
  <2> QED
    BY <2>1
<1>2. ASSUME NEW m \in Nat, m \in T PROVE m + 1 \in T
  <2>1. PICK g : Is(g, m)
    BY <1>2
  <2> DEFINE h == [k \in 0..(m + 1) |-> IF k = m + 1 THEN RenameField(g[m], fs[k], toAliases) ELSE g[k]]
  <2>2. \A k \in 0..m : h[k] = g[k]
    OBVIOUS
  <2>3. \A k \in 0..m : g[k] = IF k = 0 THEN RenamingStart(body) ELSE RenameField(g[k - 1], fs[k], toAliases)
    BY <2>1 DEF IsRenaming
  <2>4. ASSUME NEW k \in 0..(m + 1)
        PROVE  h[k] = IF k = 0 THEN RenamingStart(body) ELSE RenameField(h[k - 1], fs[k], toAliases)
    <3>1. CASE k = m + 1
      <4>1. h[k] = RenameField(g[m], fs[k], toAliases) /\ k # 0 /\ k - 1 = m /\ m \in 0..m
        BY <3>1
      <4>2. h[k - 1] = g[m]
        BY <2>2, <4>1
      <4> QED
        BY <4>1, <4>2
    <3>2. CASE k = 0
      BY <2>2, <2>3, <3>2
    <3>3. CASE k \in 1..m
      <4>1. k \in 0..m /\ k - 1 \in 0..m /\ k # 0
        BY <3>3
      <4> HIDE DEF h
      <4> QED
        BY <2>2, <2>3, <4>1
    <3> QED
      BY <3>1, <3>2, <3>3
  <2>5. Is(h, m + 1)
    <3>1. h = [k \in 0..(m + 1) |-> h[k]]
      OBVIOUS
    <3> HIDE DEF h
    <3> QED
      BY <2>4, <3>1 DEF IsRenaming
  <2>6. m + 1 \in Nat
    OBVIOUS
  <2> HIDE DEF Is, h
  <2> QED
    BY <2>5, <2>6
<1> HIDE DEF Is
<1>3. Nat \subseteq T
  <2> HIDE DEF T
  <2> QED
    BY <1>1, <1>2, CountUp
<1>4. \E g : Is(g, n)
  BY <1>3
<1> QED
  BY <1>4 DEF Is

LEMMA RenamingSteps ==
  ASSUME NEW fs, NEW body, NEW toAliases, Len(fs) \in Nat
  PROVE  LET g == Renaming(fs, body, toAliases) IN
         /\ g[0] = RenamingStart(body)
         /\ \A k \in 1..Len(fs) : g[k] = RenameField(g[k - 1], fs[k], toAliases)
<1> DEFINE Is(g) == IsRenaming(g, fs, body, toAliases, Len(fs))
<1>1. \E g : Is(g)
  BY RenamingExists
<1>2. Renaming(fs, body, toAliases) = CHOOSE g : Is(g)
  BY DEF Renaming, RenamingStart, IsRenaming
<1>3. Is(Renaming(fs, body, toAliases))
  <2> HIDE DEF Is
  <2> QED
    BY <1>1, <1>2, Zenon
<1> DEFINE g == Renaming(fs, body, toAliases)
<1>4. Is(g)
  BY <1>3
<1> HIDE DEF g
<1>5. \A k \in 0..Len(fs) : g[k] = IF k = 0 THEN RenamingStart(body)
                                ELSE RenameField(g[k - 1], fs[k], toAliases)
  BY <1>4 DEF IsRenaming
<1>6. g[0] = RenamingStart(body) /\ \A k \in 1..Len(fs) : g[k] = RenameField(g[k - 1], fs[k], toAliases)
  BY <1>5
<1> QED
  BY <1>6 DEF g

-----------------------------------------------------------------------------
(***************************************************************************)
(* The field at the top in which a field is.                               *)
(***************************************************************************)
TopOf(fs, i) == CHOOSE j \in DOMAIN fs : fs[j].path = SubSeq(fs[i].path, 1, 1)

\* What a path of names is.
LEMMA PathFacts ==
  ASSUME NEW fs, FieldsOK(fs), NEW i \in DOMAIN fs
  PROVE  /\ fs[i].path \in Seq(Name)
         /\ Len(fs[i].path) \in Nat \ {0}
         /\ DOMAIN fs[i].path = 1..Len(fs[i].path)
         /\ 1 \in DOMAIN fs[i].path
         /\ \A k \in DOMAIN fs[i].path : fs[i].path[k] \in Name
         /\ FieldAlias(fs[i]) \in Name
<1>1. fs[i].path \in Seq(Name) /\ fs[i].path # <<>> /\ Alias(fs[i].tags) \in Name \cup {NoAlias}
  BY DEF FieldsOK
<1> DEFINE p == fs[i].path
<1>2. p \in Seq(Name) /\ p # <<>>
  BY <1>1
<1> HIDE DEF p
<1>3. /\ Len(p) \in Nat \ {0}
      /\ DOMAIN p = 1..Len(p)
      /\ 1 \in DOMAIN p
      /\ Len(p) \in DOMAIN p
      /\ \A k \in DOMAIN p : p[k] \in Name
  BY <1>2
<1>4. FieldAlias(fs[i]) \in Name
  BY <1>1, <1>3 DEF FieldAlias, p
<1> QED
  BY <1>1, <1>3, <1>4 DEF p

LEMMA TopFacts ==
  ASSUME NEW fs, FieldsOK(fs), NEW i \in DOMAIN fs
  PROVE  /\ TopOf(fs, i) \in DOMAIN fs
         /\ TopOf(fs, i) \in Nat
         /\ Len(fs[TopOf(fs, i)].path) = 1
         /\ fs[TopOf(fs, i)].path[1] = fs[i].path[1]
         /\ \A j \in DOMAIN fs :
              Len(fs[j].path) = 1 /\ fs[j].path[1] = fs[i].path[1] => j = TopOf(fs, i)
<1> DEFINE p == fs[i].path
           t == TopOf(fs, i)
<1>1. p \in Seq(Name) /\ Len(p) \in Nat \ {0} /\ 1 \in 1..Len(p)
  BY PathFacts
<1>2. \E j \in DOMAIN fs : fs[j].path = SubSeq(p, 1, 1)
  BY <1>1 DEF FieldsOK
<1>3. t \in DOMAIN fs /\ fs[t].path = SubSeq(p, 1, 1)
  BY <1>2 DEF TopOf
<1>4. SubSeq(p, 1, 1) \in Seq(Name) /\ Len(SubSeq(p, 1, 1)) = 1 /\ SubSeq(p, 1, 1)[1] = p[1]
  <2> HIDE DEF p
  <2> QED
    BY <1>1
<1>5. t \in Nat
  BY <1>3 DEF FieldsOK
<1>6. ASSUME NEW j \in DOMAIN fs, Len(fs[j].path) = 1, fs[j].path[1] = p[1]
      PROVE  j = t
  <2>1. fs[j].path \in Seq(Name)
    BY PathFacts
  <2>2. fs[j].path = SubSeq(p, 1, 1)
    <3> DEFINE q == fs[j].path
               r == SubSeq(p, 1, 1)
    <3>1. q \in Seq(Name) /\ r \in Seq(Name) /\ Len(q) = 1 /\ Len(r) = 1 /\ q[1] = r[1]
      BY <1>4, <1>6, <2>1
    <3> HIDE DEF q, r
    <3>2. q = r
      BY <3>1
    <3> QED
      BY <3>2 DEF q, r
  <2> QED
    BY <1>3, <2>2 DEF FieldsOK, UniqueKeys
<1> QED
  BY <1>3, <1>4, <1>5, <1>6

(***************************************************************************)
(* After k fields: what is in one of the first k at the top has its new    *)
(* key, the rest is as it was.                                             *)
(***************************************************************************)
From(f, toAliases) == IF toAliases THEN f.path[1] ELSE FieldAlias(f)
To(f, toAliases) == IF toAliases THEN FieldAlias(f) ELSE f.path[1]

FirstAfter(fs, k, i, toAliases) ==
  IF TopOf(fs, i) <= k THEN To(fs[TopOf(fs, i)], toAliases) ELSE From(fs[TopOf(fs, i)], toAliases)

EntryAfter(fs, k, i, toAliases) ==
  Entry([fs[i].path EXCEPT ![1] = FirstAfter(fs, k, i, toAliases)], fs[i].path)

BodyAfter(fs, I, k, toAliases) == {EntryAfter(fs, k, i, toAliases) : i \in I}

\* Field k is renamed: whose entries are affected.
LEMMA WhoseEntry ==
  ASSUME NEW st, FieldsOK(st.fields), Plain(st), NEW toAliases \in BOOLEAN,
         NEW i \in DOMAIN st.fields, NEW k \in DOMAIN st.fields, Len(st.fields[k].path) = 1
  PROVE  LET fs == st.fields IN
         /\ EntryAfter(fs, k - 1, i, toAliases).key[1] = FirstAfter(fs, k - 1, i, toAliases)
         /\ FirstAfter(fs, k - 1, i, toAliases) = From(fs[k], toAliases) => TopOf(fs, i) = k \/ ~IsRenamed(fs[k])
         /\ TopOf(fs, i) = k => FirstAfter(fs, k - 1, i, toAliases) = From(fs[k], toAliases)
         /\ TopOf(fs, i) = k => FirstAfter(fs, k, i, toAliases) = To(fs[k], toAliases)
         /\ TopOf(fs, i) # k => FirstAfter(fs, k, i, toAliases) = FirstAfter(fs, k - 1, i, toAliases)
         /\ IsRenamed(fs[k]) => FirstAfter(fs, k - 1, i, toAliases) # To(fs[k], toAliases)
<1> DEFINE fs == st.fields
           t == TopOf(fs, i)
<1>1. t \in DOMAIN fs /\ t \in Nat /\ Len(fs[t].path) = 1 /\ k \in Nat
  BY TopFacts DEF FieldsOK
<1>2. 1 \in DOMAIN fs[i].path
  BY PathFacts
<1>3. EntryAfter(fs, k - 1, i, toAliases).key[1] = FirstAfter(fs, k - 1, i, toAliases)
  BY <1>2 DEF EntryAfter, Entry
<1>4. t # k => /\ FieldAlias(fs[t]) # FieldAlias(fs[k])
               /\ FieldAlias(fs[t]) # fs[k].path[1]
               /\ FieldAlias(fs[k]) # fs[t].path[1]
  BY <1>1 DEF Plain
<1>5. t # k => fs[t].path[1] # fs[k].path[1]
  <2>1. TopOf(fs, k) = k
    BY TopFacts
  <2>2. fs[t].path[1] = fs[k].path[1] => t = TopOf(fs, k)
    BY <1>1, TopFacts
  <2> QED
    BY <2>1, <2>2
<1>6. IsRenamed(fs[k]) => FieldAlias(fs[k]) # fs[k].path[1]
  BY DEF IsRenamed
<1> HIDE DEF fs, t
<1>7. FirstAfter(fs, k - 1, i, toAliases) =
        IF t <= k - 1 THEN To(fs[t], toAliases) ELSE From(fs[t], toAliases)
  BY DEF FirstAfter, t
<1>8. FirstAfter(fs, k, i, toAliases) =
        IF t <= k THEN To(fs[t], toAliases) ELSE From(fs[t], toAliases)
  BY DEF FirstAfter, t
<1>9. (t <= k <=> t <= k - 1 \/ t = k) /\ (t = k => ~(t <= k - 1))
  BY <1>1
<1>10. t # k => /\ To(fs[t], toAliases) # From(fs[k], toAliases)
                /\ From(fs[t], toAliases) # From(fs[k], toAliases)
                /\ To(fs[t], toAliases) # To(fs[k], toAliases)
                /\ From(fs[t], toAliases) # To(fs[k], toAliases)
  BY <1>4, <1>5 DEF From, To
<1>11. IsRenamed(fs[k]) => From(fs[k], toAliases) # To(fs[k], toAliases)
  BY <1>6 DEF From, To
<1> QED
  <2> HIDE DEF From, To
  <2> QED
    BY <1>3, <1>7, <1>8, <1>9, <1>10, <1>11 DEF fs, t

LEMMA RenameOne ==
  ASSUME NEW st, FieldsOK(st.fields), Plain(st), NEW toAliases \in BOOLEAN,
         NEW I \in SUBSET DOMAIN st.fields, NEW k \in DOMAIN st.fields,
         NEW message,
         message = [body |-> BodyAfter(st.fields, I, k - 1, toAliases), thrown |-> FALSE]
  PROVE  LET fs == st.fields
             after == RenameField(message, fs[k], toAliases) IN
         \/ /\ after = [body |-> BodyAfter(fs, I, k - 1, toAliases), thrown |-> TRUE]
            /\ k \notin I
            /\ IsRenamed(fs[k])
         \/ after = [body |-> BodyAfter(fs, I, k, toAliases), thrown |-> FALSE]
<1> DEFINE fs == st.fields
           after == RenameField(message, fs[k], toAliases)
           E(i) == EntryAfter(fs, k - 1, i, toAliases)
           F(i) == EntryAfter(fs, k, i, toAliases)
           from == From(fs[k], toAliases)
           to == To(fs[k], toAliases)
<1>1. message.body = {E(i) : i \in I} /\ ~message.thrown
  BY DEF BodyAfter
<1>2. BodyAfter(fs, I, k, toAliases) = {F(i) : i \in I}
  BY DEF BodyAfter
<1>3. CASE ~IsRenamed(fs[k])
  <2>1. after = message
    BY <1>3 DEF RenameField
  <2>2. ASSUME NEW i \in I PROVE E(i) = F(i)
    <3>1. CASE TopOf(fs, i) = k
      <4>1. Len(fs[k].path) = 1
        BY <3>1, TopFacts
      <4>2. FieldAlias(fs[k]) = fs[k].path[1]
        BY <1>3, <4>1 DEF IsRenamed
      <4>3. From(fs[k], toAliases) = To(fs[k], toAliases)
        BY <4>2 DEF From, To
      <4>4. FirstAfter(fs, k, i, toAliases) = FirstAfter(fs, k - 1, i, toAliases)
        BY <3>1, <4>3 DEF FirstAfter
      <4> QED
        BY <4>4 DEF EntryAfter
    <3>2. CASE TopOf(fs, i) # k
      <4>1. TopOf(fs, i) \in Nat
        BY TopFacts
      <4> k \in Nat
        BY DEF FieldsOK
      <4>2. TopOf(fs, i) <= k <=> TopOf(fs, i) <= k - 1
        BY <3>2, <4>1
      <4>3. FirstAfter(fs, k, i, toAliases) = FirstAfter(fs, k - 1, i, toAliases)
        BY <4>2 DEF FirstAfter
      <4> QED
        BY <4>3 DEF EntryAfter
    <3> QED
      BY <3>1, <3>2
  <2> HIDE DEF E, F
  <2>3. {E(i) : i \in I} = {F(i) : i \in I}
    BY <2>2
  <2>4. message.body = BodyAfter(fs, I, k, toAliases)
    BY <1>1, <1>2, <2>3
  <2> QED
    BY <2>1, <2>4
<1>4. CASE IsRenamed(fs[k])
  <2> DEFINE moved == {b \in message.body : b.key[1] = from}
  <2>1. Len(fs[k].path) = 1
    BY <1>4 DEF IsRenamed
  <2>2. after = Rename(message, from, to)
    BY <1>4 DEF RenameField, From, To
  <2>3. \A i \in I :
          /\ E(i).key[1] = from <=> TopOf(fs, i) = k
          /\ E(i).key[1] # to
          /\ TopOf(fs, i) # k => E(i) = F(i)
          /\ TopOf(fs, i) = k => [E(i) EXCEPT !.key[1] = to] = F(i)
    <3> SUFFICES ASSUME NEW i \in I
                 PROVE /\ E(i).key[1] = from <=> TopOf(fs, i) = k
                       /\ E(i).key[1] # to
                       /\ TopOf(fs, i) # k => E(i) = F(i)
                       /\ TopOf(fs, i) = k => [E(i) EXCEPT !.key[1] = to] = F(i)
      OBVIOUS
    <3>1. E(i).key[1] = from <=> TopOf(fs, i) = k
      BY <1>4, <2>1, WhoseEntry
    <3>2. E(i).key[1] # to
      BY <1>4, <2>1, WhoseEntry
    <3>3. TopOf(fs, i) # k => E(i) = F(i)
      <4>1. TopOf(fs, i) # k => FirstAfter(fs, k, i, toAliases) = FirstAfter(fs, k - 1, i, toAliases)
        BY <2>1, WhoseEntry
      <4> QED
        BY <4>1 DEF EntryAfter
    <3>4. ASSUME TopOf(fs, i) = k PROVE [E(i) EXCEPT !.key[1] = to] = F(i)
      <4>1. FirstAfter(fs, k, i, toAliases) = to
        BY <2>1, <3>4, WhoseEntry
      <4> DEFINE p == fs[i].path
                 x == FirstAfter(fs, k - 1, i, toAliases)
      <4>2. E(i) = [key |-> [p EXCEPT ![1] = x], field |-> p]
        BY DEF EntryAfter, Entry
      <4>3. F(i) = [key |-> [p EXCEPT ![1] = to], field |-> p]
        BY <4>1 DEF EntryAfter, Entry
      <4>4. [[p EXCEPT ![1] = x] EXCEPT ![1] = to] = [p EXCEPT ![1] = to]
        <5>1. p \in Seq(Name)
          BY PathFacts
        <5> HIDE DEF p, x, to
        <5> QED
          BY <5>1
      <4> HIDE DEF p, x, E, F, to
      <4> QED
        BY <4>2, <4>3, <4>4
    <3> HIDE DEF E, F, from, to
    <3> QED
      BY <3>1, <3>2, <3>3, <3>4
  <2>4. TopOf(fs, k) = k
    BY <2>1, TopFacts
  <2> HIDE DEF E, F, from, to, fs, after
  <2>5. CASE moved = {}
    <3>1. after = [body |-> BodyAfter(fs, I, k - 1, toAliases), thrown |-> TRUE]
      BY <2>2, <2>5, <1>1 DEF Rename, fs
    <3>2. k \notin I
      BY <1>1, <2>3, <2>4, <2>5
    <3> QED
      BY <1>4, <3>1, <3>2 DEF fs, after
  <2>6. CASE moved # {}
    <3> DEFINE new == {b \in message.body : b.key[1] \notin {from, to}}
                        \cup {[b EXCEPT !.key[1] = to] : b \in moved}
    <3>1. after = [message EXCEPT !.body = new]
      BY <2>2, <2>6, <1>1 DEF Rename
    <3>2. new = {F(i) : i \in I}
      <4>1. ASSUME NEW b \in new PROVE b \in {F(i) : i \in I}
        <5>1. CASE b \in message.body /\ b.key[1] \notin {from, to}
          BY <1>1, <2>3, <5>1
        <5>2. CASE b \in {[c EXCEPT !.key[1] = to] : c \in moved}
          <6>1. PICK c \in moved : b = [c EXCEPT !.key[1] = to]
            BY <5>2
          <6>2. PICK i \in I : c = E(i)
            BY <1>1, <6>1
          <6>3. b = F(i)
            BY <2>3, <6>1, <6>2
          <6> QED
            BY <6>3
        <5> QED
          BY <4>1, <5>1, <5>2
      <4>2. ASSUME NEW i \in I PROVE F(i) \in new
        <5>1. E(i) \in message.body
          BY <1>1
        <5>2. CASE TopOf(fs, i) = k
          <6>1. E(i) \in moved
            BY <2>3, <5>1, <5>2
          <6>2. F(i) = [E(i) EXCEPT !.key[1] = to]
            BY <2>3, <5>2
          <6> QED
            BY <6>1, <6>2
        <5>3. CASE TopOf(fs, i) # k
          BY <2>3, <5>1, <5>3
        <5> QED
          BY <5>2, <5>3
      <4> HIDE DEF new
      <4> QED
        BY <4>1, <4>2
    <3> HIDE DEF new, moved
    <3>3. after = [body |-> new, thrown |-> FALSE]
      BY <3>1
    <3>4. after = [body |-> BodyAfter(fs, I, k, toAliases), thrown |-> FALSE]
      BY <1>2, <3>2, <3>3
    <3> QED
      BY <3>4 DEF fs, after
  <2> QED
    BY <2>5, <2>6
<1> QED
  BY <1>3, <1>4

\* To throw changes that field of a message only.
LEMMA ToThrow ==
  ASSUME NEW body, NEW t, NEW u
  PROVE  LET m == [body |-> body, thrown |-> t] IN
         m.body = body /\ m.thrown = t /\ [m EXCEPT !.thrown = u] = [body |-> body, thrown |-> u]
OBVIOUS

\* Once it has thrown, nothing is renamed any more.
LEMMA ThrownStays ==
  ASSUME NEW body, NEW f, NEW toAliases
  PROVE  RenameField([body |-> body, thrown |-> TRUE], f, toAliases) = [body |-> body, thrown |-> TRUE]
<1> DEFINE m == [body |-> body, thrown |-> TRUE]
<1>1. ASSUME NEW from, NEW to PROVE Rename(m, from, to) = m
  <2>1. m.thrown = TRUE /\ [m EXCEPT !.thrown = TRUE] = m
    BY ToThrow, Zenon
  <2> HIDE DEF m
  <2> QED
    BY <2>1 DEF Rename
<1> HIDE DEF m
<1>2. RenameField(m, f, toAliases) = m
  BY <1>1 DEF RenameField
<1> QED
  BY <1>2 DEF m

\* What renaming comes to, on either side.
LEMMA RenamedBody ==
  ASSUME NEW st, FieldsOK(st.fields), Plain(st), NEW toAliases \in BOOLEAN,
         NEW I \in SUBSET DOMAIN st.fields
  PROVE  LET fs == st.fields
             message == Renaming(fs, BodyAfter(fs, I, 0, toAliases), toAliases)[Len(fs)] IN
         \/ /\ \E k \in DOMAIN fs \ I : IsRenamed(fs[k])
            /\ \E n \in 0..Len(fs) :
                 message = [body |-> BodyAfter(fs, I, n, toAliases), thrown |-> TRUE]
         \/ message = [body |-> BodyAfter(fs, I, Len(fs), toAliases), thrown |-> FALSE]
<1> DEFINE fs == st.fields
           g == Renaming(fs, BodyAfter(fs, I, 0, toAliases), toAliases)
           Ends(k) == \/ /\ \E j \in DOMAIN fs \ I : IsRenamed(fs[j])
                         /\ \E j \in 0..Len(fs) :
                              g[k] = [body |-> BodyAfter(fs, I, j, toAliases), thrown |-> TRUE]
                      \/ g[k] = [body |-> BodyAfter(fs, I, k, toAliases), thrown |-> FALSE]
           T == {k \in Nat : k <= Len(fs) => Ends(k)}
<1>1. Len(fs) \in Nat /\ DOMAIN fs = 1..Len(fs)
  BY DEF FieldsOK
<1>2. /\ g[0] = [body |-> BodyAfter(fs, I, 0, toAliases), thrown |-> FALSE]
      /\ \A k \in 1..Len(fs) : g[k] = RenameField(g[k - 1], fs[k], toAliases)
  BY <1>1, RenamingSteps DEF RenamingStart
<1> HIDE DEF g
<1>3. 0 \in T
  BY <1>2
<1>4. ASSUME NEW n \in Nat, n \in T PROVE n + 1 \in T
  <2> SUFFICES ASSUME n + 1 <= Len(fs) PROVE Ends(n + 1)
    OBVIOUS
  <2> DEFINE k == n + 1
  <2>1. k \in 1..Len(fs) /\ k \in DOMAIN fs /\ k - 1 = n
    BY <1>1
  <2>2. Ends(n)
    BY <1>1, <1>4
  <2>3. g[k] = RenameField(g[n], fs[k], toAliases)
    BY <1>2, <2>1
  <2>4. ASSUME \E j \in DOMAIN fs \ I : IsRenamed(fs[j]),
               NEW j \in 0..Len(fs),
               g[n] = [body |-> BodyAfter(fs, I, j, toAliases), thrown |-> TRUE]
        PROVE  Ends(k)
    <3>1. g[k] = [body |-> BodyAfter(fs, I, j, toAliases), thrown |-> TRUE]
      BY <2>3, <2>4, ThrownStays
    <3> QED
      BY <2>4, <3>1
  <2>5. CASE g[n] = [body |-> BodyAfter(fs, I, n, toAliases), thrown |-> FALSE]
    <3>1. \/ /\ g[k] = [body |-> BodyAfter(fs, I, k - 1, toAliases), thrown |-> TRUE]
             /\ k \notin I /\ IsRenamed(fs[k])
          \/ g[k] = [body |-> BodyAfter(fs, I, k, toAliases), thrown |-> FALSE]
      <4> HIDE DEF k
      <4> QED
        BY <2>1, <2>3, <2>5, RenameOne
    <3>2. k - 1 \in 0..Len(fs)
      BY <1>1, <2>1
    <3> QED
      BY <2>1, <3>1, <3>2
  <2> QED
    BY <2>2, <2>4, <2>5
<1>5. Nat \subseteq T
  <2> HIDE DEF T
  <2> QED
    BY <1>3, <1>4, CountUp
<1>6. Ends(Len(fs))
  BY <1>1, <1>5
<1> QED
  BY <1>6 DEF g

(***************************************************************************)
(* The keys of a plain struct: the names, its first one by its alias.      *)
(***************************************************************************)
LEMMA PlainKey ==
  ASSUME NEW st, FieldsOK(st.fields), Plain(st), NEW i \in DOMAIN st.fields
  PROVE  LET fs == st.fields IN
         GoKey(fs, i) = [fs[i].path EXCEPT ![1] = FieldAlias(fs[TopOf(fs, i)])]
<1> DEFINE fs == st.fields
           p == fs[i].path
           x == FieldAlias(fs[TopOf(fs, i)])
           At(k) == FieldAlias(fs[CHOOSE j \in DOMAIN fs : fs[j].path = SubSeq(p, 1, k)])
<1>1. p \in Seq(Name) /\ DOMAIN p = 1..Len(p) /\ Len(p) \in Nat /\ 1 \in DOMAIN p
  BY PathFacts
<1>2. At(1) = x
  BY DEF TopOf
<1>3. ASSUME NEW k \in DOMAIN p, k # 1 PROVE At(k) = p[k]
  <2>1. k \in 1..Len(p) /\ k \in Nat /\ k > 1
    BY <1>1, <1>3
  <2>2. \E j \in DOMAIN fs : fs[j].path = SubSeq(p, 1, k)
    BY <2>1 DEF FieldsOK
  <2> DEFINE j == CHOOSE j \in DOMAIN fs : fs[j].path = SubSeq(p, 1, k)
  <2>3. j \in DOMAIN fs /\ fs[j].path = SubSeq(p, 1, k)
    BY <2>2
  <2>4. Len(SubSeq(p, 1, k)) = k /\ SubSeq(p, 1, k)[k] = p[k]
    <3> HIDE DEF p
    <3> QED
      BY <1>1, <2>1
  <2> HIDE DEF j
  <2>5. FieldAlias(fs[j]) = p[k]
    BY <2>1, <2>3, <2>4 DEF Plain
  <2> QED
    BY <2>5 DEF j
<1>4. GoKey(fs, i) = [k \in DOMAIN p |-> At(k)]
  BY DEF GoKey
<1> HIDE DEF At, x, p
<1>5. [k \in DOMAIN p |-> At(k)] = [p EXCEPT ![1] = x]
  BY <1>1, <1>2, <1>3
<1> QED
  BY <1>4, <1>5 DEF x, p

LEMMA KeepFirst ==
  ASSUME NEW fs, FieldsOK(fs), NEW i \in DOMAIN fs
  PROVE  [fs[i].path EXCEPT ![1] = fs[TopOf(fs, i)].path[1]] = fs[i].path
<1> DEFINE p == fs[i].path
<1>1. fs[TopOf(fs, i)].path[1] = p[1] /\ p \in Seq(Name) /\ 1 \in DOMAIN p
  BY TopFacts, PathFacts
<1>2. [p EXCEPT ![1] = p[1]] = p
  <2> HIDE DEF p
  <2> QED
    BY <1>1
<1> QED
  BY <1>1, <1>2

LEMMA Bodies ==
  ASSUME NEW st, FieldsOK(st.fields), Plain(st), NEW I \in SUBSET DOMAIN st.fields
  PROVE  LET fs == st.fields IN
         /\ BodyAfter(fs, I, 0, TRUE) = JsBody(st, I)
         /\ BodyAfter(fs, I, Len(fs), TRUE) = GoBody(st, I)
         /\ BodyAfter(fs, I, 0, FALSE) = GoBody(st, I)
         /\ BodyAfter(fs, I, Len(fs), FALSE) = JsBody(st, I)
<1> DEFINE fs == st.fields
           Js(i) == Entry(fs[i].path, fs[i].path)
           Go(i) == Entry(GoKey(fs, i), fs[i].path)
<1>1. ASSUME NEW i \in I
      PROVE  /\ EntryAfter(fs, 0, i, TRUE) = Js(i)
             /\ EntryAfter(fs, Len(fs), i, TRUE) = Go(i)
             /\ EntryAfter(fs, 0, i, FALSE) = Go(i)
             /\ EntryAfter(fs, Len(fs), i, FALSE) = Js(i)
  <2> DEFINE t == TopOf(fs, i)
             p == fs[i].path
  <2>1. t \in DOMAIN fs
    BY TopFacts
  <2>2. t <= Len(fs) /\ ~(t <= 0)
    <3> HIDE DEF t
    <3> QED
      BY <2>1 DEF FieldsOK
  <2>3. GoKey(fs, i) = [p EXCEPT ![1] = FieldAlias(fs[t])]
    BY PlainKey
  <2>4. [p EXCEPT ![1] = fs[t].path[1]] = p
    BY KeepFirst
  <2>5. /\ FirstAfter(fs, 0, i, TRUE) = fs[t].path[1]
        /\ FirstAfter(fs, Len(fs), i, TRUE) = FieldAlias(fs[t])
        /\ FirstAfter(fs, 0, i, FALSE) = FieldAlias(fs[t])
        /\ FirstAfter(fs, Len(fs), i, FALSE) = fs[t].path[1]
    BY <2>2 DEF FirstAfter, From, To
  <2> QED
    BY <2>3, <2>4, <2>5 DEF EntryAfter
<1> HIDE DEF Js, Go
<1>2. JsBody(st, I) = {Js(i) : i \in I} /\ GoBody(st, I) = {Go(i) : i \in I}
  BY DEF JsBody, GoBody, Js, Go
<1>3. BodyAfter(fs, I, 0, TRUE) = JsBody(st, I)
  BY <1>1, <1>2 DEF BodyAfter
<1>4. BodyAfter(fs, I, Len(fs), TRUE) = GoBody(st, I)
  BY <1>1, <1>2 DEF BodyAfter
<1>5. BodyAfter(fs, I, 0, FALSE) = GoBody(st, I)
  BY <1>1, <1>2 DEF BodyAfter
<1>6. BodyAfter(fs, I, Len(fs), FALSE) = JsBody(st, I)
  BY <1>1, <1>2 DEF BodyAfter
<1> QED
  BY <1>3, <1>4, <1>5, <1>6

(***************************************************************************)
(* An object that has been passed to send once: the first field that is    *)
(* renamed is under its alias by then, so that send throws the next time,  *)
(* and leaves the object as it is.                                         *)
(***************************************************************************)
IsSpent(st, body) ==
  \E j \in DOMAIN st.fields :
    /\ IsRenamed(st.fields[j])
    /\ \A i \in DOMAIN st.fields : i < j => ~IsRenamed(st.fields[i])
    /\ \A b \in body : b.key[1] # st.fields[j].path[1]

LEMMA SpentThrows ==
  ASSUME NEW st, FieldsOK(st.fields), NEW body, IsSpent(st, body)
  PROVE  ToAliases(st, body) = [body |-> body, thrown |-> TRUE]
<1> DEFINE fs == st.fields
           g == Renaming(fs, body, TRUE)
<1>1. Len(fs) \in Nat /\ DOMAIN fs = 1..Len(fs)
  BY DEF FieldsOK
<1>2. PICK j \in DOMAIN fs :
        /\ IsRenamed(fs[j])
        /\ \A i \in DOMAIN fs : i < j => ~IsRenamed(fs[i])
        /\ \A b \in body : b.key[1] # fs[j].path[1]
  <2> HIDE DEF g
  <2> QED
    BY DEF IsSpent
<1>3. g[0] = RenamingStart(body) /\ \A k \in 1..Len(fs) : g[k] = RenameField(g[k - 1], fs[k], TRUE)
  <2>1. Len(fs) \in Nat
    BY <1>1
  <2> HIDE DEF fs
  <2> QED
    BY <2>1, RenamingSteps
<1>4. ToAliases(st, body) = g[Len(fs)]
  BY DEF ToAliases
<1> HIDE DEF g
<1> DEFINE clean == [body |-> body, thrown |-> FALSE]
           spent == [body |-> body, thrown |-> TRUE]
           Ends(k) == (k < j => g[k] = clean) /\ (j <= k => g[k] = spent)
           T == {k \in Nat : k <= Len(fs) => Ends(k)}
<1>5. j \in Nat \ {0} /\ j <= Len(fs)
  BY <1>1
<1>6. Rename(clean, fs[j].path[1], FieldAlias(fs[j])) = spent
  <2>1. {b \in clean.body : b.key[1] = fs[j].path[1]} = {}
    BY <1>2
  <2>2. [clean EXCEPT !.thrown = TRUE] = spent
    BY ToThrow, Zenon
  <2> HIDE DEF clean, spent, fs
  <2> QED
    BY <2>1, <2>2 DEF Rename
<1>7. \A f : RenameField(spent, f, TRUE) = spent
  BY ThrownStays
<1> HIDE DEF clean, spent
<1>8. 0 \in T
  BY <1>3, <1>5 DEF RenamingStart, clean
<1>9. ASSUME NEW n \in Nat, n \in T PROVE n + 1 \in T
  <2> SUFFICES ASSUME n + 1 <= Len(fs) PROVE Ends(n + 1)
    OBVIOUS
  <2> DEFINE k == n + 1
  <2>1. k \in DOMAIN fs /\ k \in Nat /\ g[k] = RenameField(g[n], fs[k], TRUE)
    <3>1. k \in 1..Len(fs) /\ k - 1 = n /\ k \in Nat
      BY <1>1
    <3> HIDE DEF k, fs
    <3> QED
      BY <1>1, <1>3, <3>1
  <2>2. (n < j => g[n] = clean) /\ (j <= n => g[n] = spent)
    BY <1>1, <1>9
  <2>3. CASE k < j
    <3>1. g[n] = clean
      BY <1>5, <2>2, <2>3
    <3>2. ~IsRenamed(fs[k])
      BY <1>2, <2>1, <2>3
    <3>3. g[k] = clean
      BY <2>1, <3>1, <3>2 DEF RenameField
    <3> QED
      BY <1>5, <2>3, <3>3
  <2>4. CASE k = j
    <3>1. g[n] = clean
      BY <1>5, <2>2, <2>4
    <3>2. g[k] = spent
      BY <1>2, <1>6, <2>1, <2>4, <3>1 DEF RenameField
    <3> QED
      BY <1>5, <2>4, <3>2
  <2>5. CASE k > j
    <3>1. g[n] = spent
      BY <1>5, <2>2, <2>5
    <3>2. g[k] = spent
      BY <1>7, <2>1, <3>1
    <3> QED
      BY <1>5, <2>5, <3>2
  <2> QED
    BY <1>5, <2>3, <2>4, <2>5
<1>10. Nat \subseteq T
  <2> HIDE DEF T
  <2> QED
    BY <1>8, <1>9, CountUp
<1>11. g[Len(fs)] = spent
  BY <1>1, <1>5, <1>10
<1> QED
  BY <1>4, <1>11 DEF spent

LEMMA HalfRenamed ==
  ASSUME NEW st, FieldsOK(st.fields), Plain(st), NEW I \in SUBSET DOMAIN st.fields,
         NEW n \in 0..Len(st.fields)
  PROVE  LET body == BodyAfter(st.fields, I, n, TRUE) IN
         body = JsBody(st, I) \/ IsSpent(st, body)
<1> DEFINE fs == st.fields
           body == BodyAfter(fs, I, n, TRUE)
           E(i) == EntryAfter(fs, n, i, TRUE)
           E0(i) == EntryAfter(fs, 0, i, TRUE)
           R == {k \in DOMAIN fs : IsRenamed(fs[k]) /\ k <= n}
<1>1. Len(fs) \in Nat /\ DOMAIN fs = 1..Len(fs) /\ R \subseteq Nat
  BY DEF FieldsOK
<1>2. BodyAfter(fs, I, 0, TRUE) = JsBody(st, I)
  BY Bodies
<1>3. CASE R = {}
  <2>1. ASSUME NEW i \in I PROVE E(i) = E0(i)
    <3> DEFINE t == TopOf(fs, i)
    <3>1. t \in DOMAIN fs /\ t \in Nat /\ Len(fs[t].path) = 1
      BY TopFacts
    <3> HIDE DEF t
    <3>2. t <= n => FieldAlias(fs[t]) = fs[t].path[1]
      BY <1>3, <3>1 DEF IsRenamed
    <3>3. ~(t <= 0)
      BY <1>1, <3>1
    <3>4. /\ FirstAfter(fs, n, i, TRUE) = IF t <= n THEN FieldAlias(fs[t]) ELSE fs[t].path[1]
          /\ FirstAfter(fs, 0, i, TRUE) = IF t <= 0 THEN FieldAlias(fs[t]) ELSE fs[t].path[1]
      BY DEF FirstAfter, From, To, t
    <3>5. FirstAfter(fs, n, i, TRUE) = FirstAfter(fs, 0, i, TRUE)
      <4>1. FirstAfter(fs, 0, i, TRUE) = fs[t].path[1]
        BY <3>3, <3>4
      <4>2. CASE t <= n
        <5>1. FirstAfter(fs, n, i, TRUE) = FieldAlias(fs[t])
          BY <3>4, <4>2
        <5> QED
          BY <3>2, <4>1, <4>2, <5>1
      <4>3. CASE ~(t <= n)
        <5>1. FirstAfter(fs, n, i, TRUE) = fs[t].path[1]
          BY <3>4, <4>3
        <5> QED
          BY <4>1, <5>1
      <4> QED
        BY <4>2, <4>3
    <3> QED
      BY <3>5 DEF EntryAfter
  <2> HIDE DEF E, E0
  <2>2. {E(i) : i \in I} = {E0(i) : i \in I}
    BY <2>1
  <2> QED
    BY <1>2, <2>2 DEF BodyAfter, E, E0
<1>4. CASE R # {}
  <2>1. PICK j \in R : \A k \in R : j <= k
    BY <1>1, <1>4, LeastNumber
  <2> DEFINE from == fs[j].path[1]
  <2>2. j \in DOMAIN fs /\ IsRenamed(fs[j]) /\ j <= n /\ j \in Nat /\ Len(fs[j].path) = 1
    BY <1>1, <2>1 DEF IsRenamed
  <2>3. ASSUME NEW i \in DOMAIN fs, i < j PROVE ~IsRenamed(fs[i])
    <3>1. i \in Nat /\ i <= n /\ ~(j <= i)
      BY <1>1, <2>2, <2>3
    <3> QED
      BY <2>1, <3>1
  <2>4. ASSUME NEW i \in I PROVE E(i).key[1] # from
    <3> DEFINE t == TopOf(fs, i)
               x == FirstAfter(fs, n, i, TRUE)
    <3>1. t \in DOMAIN fs /\ t \in Nat /\ Len(fs[t].path) = 1 /\ 1 \in DOMAIN fs[i].path
      BY TopFacts, PathFacts
    <3>2. E(i).key[1] = x
      BY <3>1 DEF EntryAfter, Entry
    <3>3. x = IF t <= n THEN FieldAlias(fs[t]) ELSE fs[t].path[1]
      BY DEF FirstAfter, From, To
    <3> HIDE DEF t, x, E
    <3>4. CASE t = j
      BY <2>2, <3>2, <3>3, <3>4 DEF IsRenamed
    <3>5. CASE t # j
      <4>1. FieldAlias(fs[t]) # from
        BY <2>2, <3>1, <3>5 DEF Plain
      <4>2. fs[t].path[1] # from
        <5>1. TopOf(fs, j) = j
          BY <2>2, TopFacts
        <5>2. fs[t].path[1] = from => t = TopOf(fs, j)
          BY <2>2, <3>1, TopFacts
        <5> QED
          BY <3>5, <5>1, <5>2
      <4> QED
        BY <3>2, <3>3, <4>1, <4>2
    <3> QED
      BY <3>4, <3>5
  <2>5. \A b \in body : b.key[1] # from
    <3> HIDE DEF E
    <3>1. body = {E(i) : i \in I}
      BY DEF BodyAfter, E
    <3> HIDE DEF body
    <3> QED
      BY <2>4, <3>1
  <2> HIDE DEF body
  <2>6. IsSpent(st, body)
    BY <2>2, <2>3, <2>5 DEF IsSpent
  <2> QED
    BY <2>6 DEF body
<1> QED
  BY <1>3, <1>4

\* Fields of a plain struct have keys of their own.
LEMMA OwnKeys ==
  ASSUME NEW st, FieldsOK(st.fields), Plain(st),
         NEW i \in DOMAIN st.fields, NEW j \in DOMAIN st.fields,
         GoKey(st.fields, i) = GoKey(st.fields, j)
  PROVE  i = j
<1> DEFINE fs == st.fields
           p == fs[i].path
           q == fs[j].path
           t == TopOf(fs, i)
           u == TopOf(fs, j)
           x == FieldAlias(fs[t])
           y == FieldAlias(fs[u])
<1>1. /\ p \in Seq(Name) /\ q \in Seq(Name) /\ 1 \in DOMAIN p /\ 1 \in DOMAIN q
      /\ DOMAIN p = 1..Len(p) /\ DOMAIN q = 1..Len(q)
      /\ Len(p) \in Nat \ {0} /\ Len(q) \in Nat \ {0}
  BY PathFacts
<1>2. [p EXCEPT ![1] = x] = [q EXCEPT ![1] = y]
  BY PlainKey
<1>3. DOMAIN p = DOMAIN q /\ x = y /\ \A k \in DOMAIN p : k # 1 => p[k] = q[k]
  <2> DEFINE a == [p EXCEPT ![1] = x]
             b == [q EXCEPT ![1] = y]
  <2>1. /\ DOMAIN a = DOMAIN p /\ DOMAIN b = DOMAIN q
        /\ a[1] = x /\ b[1] = y
        /\ \A k \in DOMAIN p : k # 1 => a[k] = p[k]
        /\ \A k \in DOMAIN q : k # 1 => b[k] = q[k]
    <3> HIDE DEF p, q, x, y
    <3> QED
      BY <1>1
  <2>2. a = b
    BY <1>2
  <2> HIDE DEF a, b, p, q, x, y
  <2> QED
    BY <2>1, <2>2
<1>4. /\ t \in DOMAIN fs /\ u \in DOMAIN fs /\ Len(fs[t].path) = 1 /\ Len(fs[u].path) = 1
      /\ fs[t].path[1] = p[1] /\ fs[u].path[1] = q[1]
  BY TopFacts
<1>5. t = u
  <2> HIDE DEF t, u
  <2> QED
    BY <1>3, <1>4 DEF Plain
<1>6. p[1] = q[1]
  BY <1>4, <1>5
<1>7. p = q
  <2> HIDE DEF p, q
  <2>1. \A k \in DOMAIN p : p[k] = q[k]
    BY <1>3, <1>6
  <2>2. Len(p) = Len(q)
    <3>1. Len(p) \in 1..Len(q) /\ Len(q) \in 1..Len(p)
      BY <1>1, <1>3
    <3>2. Len(p) \in Nat /\ Len(q) \in Nat
      BY <1>1
    <3> DEFINE a == Len(p)
               b == Len(q)
    <3>3. a \in Nat /\ b \in Nat /\ a \in 1..b /\ b \in 1..a
      BY <3>1, <3>2
    <3> HIDE DEF a, b
    <3>4. a = b
      BY <3>3
    <3> QED
      BY <3>4 DEF a, b
  <2> QED
    BY <1>1, <2>1, <2>2
<1> QED
  BY <1>7 DEF FieldsOK, UniqueKeys

LEMMA DecodedBody ==
  ASSUME NEW st, FieldsOK(st.fields), Plain(st), NEW I \in SUBSET DOMAIN st.fields
  PROVE  Decode(st, GoBody(st, I)) = JsBody(st, I)
<1> DEFINE fs == st.fields
           body == GoBody(st, I)
           Of(i) == {Entry(fs[i].path, b.field) : b \in {c \in body : c.key = GoKey(fs, i)}}
<1>1. Decode(st, body) = UNION {Of(i) : i \in DOMAIN fs}
  BY DEF Decode
<1>2. \A b : b \in body <=> \E i \in I : b = Entry(GoKey(fs, i), fs[i].path)
  BY DEF GoBody
<1>3. \A b : b \in JsBody(st, I) <=> \E i \in I : b = Entry(fs[i].path, fs[i].path)
  BY DEF JsBody
<1> HIDE DEF body
<1>4. ASSUME NEW i \in DOMAIN fs, NEW e \in Of(i)
      PROVE  e \in JsBody(st, I)
  <2>1. PICK b \in body : b.key = GoKey(fs, i) /\ e = Entry(fs[i].path, b.field)
    OBVIOUS
  <2>2. PICK j \in I : b = Entry(GoKey(fs, j), fs[j].path)
    BY <1>2
  <2>3. GoKey(fs, j) = GoKey(fs, i) /\ b.field = fs[j].path
    BY <2>1, <2>2 DEF Entry
  <2>4. j = i
    BY <2>3, OwnKeys
  <2> QED
    BY <1>3, <2>1, <2>3, <2>4
<1>5. ASSUME NEW i \in I PROVE Entry(fs[i].path, fs[i].path) \in Of(i) /\ i \in DOMAIN fs
  <2> DEFINE b == Entry(GoKey(fs, i), fs[i].path)
  <2>1. b \in body /\ b.key = GoKey(fs, i) /\ b.field = fs[i].path
    BY <1>2 DEF Entry
  <2> HIDE DEF b
  <2> QED
    BY <2>1
<1> HIDE DEF Of
<1>6. Decode(st, body) \subseteq JsBody(st, I)
  BY <1>1, <1>4
<1>7. JsBody(st, I) \subseteq Decode(st, body)
  BY <1>1, <1>3, <1>5
<1> QED
  BY <1>6, <1>7 DEF body

(***************************************************************************)
(* What goes over the wire for a plain struct: its fields under the keys   *)
(* of the Go struct, from either side, and on each side what was set; or,  *)
(* on receipt, the browser's code throws for a field that may be left out. *)
(***************************************************************************)
IsLost(st, i) ==
  TagDirection(st.fields[i].tags) # AnyDirection
    /\ FieldAlias(st.fields[i]) # st.fields[i].path[Len(st.fields[i].path)]

LEMMA LeftOut ==
  ASSUME NEW st, FieldsOK(st.fields), NEW I \in Contents(st),
         NEW i \in DOMAIN st.fields \ I, IsRenamed(st.fields[i])
  PROVE  IsLost(st, i)
<1> DEFINE fs == st.fields
<1>1. Len(fs[i].path) = 1 /\ FieldAlias(fs[i]) # fs[i].path[1]
  BY DEF IsRenamed
<1>2. Above(fs, i) = {}
  <2> SUFFICES ASSUME NEW j \in Above(fs, i) PROVE FALSE
    OBVIOUS
  <2> DEFINE p == fs[i].path
             q == fs[j].path
  <2>1. /\ p \in Seq(Name) /\ q \in Seq(Name) /\ Len(q) \in Nat \ {0} /\ Len(p) = 1
        /\ Len(q) <= Len(p) /\ SubSeq(q, 1, Len(q)) = SubSeq(p, 1, Len(q)) /\ q # p
    BY <1>1, PathFacts DEF Above, IsStrictPrefix, IsPrefix
  <2> HIDE DEF p, q
  <2>2. Len(q) = 1
    BY <2>1
  <2>3. q[1] = p[1]
    <3>1. SubSeq(q, 1, 1) = SubSeq(p, 1, 1)
      BY <2>1, <2>2
    <3>2. SubSeq(q, 1, 1)[1] = q[1] /\ SubSeq(p, 1, 1)[1] = p[1]
      BY <2>1, <2>2
    <3> QED
      BY <3>1, <3>2
  <2> QED
    BY <2>1, <2>2, <2>3
<1>3. Optional(fs, i)
  BY <1>2 DEF Contents
<1> QED
  BY <1>1, <1>2, <1>3 DEF Optional, IsLost

LEMMA OverTheWire ==
  ASSUME NEW st, FieldsOK(st.fields), Plain(st), NEW I \in SUBSET DOMAIN st.fields
  PROVE  LET down == ToNames(st, GoBody(st, I)) IN
         /\ ~down.thrown => down.body = JsBody(st, I)
         /\ down.thrown /\ I \in Contents(st) => \E i \in DOMAIN st.fields \ I : IsLost(st, i)
         /\ Decode(st, GoBody(st, I)) = JsBody(st, I)
<1> DEFINE fs == st.fields
           down == ToNames(st, GoBody(st, I))
<1>1. \/ down.thrown /\ \E k \in DOMAIN fs \ I : IsRenamed(fs[k])
      \/ down = [body |-> JsBody(st, I), thrown |-> FALSE]
  <2> DEFINE from == BodyAfter(fs, I, 0, FALSE)
             message == Renaming(fs, from, FALSE)[Len(fs)]
  <2>1. \/ /\ \E k \in DOMAIN fs \ I : IsRenamed(fs[k])
           /\ \E n \in 0..Len(fs) : message = [body |-> BodyAfter(fs, I, n, FALSE), thrown |-> TRUE]
        \/ message = [body |-> BodyAfter(fs, I, Len(fs), FALSE), thrown |-> FALSE]
    BY RenamedBody, Zenon
  <2>2. from = GoBody(st, I) /\ BodyAfter(fs, I, Len(fs), FALSE) = JsBody(st, I)
    BY Bodies, Zenon
  <2>3. down = message
    BY <2>2 DEF ToNames
  <2>4. \A body : [body |-> body, thrown |-> TRUE].thrown = TRUE
    OBVIOUS
  <2> HIDE DEF down, message
  <2> QED
    BY <2>1, <2>2, <2>3, <2>4, Zenon
<1>2. I \in Contents(st) /\ (\E k \in DOMAIN fs \ I : IsRenamed(fs[k])) =>
        \E i \in DOMAIN fs \ I : IsLost(st, i)
  BY LeftOut
<1>3. Decode(st, GoBody(st, I)) = JsBody(st, I)
  BY DecodedBody
<1> HIDE DEF down
<1> QED
  BY <1>1, <1>2, <1>3 DEF down

(***************************************************************************)
(* An object of a plain struct on the page: as the page has made it, or    *)
(* spent; what send makes of it, and leaves of it.                         *)
(***************************************************************************)
AsMadeOrSpent(st, I, body) == body = JsBody(st, I) \/ IsSpent(st, body)

LEMMA ObjectSent ==
  ASSUME NEW st, FieldsOK(st.fields), Plain(st), NEW I \in SUBSET DOMAIN st.fields,
         NEW body, AsMadeOrSpent(st, I, body)
  PROVE  LET up == ToAliases(st, body) IN
         /\ ~up.thrown => up.body = GoBody(st, I)
         /\ AsMadeOrSpent(st, I, up.body)
<1> DEFINE fs == st.fields
           up == ToAliases(st, body)
<1>1. CASE body = JsBody(st, I)
  <2>1. \/ \E n \in 0..Len(fs) : up = [body |-> BodyAfter(fs, I, n, TRUE), thrown |-> TRUE]
        \/ up = [body |-> BodyAfter(fs, I, Len(fs), TRUE), thrown |-> FALSE]
    <3> DEFINE from == BodyAfter(fs, I, 0, TRUE)
               message == Renaming(fs, from, TRUE)[Len(fs)]
    <3>1. \/ /\ \E k \in DOMAIN fs \ I : IsRenamed(fs[k])
             /\ \E n \in 0..Len(fs) : message = [body |-> BodyAfter(fs, I, n, TRUE), thrown |-> TRUE]
          \/ message = [body |-> BodyAfter(fs, I, Len(fs), TRUE), thrown |-> FALSE]
      BY RenamedBody, Zenon
    <3>2. from = body
      BY <1>1, Bodies, Zenon
    <3>3. up = message
      BY <3>2 DEF ToAliases
    <3> HIDE DEF up, message
    <3> QED
      BY <3>1, <3>3
  <2>2. Len(fs) \in 0..Len(fs) /\ BodyAfter(fs, I, Len(fs), TRUE) = GoBody(st, I)
    <3>1. Len(fs) \in 0..Len(fs)
      BY DEF FieldsOK
    <3> QED
      BY <3>1, Bodies, Zenon
  <2>3. \A n \in 0..Len(fs) : AsMadeOrSpent(st, I, BodyAfter(fs, I, n, TRUE))
    BY HalfRenamed DEF AsMadeOrSpent
  <2>4. CASE \E n \in 0..Len(fs) : up = [body |-> BodyAfter(fs, I, n, TRUE), thrown |-> TRUE]
    <3>1. PICK n \in 0..Len(fs) : up = [body |-> BodyAfter(fs, I, n, TRUE), thrown |-> TRUE]
      BY <2>4
    <3> HIDE DEF up
    <3>2. up.body = BodyAfter(fs, I, n, TRUE) /\ up.thrown
      BY <3>1
    <3> QED
      BY <2>3, <3>2 DEF up
  <2>5. CASE up = [body |-> BodyAfter(fs, I, Len(fs), TRUE), thrown |-> FALSE]
    <3> HIDE DEF up
    <3>1. up.body = BodyAfter(fs, I, Len(fs), TRUE)
      BY <2>5
    <3> QED
      BY <2>2, <2>3, <3>1 DEF up
  <2> HIDE DEF up
  <2> QED
    BY <2>1, <2>4, <2>5 DEF up
<1>2. CASE IsSpent(st, body)
  BY <1>2, SpentThrows DEF AsMadeOrSpent
<1> QED
  BY <1>1, <1>2 DEF AsMadeOrSpent

(***************************************************************************)
(* Types: what is renamed is still a set of entries.                       *)
(***************************************************************************)
LEMMA NewFirst ==
  ASSUME NEW S, NEW q \in Seq(S), NEW x \in S
  PROVE  [q EXCEPT ![1] = x] \in Seq(S)
<1> DEFINE r == [q EXCEPT ![1] = x]
<1>1. DOMAIN q = 1..Len(q) /\ Len(q) \in Nat /\ \A k \in 1..Len(q) : q[k] \in S
  OBVIOUS
<1>2. r = [k \in 1..Len(q) |-> IF k = 1 THEN x ELSE q[k]]
  BY <1>1
<1> HIDE DEF r
<1>3. r \in Seq(S)
  BY <1>1, <1>2
<1> QED
  BY <1>3 DEF r

IsMessage(m) == "body" \in DOMAIN m /\ m.body \in SUBSET Entries

LEMMA RenamingTypes ==
  ASSUME NEW fs, FieldsOK(fs), NEW body, body \subseteq Entries, NEW toAliases \in BOOLEAN
  PROVE  Renaming(fs, body, toAliases)[Len(fs)].body \subseteq Entries
<1> DEFINE g == Renaming(fs, body, toAliases)
           T == {k \in Nat : k <= Len(fs) => IsMessage(g[k])}
<1>1. Len(fs) \in Nat /\ DOMAIN fs = 1..Len(fs)
  BY DEF FieldsOK
<1>2. /\ g[0] = [body |-> body, thrown |-> FALSE]
      /\ \A k \in 1..Len(fs) : g[k] = RenameField(g[k - 1], fs[k], toAliases)
  BY <1>1, RenamingSteps DEF RenamingStart
<1> HIDE DEF g
<1>3. 0 \in T
  BY <1>2 DEF IsMessage
<1>4. ASSUME NEW n \in Nat, n \in T PROVE n + 1 \in T
  <2> SUFFICES ASSUME n + 1 <= Len(fs) PROVE IsMessage(g[n + 1])
    OBVIOUS
  <2> DEFINE k == n + 1
             f == fs[k]
  <2>1. k \in 1..Len(fs) /\ k \in DOMAIN fs /\ k - 1 = n
    BY <1>1
  <2>2. IsMessage(g[n])
    BY <1>1, <1>4
  <2>3. g[k] = RenameField(g[n], f, toAliases)
    BY <1>2, <2>1
  <2>4. f.path[1] \in Name /\ FieldAlias(f) \in Name
    <3> HIDE DEF k
    <3> QED
      BY <2>1, PathFacts
  <2> HIDE DEF k, f
  <2>5. ASSUME NEW m, IsMessage(m), NEW from, NEW to \in Name
        PROVE  IsMessage(Rename(m, from, to))
    <3> DEFINE moved == {e \in m.body : e.key[1] = from}
               new == {e \in m.body : e.key[1] \notin {from, to}}
                        \cup {[e EXCEPT !.key[1] = to] : e \in moved}
    <3>1. new \subseteq Entries
      <4> SUFFICES ASSUME NEW e \in moved PROVE [e EXCEPT !.key[1] = to] \in Entries
        BY <2>5 DEF IsMessage
      <4>1. e \in [key : Seq(Name), field : Seq(Name)]
        BY <2>5 DEF IsMessage, Entries
      <4> DEFINE newKey == [e.key EXCEPT ![1] = to]
      <4>2. newKey \in Seq(Name) /\ e.field \in Seq(Name)
        BY <2>5, <4>1, NewFirst
      <4>3. [e EXCEPT !.key[1] = to] = [key |-> newKey, field |-> e.field]
        <5>1. PICK q, p : e = [key |-> q, field |-> p]
          BY <4>1
        <5> QED
          BY <5>1
      <4> HIDE DEF newKey
      <4>4. [key |-> newKey, field |-> e.field] \in Entries
        BY <4>2 DEF Entries
      <4> QED
        BY <4>3, <4>4 DEF newKey
    <3>2. \/ Rename(m, from, to) = [m EXCEPT !.thrown = TRUE]
          \/ Rename(m, from, to) = [m EXCEPT !.body = new]
      BY DEF Rename
    <3> HIDE DEF new, moved
    <3>3. CASE Rename(m, from, to) = [m EXCEPT !.thrown = TRUE]
      BY <2>5, <3>3 DEF IsMessage
    <3>4. CASE Rename(m, from, to) = [m EXCEPT !.body = new]
      BY <2>5, <3>1, <3>4 DEF IsMessage
    <3> QED
      BY <3>2, <3>3, <3>4
  <2>6. \/ g[k] = g[n]
        \/ g[k] = Rename(g[n], f.path[1], FieldAlias(f))
        \/ g[k] = Rename(g[n], FieldAlias(f), f.path[1])
    BY <2>3 DEF RenameField
  <2>7. IsMessage(g[k])
    BY <2>2, <2>4, <2>5, <2>6
  <2> QED
    BY <2>7 DEF k
<1>5. Nat \subseteq T
  <2> HIDE DEF T
  <2> QED
    BY <1>3, <1>4, CountUp
<1>6. IsMessage(g[Len(fs)])
  BY <1>1, <1>5
<1>7. g[Len(fs)].body \subseteq Entries
  BY <1>6 DEF IsMessage
<1> QED
  BY <1>7 DEF g

LEMMA BodyTypes ==
  ASSUME NEW st, FieldsOK(st.fields), NEW I \in SUBSET DOMAIN st.fields
  PROVE  /\ JsBody(st, I) \in SUBSET Entries
         /\ GoBody(st, I) \in SUBSET Entries
<1> DEFINE fs == st.fields
<1>1. I \subseteq DOMAIN fs
  OBVIOUS
<1>2. ASSUME NEW i \in I PROVE fs[i].path \in Seq(Name) /\ GoKey(fs, i) \in Seq(Name)
  <2> DEFINE p == fs[i].path
             At(k) == FieldAlias(fs[CHOOSE j \in DOMAIN fs : fs[j].path = SubSeq(p, 1, k)])
  <2>1. p \in Seq(Name) /\ DOMAIN p = 1..Len(p) /\ Len(p) \in Nat
    BY <1>1, PathFacts
  <2>2. ASSUME NEW k \in DOMAIN p PROVE At(k) \in Name
    <3>1. \E j \in DOMAIN fs : fs[j].path = SubSeq(p, 1, k)
      BY <1>1, <2>1 DEF FieldsOK
    <3> QED
      BY <3>1, PathFacts
  <2>3. GoKey(fs, i) = [k \in DOMAIN p |-> At(k)]
    BY DEF GoKey
  <2> HIDE DEF p, At
  <2>4. [k \in DOMAIN p |-> At(k)] \in Seq(Name)
    BY <2>1, <2>2
  <2> QED
    BY <2>1, <2>3, <2>4 DEF p
<1>3. JsBody(st, I) \subseteq Entries /\ GoBody(st, I) \subseteq Entries
  BY <1>2 DEF JsBody, GoBody, Entry, Entries
<1> QED
  BY <1>3

-----------------------------------------------------------------------------
(***************************************************************************)
(* The page's sockets are dialed one after the other, and unless they have *)
(* overlapped only the last can be in use.                                 *)
(***************************************************************************)
ClientInv ==
  /\ ClientTypeOK
  /\ \A s \in Socket : s > conn => socket[s] = "none"
  /\ ~overlapped => \A s \in Socket : s # conn => ~InUse(s)
  /\ ConnectedIsOpen

(***************************************************************************)
(* A queue of frames is a sequence, of whatever there is in it.            *)
(***************************************************************************)
IsQueue(q) == \E S : q \in Seq(S)

LEMMA EmptyQueue == IsQueue(<<>>) /\ Len(<<>>) = 0
<1>1. <<>> \in Seq({})
  OBVIOUS
<1> QED
  BY <1>1 DEF IsQueue

\* What Append does to a queue.
LEMMA AppendQueue ==
  ASSUME NEW q, NEW x, IsQueue(q)
  PROVE  /\ IsQueue(Append(q, x))
         /\ DOMAIN q = 1..Len(q)
         /\ Len(q) \in Nat
         /\ DOMAIN Append(q, x) = 1..(Len(q) + 1)
         /\ \A k \in 1..Len(q) : Append(q, x)[k] = q[k]
         /\ Append(q, x)[Len(q) + 1] = x
<1>1. PICK S : q \in Seq(S)
  BY DEF IsQueue
<1> DEFINE T == S \cup {x}
<1>2. q \in Seq(T) /\ x \in T
  BY <1>1
<1>3. Append(q, x) \in Seq(T)
  BY <1>2
<1>4. IsQueue(Append(q, x))
  BY <1>3 DEF IsQueue
<1> QED
  BY <1>2, <1>4

\* What Head and Tail do to a queue.
LEMMA TailQueue ==
  ASSUME NEW q, IsQueue(q), q # <<>>
  PROVE  /\ IsQueue(Tail(q))
         /\ DOMAIN q = 1..Len(q)
         /\ Len(q) \in Nat \ {0}
         /\ Head(q) = q[1]
         /\ DOMAIN Tail(q) = 1..(Len(q) - 1)
         /\ \A k \in 1..(Len(q) - 1) : Tail(q)[k] = q[k + 1]
<1>1. PICK S : q \in Seq(S)
  BY DEF IsQueue
<1>2. Tail(q) \in Seq(S)
  BY <1>1
<1>3. IsQueue(Tail(q))
  BY <1>2 DEF IsQueue
<1> QED
  BY <1>1, <1>3

\* What cutting the end of a queue does.
LEMMA CutQueue ==
  ASSUME NEW q, IsQueue(q), NEW n \in 0..Len(q)
  PROVE  /\ IsQueue(SubSeq(q, 1, n))
         /\ DOMAIN q = 1..Len(q)
         /\ Len(q) \in Nat
         /\ DOMAIN SubSeq(q, 1, n) = 1..n
         /\ \A k \in 1..n : SubSeq(q, 1, n)[k] = q[k]
<1>1. PICK S : q \in Seq(S)
  BY DEF IsQueue
<1>2. Len(q) \in Nat /\ n \in Nat /\ n <= Len(q)
  BY <1>1
<1>3. SubSeq(q, 1, n) \in Seq(S)
  BY <1>1, <1>2
<1>4. IsQueue(SubSeq(q, 1, n))
  BY <1>3 DEF IsQueue
<1>5. Len(SubSeq(q, 1, n)) = n /\ \A k \in 1..n : SubSeq(q, 1, n)[k] = q[k]
  BY <1>1, <1>2
<1> QED
  BY <1>1, <1>2, <1>3, <1>4, <1>5

-----------------------------------------------------------------------------
(***************************************************************************)
(* A frame says, in aliases, which event of which channel it stands for,   *)
(* and what is in it under the keys of the Go struct.                      *)
(***************************************************************************)
IsWhole(frame) ==
  frame = [channel |-> frame.channel, name |-> frame.name, body |-> frame.body,
           origin |-> frame.origin]

IsEventOf(frame, chs) ==
  /\ frame.origin.channel \in chs
  /\ frame.channel = ChannelAlias(frame.origin.channel)
  /\ \E s \in frame.origin.channel.enabled :
       /\ frame.origin.struct = s.decl
       /\ frame.name = StructAlias(s.decl)
       /\ frame.origin.content \in SUBSET DOMAIN s.decl.fields
       /\ Plain(s.decl) => frame.body = GoBody(s.decl, frame.origin.content)

\* What is on its way from the page.
PageQueue(q, chs) ==
  /\ IsQueue(q)
  /\ \A k \in DOMAIN q : IsWhole(q[k]) /\ IsFrame(q[k]) /\ IsEventOf(q[k], chs)

IsServerEvent(frame, chs) ==
  IsEventOf(frame, chs) /\ frame.origin.content \in Contents(frame.origin.struct)

\* What is on its way to the page, n events having been sent: in order.
ServerEvent(frame, chs, n) ==
  /\ IsServerEvent(frame, chs)
  /\ frame.origin.no \in Nat
  /\ frame.origin.no <= n

ServerQueue(q, chs, n) ==
  /\ IsQueue(q)
  /\ \A k \in DOMAIN q : IsFrame(q[k]) /\ (IsError(q[k]) \/ ServerEvent(q[k], chs, n))
  /\ \A j, k \in DOMAIN q :
       j < k => IsError(q[j]) \/ IsError(q[k]) \/ q[j].origin.no < q[k].origin.no

LEMMA PageQueueKept ==
  ASSUME NEW q, NEW chs, NEW more, chs \subseteq more, PageQueue(q, chs)
  PROVE  PageQueue(q, more)
BY DEF PageQueue, IsEventOf

LEMMA ServerQueueKept ==
  ASSUME NEW q, NEW chs, NEW more, chs \subseteq more, NEW n \in Nat, NEW m \in Nat, n <= m,
         ServerQueue(q, chs, n)
  PROVE  ServerQueue(q, more, m)
<1>1. ASSUME NEW k \in DOMAIN q, ServerEvent(q[k], chs, n) PROVE ServerEvent(q[k], more, m)
  BY <1>1 DEF ServerEvent, IsServerEvent, IsEventOf
<1> QED
  BY <1>1 DEF ServerQueue

LEMMA PageQueueAppend ==
  ASSUME NEW q, NEW chs, NEW x, PageQueue(q, chs), IsWhole(x), IsFrame(x), IsEventOf(x, chs)
  PROVE  PageQueue(Append(q, x), chs)
<1>1. IsQueue(q)
  BY DEF PageQueue
<1>2. ASSUME NEW k \in DOMAIN Append(q, x)
      PROVE  IsWhole(Append(q, x)[k]) /\ IsFrame(Append(q, x)[k]) /\ IsEventOf(Append(q, x)[k], chs)
  <2>1. CASE k \in 1..Len(q)
    BY <2>1, <1>1, AppendQueue DEF PageQueue
  <2>2. CASE k = Len(q) + 1
    BY <2>2, <1>1, AppendQueue
  <2> QED
    BY <1>1, <2>1, <2>2, AppendQueue
<1> QED
  BY <1>1, <1>2, AppendQueue DEF PageQueue

LEMMA PageQueueTail ==
  ASSUME NEW q, NEW chs, PageQueue(q, chs), q # <<>>
  PROVE  /\ PageQueue(Tail(q), chs)
         /\ IsWhole(Head(q))
         /\ IsFrame(Head(q))
         /\ IsEventOf(Head(q), chs)
<1>1. IsQueue(q)
  BY DEF PageQueue
<1>2. IsWhole(Head(q)) /\ IsFrame(Head(q)) /\ IsEventOf(Head(q), chs)
  <2>1. 1 \in DOMAIN q /\ Head(q) = q[1]
    BY <1>1, TailQueue
  <2> QED
    BY <2>1 DEF PageQueue
<1>3. ASSUME NEW k \in DOMAIN Tail(q)
      PROVE  IsWhole(Tail(q)[k]) /\ IsFrame(Tail(q)[k]) /\ IsEventOf(Tail(q)[k], chs)
  <2>1. k + 1 \in DOMAIN q /\ Tail(q)[k] = q[k + 1]
    BY <1>1, TailQueue
  <2> QED
    BY <2>1 DEF PageQueue
<1> QED
  BY <1>1, <1>2, <1>3, TailQueue DEF PageQueue

LEMMA PageQueueCut ==
  ASSUME NEW q, NEW chs, PageQueue(q, chs), NEW n \in 0..Len(q)
  PROVE  PageQueue(SubSeq(q, 1, n), chs)
<1>1. IsQueue(q)
  BY DEF PageQueue
<1>2. ASSUME NEW k \in DOMAIN SubSeq(q, 1, n)
      PROVE  IsWhole(SubSeq(q, 1, n)[k]) /\ IsFrame(SubSeq(q, 1, n)[k]) /\ IsEventOf(SubSeq(q, 1, n)[k], chs)
  <2>1. k \in DOMAIN q /\ SubSeq(q, 1, n)[k] = q[k]
    BY <1>1, CutQueue
  <2> QED
    BY <2>1 DEF PageQueue
<1> QED
  BY <1>1, <1>2, CutQueue DEF PageQueue

\* An answer may be appended at any time, an event under a number not yet used.
LEMMA ServerQueueAppend ==
  ASSUME NEW q, NEW chs, NEW n \in Nat, NEW m \in Nat, n <= m, NEW x, ServerQueue(q, chs, n),
         IsFrame(x),
         IsError(x) \/ (IsServerEvent(x, chs) /\ x.origin.no = m /\ n < m)
  PROVE  ServerQueue(Append(q, x), chs, m)
<1> DEFINE a == Append(q, x)
<1>1. IsQueue(q)
  BY DEF ServerQueue
<1>2. /\ IsQueue(a) /\ DOMAIN q = 1..Len(q) /\ Len(q) \in Nat /\ DOMAIN a = 1..(Len(q) + 1)
      /\ \A k \in 1..Len(q) : a[k] = q[k]
      /\ a[Len(q) + 1] = x
  BY <1>1, AppendQueue
<1>3. ServerQueue(q, chs, m)
  BY ServerQueueKept
<1> HIDE DEF a
<1>4. IsError(x) \/ ServerEvent(x, chs, m)
  BY DEF ServerEvent
<1>5. ASSUME NEW k \in DOMAIN a
      PROVE  IsFrame(a[k]) /\ (IsError(a[k]) \/ ServerEvent(a[k], chs, m))
  <2>1. CASE k \in 1..Len(q)
    BY <2>1, <1>2, <1>3 DEF ServerQueue
  <2>2. CASE k = Len(q) + 1
    BY <2>2, <1>2, <1>4
  <2> QED
    BY <1>2, <2>1, <2>2
<1>6. ASSUME NEW j \in DOMAIN a, NEW k \in DOMAIN a, j < k
      PROVE  IsError(a[j]) \/ IsError(a[k]) \/ a[j].origin.no < a[k].origin.no
  <2>1. j \in 1..Len(q) /\ a[j] = q[j]
    BY <1>2, <1>6
  <2>2. CASE k \in 1..Len(q)
    BY <1>2, <1>3, <1>6, <2>1, <2>2 DEF ServerQueue
  <2>3. CASE k = Len(q) + 1
    <3>1. IsError(q[j]) \/ (q[j].origin.no \in Nat /\ q[j].origin.no <= n)
      BY <1>2, <2>1 DEF ServerQueue, ServerEvent
    <3> QED
      BY <1>2, <2>1, <2>3, <3>1
  <2> QED
    BY <1>2, <2>2, <2>3
<1> QED
  BY <1>2, <1>5, <1>6 DEF ServerQueue, a

\* What comes after the first frame has a greater number.
LEMMA ServerQueueTail ==
  ASSUME NEW q, NEW chs, NEW n, ServerQueue(q, chs, n), q # <<>>
  PROVE  /\ ServerQueue(Tail(q), chs, n)
         /\ IsFrame(Head(q))
         /\ IsError(Head(q)) \/ ServerEvent(Head(q), chs, n)
         /\ ~IsError(Head(q)) => \A k \in DOMAIN Tail(q) :
              IsError(Tail(q)[k]) \/ Head(q).origin.no < Tail(q)[k].origin.no
<1> DEFINE t == Tail(q)
<1>1. IsQueue(q)
  BY DEF ServerQueue
<1>2. /\ IsQueue(t) /\ DOMAIN q = 1..Len(q) /\ Len(q) \in Nat \ {0} /\ Head(q) = q[1]
      /\ DOMAIN t = 1..(Len(q) - 1)
      /\ \A k \in 1..(Len(q) - 1) : t[k] = q[k + 1]
  BY <1>1, TailQueue
<1> HIDE DEF t
<1>3. \A k \in DOMAIN t : k + 1 \in DOMAIN q /\ t[k] = q[k + 1] /\ 1 < k + 1
  BY <1>2
<1>4. 1 \in DOMAIN q
  BY <1>2
<1>5. ServerQueue(t, chs, n)
  <2>1. \A k \in DOMAIN t : IsFrame(t[k]) /\ (IsError(t[k]) \/ ServerEvent(t[k], chs, n))
    BY <1>3 DEF ServerQueue
  <2>2. ASSUME NEW j \in DOMAIN t, NEW k \in DOMAIN t, j < k
        PROVE  IsError(t[j]) \/ IsError(t[k]) \/ t[j].origin.no < t[k].origin.no
    <3>1. j + 1 < k + 1
      BY <1>2, <2>2
    <3> QED
      BY <1>3, <3>1 DEF ServerQueue
  <2> QED
    BY <1>2, <2>1, <2>2 DEF ServerQueue
<1>6. IsFrame(Head(q)) /\ (IsError(Head(q)) \/ ServerEvent(Head(q), chs, n))
  BY <1>2, <1>4 DEF ServerQueue
<1>7. ASSUME ~IsError(Head(q)), NEW k \in DOMAIN t
      PROVE  IsError(t[k]) \/ Head(q).origin.no < t[k].origin.no
  BY <1>2, <1>3, <1>4, <1>7 DEF ServerQueue
<1> QED
  BY <1>5, <1>6, <1>7 DEF t

-----------------------------------------------------------------------------
(***************************************************************************)
(* The inductive invariant: the page's sockets, the frames under way, and  *)
(* what has been done with the last of them.                               *)
(***************************************************************************)
\* The object that the page keeps.
IsObject(m) ==
  /\ m = [struct |-> m.struct, content |-> m.content, body |-> m.body]
  /\ m.content \in SUBSET DOMAIN m.struct.fields
  /\ m.body \in SUBSET Entries
  /\ Plain(m.struct) => AsMadeOrSpent(m.struct, m.content, m.body)

FramesInv ==
  /\ served \subseteq Channel
  /\ sent \in 0..MaxFrames
  /\ binary \in BOOLEAN
  /\ c2s = [s \in Socket |-> c2s[s]]
  /\ s2c = [s \in Socket |-> s2c[s]]
  /\ \A s \in Socket : PageQueue(c2s[s], bound)
  /\ \A s \in Socket : ServerQueue(s2c[s], served, sent)
  /\ \A s, f : <<s, f>> \in awaited => s \in Socket /\ IsFrame(f) /\ ~IsError(f) /\ IsServerEvent(f, served)
  /\ \A m \in kept : IsObject(m)
  /\ \A a \in awaited : a = <<a[1], a[2]>>
  /\ ~binary => awaited = {}

LastInv ==
  /\ last.what \in {"nothing", "thrown", "server", "browser"}
  /\ HandledAsSent
  /\ FieldsArrive
  /\ OnlyOptionalLost

Inv ==
  /\ ClientInv
  /\ FramesInv
  /\ LastInv
  /\ TextInTurn

\* The frame an event is sent in.
LEMMA FrameOfEvent ==
  ASSUME NEW ch \in Channel, NEW s \in ch.enabled, NEW I \in SUBSET DOMAIN s.decl.fields,
         NEW chs, ch \in chs,
         NEW body \in SUBSET Entries, Plain(s.decl) => body = GoBody(s.decl, I),
         sent \in 0..MaxFrames, sent < MaxFrames
  PROVE  LET f == Frame(ch, s, I, body) IN
         /\ IsWhole(f) /\ IsFrame(f) /\ IsEventOf(f, chs) /\ f.origin.no = sent + 1
         /\ I \in Contents(s.decl) => IsServerEvent(f, chs)
<1> DEFINE f == Frame(ch, s, I, body)
<1>1. /\ IsWhole(f)
      /\ f.body = body /\ f.channel = ChannelAlias(ch) /\ f.name = StructAlias(s.decl)
      /\ f.origin.channel = ch /\ f.origin.struct = s.decl /\ f.origin.content = I
      /\ f.origin.no = sent + 1
  BY DEF Frame, Event, IsWhole
<1> HIDE DEF f
<1>2. sent + 1 \in 1..MaxFrames
  BY RoutingAssumption
<1>3. IsFrame(f)
  BY <1>1, <1>2 DEF IsFrame
<1>4. IsEventOf(f, chs)
  BY <1>1 DEF IsEventOf
<1>5. I \in Contents(s.decl) => IsServerEvent(f, chs)
  BY <1>1, <1>4 DEF IsServerEvent
<1> QED
  BY <1>1, <1>3, <1>4, <1>5 DEF f

LEMMA AnswerIsError ==
  ASSUME NEW frame, IsWhole(frame), IsFrame(frame)
  PROVE  IsError(ErrorFrame(frame)) /\ IsFrame(ErrorFrame(frame))
<1>1. /\ ErrorFrame(frame).channel = "errors"
      /\ ErrorFrame(frame).body = {}
      /\ ErrorFrame(frame).origin = frame.origin
  BY DEF IsWhole, ErrorFrame
<1> QED
  BY <1>1 DEF IsError, IsFrame

(***************************************************************************)
(* What is in the frame of a plain struct, for either side.                *)
(***************************************************************************)
LEMMA FrameBody ==
  ASSUME NEW chs, chs \subseteq Channel, NEW frame, IsEventOf(frame, chs),
         Plain(frame.origin.struct)
  PROVE  LET st == frame.origin.struct
             I == frame.origin.content
             down == ToNames(st, frame.body) IN
         /\ Decode(st, frame.body) = JsBody(st, I)
         /\ ~down.thrown => down.body = JsBody(st, I)
         /\ down.thrown /\ I \in Contents(st) => \E i \in DOMAIN st.fields \ I : IsLost(st, i)
<1> DEFINE st == frame.origin.struct
           I == frame.origin.content
<1>1. PICK s \in frame.origin.channel.enabled :
        /\ st = s.decl
        /\ I \in SUBSET DOMAIN s.decl.fields
        /\ Plain(s.decl) => frame.body = GoBody(s.decl, I)
  BY DEF IsEventOf
<1>2. frame.origin.channel \in Channel
  BY DEF IsEventOf
<1>3. FieldsOK(st.fields)
  BY <1>1, <1>2, RoutingAssumption
<1>4. I \in SUBSET DOMAIN st.fields /\ frame.body = GoBody(st, I) /\ Plain(st)
  BY <1>1
<1> HIDE DEF st, I
<1>5. /\ Decode(st, GoBody(st, I)) = JsBody(st, I)
      /\ ~ToNames(st, GoBody(st, I)).thrown => ToNames(st, GoBody(st, I)).body = JsBody(st, I)
      /\ ToNames(st, GoBody(st, I)).thrown /\ I \in Contents(st) =>
           \E i \in DOMAIN st.fields \ I : IsLost(st, i)
  BY <1>3, <1>4, OverTheWire
<1> QED
  BY <1>4, <1>5 DEF st, I

(***************************************************************************)
(* The aliases of a frame have one meaning for those who agree on them.    *)
(***************************************************************************)
LEMMA OneMeaning ==
  ASSUME bound \cup registered \cup served \subseteq Channel,
         AliasesAgree,
         NEW frame, NEW chs, chs \subseteq bound \cup served, IsEventOf(frame, chs),
         NEW ch \in registered \cup served, ChannelAlias(ch) = frame.channel,
         NEW st \in ch.enabled, StructAlias(st.decl) = frame.name
  PROVE  ch = frame.origin.channel /\ st.decl = frame.origin.struct
<1>1. ch = frame.origin.channel
  BY DEF AliasesAgree, IsEventOf
<1>2. PICK s \in ch.enabled : frame.origin.struct = s.decl /\ frame.name = StructAlias(s.decl)
  BY <1>1 DEF IsEventOf
<1>3. st = s
  BY <1>2, RoutingAssumption
<1> QED
  BY <1>1, <1>2, <1>3

LEMMA Initially == Init => Inv
<1> SUFFICES ASSUME Init PROVE Inv
  OBVIOUS
<1>1. ClientInv
  <2>1. ClientTypeOK
    <3>1. conn \in 0..MaxStarts
      BY EddClientAssumption DEF Init, ClientInit
    <3>2. socket \in [Socket -> {"none", "connecting", "open", "closing", "closed"}]
      BY DEF Init, ClientInit
    <3> QED
      BY <3>1, <3>2 DEF Init, ClientInit, ClientTypeOK
  <2>2. \A s \in Socket : socket[s] = "none" /\ ~InUse(s)
    BY DEF Init, ClientInit, InUse
  <2> QED
    BY <2>1, <2>2 DEF Init, ClientInit, ClientInv, ConnectedIsOpen
<1>2. PageQueue(<<>>, bound) /\ ServerQueue(<<>>, served, sent)
  BY EmptyQueue DEF PageQueue, ServerQueue
<1>3. FramesInv
  BY <1>2, RoutingAssumption DEF Init, FramesInv
<1>4. LastInv /\ TextInTurn
  BY DEF Init, LastInv, HandledAsSent, FieldsArrive, OnlyOptionalLost, TextInTurn, Nothing
<1> QED
  BY <1>1, <1>3, <1>4 DEF Inv

-----------------------------------------------------------------------------
(***************************************************************************)
(* The page's sockets.  Whether they overlap is seen when one is dialed.   *)
(***************************************************************************)
LEMMA ClientKept == ClientInv /\ UNCHANGED clientVars => ClientInv'
BY DEF ClientInv, ClientTypeOK, ConnectedIsOpen, InUse, clientVars

LEMMA ClientSteps ==
  ASSUME ClientInv,
         \/ Start
         \/ Stop
         \/ \E ch \in Channel : RegisterChannel(ch)
         \/ \E s \in Socket : OnOpen(s) \/ OnClose(s)
  PROVE  ClientInv' /\ bound \subseteq bound'
<1> USE EddClientAssumption DEF ClientInv, ClientTypeOK, ConnectedIsOpen, InUse, Socket
<1>1. CASE Start
  <2> USE <1>1 DEF Start
  <2>1. ClientTypeOK' /\ bound \subseteq bound'
    OBVIOUS
  <2>2. \A s \in Socket : s > conn' => socket'[s] = "none"
    OBVIOUS
  <2>3. ~overlapped' => ~overlapped /\ \A s \in Socket : ~InUse(s)
    OBVIOUS
  <2>4. ~overlapped' => \A s \in Socket : s # conn' => ~InUse(s)'
    BY <2>3
  <2>5. ConnectedIsOpen'
    OBVIOUS
  <2> QED
    BY <2>1, <2>2, <2>4, <2>5
<1>2. CASE Stop
  <2> USE <1>2 DEF Stop
  <2>1. ClientTypeOK' /\ bound \subseteq bound'
    OBVIOUS
  <2>2. \A s \in Socket : s > conn' => socket'[s] = "none"
    OBVIOUS
  <2>3. ~overlapped' => \A s \in Socket : s # conn' => ~InUse(s)'
    OBVIOUS
  <2>4. ConnectedIsOpen'
    OBVIOUS
  <2> QED
    BY <2>1, <2>2, <2>3, <2>4
<1>3. ASSUME NEW ch \in Channel, RegisterChannel(ch) PROVE ClientInv' /\ bound \subseteq bound'
  BY <1>3 DEF RegisterChannel
<1>4. ASSUME NEW s \in Socket, OnOpen(s) PROVE ClientInv' /\ bound \subseteq bound'
  BY <1>4 DEF OnOpen
<1>5. ASSUME NEW s \in Socket, OnClose(s) PROVE ClientInv' /\ bound \subseteq bound'
  BY <1>5 DEF OnClose
<1> QED
  BY <1>1, <1>2, <1>3, <1>4, <1>5

-----------------------------------------------------------------------------
(***************************************************************************)
(* The frames.                                                             *)
(***************************************************************************)
LEMMA FramesKept ==
  ASSUME FramesInv, bound \subseteq bound', served \subseteq served', served' \subseteq Channel,
         UNCHANGED <<binary, c2s, s2c, awaited, sent, kept>>
  PROVE  FramesInv'
<1> USE DEF FramesInv
<1>1. ASSUME NEW s \in Socket PROVE PageQueue(c2s[s], bound') /\ ServerQueue(s2c[s], served', sent)
  BY PageQueueKept, ServerQueueKept
<1>2. \A s, f : <<s, f>> \in awaited =>
        s \in Socket /\ IsFrame(f) /\ ~IsError(f) /\ IsServerEvent(f, served')
  BY DEF IsServerEvent, IsEventOf
<1> QED
  BY <1>1, <1>2

\* Nothing has been handled, or it is lost.
LEMMA NothingHandled == last'.what = "nothing" => LastInv' /\ TextInTurn'
BY DEF LastInv, HandledAsSent, FieldsArrive, OnlyOptionalLost, TextInTurn

LEMMA IsThrown ==
  ASSUME NEW s, NEW origin, last' = Thrown(s, origin),
         s.decl = origin.struct /\ Plain(s.decl) =>
           \E i \in DOMAIN s.decl.fields \ origin.content : IsLost(s.decl, i)
  PROVE  LastInv' /\ TextInTurn'
<1>1. last'.what = "thrown" /\ last'.struct = s.decl /\ last'.origin = origin
  BY DEF Thrown
<1>2. OnlyOptionalLost'
  BY <1>1 DEF OnlyOptionalLost, IsLost
<1> QED
  BY <1>1, <1>2 DEF LastInv, HandledAsSent, FieldsArrive, TextInTurn

LEMMA AnswerKept ==
  ASSUME FramesInv, NEW s \in Socket, NEW frame, IsWhole(frame), IsFrame(frame),
         UNCHANGED s2c \/ Answer(s, frame)
  PROVE  /\ s2c' = [t \in Socket |-> s2c'[t]]
         /\ \A t \in Socket : ServerQueue(s2c'[t], served, sent)
<1> USE DEF FramesInv
<1>1. IsError(ErrorFrame(frame)) /\ IsFrame(ErrorFrame(frame)) /\ sent \in Nat
  BY AnswerIsError
<1>2. ServerQueue(Append(s2c[s], ErrorFrame(frame)), served, sent)
  BY <1>1, ServerQueueAppend
<1>3. CASE UNCHANGED s2c
  BY <1>3
<1>4. CASE s2c' = [s2c EXCEPT ![s] = Append(s2c[s], ErrorFrame(frame))]
  BY <1>2, <1>4
<1> QED
  BY <1>3, <1>4 DEF Answer

\* The first frame of a queue to the server is taken, and perhaps answered.
LEMMA ServerTakes ==
  ASSUME FramesInv, NEW s \in Socket, c2s[s] # <<>>,
         c2s' = [c2s EXCEPT ![s] = Tail(c2s[s])],
         UNCHANGED s2c \/ Answer(s, Head(c2s[s])),
         UNCHANGED <<clientVars, binary, served, awaited, sent, kept>>
  PROVE  FramesInv' /\ IsEventOf(Head(c2s[s]), bound)
<1> USE DEF FramesInv
<1>1. /\ PageQueue(Tail(c2s[s]), bound)
      /\ IsWhole(Head(c2s[s])) /\ IsFrame(Head(c2s[s])) /\ IsEventOf(Head(c2s[s]), bound)
  BY PageQueueTail
<1>2. /\ s2c' = [t \in Socket |-> s2c'[t]]
      /\ \A t \in Socket : ServerQueue(s2c'[t], served, sent)
  BY <1>1, AnswerKept
<1>3. /\ c2s' = [t \in Socket |-> c2s'[t]]
      /\ \A t \in Socket : PageQueue(c2s'[t], bound)
  BY <1>1
<1> QED
  BY <1>1, <1>2, <1>3 DEF clientVars

(***************************************************************************)
(* A frame is dispatched by the page: what is handled is what was sent.    *)
(***************************************************************************)
LEMMA IsHandled ==
  ASSUME bound \cup registered \cup served \subseteq Channel, UNCHANGED <<clientVars, served>>,
         NEW side \in {"server", "browser"}, NEW s,
         NEW frame, NEW chs, chs \subseteq bound \cup served, IsEventOf(frame, chs),
         NEW ch \in registered \cup served, ChannelAlias(ch) = frame.channel,
         NEW st \in ch.enabled, StructAlias(st.decl) = frame.name, NEW body,
         st.decl = frame.origin.struct /\ Plain(st.decl) =>
           body = JsBody(st.decl, frame.origin.content),
         last' = Handled(side, s, frame, ch, st, body)
  PROVE  /\ LastInv'
         /\ last'.what = side /\ last'.socket = s /\ last'.origin = frame.origin
<1>1. /\ last'.what = side /\ last'.socket = s /\ last'.origin = frame.origin
      /\ last'.channel = ch /\ last'.struct = st.decl /\ last'.body = body
  BY DEF Handled
<1>2. AliasesAgree' => AliasesAgree
  BY DEF AliasesAgree, clientVars
<1>3. AliasesAgree => ch = frame.origin.channel /\ st.decl = frame.origin.struct
  BY OneMeaning
<1>4. HandledAsSent'
  BY <1>1, <1>2, <1>3 DEF HandledAsSent
<1>5. FieldsArrive' /\ OnlyOptionalLost'
  BY <1>1 DEF FieldsArrive, OnlyOptionalLost
<1> QED
  BY <1>1, <1>4, <1>5 DEF LastInv

LEMMA Dispatched ==
  ASSUME bound \cup registered \cup served \subseteq Channel, UNCHANGED <<clientVars, served>>,
         NEW s, NEW frame, ~IsError(frame) => IsServerEvent(frame, served), Dispatch(s, frame)
  PROVE  /\ LastInv'
         /\ last'.what \in {"nothing", "thrown", "browser"}
         /\ last'.what = "browser" =>
              ~IsError(frame) /\ last'.socket = s /\ last'.origin = frame.origin
<1>1. CASE last' = Nothing
  BY <1>1, NothingHandled DEF Nothing
<1>2. ASSUME NEW ch \in registered, NEW st \in ch.enabled, Target(ch, st, frame),
             NEW message, message = ToNames(st.decl, frame.body),
             last' = IF message.thrown THEN Thrown(st, frame.origin)
                     ELSE Handled("browser", s, frame, ch, st, message.body)
      PROVE  /\ LastInv'
             /\ last'.what \in {"nothing", "thrown", "browser"}
             /\ last'.what = "browser" =>
                  ~IsError(frame) /\ last'.socket = s /\ last'.origin = frame.origin
  <2>1. ~IsError(frame) /\ ChannelAlias(ch) = frame.channel /\ StructAlias(st.decl) = frame.name
    BY <1>2 DEF Target
  <2>2. IsEventOf(frame, served) /\ frame.origin.content \in Contents(frame.origin.struct)
    BY <2>1 DEF IsServerEvent
  <2>3. st.decl = frame.origin.struct /\ Plain(st.decl) =>
          /\ ~message.thrown => message.body = JsBody(st.decl, frame.origin.content)
          /\ message.thrown =>
               \E i \in DOMAIN st.decl.fields \ frame.origin.content : IsLost(st.decl, i)
    BY <1>2, <2>2, FrameBody
  <2>4. CASE message.thrown
    <3>1. last' = Thrown(st, frame.origin)
      BY <1>2, <2>4
    <3>2. LastInv'
      BY <2>3, <2>4, <3>1, IsThrown
    <3> QED
      BY <3>1, <3>2 DEF Thrown
  <2>5. CASE ~message.thrown
    <3>1. last' = Handled("browser", s, frame, ch, st, message.body)
      BY <1>2, <2>5
    <3>2. st.decl = frame.origin.struct /\ Plain(st.decl) =>
            message.body = JsBody(st.decl, frame.origin.content)
      BY <2>3, <2>5
    <3>3. LastInv' /\ last'.what = "browser" /\ last'.socket = s /\ last'.origin = frame.origin
      BY <2>1, <2>2, <3>1, <3>2, IsHandled
    <3> QED
      BY <2>1, <3>3
  <2> QED
    BY <2>4, <2>5
<1> QED
  BY <1>1, <1>2 DEF Dispatch

-----------------------------------------------------------------------------
(***************************************************************************)
(* The steps.                                                              *)
(***************************************************************************)
LEMMA ClientStepKeeps == Inv /\ ClientStep => Inv'
<1> SUFFICES ASSUME Inv, ClientStep PROVE Inv'
  OBVIOUS
<1> USE DEF Inv
<1>1. ASSUME Start \/ Stop \/ (\E ch \in Channel : RegisterChannel(ch)) \/ (\E s \in Socket : OnOpen(s)),
             Quietly
      PROVE  Inv'
  <2>1. ClientInv' /\ bound \subseteq bound'
    BY <1>1, ClientSteps
  <2>2. served \subseteq Channel
    BY DEF FramesInv
  <2>3. FramesInv'
    BY <1>1, <2>1, <2>2, FramesKept DEF Quietly
  <2>4. LastInv' /\ TextInTurn'
    BY <1>1, NothingHandled DEF Quietly, Nothing
  <2> QED
    BY <2>1, <2>3, <2>4
<1>2. ASSUME NEW s \in Socket, Close(s) PROVE Inv'
  <2> USE <1>2 DEF Close
  <2>1. ClientInv' /\ bound \subseteq bound'
    BY ClientSteps
  <2>2. bound' = bound
    BY DEF OnClose
  <2>3. PICK k \in 0..Len(c2s[s]) : c2s' = [c2s EXCEPT ![s] = SubSeq(c2s[s], 1, k)]
    OBVIOUS
  <2>4. PageQueue(SubSeq(c2s[s], 1, k), bound)
    BY PageQueueCut DEF FramesInv
  <2>5. ServerQueue(<<>>, served, sent)
    BY EmptyQueue DEF ServerQueue
  <2>6. FramesInv'
    BY <2>2, <2>3, <2>4, <2>5 DEF FramesInv
  <2>7. LastInv' /\ TextInTurn'
    BY NothingHandled DEF Nothing
  <2> QED
    BY <2>1, <2>6, <2>7
<1> QED
  BY <1>1, <1>2 DEF ClientStep

LEMMA SendKeeps ==
  ASSUME Inv, NEW ch \in Channel, NEW s \in ch.enabled, NEW m \in Objects(s.decl),
         Send(ch, s, m)
  PROVE  Inv'
<1> USE DEF Inv
<1> DEFINE st == s.decl
           up == ToAliases(st, m.body)
           after == [m EXCEPT !.body = up.body]
           frame == Frame(ch, s, m.content, up.body)
<1>1. ClientInv' /\ bound' = bound
  BY ClientKept DEF Send, clientVars
<1>2. /\ UNCHANGED <<bound, binary, served, s2c, awaited>>
      /\ last' = Nothing
      /\ kept' = {after}
      /\ sent' = sent + 1
      /\ \/ /\ ~up.thrown /\ ch \in bound
            /\ c2s' = [c2s EXCEPT ![conn] = Append(c2s[conn], frame)]
         \/ UNCHANGED c2s
  BY DEF Send, clientVars
<1>3. FieldsOK(st.fields) /\ sent \in 0..MaxFrames /\ sent < MaxFrames
  BY RoutingAssumption DEF Send, FramesInv
<1>4. IsObject(m) /\ m.struct = st
  <2>1. CASE m \in kept /\ m.struct = st
    BY <2>1 DEF FramesInv
  <2>2. ASSUME NEW I \in Settings(st), m = Object(st, I) PROVE IsObject(m) /\ m.struct = st
    <3>1. I \in SUBSET DOMAIN st.fields
      BY DEF Settings
    <3>2. JsBody(st, I) \in SUBSET Entries
      BY <1>3, <3>1, BodyTypes
    <3> HIDE DEF st
    <3> QED
      BY <2>2, <3>1, <3>2 DEF Object, IsObject, AsMadeOrSpent
  <2> QED
    BY <2>1, <2>2 DEF Objects
<1> HIDE DEF st
<1>5. /\ up.body \in SUBSET Entries
      /\ Plain(st) => /\ ~up.thrown => up.body = GoBody(st, m.content)
                      /\ AsMadeOrSpent(st, m.content, up.body)
  <2>1. up.body \in SUBSET Entries
    BY <1>3, <1>4, RenamingTypes DEF ToAliases, IsObject
  <2> QED
    BY <1>3, <1>4, <2>1, ObjectSent DEF IsObject
<1>6. IsObject(after)
  <2>1. after = [struct |-> m.struct, content |-> m.content, body |-> up.body]
    <3> HIDE DEF up
    <3> QED
      BY <1>4 DEF IsObject
  <2> HIDE DEF up, after
  <2> QED
    BY <1>4, <1>5, <2>1 DEF IsObject
<1>7. ~up.thrown /\ ch \in bound => IsWhole(frame) /\ IsFrame(frame) /\ IsEventOf(frame, bound)
  <2>1. m.content \in SUBSET DOMAIN s.decl.fields
    BY <1>4 DEF IsObject, st
  <2>2. ~up.thrown => (Plain(s.decl) => up.body = GoBody(s.decl, m.content))
    BY <1>5 DEF st
  <2> HIDE DEF up
  <2> QED
    BY <1>3, <1>5, <2>1, <2>2, FrameOfEvent
<1> HIDE DEF frame, up, after
<1>8. LastInv' /\ TextInTurn'
  BY <1>2, NothingHandled DEF Nothing
<1>9. FramesInv'
  <2> USE DEF FramesInv
  <2>1. \A t \in Socket : PageQueue(c2s[t], bound) /\ ServerQueue(s2c[t], served, sent)
    OBVIOUS
  <2>2. sent \in Nat /\ sent + 1 \in Nat /\ sent <= sent + 1 /\ sent + 1 \in 0..MaxFrames
    BY <1>3, RoutingAssumption
  <2>3. \A t \in Socket : ServerQueue(s2c[t], served, sent + 1)
    BY <2>1, <2>2, ServerQueueKept
  <2>4. c2s' = [t \in Socket |-> c2s'[t]] /\ \A t \in Socket : PageQueue(c2s'[t], bound)
    <3>1. CASE UNCHANGED c2s
      BY <2>1, <3>1
    <3>2. CASE /\ ~up.thrown /\ ch \in bound
               /\ c2s' = [c2s EXCEPT ![conn] = Append(c2s[conn], frame)]
      <4>1. conn \in Socket => PageQueue(Append(c2s[conn], frame), bound)
        BY <1>7, <2>1, <3>2, PageQueueAppend
      <4> QED
        BY <2>1, <3>2, <4>1
    <3> QED
      BY <1>2, <3>1, <3>2
  <2>5. \A k \in kept' : IsObject(k)
    BY <1>2, <1>6
  <2> QED
    BY <1>1, <1>2, <2>2, <2>3, <2>4, <2>5
<1> QED
  BY <1>1, <1>8, <1>9

LEMMA RegisterKeeps ==
  ASSUME Inv, NEW ch \in Channel, Register(ch)
  PROVE  Inv'
<1> USE DEF Inv, Register
<1>1. ClientInv'
  BY ClientKept
<1>2. FramesInv'
  BY FramesKept DEF FramesInv, clientVars
<1>3. LastInv' /\ TextInTurn'
  BY NothingHandled DEF Nothing
<1> QED
  BY <1>1, <1>2, <1>3

LEMMA ServerReadsKeeps ==
  ASSUME Inv, NEW s \in Socket, Handle(s) \/ HandleRoomEvent(s) \/ Refuse(s)
  PROVE  Inv'
<1> USE DEF Inv
<1> DEFINE frame == Head(c2s[s])
<1>1. /\ c2s[s] # <<>>
      /\ c2s' = [c2s EXCEPT ![s] = Tail(c2s[s])]
      /\ UNCHANGED s2c \/ Answer(s, Head(c2s[s]))
      /\ UNCHANGED <<clientVars, binary, served, awaited, sent, kept>>
  BY DEF Handle, HandleRoomEvent, Refuse
<1>2. FramesInv' /\ IsEventOf(frame, bound)
  BY <1>1, ServerTakes
<1>3. ClientInv'
  BY <1>1, ClientKept
<1>4. CASE last' = Nothing
  BY <1>2, <1>3, <1>4, NothingHandled DEF Nothing
<1>5. CASE Handle(s)
  <2>1. PICK ch \in served : \E st \in ch.enabled :
          /\ Routed(ch, st, frame)
          /\ last' = Handled("server", s, frame, ch, st, Decode(st.decl, frame.body))
    BY <1>5 DEF Handle
  <2>2. PICK st \in ch.enabled :
          /\ Routed(ch, st, frame)
          /\ last' = Handled("server", s, frame, ch, st, Decode(st.decl, frame.body))
    BY <2>1
  <2>3. ChannelAlias(ch) = frame.channel /\ StructAlias(st.decl) = frame.name
    BY <2>2 DEF Routed
  <2> HIDE DEF frame
  <2>4. bound \cup registered \cup served \subseteq Channel
    BY DEF ClientInv, ClientTypeOK, FramesInv
  <2>5. st.decl = frame.origin.struct /\ Plain(st.decl) =>
          Decode(st.decl, frame.body) = JsBody(st.decl, frame.origin.content)
    BY <1>2, <2>4, FrameBody
  <2>6. LastInv' /\ last'.what = "server"
    <3>1. UNCHANGED <<clientVars, served>>
      BY <1>1
    <3> QED
      BY <1>2, <2>2, <2>3, <2>4, <2>5, <3>1, IsHandled
  <2>7. TextInTurn'
    BY <2>6 DEF TextInTurn
  <2> QED
    BY <1>2, <1>3, <2>6, <2>7
<1> QED
  BY <1>4, <1>5 DEF HandleRoomEvent, Refuse

LEMMA ServerSendKeeps ==
  ASSUME Inv, NEW s \in Socket, NEW ch \in Channel, NEW st \in ch.enabled,
         NEW I \in Contents(st.decl), ServerSend(s, ch, st, I)
  PROVE  Inv'
<1> USE DEF Inv
<1> DEFINE frame == Frame(ch, st, I, GoBody(st.decl, I))
<1>1. /\ ch \in served
      /\ s2c' = [s2c EXCEPT ![s] = Append(s2c[s], frame)]
      /\ sent' = sent + 1
      /\ last' = Nothing
      /\ UNCHANGED <<clientVars, binary, served, c2s, awaited, kept>>
      /\ sent < MaxFrames /\ sent \in 0..MaxFrames
  BY DEF ServerSend, FramesInv
<1>2. IsFrame(frame) /\ IsServerEvent(frame, served) /\ frame.origin.no = sent + 1
  <2>1. I \in SUBSET DOMAIN st.decl.fields /\ GoBody(st.decl, I) \in SUBSET Entries
    BY BodyTypes, RoutingAssumption DEF Contents, Settings
  <2> QED
    BY <1>1, <2>1, FrameOfEvent
<1> HIDE DEF frame
<1>3. ClientInv'
  BY <1>1, ClientKept
<1>4. LastInv' /\ TextInTurn'
  BY <1>1, NothingHandled DEF Nothing
<1>5. FramesInv'
  <2> USE DEF FramesInv
  <2>1. sent \in Nat /\ sent + 1 \in Nat /\ sent < sent + 1 /\ sent + 1 \in 0..MaxFrames
    BY <1>1, RoutingAssumption
  <2>2. ServerQueue(Append(s2c[s], frame), served, sent + 1)
    BY <1>2, <2>1, ServerQueueAppend
  <2>3. \A t \in Socket : ServerQueue(s2c[t], served, sent + 1)
    BY <2>1, ServerQueueKept
  <2>4. \A t \in Socket : ServerQueue(s2c'[t], served, sent + 1)
    BY <1>1, <2>2, <2>3
  <2>5. s2c' = [t \in Socket |-> s2c'[t]]
    BY <1>1
  <2> QED
    BY <1>1, <2>1, <2>4, <2>5 DEF clientVars
<1> QED
  BY <1>3, <1>4, <1>5

LEMMA OnMessageKeeps ==
  ASSUME Inv, NEW s \in Socket, OnMessage(s)
  PROVE  Inv'
<1> USE DEF Inv
<1> DEFINE frame == Head(s2c[s])
<1>1. /\ socket[s] = "open"
      /\ s2c[s] # <<>>
      /\ s2c' = [s2c EXCEPT ![s] = Tail(s2c[s])]
      /\ UNCHANGED <<clientVars, binary, served, c2s, sent, kept>>
      /\ \/ /\ binary /\ ~IsError(frame)
            /\ awaited' = awaited \cup {<<s, frame>>}
            /\ last' = Nothing
         \/ ~(binary /\ ~IsError(frame)) /\ Dispatch(s, frame) /\ UNCHANGED awaited
  BY DEF OnMessage
<1>2. /\ ServerQueue(Tail(s2c[s]), served, sent)
      /\ IsFrame(frame)
      /\ IsError(frame) \/ ServerEvent(frame, served, sent)
      /\ ~IsError(frame) => \A k \in DOMAIN Tail(s2c[s]) :
           IsError(Tail(s2c[s])[k]) \/ frame.origin.no < Tail(s2c[s])[k].origin.no
  BY <1>1, ServerQueueTail DEF FramesInv
<1> HIDE DEF frame
<1>3. ClientInv'
  BY <1>1, ClientKept
<1>4. ~IsError(frame) => IsServerEvent(frame, served)
  BY <1>2 DEF ServerEvent
<1>5. FramesInv'
  <2> USE DEF FramesInv
  <2>1. s2c' = [t \in Socket |-> s2c'[t]] /\ \A t \in Socket : ServerQueue(s2c'[t], served, sent)
    BY <1>1, <1>2
  <2>2. \A t, f : <<t, f>> \in awaited' =>
          t \in Socket /\ IsFrame(f) /\ ~IsError(f) /\ IsServerEvent(f, served)
    BY <1>1, <1>2, <1>4
  <2>3. \A a \in awaited' : a = <<a[1], a[2]>>
    BY <1>1
  <2>4. ~binary => awaited' = {}
    BY <1>1
  <2> QED
    BY <1>1, <2>1, <2>2, <2>3, <2>4 DEF clientVars
<1>6. CASE last' = Nothing
  BY <1>3, <1>5, <1>6, NothingHandled DEF Nothing
<1>7. CASE Dispatch(s, frame)
  <2>1. bound \cup registered \cup served \subseteq Channel
    BY DEF ClientInv, ClientTypeOK, FramesInv
  <2>2. /\ LastInv'
        /\ last'.what = "browser" =>
             ~IsError(frame) /\ last'.socket = s /\ last'.origin = frame.origin
    BY <1>1, <1>4, <1>7, <2>1, Dispatched
  <2>3. s2c'[s] = Tail(s2c[s]) /\ socket'[s] = "open"
    BY <1>1 DEF FramesInv, clientVars
  <2>4. ASSUME last'.what = "browser", NEW k \in DOMAIN s2c'[s]
        PROVE  IsError(s2c'[s][k]) \/ s2c'[s][k].origin.no > last'.origin.no
    <3>1. IsError(s2c'[s][k]) \/ frame.origin.no < s2c'[s][k].origin.no
      BY <1>2, <2>2, <2>3, <2>4
    <3>2. s2c'[s][k].origin.no > frame.origin.no <=> frame.origin.no < s2c'[s][k].origin.no
      OBVIOUS
    <3> QED
      BY <2>2, <2>4, <3>1, <3>2
  <2>5. TextInTurn'
    BY <2>2, <2>3, <2>4 DEF TextInTurn, IsError
  <2> QED
    BY <1>3, <1>5, <2>2, <2>5
<1> QED
  BY <1>1, <1>6, <1>7

LEMMA OnArrayBufferKeeps ==
  ASSUME Inv, NEW s, NEW frame, OnArrayBuffer(s, frame)
  PROVE  Inv'
<1> USE DEF Inv
<1>1. /\ <<s, frame>> \in awaited
      /\ awaited' = awaited \ {<<s, frame>>}
      /\ Dispatch(s, frame)
      /\ UNCHANGED <<clientVars, binary, served, c2s, s2c, sent, kept>>
  BY DEF OnArrayBuffer
<1>2. ClientInv'
  BY <1>1, ClientKept
<1>3. binary /\ IsServerEvent(frame, served) /\ bound \cup registered \cup served \subseteq Channel
  BY <1>1 DEF FramesInv, ClientInv, ClientTypeOK
<1>4. LastInv'
  BY <1>1, <1>3, Dispatched
<1>5. TextInTurn'
  BY <1>1, <1>3 DEF TextInTurn
<1>6. FramesInv'
  BY <1>1 DEF FramesInv, clientVars
<1> QED
  BY <1>2, <1>4, <1>5, <1>6

LEMMA Unchanged == Inv /\ UNCHANGED vars => Inv'
<1> SUFFICES ASSUME Inv, UNCHANGED vars PROVE Inv'
  OBVIOUS
<1>1. ClientInv'
  BY ClientKept DEF Inv, vars
<1>2. FramesInv'
  BY DEF Inv, FramesInv, vars, clientVars, wireVars
<1>3. LastInv' /\ TextInTurn'
  BY DEF Inv, LastInv, HandledAsSent, FieldsArrive, OnlyOptionalLost, TextInTurn, AliasesAgree,
         vars, clientVars, wireVars
<1> QED
  BY <1>1, <1>2, <1>3 DEF Inv

THEOREM Invariance == Spec => []Inv
<1>1. Inv /\ [Next]_vars => Inv'
  <2> SUFFICES ASSUME Inv, [Next]_vars PROVE Inv'
    OBVIOUS
  <2>1. CASE ClientStep
    BY <2>1, ClientStepKeeps
  <2>2. ASSUME NEW ch \in Channel, Register(ch) PROVE Inv'
    BY <2>2, RegisterKeeps
  <2>3. ASSUME NEW ch \in Channel, NEW s \in ch.enabled, NEW m \in Objects(s.decl), Send(ch, s, m)
        PROVE  Inv'
    BY <2>3, SendKeeps
  <2>4. ASSUME NEW s \in Socket, Handle(s) \/ HandleRoomEvent(s) \/ Refuse(s) \/ OnMessage(s)
        PROVE  Inv'
    BY <2>4, ServerReadsKeeps, OnMessageKeeps
  <2>5. ASSUME NEW s \in Socket, NEW ch \in Channel, NEW st \in ch.enabled,
               NEW I \in Contents(st.decl), ServerSend(s, ch, st, I)
        PROVE  Inv'
    BY <2>5, ServerSendKeeps
  <2>6. ASSUME NEW f \in awaited, OnArrayBuffer(f[1], f[2]) PROVE Inv'
    BY <2>6, OnArrayBufferKeeps
  <2>7. CASE UNCHANGED vars
    BY <2>7, Unchanged
  <2> QED
    BY <2>1, <2>2, <2>3, <2>4, <2>5, <2>6, <2>7 DEF Next
<1> QED
  BY Initially, <1>1, PTL DEF Spec

(***************************************************************************)
(* As long as a page waits for the end of a socket before it starts again, *)
(* is_connected says whether the socket that send writes to is open.       *)
(***************************************************************************)
THEOREM SendsWhereOpen == Spec => []ConnectedIsOpen
<1>1. Inv => ConnectedIsOpen
  BY DEF Inv, ClientInv
<1> QED
  BY Invariance, <1>1, PTL

(***************************************************************************)
(* A handler is called with the event that was sent, though only aliases   *)
(* go over the wire: any channels of any accepted designs, if the page and *)
(* the server mean the same channel by an alias.                           *)
(***************************************************************************)
THEOREM HandlerIsRight == Spec => []HandledAsSent
<1>1. Inv => HandledAsSent
  BY DEF Inv, LastInv
<1> QED
  BY Invariance, <1>1, PTL

(***************************************************************************)
(* With the JSON codec the page handles what a socket brings in the order  *)
(* in which the server has sent it, and only while the socket is open.     *)
(***************************************************************************)
THEOREM TextKeepsOrder == Spec => []TextInTurn
<1>1. Inv => TextInTurn
  BY DEF Inv
<1> QED
  BY Invariance, <1>1, PTL

(***************************************************************************)
(* What is under way is frames, and the counters keep their bounds: for    *)
(* any structs, whatever is renamed in them.                               *)
(***************************************************************************)
THEOREM WireTypes == Spec => []TypeOK
<1>1. Inv => TypeOK
  <2> SUFFICES ASSUME Inv PROVE TypeOK
    OBVIOUS
  <2>1. \A s \in Socket : \A k \in DOMAIN c2s[s] : IsFrame(c2s[s][k])
    BY DEF Inv, FramesInv, PageQueue
  <2>2. \A s \in Socket : \A k \in DOMAIN s2c[s] : IsFrame(s2c[s][k])
    BY DEF Inv, FramesInv, ServerQueue
  <2>3. \A f \in awaited : f[1] \in Socket /\ IsFrame(f[2])
    BY DEF Inv, FramesInv
  <2>4. ClientTypeOK /\ binary \in BOOLEAN /\ served \subseteq Channel /\ sent \in 0..MaxFrames
    BY DEF Inv, FramesInv, ClientInv
  <2>5. last.what \in {"nothing", "thrown", "server", "browser"}
    BY DEF Inv, LastInv
  <2>6. \A m \in kept : m.body \in SUBSET Entries
    BY DEF Inv, FramesInv, IsObject
  <2> QED
    BY <2>1, <2>2, <2>3, <2>4, <2>5, <2>6 DEF TypeOK
<1> QED
  BY Invariance, <1>1, PTL

(***************************************************************************)
(* Every field arrives where it was set, and nothing else does: the page   *)
(* renames the fields one after the other, and for any plain struct it     *)
(* makes of them the keys that the tags of the Go struct have, and back.   *)
(***************************************************************************)
THEOREM NoFieldAstray == Spec => []FieldsArrive
<1>1. Inv => FieldsArrive
  BY DEF Inv, LastInv
<1> QED
  BY Invariance, <1>1, PTL

(***************************************************************************)
(* For any plain struct, the page's code throws at the renaming of an      *)
(* event that it has received (on...Fn) only because of a field that may   *)
(* be left out, was left out by the server, and has an alias.              *)
(***************************************************************************)
THEOREM LossIsOptional == Spec => []OnlyOptionalLost
<1>1. Inv => OnlyOptionalLost
  BY DEF Inv, LastInv
<1> QED
  BY Invariance, <1>1, PTL

=============================================================================
