--------------------- MODULE InstrumentDeclaration_proofs ---------------------
(***************************************************************************)
(* Theorems about one declaration under all the integrations: types, and   *)
(* that the user's statements are all there, in their order, whatever is   *)
(* inserted around them.                                                   *)
(***************************************************************************)
EXTENDS InstrumentDeclaration, FiniteSetTheorems, SequenceTheorems,
        WellFoundedInduction, TLAPS

-----------------------------------------------------------------------------
(* Numbers: what the first and the last position of a kind choose exists.  *)

LEMMA HasLeast ==
  ASSUME NEW I, I \subseteq Nat, I # {}
  PROVE  \E i \in I : \A j \in I : i <= j
<1>1. PICK i \in I : \A j \in I : ~ (<<j, i>> \in OpToRel(<, Nat))
  BY WFMin, NatLessThanWellFounded
<1>2. \A j \in I : i <= j
  <2> SUFFICES ASSUME NEW j \in I PROVE i <= j
    OBVIOUS
  <2>1. j < i => <<j, i>> \in OpToRel(<, Nat)
    BY DEF OpToRel
  <2>2. ~ (j < i)
    BY <1>1, <2>1, Zenon
  <2>3. i \in Nat /\ j \in Nat
    OBVIOUS
  <2> QED
    BY <2>2, <2>3
<1> QED
  BY <1>2

LEMMA HasGreatest ==
  ASSUME NEW n \in Nat, NEW I, I \subseteq 1 .. n, I # {}
  PROVE  \E i \in I : \A j \in I : j <= i
<1> DEFINE J == {n - i : i \in I}
<1>1. PICK k \in J : \A m \in J : k <= m
  <2>1. J \subseteq Nat
    OBVIOUS
  <2>2. J # {}
    BY Zenon
  <2> QED
    BY <2>1, <2>2, HasLeast
<1>2. PICK i \in I : k = n - i
  OBVIOUS
<1>3. \A j \in I : n - i <= n - j
  BY <1>1, <1>2
<1> QED
  BY <1>2, <1>3

-----------------------------------------------------------------------------
(* Lists.                                                                  *)

(* An edit of a list: m says where its statements have gone, in order, and *)
(* the others are generated.                                               *)
Alike(s, t) ==
  /\ s.id = t.id /\ s.inner = t.inner
  /\ \/ s.lhs = t.lhs /\ (ConnectsWithConfig(t) => ConnectsWithConfig(s))
     \/ ConnectsWithConfig(s) /\ s.lhs = <<t.lhs[1], "err">>

Generated == {s \in SoundStatement : s.id = 0 /\ s.inner = NoBlock}

Embeds(m, n, list, new) ==
  /\ m \in [1 .. n -> DOMAIN new]
  /\ \A j \in 1 .. n : Alike(new[m[j]], list[j])
  /\ \A j, k \in 1 .. n : j < k => m[j] < m[k]
  /\ \A k \in DOMAIN new : new[k] \in Generated \/ \E j \in 1 .. n : m[j] = k

Edits(list, new) == /\ new \in Seq(SoundStatement)
                    /\ \E m : Embeds(m, Len(list), list, new)

LEMMA AlikeTrans ==
  ASSUME NEW s, NEW t, NEW u, Alike(s, t), Alike(t, u)
  PROVE  Alike(s, u)
BY DEF Alike

LEMMA EditsSelf ==
  ASSUME NEW list \in Seq(SoundStatement)
  PROVE  Edits(list, list)
<1> DEFINE m == [j \in 1 .. Len(list) |-> j]
<1>1. DOMAIN list = 1 .. Len(list)
  OBVIOUS
<1>2. Embeds(m, Len(list), list, list)
  BY <1>1 DEF Embeds, Alike
<1> QED
  BY <1>2 DEF Edits

LEMMA EditsTrans ==
  ASSUME NEW a \in Seq(SoundStatement), NEW b, NEW c, Edits(a, b), Edits(b, c)
  PROVE  Edits(a, c)
<1>1. PICK m : Embeds(m, Len(a), a, b)
  BY DEF Edits
<1>2. PICK l : Embeds(l, Len(b), b, c)
  BY DEF Edits
<1>3. /\ b \in Seq(SoundStatement) /\ c \in Seq(SoundStatement)
      /\ DOMAIN b = 1 .. Len(b) /\ Len(b) \in Nat /\ Len(a) \in Nat
      /\ DOMAIN c = 1 .. Len(c) /\ Len(c) \in Nat
  BY DEF Edits
<1> DEFINE k == [j \in 1 .. Len(a) |-> l[m[j]]]
<1>4. k \in [1 .. Len(a) -> DOMAIN c]
  BY <1>1, <1>2, <1>3 DEF Embeds
<1>5. ASSUME NEW j \in 1 .. Len(a) PROVE Alike(c[k[j]], a[j])
  <2>1. Alike(c[l[m[j]]], b[m[j]]) /\ Alike(b[m[j]], a[j])
    BY <1>1, <1>2, <1>3 DEF Embeds
  <2> QED
    BY <2>1, AlikeTrans
<1>6. ASSUME NEW i \in 1 .. Len(a), NEW j \in 1 .. Len(a), i < j
      PROVE  k[i] < k[j]
  BY <1>1, <1>2, <1>3, <1>6 DEF Embeds
<1>7. ASSUME NEW i \in DOMAIN c, c[i] \notin Generated
      PROVE  \E j \in 1 .. Len(a) : k[j] = i
  <2>1. PICK j \in 1 .. Len(b) : l[j] = i
    BY <1>2, <1>7 DEF Embeds
  <2>2. Alike(c[i], b[j])
    BY <1>2, <2>1 DEF Embeds
  <2>3. c[i] \in SoundStatement
    BY <1>3
  <2>4. b[j] \notin Generated
    BY <1>7, <2>2, <2>3 DEF Generated, Alike
  <2>5. PICK h \in 1 .. Len(a) : m[h] = j
    BY <1>1, <1>3, <2>4 DEF Embeds
  <2> QED
    BY <2>1, <2>5
<1>8. Embeds(k, Len(a), a, c)
  BY <1>4, <1>5, <1>6, <1>7 DEF Embeds
<1> QED
  BY <1>3, <1>8 DEF Edits

LEMMA EditsJoin ==
  ASSUME NEW a \in Seq(SoundStatement), NEW b \in Seq(SoundStatement),
         NEW c, NEW d, Edits(a, c), Edits(b, d)
  PROVE  Edits(a \o b, c \o d)
<1>1. PICK m : Embeds(m, Len(a), a, c)
  BY DEF Edits
<1>2. PICK l : Embeds(l, Len(b), b, d)
  BY DEF Edits
<1>3. PICK S : S = SoundStatement
  OBVIOUS
<1>4. /\ a \in Seq(S) /\ b \in Seq(S) /\ c \in Seq(S) /\ d \in Seq(S)
      /\ Len(a) \in Nat /\ Len(b) \in Nat /\ Len(c) \in Nat /\ Len(d) \in Nat
      /\ DOMAIN c = 1 .. Len(c) /\ DOMAIN d = 1 .. Len(d)
  BY <1>3 DEF Edits
<1> DEFINE x == a \o b
           y == c \o d
           k == [j \in 1 .. Len(a) + Len(b) |->
                   IF j <= Len(a) THEN m[j] ELSE Len(c) + l[j - Len(a)]]
<1>5. /\ x \in Seq(S) /\ Len(x) = Len(a) + Len(b)
      /\ \A j \in 1 .. Len(a) : x[j] = a[j]
      /\ \A j \in 1 .. Len(b) : x[Len(a) + j] = b[j]
  BY <1>4
<1>6. /\ y \in Seq(S) /\ Len(y) = Len(c) + Len(d)
      /\ \A j \in 1 .. Len(c) : y[j] = c[j]
      /\ \A j \in 1 .. Len(d) : y[Len(c) + j] = d[j]
  BY <1>4
<1>7. /\ DOMAIN k = 1 .. Len(a) + Len(b) /\ k = [j \in DOMAIN k |-> k[j]]
      /\ \A j \in 1 .. Len(a) + Len(b) :
           k[j] = IF j <= Len(a) THEN m[j] ELSE Len(c) + l[j - Len(a)]
  OBVIOUS
<1> HIDE DEF x, y, k
<1>8. DOMAIN y = 1 .. Len(c) + Len(d)
  BY <1>4, <1>6
<1>9. \A j \in 1 .. Len(a) + Len(b) :
        \/ j \in 1 .. Len(a)
        \/ \E i \in 1 .. Len(b) : j = Len(a) + i
  <2> SUFFICES ASSUME NEW j \in 1 .. Len(a) + Len(b), ~(j \in 1 .. Len(a))
               PROVE  \E i \in 1 .. Len(b) : j = Len(a) + i
    OBVIOUS
  <2>1. j - Len(a) \in 1 .. Len(b) /\ j = Len(a) + (j - Len(a))
    BY <1>4
  <2> QED
    BY <2>1
<1>10. ASSUME NEW j \in 1 .. Len(a)
       PROVE  /\ j \in 1 .. Len(a) + Len(b) /\ k[j] = m[j]
              /\ m[j] \in 1 .. Len(c) /\ y[k[j]] = c[m[j]] /\ x[j] = a[j]
  <2>1. j \in 1 .. Len(a) + Len(b) /\ j <= Len(a)
    BY <1>4
  <2>2. m[j] \in 1 .. Len(c)
    BY <1>1, <1>4 DEF Embeds
  <2> QED
    BY <1>5, <1>6, <1>7, <2>1, <2>2
<1>11. ASSUME NEW i \in 1 .. Len(b)
       PROVE  /\ Len(a) + i \in 1 .. Len(a) + Len(b) /\ k[Len(a) + i] = Len(c) + l[i]
              /\ l[i] \in 1 .. Len(d) /\ y[k[Len(a) + i]] = d[l[i]]
              /\ x[Len(a) + i] = b[i]
  <2>1. /\ Len(a) + i \in 1 .. Len(a) + Len(b) /\ ~(Len(a) + i <= Len(a))
        /\ (Len(a) + i) - Len(a) = i
    BY <1>4
  <2>2. l[i] \in 1 .. Len(d)
    BY <1>2, <1>4 DEF Embeds
  <2>3. k[Len(a) + i] = Len(c) + l[i]
    BY <1>7, <2>1
  <2> QED
    BY <1>5, <1>6, <2>1, <2>2, <2>3
<1>12. ASSUME NEW j \in 1 .. Len(a) + Len(b)
       PROVE  k[j] \in DOMAIN y /\ Alike(y[k[j]], x[j])
  <2>1. CASE j \in 1 .. Len(a)
    <3>1. k[j] \in DOMAIN y
      BY <1>4, <1>8, <1>10, <2>1
    <3> QED
      BY <1>1, <1>10, <2>1, <3>1 DEF Embeds
  <2>2. CASE \E i \in 1 .. Len(b) : j = Len(a) + i
    <3>1. PICK i \in 1 .. Len(b) : j = Len(a) + i
      BY <2>2
    <3>2. k[j] \in DOMAIN y
      BY <1>4, <1>8, <1>11, <3>1
    <3>3. y[k[j]] = d[l[i]] /\ x[j] = b[i]
      BY <1>11, <3>1
    <3> QED
      BY <1>2, <3>2, <3>3 DEF Embeds
  <2> QED
    BY <1>9, <2>1, <2>2
<1>13. ASSUME NEW i \in 1 .. Len(a) + Len(b), NEW j \in 1 .. Len(a) + Len(b), i < j
       PROVE  k[i] < k[j]
  <2>1. CASE j \in 1 .. Len(a)
    <3>1. i \in 1 .. Len(a)
      BY <1>4, <1>13, <2>1
    <3>2. m[i] < m[j]
      BY <1>1, <1>13, <2>1, <3>1 DEF Embeds
    <3> QED
      BY <1>10, <2>1, <3>1, <3>2
  <2>2. CASE i \in 1 .. Len(a) /\ j \notin 1 .. Len(a)
    <3>1. PICK g \in 1 .. Len(b) : j = Len(a) + g
      BY <1>9, <2>2
    <3>2. /\ k[i] = m[i] /\ m[i] \in 1 .. Len(c)
          /\ k[j] = Len(c) + l[g] /\ l[g] \in 1 .. Len(d)
      BY <1>10, <1>11, <2>2, <3>1
    <3> QED
      BY <1>4, <3>2
  <2>3. CASE i \notin 1 .. Len(a) /\ j \notin 1 .. Len(a)
    <3>1. PICK g \in 1 .. Len(b) : j = Len(a) + g
      BY <1>9, <2>3
    <3>2. PICK h \in 1 .. Len(b) : i = Len(a) + h
      BY <1>9, <2>3
    <3>3. h < g
      BY <1>4, <1>13, <3>1, <3>2
    <3>4. l[h] < l[g]
      BY <1>2, <3>3 DEF Embeds
    <3>5. /\ k[i] = Len(c) + l[h] /\ l[h] \in 1 .. Len(d)
          /\ k[j] = Len(c) + l[g] /\ l[g] \in 1 .. Len(d)
      BY <1>11, <3>1, <3>2
    <3> QED
      BY <1>4, <3>4, <3>5
  <2> QED
    BY <2>1, <2>2, <2>3
<1>14. ASSUME NEW p \in DOMAIN y
       PROVE  y[p] \in Generated \/ \E j \in 1 .. Len(a) + Len(b) : k[j] = p
  <2>1. CASE p \in 1 .. Len(c)
    <3>1. y[p] = c[p]
      BY <1>6, <2>1
    <3>2. c[p] \in Generated \/ \E j \in 1 .. Len(a) : m[j] = p
      BY <1>1, <1>4, <2>1 DEF Embeds
    <3> QED
      BY <1>10, <3>1, <3>2
  <2>2. CASE p \notin 1 .. Len(c)
    <3>1. PICK q \in 1 .. Len(d) : p = Len(c) + q
      <4>1. p - Len(c) \in 1 .. Len(d) /\ p = Len(c) + (p - Len(c))
        BY <1>4, <1>8, <2>2
      <4> QED
        BY <4>1
    <3>2. y[p] = d[q]
      BY <1>6, <3>1
    <3>3. d[q] \in Generated \/ \E i \in 1 .. Len(b) : l[i] = q
      BY <1>2, <1>4 DEF Embeds
    <3> QED
      BY <1>11, <3>1, <3>2, <3>3
  <2> QED
    BY <2>1, <2>2
<1>15. Embeds(k, Len(a) + Len(b), x, y)
  <2>1. k \in [1 .. Len(a) + Len(b) -> DOMAIN y]
    BY <1>7, <1>12
  <2> QED
    BY <2>1, <1>12, <1>13, <1>14 DEF Embeds
<1> QED
  BY <1>3, <1>5, <1>6, <1>15 DEF Edits, x, y

LEMMA GeneratedEdits ==
  ASSUME NEW g \in Seq(Generated)
  PROVE  << >> \in Seq(SoundStatement) /\ Edits(<< >>, g)
<1> DEFINE m == [j \in 1 .. 0 |-> j]
<1>1. g \in Seq(SoundStatement)
  <2>1. Generated \subseteq SoundStatement
    BY DEF Generated
  <2> QED
    BY <2>1
<1>2. Embeds(m, 0, << >>, g)
  BY DEF Embeds
<1> HIDE DEF m
<1> QED
  BY <1>1, <1>2 DEF Edits

LEMMA AppendEdits ==
  ASSUME NEW list \in Seq(SoundStatement), NEW g \in Seq(Generated)
  PROVE  Edits(list, list \o g) /\ Edits(list, g \o list)
<1>1. Edits(list \o << >>, list \o g) /\ Edits(<< >> \o list, g \o list)
  BY EditsJoin, EditsSelf, GeneratedEdits
<1>2. list \o << >> = list /\ << >> \o list = list
  BY ConcatEmptySeq
<1> QED
  BY <1>1, <1>2

LEMMA OneGenerated ==
  ASSUME NEW s \in Generated
  PROVE  <<s>> \in Seq(Generated)
OBVIOUS

LEMMA PrependEdits ==
  ASSUME NEW list \in Seq(SoundStatement), NEW s \in Generated
  PROVE  Edits(list, PrependStatement(list, s))
BY OneGenerated, AppendEdits DEF PrependStatement

LEMMA SplitAt ==
  ASSUME NEW T, NEW list \in Seq(T), NEW i \in Nat, NEW j \in Nat, NEW k \in Nat,
         1 <= i, i <= j + 1, j <= k, k <= Len(list)
  PROVE  /\ SubSeq(list, i, j) \in Seq(T) /\ SubSeq(list, j + 1, k) \in Seq(T)
         /\ SubSeq(list, i, k) = SubSeq(list, i, j) \o SubSeq(list, j + 1, k)
<1> DEFINE a == SubSeq(list, i, j)
           b == SubSeq(list, j + 1, k)
           c == SubSeq(list, i, k)
           d == a \o b
<1>0. Len(list) \in Nat
  OBVIOUS
<1>1. /\ a \in Seq(T) /\ Len(a) = (j - i) + 1
      /\ \A h \in 1 .. (j - i) + 1 : a[h] = list[(i + h) - 1]
  BY <1>0
<1>2. /\ b \in Seq(T) /\ Len(b) = k - j
      /\ \A h \in 1 .. k - j : b[h] = list[j + h]
  BY <1>0
<1>3. /\ c \in Seq(T) /\ Len(c) = (k - i) + 1
      /\ \A h \in 1 .. (k - i) + 1 : c[h] = list[(i + h) - 1]
  BY <1>0
<1> HIDE DEF a, b, c
<1>4. /\ d \in Seq(T) /\ Len(d) = Len(a) + Len(b)
      /\ \A h \in 1 .. Len(a) : d[h] = a[h]
      /\ \A h \in 1 .. Len(b) : d[Len(a) + h] = b[h]
  <2>1. a \in Seq(T) /\ b \in Seq(T)
    BY <1>1, <1>2
  <2> QED
    BY <2>1, ConcatProperties
<1> HIDE DEF d
<1>5. ASSUME NEW h \in 1 .. Len(c) PROVE c[h] = d[h]
  <2>1. CASE h <= (j - i) + 1
    <3>1. h \in 1 .. Len(a) /\ h \in 1 .. (j - i) + 1 /\ h \in 1 .. (k - i) + 1
      BY <1>1, <1>3, <2>1
    <3> QED
      BY <1>1, <1>3, <1>4, <3>1
  <2>2. CASE h > (j - i) + 1
    <3>1. PICK g \in 1 .. Len(b) : h = Len(a) + g
      <4> DEFINE g == h - ((j - i) + 1)
      <4>1. g \in 1 .. Len(b) /\ h = Len(a) + g
        BY <1>1, <1>2, <1>3, <2>2
      <4> QED
        BY <4>1
    <3>2. d[h] = list[j + g]
      BY <1>2, <1>4, <3>1
    <3>3. j + g = (i + h) - 1
      BY <1>1, <1>2, <3>1
    <3> QED
      BY <1>3, <3>2, <3>3
  <2>3. h <= (j - i) + 1 \/ h > (j - i) + 1
    BY <1>3
  <2> QED
    BY <2>1, <2>2, <2>3
<1>6. Len(c) = Len(d)
  BY <1>1, <1>2, <1>3, <1>4
<1>7. c = d
  BY <1>3, <1>4, <1>5, <1>6, SeqEqual
<1> QED
  BY <1>1, <1>2, <1>7 DEF a, b, c, d

LEMMA InsertEdits ==
  ASSUME NEW list \in Seq(SoundStatement), NEW s \in Generated,
         NEW k \in 1 .. Len(list) + 1
  PROVE  Edits(list, InsertAt(list, k, s))
<1>1. PICK S, h, n : S = SoundStatement /\ h = k - 1 /\ n = Len(list)
  OBVIOUS
<1>2. /\ list \in Seq(S) /\ h \in Nat /\ n \in Nat /\ 1 \in Nat
      /\ 1 <= h + 1 /\ h <= n /\ n <= Len(list) /\ h + 1 = k
  BY <1>1
<1> DEFINE a == SubSeq(list, 1, h)
           b == SubSeq(list, h + 1, n)
<1>3. a \in Seq(S) /\ b \in Seq(S) /\ SubSeq(list, 1, n) = a \o b
  BY <1>2, SplitAt
<1>4. SubSeq(list, 1, n) = list
  BY <1>1, <1>2
<1>5. InsertAt(list, k, s) = (a \o <<s>>) \o b
  BY <1>1, <1>2, Zenon DEF InsertAt
<1> HIDE DEF a, b
<1>6. Edits(a, a \o <<s>>) /\ Edits(b, b)
  BY <1>1, <1>3, AppendEdits, OneGenerated, EditsSelf
<1>7. Edits(a \o b, (a \o <<s>>) \o b)
  BY <1>1, <1>3, <1>6, EditsJoin
<1> QED
  BY <1>3, <1>4, <1>5, <1>7

LEMMA MapEdits ==
  ASSUME NEW list \in Seq(SoundStatement), NEW new,
         new = [i \in DOMAIN list |-> new[i]],
         \A i \in DOMAIN list : new[i] \in SoundStatement /\ Alike(new[i], list[i])
  PROVE  Edits(list, new)
<1> DEFINE m == [j \in 1 .. Len(list) |-> j]
<1>1. DOMAIN list = 1 .. Len(list) /\ Len(list) \in Nat
  OBVIOUS
<1>2. new \in [1 .. Len(list) -> SoundStatement]
  BY <1>1
<1>3. new \in Seq(SoundStatement) /\ DOMAIN new = 1 .. Len(list)
  BY <1>1, <1>2
<1>4. Embeds(m, Len(list), list, new)
  BY <1>1, <1>3 DEF Embeds
<1> QED
  BY <1>3, <1>4 DEF Edits

LEMMA ReplaceEdits ==
  ASSUME NEW list \in Seq(SoundStatement), NEW k \in DOMAIN list,
         NEW s \in SoundStatement, Alike(s, list[k])
  PROVE  Edits(list, ReplaceAt(list, k, s))
<1> DEFINE new == ReplaceAt(list, k, s)
<1>1. /\ new = [i \in DOMAIN list |-> new[i]]
      /\ \A i \in DOMAIN list : new[i] = IF i = k THEN s ELSE list[i]
  BY DEF ReplaceAt
<1>2. \A i \in DOMAIN list : new[i] \in SoundStatement /\ Alike(new[i], list[i])
  BY <1>1 DEF Alike
<1> HIDE DEF new
<1>3. Edits(list, new)
  BY <1>1, <1>2, MapEdits
<1> QED
  BY <1>3 DEF new

(* Statements are found by their id.                                       *)
HasId(list, id) == \E i \in DOMAIN list : list[i].id = id

LEMMA IndexFound ==
  ASSUME NEW list \in Seq(SoundStatement), NEW id, HasId(list, id)
  PROVE  /\ IndexOfId(list, id) \in DOMAIN list
         /\ list[IndexOfId(list, id)].id = id
         /\ list[IndexOfId(list, id)] \in SoundStatement
         /\ IndexOfId(list, id) \in 1 .. Len(list)
<1>1. /\ IndexOfId(list, id) \in DOMAIN list
      /\ list[IndexOfId(list, id)].id = id
  BY DEF HasId, IndexOfId
<1> QED
  BY <1>1

LEMMA EditsHas ==
  ASSUME NEW list \in Seq(SoundStatement), NEW new, NEW id,
         Edits(list, new), HasId(list, id)
  PROVE  new \in Seq(SoundStatement) /\ HasId(new, id)
<1>1. PICK m : Embeds(m, Len(list), list, new)
  BY DEF Edits
<1>2. PICK i \in 1 .. Len(list) : list[i].id = id
  BY DEF HasId
<1>3. m[i] \in DOMAIN new /\ new[m[i]].id = id
  BY <1>1, <1>2 DEF Embeds, Alike
<1> QED
  BY <1>3 DEF Edits, HasId

LEMMA InsertBeforeEdits ==
  ASSUME NEW list \in Seq(SoundStatement), NEW s \in Generated, NEW id,
         HasId(list, id)
  PROVE  Edits(list, InsertBefore(list, id, s))
<1>1. IndexOfId(list, id) \in 1 .. Len(list) + 1
  BY IndexFound
<1> QED
  BY <1>1, InsertEdits DEF InsertBefore

LEMMA InsertAfterEdits ==
  ASSUME NEW list \in Seq(SoundStatement), NEW s \in Generated, NEW id,
         HasId(list, id)
  PROVE  Edits(list, InsertAfter(list, id, s))
<1>1. IndexOfId(list, id) + 1 \in 1 .. Len(list) + 1
  BY IndexFound
<1> QED
  BY <1>1, InsertEdits DEF InsertAfter

LEMMA ReplaceByIdEdits ==
  ASSUME NEW list \in Seq(SoundStatement), NEW id, HasId(list, id),
         NEW s \in SoundStatement, Alike(s, list[IndexOfId(list, id)])
  PROVE  Edits(list, ReplaceById(list, id, s))
BY IndexFound, ReplaceEdits DEF ReplaceById

-----------------------------------------------------------------------------
(* What is kept.                                                           *)

Kept(list, old) ==
  /\ Keeps(list, old)
  /\ \A j \in DOMAIN list : list[j].id = 0 => list[j].inner = NoBlock

LEMMA AlikeSame ==
  ASSUME NEW s, NEW t, NEW u, Alike(s, t), SameStatement(t, u)
  PROVE  SameStatement(s, u)
BY DEF Alike, SameStatement

LEMMA EditsKeep ==
  ASSUME NEW list \in Seq(SoundStatement), NEW new, NEW old,
         Edits(list, new), Kept(list, old),
         \A i \in DOMAIN old : old[i].id # 0
  PROVE  Kept(new, old)
<1>1. PICK m : Embeds(m, Len(list), list, new)
  BY DEF Edits
<1>2. DOMAIN list = 1 .. Len(list) /\ Len(list) \in Nat /\ new \in Seq(SoundStatement)
  BY DEF Edits
<1>3. ASSUME NEW k \in DOMAIN new, new[k] \notin Generated
      PROVE  \E j \in DOMAIN list : m[j] = k /\ Alike(new[k], list[j])
  BY <1>1, <1>2, <1>3 DEF Embeds
<1>4. ASSUME NEW k \in DOMAIN new, new[k].id # 0
      PROVE  \E i \in DOMAIN old : SameStatement(new[k], old[i])
  <2>1. new[k] \notin Generated
    BY <1>4 DEF Generated
  <2>2. PICK j \in DOMAIN list : Alike(new[k], list[j])
    BY <1>3, <2>1
  <2>3. list[j].id # 0
    BY <1>4, <2>2 DEF Alike
  <2>4. PICK i \in DOMAIN old : SameStatement(list[j], old[i])
    BY <2>3 DEF Kept, Keeps
  <2> QED
    BY <2>2, <2>4, AlikeSame
<1>5. ASSUME NEW i \in DOMAIN old
      PROVE  \E k \in DOMAIN new : SameStatement(new[k], old[i])
  <2>1. PICK j \in DOMAIN list : SameStatement(list[j], old[i])
    BY DEF Kept, Keeps
  <2>2. m[j] \in DOMAIN new /\ Alike(new[m[j]], list[j])
    BY <1>1, <1>2 DEF Embeds
  <2> QED
    BY <2>1, <2>2, AlikeSame
<1>6. ASSUME NEW k \in DOMAIN new, NEW l \in DOMAIN new,
             NEW h \in DOMAIN old, NEW i \in DOMAIN old,
             new[k].id = old[h].id, new[l].id = old[i].id, k < l
      PROVE  h < i
  <2>1. new[k] \notin Generated /\ new[l] \notin Generated
    BY <1>6 DEF Generated
  <2>2. PICK a \in DOMAIN list : m[a] = k /\ Alike(new[k], list[a])
    BY <1>3, <2>1
  <2>3. PICK b \in DOMAIN list : m[b] = l /\ Alike(new[l], list[b])
    BY <1>3, <2>1
  <2>4. ~(b < a) /\ a # b
    <3>1. m[a] < m[b] /\ m[a] \in Nat /\ m[b] \in Nat
      BY <1>2, <1>6, <2>2, <2>3
    <3>2. \A x, y \in 1 .. Len(list) : x < y => m[x] < m[y]
      BY <1>1 DEF Embeds
    <3> QED
      BY <1>2, <3>1, <3>2
  <2>5. a < b
    BY <1>2, <2>4
  <2>6. list[a].id = old[h].id /\ list[b].id = old[i].id
    BY <1>6, <2>2, <2>3 DEF Alike
  <2> QED
    BY <2>5, <2>6 DEF Kept, Keeps
<1>7. ASSUME NEW k \in DOMAIN new, new[k].id = 0 PROVE new[k].inner = NoBlock
  <2>1. CASE new[k] \in Generated
    BY <2>1 DEF Generated
  <2>2. CASE new[k] \notin Generated
    <3>1. PICK j \in DOMAIN list : Alike(new[k], list[j])
      BY <1>3, <2>2
    <3> QED
      BY <1>7, <3>1 DEF Alike, Kept
  <2> QED
    BY <2>1, <2>2
<1> QED
  BY <1>4, <1>5, <1>6, <1>7 DEF Kept, Keeps

-----------------------------------------------------------------------------
(* The concatenation of lists.                                             *)

JoinsTo(f, k, ss) ==
  \A i \in 1 .. k : f[i] = IF i = 1 THEN ss[i] ELSE f[i - 1] \o ss[i]

LEMMA JoinExists ==
  ASSUME NEW T, NEW ss \in Seq(Seq(T))
  PROVE  \E f \in [1 .. Len(ss) -> Seq(T)] : JoinsTo(f, Len(ss), ss)
<1> DEFINE n == Len(ss)
           Good == {k \in 0 .. n : \E f \in [1 .. k -> Seq(T)] : JoinsTo(f, k, ss)}
<1>1. n \in Nat /\ \A i \in 1 .. n : ss[i] \in Seq(T)
  OBVIOUS
<1> HIDE DEF n
<1>2. 0 \in Good
  <2> DEFINE f == [i \in 1 .. 0 |-> ss[i]]
  <2>1. f \in [1 .. 0 -> Seq(T)] /\ JoinsTo(f, 0, ss)
    BY DEF JoinsTo
  <2> HIDE DEF f
  <2>2. 0 \in 0 .. n
    BY <1>1
  <2> QED
    BY <2>1, <2>2
<1>3. ASSUME NEW k \in Nat, k + 1 \in 0 .. n, k \in Good PROVE k + 1 \in Good
  <2>1. PICK f \in [1 .. k -> Seq(T)] : JoinsTo(f, k, ss)
    BY <1>3
  <2> DEFINE h == [i \in 1 .. k + 1 |->
                     IF i <= k THEN f[i] ELSE IF i = 1 THEN ss[i] ELSE f[i - 1] \o ss[i]]
  <2>2. h \in [1 .. k + 1 -> Seq(T)]
    <3>1. ASSUME NEW i \in 1 .. k + 1 PROVE h[i] \in Seq(T)
      <4>1. CASE i <= k
        BY <1>3, <4>1
      <4>2. CASE i > k /\ i = 1
        BY <1>1, <1>3, <4>2
      <4>3. CASE i > k /\ i # 1
        <5>1. i - 1 \in 1 .. k /\ i \in 1 .. n /\ ~(i <= k)
          BY <1>1, <1>3, <4>3
        <5>2. f[i - 1] \in Seq(T) /\ ss[i] \in Seq(T)
          BY <1>1, <5>1
        <5> QED
          BY <4>3, <5>1, <5>2
      <4>4. i <= k \/ i > k
        BY <1>3
      <4> QED
        BY <4>1, <4>2, <4>3, <4>4
    <3> QED
      BY <3>1
  <2>3. JoinsTo(h, k + 1, ss)
    <3>1. ASSUME NEW i \in 1 .. k + 1
          PROVE  h[i] = IF i = 1 THEN ss[i] ELSE h[i - 1] \o ss[i]
      <4>1. CASE i <= k
        <5>0. i \in 1 .. k
          BY <1>3, <4>1
        <5>1. f[i] = IF i = 1 THEN ss[i] ELSE f[i - 1] \o ss[i]
          BY <2>1, <5>0 DEF JoinsTo
        <5>2. h[i] = f[i] /\ (i # 1 => h[i - 1] = f[i - 1])
          BY <1>3, <4>1
        <5> QED
          BY <5>1, <5>2
      <4>2. CASE i = k + 1
        <5>1. ~(i <= k) /\ (i # 1 => i - 1 \in 1 .. k + 1 /\ i - 1 <= k)
          BY <1>3, <4>2
        <5>2. i # 1 => h[i - 1] = f[i - 1]
          BY <5>1
        <5> QED
          BY <5>1, <5>2
      <4> QED
        BY <1>3, <4>1, <4>2
    <3> HIDE DEF h
    <3> QED
      BY <3>1 DEF JoinsTo
  <2> HIDE DEF h
  <2> QED
    BY <1>3, <2>2, <2>3
<1> HIDE DEF Good
<1>4. n \in Good
  <2> DEFINE Bad == (0 .. n) \ Good
  <2> SUFFICES ASSUME n \notin Good PROVE FALSE
    OBVIOUS
  <2>1. Bad \subseteq Nat /\ n \in Bad
    BY <1>1
  <2>2. PICK k \in Bad : \A j \in Bad : k <= j
    BY <2>1, HasLeast
  <2>3. k # 0 /\ k \in 1 .. n /\ k \notin Good
    BY <1>1, <1>2, <2>2
  <2>4. k - 1 \in Nat /\ k - 1 \in 0 .. n /\ k - 1 \notin Bad
    BY <1>1, <2>2, <2>3
  <2>5. (k - 1) + 1 = k
    BY <2>3
  <2> QED
    BY <1>1, <1>3, <2>3, <2>4, <2>5
<1> QED
  BY <1>4 DEF Good, n

LEMMA FlattenJoins ==
  ASSUME NEW T, NEW ss \in Seq(Seq(T)), Len(ss) # 0
  PROVE  \E g \in [1 .. Len(ss) -> Seq(T)] :
           JoinsTo(g, Len(ss), ss) /\ FlattenSeq(ss) = g[Len(ss)]
<1> DEFINE flatten[i \in 1 .. Len(ss)] ==
             IF i = 1 THEN ss[i] ELSE flatten[i - 1] \o ss[i]
           E(f) == [i \in 1 .. Len(ss) |-> IF i = 1 THEN ss[i] ELSE f[i - 1] \o ss[i]]
<1>1. FlattenSeq(ss) = flatten[Len(ss)]
  BY DEF FlattenSeq
<1>2. PICK f \in [1 .. Len(ss) -> Seq(T)] : JoinsTo(f, Len(ss), ss)
  BY JoinExists
<1>3. f = E(f)
  BY <1>2 DEF JoinsTo
<1>4. flatten = CHOOSE h : h = E(h)
  BY DEF flatten
<1>5. flatten = E(flatten)
  <2> HIDE DEF flatten, E
  <2> QED
    BY <1>3, <1>4
<1> HIDE DEF flatten
<1>6. ASSUME NEW i \in 1 .. Len(ss)
      PROVE  flatten[i] = IF i = 1 THEN ss[i] ELSE flatten[i - 1] \o ss[i]
  BY <1>5
<1>7. \A i \in 1 .. Len(ss) : flatten[i] = f[i]
  <2> DEFINE D == {i \in 1 .. Len(ss) : flatten[i] # f[i]}
  <2> SUFFICES ASSUME D # {} PROVE FALSE
    OBVIOUS
  <2>1. D \subseteq Nat
    OBVIOUS
  <2>2. PICK i \in D : \A j \in D : i <= j
    BY <2>1, HasLeast
  <2>3. /\ i \in 1 .. Len(ss) /\ flatten[i] # f[i]
        /\ f[i] = IF i = 1 THEN ss[i] ELSE f[i - 1] \o ss[i]
    BY <1>2, <2>2 DEF JoinsTo
  <2>4. i # 1
    BY <1>6, <2>3
  <2>5. i - 1 \in 1 .. Len(ss) /\ ~(i <= i - 1)
    BY <2>3, <2>4
  <2>6. flatten[i - 1] = f[i - 1]
    BY <2>2, <2>5
  <2> QED
    BY <1>6, <2>3, <2>4, <2>6
<1>8. FlattenSeq(ss) = f[Len(ss)]
  <2>1. Len(ss) \in 1 .. Len(ss)
    OBVIOUS
  <2> QED
    BY <1>1, <1>7, <2>1
<1> QED
  BY <1>2, <1>8

LEMMA SplitLast ==
  ASSUME NEW T, NEW list \in Seq(T), NEW i \in 1 .. Len(list)
  PROVE  /\ SubSeq(list, 1, i - 1) \in Seq(T) /\ SubSeq(list, 1, i) \in Seq(T)
         /\ SubSeq(list, i, i) = <<list[i]>>
         /\ SubSeq(list, 1, i) = SubSeq(list, 1, i - 1) \o <<list[i]>>
<1>1. PICK h, one : h = i - 1 /\ one = 1
  OBVIOUS
<1>2. /\ h \in Nat /\ i \in Nat /\ one \in Nat /\ 1 <= one /\ one <= h + 1
      /\ h <= i
      /\ i <= Len(list) /\ h + 1 = i
  BY <1>1
<1>3. /\ SubSeq(list, one, h) \in Seq(T)
      /\ SubSeq(list, one, i) = SubSeq(list, one, h) \o SubSeq(list, h + 1, i)
  BY <1>2, SplitAt
<1>4. SubSeq(list, i, i) = <<list[i]>>
  <2>1. PICK c, d : c = <<list[i]>> /\ d = SubSeq(list, i, i)
    OBVIOUS
  <2>2. c \in Seq(T) /\ Len(c) = 1 /\ c[1] = list[i]
    BY <2>1
  <2>3. d \in Seq(T) /\ Len(d) = 1 /\ d[1] = list[i]
    BY <1>2, <2>1
  <2>4. \A j \in 1 .. Len(d) : d[j] = c[j]
    BY <2>2, <2>3
  <2>5. d = c
    BY <2>2, <2>3, <2>4, SeqEqual
  <2> QED
    BY <2>1, <2>5
<1>5. SubSeq(list, 1, i) \in Seq(T)
  OBVIOUS
<1> QED
  BY <1>1, <1>2, <1>3, <1>4, <1>5

(* A concatenation of what the statements become, one by one.              *)
LEMMA FlattenEdits ==
  ASSUME NEW list \in Seq(SoundStatement), NEW ss, ss = [i \in DOMAIN list |-> ss[i]],
         \A i \in DOMAIN list : Edits(<<list[i]>>, ss[i])
  PROVE  Edits(list, FlattenSeq(ss))
<1>0. PICK S : S = SoundStatement
  OBVIOUS
<1>1. PICK n : n = Len(list)
  OBVIOUS
<1>2. /\ n \in Nat /\ DOMAIN list = 1 .. n /\ list \in Seq(S)
      /\ SubSeq(list, 1, n) = list
  BY <1>0, <1>1
<1>3. ss \in [1 .. n -> Seq(S)]
  BY <1>0, <1>2 DEF Edits
<1>4. ss \in Seq(Seq(S)) /\ Len(ss) = n
  BY <1>2, <1>3
<1>5. CASE n = 0
  <2>1. FlattenSeq(ss) = << >> /\ list = << >>
    BY <1>1, <1>2, <1>4, <1>5 DEF FlattenSeq
  <2> QED
    BY <2>1, EditsSelf
<1>6. CASE n # 0
  <2>1. PICK g \in [1 .. n -> Seq(S)] : JoinsTo(g, n, ss) /\ FlattenSeq(ss) = g[n]
    BY <1>4, <1>6, FlattenJoins
  <2> DEFINE Fits(i) == Edits(SubSeq(list, 1, i), g[i])
             Bad     == {i \in 1 .. n : ~Fits(i)}
  <2>2. Fits(1)
    <3>0. 1 \in 1 .. n
      BY <1>2, <1>6
    <3>1. g[1] = ss[1]
      BY <2>1, <3>0, Zenon DEF JoinsTo
    <3>2. SubSeq(list, 1, 1) = <<list[1]>>
      BY <1>1, <1>2, <3>0, SplitLast, Zenon
    <3> QED
      BY <1>2, <3>0, <3>1, <3>2
  <2>3. ASSUME NEW i \in 1 .. n, i # 1, Fits(i - 1) PROVE Fits(i)
    <3>1. /\ i - 1 \in 1 .. n /\ g[i] = g[i - 1] \o ss[i] /\ Edits(<<list[i]>>, ss[i])
      BY <1>2, <2>1, <2>3 DEF JoinsTo
    <3>2. /\ SubSeq(list, 1, i - 1) \in Seq(S)
          /\ SubSeq(list, 1, i) = SubSeq(list, 1, i - 1) \o <<list[i]>>
      BY <1>1, <1>2, SplitLast
    <3>3. <<list[i]>> \in Seq(S)
      BY <1>2
    <3>4. Edits(SubSeq(list, 1, i - 1) \o <<list[i]>>, g[i - 1] \o ss[i])
      BY <1>0, <2>3, <3>1, <3>2, <3>3, EditsJoin
    <3> QED
      BY <3>1, <3>2, <3>4
  <2> HIDE DEF Fits
  <2>4. Bad = {}
    <3> SUFFICES ASSUME Bad # {} PROVE FALSE
      OBVIOUS
    <3>1. Bad \subseteq Nat
      OBVIOUS
    <3>2. PICK i \in Bad : \A j \in Bad : i <= j
      BY <3>1, HasLeast
    <3>3. i \in 1 .. n /\ ~Fits(i) /\ i # 1
      BY <2>2, <3>2
    <3>4. i - 1 \in 1 .. n /\ ~(i <= i - 1)
      BY <1>2, <3>3
    <3> QED
      BY <2>3, <3>2, <3>3, <3>4
  <2>5. Fits(n)
    <3>1. n \in 1 .. n
      BY <1>2, <1>6
    <3> QED
      BY <2>4, <3>1
  <2> QED
    BY <1>2, <2>1, <2>5 DEF Fits
<1> QED
  BY <1>5, <1>6

LEMMA FlattenTyped ==
  ASSUME NEW T, NEW n \in Nat, NEW ss \in [1 .. n -> Seq(T)]
  PROVE  FlattenSeq(ss) \in Seq(T)
<1>1. ss \in Seq(Seq(T)) /\ Len(ss) = n
  OBVIOUS
<1>2. CASE n = 0
  <2>1. FlattenSeq(ss) = << >>
    BY <1>1, <1>2 DEF FlattenSeq
  <2> QED
    BY <2>1
<1>3. CASE n # 0
  <2>1. PICK g \in [1 .. n -> Seq(T)] : FlattenSeq(ss) = g[n]
    BY <1>1, <1>3, FlattenJoins
  <2>2. n \in 1 .. n
    BY <1>3
  <2> QED
    BY <2>1, <2>2
<1> QED
  BY <1>2, <1>3

-----------------------------------------------------------------------------
(* Blocks nest: what is defined block by block exists, and holds of all if *)
(* it holds of those it holds inside of.                                   *)

Nests(text, height) ==
  /\ height \in [Block -> 0 .. Cardinality(Block)]
  /\ \A b \in Block : \A i \in DOMAIN text[b] :
       text[b][i].inner # NoBlock => height[text[b][i].inner] < height[b]

LEMMA HeightTyped ==
  ASSUME NEW height \in [Block -> 0 .. Cardinality(Block)]
  PROVE  /\ Cardinality(Block) \in Nat
         /\ \A b \in Block : height[b] \in Nat /\ height[b] < Cardinality(Block) + 1
<1>1. Cardinality(Block) \in Nat
  BY BlockAssumption, FS_CardinalityType
<1> QED
  BY <1>1

LEMMA NoneInnermost ==
  ASSUME NEW height \in [Block -> 0 .. Cardinality(Block)], NEW B \in SUBSET Block,
         \A b \in B : \E c \in B : height[c] < height[b]
  PROVE  B = {}
<1> SUFFICES ASSUME B # {} PROVE FALSE
  OBVIOUS
<1> DEFINE H == {height[b] : b \in B}
<1>1. H \subseteq Nat /\ H # {}
  BY HeightTyped
<1>2. PICK h \in H : \A k \in H : h <= k
  BY <1>1, HasLeast
<1>3. PICK b \in B : height[b] = h
  OBVIOUS
<1>4. PICK c \in B : height[c] < height[b]
  OBVIOUS
<1>5. height[b] \in Nat /\ height[c] \in Nat
  BY HeightTyped
<1>6. h <= height[c]
  BY <1>2
<1> QED
  BY <1>3, <1>4, <1>5, <1>6

LEMMA FixedPoint ==
  ASSUME NEW N, NEW G \in [[Block -> Seq(N)] -> [Block -> Seq(N)]],
         NEW height \in [Block -> 0 .. Cardinality(Block)],
         \A f, g \in [Block -> Seq(N)] : \A b \in Block :
           (\A c \in Block : height[c] < height[b] => f[c] = g[c])
             => G[f][b] = G[g][b]
  PROVE  \E f \in [Block -> Seq(N)] : f = G[f]
<1> DEFINE D == [Block -> Seq(N)]
           K == Cardinality(Block) + 1
           P(n) == \E f \in D : \A b \in Block : height[b] < n => f[b] = G[f][b]
           Bad == {n \in 0 .. K : ~P(n)}
<1>1. K \in Nat /\ \A b \in Block : height[b] \in Nat /\ height[b] < K
  BY HeightTyped
<1>2. P(0)
  <2> DEFINE f == [b \in Block |-> << >>]
  <2>1. f \in D /\ \A b \in Block : ~(height[b] < 0)
    BY <1>1
  <2> HIDE DEF f
  <2> QED
    BY <2>1
<1>3. ASSUME NEW n \in Nat, P(n) PROVE P(n + 1)
  <2>1. PICK f \in D : \A b \in Block : height[b] < n => f[b] = G[f][b]
    BY <1>3
  <2>2. PICK g \in D : g = G[f]
    BY <2>1
  <2>3. ASSUME NEW b \in Block, height[b] < n + 1 PROVE g[b] = G[g][b]
    <3>1. ASSUME NEW c \in Block, height[c] < height[b] PROVE f[c] = g[c]
      <4>1. height[c] \in Nat /\ height[b] \in Nat
        BY <1>1
      <4>2. height[c] < n
        BY <1>3, <2>3, <3>1, <4>1
      <4> QED
        BY <2>1, <2>2, <4>2
    <3>2. G[f][b] = G[g][b]
      BY <3>1
    <3> QED
      BY <2>2, <3>2
  <2> QED
    BY <2>3
<1> HIDE DEF P
<1>4. P(K)
  <2> SUFFICES ASSUME ~P(K) PROVE FALSE
    OBVIOUS
  <2>1. Bad \subseteq Nat /\ K \in Bad
    BY <1>1
  <2>2. PICK n \in Bad : \A k \in Bad : n <= k
    BY <2>1, HasLeast
  <2>3. n \in Nat /\ ~P(n) /\ n # 0 /\ n <= K
    BY <1>1, <1>2, <2>2
  <2>4. n - 1 \in Nat /\ (n - 1) + 1 = n /\ n - 1 \in 0 .. K /\ ~(n <= n - 1)
    BY <1>1, <2>3
  <2> QED
    BY <1>3, <2>2, <2>3, <2>4
<1>5. PICK f \in D : \A b \in Block : f[b] = G[f][b]
  BY <1>1, <1>4 DEF P
<1>6. f = G[f]
  <2>1. G[f] \in D
    OBVIOUS
  <2> QED
    BY <1>5, <2>1
<1> QED
  BY <1>6

(* The nodes of a text.                                                    *)
NodesIn(text) ==
  {n \in NodeType : n.kind = "stmt" => n.id # 0 /\ HasId(text[n.blk], n.id)}

LEMMA NodeTyped ==
  ASSUME NEW text, NEW b \in Block, NEW id, NEW kind \in {"stmt", "lit", "decl"},
         id \in Nat, kind = "stmt" => id # 0 /\ HasId(text[b], id)
  PROVE  Node(kind, b, id) \in NodesIn(text)
BY DEF Node, NodesIn, NodeType

PreNodes(text, b, i, f) ==
  (IF text[b][i].id = 0 THEN << >> ELSE <<Node("stmt", b, text[b][i].id)>>)
    \o IF text[b][i].inner = NoBlock THEN << >> ELSE f[text[b][i].inner]

LEMMA PreOrderTyped ==
  ASSUME NEW text \in [Block -> Seq(SoundStatement)], NEW height, Nests(text, height)
  PROVE  PreOrder(text) \in Seq({n \in NodesIn(text) : n.kind = "stmt"})
<1> DEFINE N == {n \in NodesIn(text) : n.kind = "stmt"}
           D == [Block -> Seq(N)]
           E(f) == [b \in Block |->
                      FlattenSeq([i \in DOMAIN text[b] |-> PreNodes(text, b, i, f)])]
           Of[b \in Block] == FlattenSeq([i \in DOMAIN text[b] |->
              LET s == text[b][i]
              IN  (IF s.id = 0 THEN << >> ELSE <<Node("stmt", b, s.id)>>)
                  \o IF s.inner = NoBlock THEN << >> ELSE Of[s.inner]])
<1>1. PreOrder(text) = Of[Decl]
  BY DEF PreOrder
<1>2. Of = CHOOSE f : f = E(f)
  BY DEF Of, PreNodes
<1> HIDE DEF Of, N
<1>3. ASSUME NEW b \in Block, NEW i \in DOMAIN text[b]
      PROVE  /\ text[b][i] \in SoundStatement /\ text[b][i].id \in Nat
             /\ text[b][i].inner # NoBlock => text[b][i].inner \in Block
             /\ text[b][i].id # 0 => Node("stmt", b, text[b][i].id) \in N
  <2>1. text[b][i] \in SoundStatement
    OBVIOUS
  <2>2. text[b][i].id \in Nat /\ text[b][i].inner \in Block \cup {NoBlock}
    BY <2>1 DEF SoundStatement, Statement
  <2>3. text[b][i].id # 0 => Node("stmt", b, text[b][i].id) \in N
    <3>1. HasId(text[b], text[b][i].id)
      BY DEF HasId
    <3>2. Node("stmt", b, text[b][i].id).kind = "stmt"
      BY DEF Node
    <3> QED
      BY <2>2, <3>1, <3>2, NodeTyped DEF N
  <2> QED
    BY <2>1, <2>2, <2>3
<1>4. ASSUME NEW f, NEW b \in Block,
             \A c \in Block : height[c] < height[b] => f[c] \in Seq(N)
      PROVE  E(f)[b] \in Seq(N)
  <2> DEFINE ss == [i \in DOMAIN text[b] |-> PreNodes(text, b, i, f)]
  <2>1. ASSUME NEW i \in DOMAIN text[b] PROVE PreNodes(text, b, i, f) \in Seq(N)
    <3> DEFINE x == IF text[b][i].id = 0 THEN << >>
                    ELSE <<Node("stmt", b, text[b][i].id)>>
               y == IF text[b][i].inner = NoBlock THEN << >> ELSE f[text[b][i].inner]
    <3>1. x \in Seq(N)
      BY <1>3
    <3>2. y \in Seq(N)
      BY <1>3, <1>4 DEF Nests
    <3> HIDE DEF x, y
    <3>3. x \o y \in Seq(N)
      BY <3>1, <3>2
    <3> QED
      BY <3>3 DEF PreNodes, x, y
  <2>2. DOMAIN text[b] = 1 .. Len(text[b]) /\ Len(text[b]) \in Nat
    OBVIOUS
  <2>3. ss \in [1 .. Len(text[b]) -> Seq(N)]
    BY <2>1, <2>2
  <2> HIDE DEF ss
  <2>4. FlattenSeq(ss) \in Seq(N)
    BY <2>2, <2>3, FlattenTyped
  <2> QED
    BY <2>4 DEF ss
<1>5. ASSUME NEW f, NEW g, NEW b \in Block,
             \A c \in Block : height[c] < height[b] => f[c] = g[c]
      PROVE  E(f)[b] = E(g)[b]
  <2>1. ASSUME NEW i \in DOMAIN text[b] PROVE PreNodes(text, b, i, f) = PreNodes(text, b, i, g)
    BY <1>3, <1>5 DEF PreNodes, Nests
  <2> QED
    BY <2>1
<1>6. \E f : f = E(f)
  <2> DEFINE G == [f \in D |-> E(f)]
  <2>1. \A f \in D : E(f) \in D
    <3> SUFFICES ASSUME NEW f \in D, NEW b \in Block PROVE E(f)[b] \in Seq(N)
      OBVIOUS
    <3>1. \A c \in Block : f[c] \in Seq(N)
      OBVIOUS
    <3> QED
      BY <1>4, <3>1
  <2>2. \A f \in D : G[f] = E(f)
    OBVIOUS
  <2> HIDE DEF E
  <2>3. G \in [D -> D]
    BY <2>1
  <2> HIDE DEF G
  <2>4. \A f, g \in D : \A b \in Block :
          (\A c \in Block : height[c] < height[b] => f[c] = g[c]) => G[f][b] = G[g][b]
    <3> SUFFICES ASSUME NEW f \in D, NEW g \in D, NEW b \in Block,
                        \A c \in Block : height[c] < height[b] => f[c] = g[c]
                 PROVE  G[f][b] = G[g][b]
      OBVIOUS
    <3>1. E(f)[b] = E(g)[b]
      BY <1>5
    <3>2. G[f] = E(f) /\ G[g] = E(g)
      BY <2>2
    <3> QED
      BY <3>1, <3>2
  <2>5. \E f \in D : f = G[f]
    BY <2>3, <2>4, FixedPoint DEF Nests
  <2> QED
    BY <2>2, <2>5
<1>7. Of = E(Of)
  <2> HIDE DEF E
  <2> QED
    BY <1>2, <1>6
<1>8. \A b \in Block : Of[b] \in Seq(N)
  <2> DEFINE B == {b \in Block : Of[b] \notin Seq(N)}
  <2>1. ASSUME NEW b \in B, \A c \in B : ~(height[c] < height[b]) PROVE FALSE
    <3>1. E(Of)[b] \in Seq(N)
      <4> HIDE DEF E
      <4> QED
        BY <1>4, <2>1
    <3> QED
      BY <1>7, <3>1
  <2>2. B = {}
    BY <2>1, NoneInnermost DEF Nests
  <2> QED
    BY <2>2
<1> QED
  BY <1>1, <1>8, BlockAssumption DEF N

PostNodes(p, b, i, f) ==
  (IF p.body[b][i].inner = NoBlock THEN << >>
   ELSE f[p.body[b][i].inner] \o (IF p.kinds[p.body[b][i].inner] = "lit"
                                  THEN <<Node("lit", p.body[b][i].inner, 0)>>
                                  ELSE << >>))
    \o <<Node("stmt", b, p.body[b][i].id)>>

LEMMA PostOrderTyped ==
  ASSUME NEW p, p.body \in [Block -> Seq(SoundStatement)],
         \A b \in Block : \A i \in DOMAIN p.body[b] : p.body[b][i].id # 0,
         NEW height, Nests(p.body, height)
  PROVE  PostOrder(p) \in Seq(NodesIn(p.body)) /\ PostOrder(p) # << >>
<1> DEFINE N == NodesIn(p.body)
           D == [Block -> Seq(N)]
           E(f) == [b \in Block |->
                      FlattenSeq([i \in DOMAIN p.body[b] |-> PostNodes(p, b, i, f)])]
           Of[b \in Block] == FlattenSeq([i \in DOMAIN p.body[b] |->
              LET s == p.body[b][i]
              IN  (IF s.inner = NoBlock THEN << >>
                   ELSE Of[s.inner] \o (IF p.kinds[s.inner] = "lit"
                                        THEN <<Node("lit", s.inner, 0)>> ELSE << >>))
                  \o <<Node("stmt", b, s.id)>>])
<1>1. PostOrder(p) = Append(Of[Decl], Node("decl", Decl, 0))
  BY DEF PostOrder
<1>2. Of = CHOOSE f : f = E(f)
  BY DEF Of, PostNodes
<1> HIDE DEF Of, N
<1>3. ASSUME NEW b \in Block, NEW i \in DOMAIN p.body[b]
      PROVE  /\ p.body[b][i].inner # NoBlock => p.body[b][i].inner \in Block
             /\ Node("stmt", b, p.body[b][i].id) \in N
  <2>1. p.body[b][i] \in SoundStatement
    OBVIOUS
  <2>2. p.body[b][i].id \in Nat /\ p.body[b][i].inner \in Block \cup {NoBlock}
    BY <2>1 DEF SoundStatement, Statement
  <2>3. p.body[b][i].id # 0 /\ HasId(p.body[b], p.body[b][i].id)
    BY DEF HasId
  <2>4. Node("stmt", b, p.body[b][i].id) \in N
    BY <2>2, <2>3, NodeTyped DEF N
  <2> QED
    BY <2>2, <2>4
<1>4. ASSUME NEW b \in Block
      PROVE  Node("lit", b, 0) \in N /\ Node("decl", b, 0) \in N
  BY NodeTyped DEF N
<1>5. ASSUME NEW f, NEW b \in Block,
             \A c \in Block : height[c] < height[b] => f[c] \in Seq(N)
      PROVE  E(f)[b] \in Seq(N)
  <2> DEFINE ss == [i \in DOMAIN p.body[b] |-> PostNodes(p, b, i, f)]
  <2>1. ASSUME NEW i \in DOMAIN p.body[b] PROVE PostNodes(p, b, i, f) \in Seq(N)
    <3> DEFINE c == p.body[b][i].inner
               x == IF p.kinds[c] = "lit" THEN <<Node("lit", c, 0)>> ELSE << >>
               y == IF c = NoBlock THEN << >> ELSE f[c] \o x
    <3>1. y \in Seq(N)
      <4>1. CASE c = NoBlock
        BY <4>1
      <4>2. CASE c # NoBlock
        <5>1. c \in Block /\ f[c] \in Seq(N)
          BY <1>3, <1>5, <4>2 DEF Nests
        <5>2. x \in Seq(N)
          BY <1>4, <5>1
        <5> HIDE DEF x, c
        <5>3. f[c] \o x \in Seq(N)
          BY <5>1, <5>2
        <5> QED
          BY <4>2, <5>3
      <4> QED
        BY <4>1, <4>2
    <3>2. <<Node("stmt", b, p.body[b][i].id)>> \in Seq(N)
      BY <1>3
    <3>3. PostNodes(p, b, i, f) = y \o <<Node("stmt", b, p.body[b][i].id)>>
      BY DEF PostNodes
    <3> HIDE DEF y
    <3> QED
      BY <3>1, <3>2, <3>3
  <2>2. DOMAIN p.body[b] = 1 .. Len(p.body[b]) /\ Len(p.body[b]) \in Nat
    OBVIOUS
  <2>3. ss \in [1 .. Len(p.body[b]) -> Seq(N)]
    BY <2>1, <2>2
  <2> HIDE DEF ss
  <2>4. FlattenSeq(ss) \in Seq(N)
    BY <2>2, <2>3, FlattenTyped
  <2> QED
    BY <2>4 DEF ss
<1>6. ASSUME NEW f, NEW g, NEW b \in Block,
             \A c \in Block : height[c] < height[b] => f[c] = g[c]
      PROVE  E(f)[b] = E(g)[b]
  <2>1. ASSUME NEW i \in DOMAIN p.body[b] PROVE PostNodes(p, b, i, f) = PostNodes(p, b, i, g)
    BY <1>3, <1>6 DEF PostNodes, Nests
  <2> QED
    BY <2>1
<1>7. \E f : f = E(f)
  <2> DEFINE G == [f \in D |-> E(f)]
  <2>1. \A f \in D : E(f) \in D
    <3> SUFFICES ASSUME NEW f \in D, NEW b \in Block PROVE E(f)[b] \in Seq(N)
      OBVIOUS
    <3>1. \A c \in Block : f[c] \in Seq(N)
      OBVIOUS
    <3> QED
      BY <1>5, <3>1
  <2>2. \A f \in D : G[f] = E(f)
    OBVIOUS
  <2> HIDE DEF E
  <2>3. G \in [D -> D]
    BY <2>1
  <2> HIDE DEF G
  <2>4. \A f, g \in D : \A b \in Block :
          (\A c \in Block : height[c] < height[b] => f[c] = g[c]) => G[f][b] = G[g][b]
    <3> SUFFICES ASSUME NEW f \in D, NEW g \in D, NEW b \in Block,
                        \A c \in Block : height[c] < height[b] => f[c] = g[c]
                 PROVE  G[f][b] = G[g][b]
      OBVIOUS
    <3>1. E(f)[b] = E(g)[b]
      BY <1>6
    <3>2. G[f] = E(f) /\ G[g] = E(g)
      BY <2>2
    <3> QED
      BY <3>1, <3>2
  <2>5. \E f \in D : f = G[f]
    BY <2>3, <2>4, FixedPoint DEF Nests
  <2> QED
    BY <2>2, <2>5
<1>8. Of = E(Of)
  <2> HIDE DEF E
  <2> QED
    BY <1>2, <1>7
<1>9. \A b \in Block : Of[b] \in Seq(N)
  <2> DEFINE B == {b \in Block : Of[b] \notin Seq(N)}
  <2>1. ASSUME NEW b \in B, \A c \in B : ~(height[c] < height[b]) PROVE FALSE
    <3>1. E(Of)[b] \in Seq(N)
      <4> HIDE DEF E
      <4> QED
        BY <1>5, <2>1
    <3> QED
      BY <1>8, <3>1
  <2>2. B = {}
    BY <2>1, NoneInnermost DEF Nests
  <2> QED
    BY <2>2
<1>10. Of[Decl] \in Seq(N) /\ Node("decl", Decl, 0) \in N
  BY <1>4, <1>9, BlockAssumption
<1> QED
  BY <1>1, <1>10 DEF N

-----------------------------------------------------------------------------
(* The generated statements.                                               *)

(* No call the integrations look at for what it binds or is handed.        *)
LookedAt == {"http.Client.Do", "http.DefaultClient.Do",
             "slog.NewTextHandler", "slog.NewJSONHandler"}

LEMMA NoneSpelled == None \in STRING /\ None = "none"
BY SpelledAssumption DEF Spelled, None

LEMMA BlankTyped ==
  /\ Blank \in Statement /\ Blank.id = 0 /\ Blank.inner = NoBlock
  /\ Blank.form = "expr" /\ Blank.lhs = << >> /\ Blank.fun = None
<1>1. Blank \in Statement
  BY NoneSpelled DEF Blank, Statement
<1> QED
  BY <1>1 DEF Blank

LEMMA PlainGenerated ==
  ASSUME NEW s \in Statement, s.id = 0, s.inner = NoBlock, s.fun \notin LookedAt,
         s.form = "assign" => s.lhs # << >>
  PROVE  s \in Generated
<1>1. GetNetHttpMethod(s) # "Do"
  BY DEF GetNetHttpMethod, LookedAt, None
<1>2. ~SlogMiddlewareCall(s)
  BY DEF SlogMiddlewareCall, LookedAt
<1> QED
  BY <1>1, <1>2 DEF Generated, SoundStatement

LEMMA CallsGenerated ==
  ASSUME NEW f \in STRING, f \notin LookedAt, NEW args \in Seq(STRING),
         NEW r \in STRING, NEW m \in STRING
  PROVE  /\ Call(f, args) \in Generated /\ Call(f, args).fun = f
         /\ Method(r, f, args) \in Generated /\ Method(r, f, args).fun = f
         /\ [Call(f, args) EXCEPT !.nested = m] \in Generated
         /\ [Call(f, args) EXCEPT !.nested = m].fun = f
         /\ [Method(r, f, args) EXCEPT !.nested = m] \in Generated
<1> DEFINE c == Call(f, args)
           d == Method(r, f, args)
           Plain(s) == /\ s \in Statement /\ s.id = 0 /\ s.inner = NoBlock
                       /\ s.fun = f /\ s.form = "expr"
<1>1. Plain(c)
  BY BlankTyped DEF Call, Statement
<1> HIDE DEF c
<1>2. Plain(d)
  BY <1>1 DEF Method, Statement, c
<1> HIDE DEF d
<1>3. Plain([c EXCEPT !.nested = m])
  BY <1>1 DEF Statement
<1>4. Plain([d EXCEPT !.nested = m])
  BY <1>2 DEF Statement
<1>5. \A s : Plain(s) => s \in Generated
  BY PlainGenerated
<1> QED
  BY <1>1, <1>2, <1>3, <1>4, <1>5 DEF c, d

LEMMA DefinesGenerated ==
  ASSUME NEW s \in Generated, s.fun \notin LookedAt,
         NEW names \in Seq(STRING), names # << >>, NEW x \in STRING
  PROVE  /\ Define(names, s) \in Generated
         /\ Assign(names, s) \in Generated
         /\ SetField(x, s) \in Generated
<1> DEFINE Plain(t) == /\ t \in Statement /\ t.id = 0 /\ t.inner = NoBlock
                       /\ t.fun = s.fun /\ t.lhs # << >>
<1>1. /\ s \in Statement /\ s.id = 0 /\ s.inner = NoBlock
      /\ <<x>> \in Seq(STRING) /\ <<x>> # << >>
  BY DEF Generated, SoundStatement
<1>2. Plain(Define(names, s))
  BY <1>1 DEF Define, Statement
<1>3. Plain(Assign(names, s))
  BY <1>1 DEF Assign, Define, Statement
<1>4. Plain(Assign(<<x>>, s))
  BY <1>1 DEF Assign, Define, Statement
<1>5. Plain(SetField(x, s))
  BY <1>4 DEF SetField, Statement
<1>6. \A t : Plain(t) => t \in Generated
  BY PlainGenerated
<1> QED
  BY <1>2, <1>3, <1>5, <1>6

LEMMA NamesSpelled ==
  /\ nrTxn \in STRING /\ DefaultTransactionVariable \in STRING
  /\ DefaultContextParameter \in STRING
  /\ ConfigVar \in STRING /\ AgentErrorVariableName \in STRING
BY SpelledAssumption DEF Spelled, nrTxn, DefaultTransactionVariable,
   DefaultContextParameter, ConfigVar, AgentErrorVariableName

LEMMA PlainFuns ==
  /\ Spelled \cap LookedAt = {}
  /\ \A f \in Spelled : f \in STRING /\ f \notin LookedAt
<1>1. Spelled \cap LookedAt = {}
  BY DEF Spelled, LookedAt, None
<1> QED
  BY <1>1, SpelledAssumption

LEMMA SpelledCalls ==
  ASSUME NEW f \in Spelled, NEW args \in Seq(STRING),
         NEW r \in STRING, NEW m \in STRING
  PROVE  /\ Call(f, args) \in Generated /\ Call(f, args).fun \notin LookedAt
         /\ Method(r, f, args) \in Generated /\ Method(r, f, args).fun \notin LookedAt
         /\ [Call(f, args) EXCEPT !.nested = m] \in Generated
         /\ [Call(f, args) EXCEPT !.nested = m].fun \notin LookedAt
         /\ [Method(r, f, args) EXCEPT !.nested = m] \in Generated
BY PlainFuns, CallsGenerated

LEMMA TransactionStatements ==
  ASSUME NEW agent \in STRING, NEW txn \in STRING, NEW overwrite \in BOOLEAN,
         NEW context, context.recv \in STRING, context.fun \in STRING
  PROVE  /\ StartTransaction(agent, txn, overwrite) \in Generated
         /\ EndTransaction(txn) \in Generated
         /\ DeferSegment(txn) \in Generated
         /\ TxnFromContext(txn, context) \in Generated
         /\ CreateContextWithTransaction(txn) \in Generated
<1>0. /\ {"End", "StartTransaction", "StartSegment", "newrelic.FromContext",
          "newrelic.NewContext"} \subseteq Spelled
      /\ << >> \in Seq(STRING) /\ <<txn>> \in Seq(STRING) /\ <<txn>> # << >>
      /\ <<context.recv>> \in Seq(STRING)
      /\ <<DefaultContextParameter>> \in Seq(STRING) /\ <<DefaultContextParameter>> # << >>
  BY NamesSpelled DEF Spelled
<1>1. StartTransaction(agent, txn, overwrite) \in Generated
  <2> DEFINE c == Method(agent, "StartTransaction", << >>)
  <2>1. c \in Generated /\ c.fun \notin LookedAt
    BY <1>0, SpelledCalls
  <2> HIDE DEF c
  <2>2. Assign(<<txn>>, c) \in Generated /\ Define(<<txn>>, c) \in Generated
    BY <1>0, <2>1, DefinesGenerated
  <2> QED
    BY <2>2 DEF StartTransaction, c
<1>2. EndTransaction(txn) \in Generated
  BY <1>0, SpelledCalls DEF EndTransaction
<1>3. DeferSegment(txn) \in Generated
  <2> DEFINE c == Method(txn, "StartSegment", << >>)
             d == [c EXCEPT !.form = "defer"]
  <2>1. c \in Generated /\ c.fun \notin LookedAt
    BY <1>0, SpelledCalls
  <2> HIDE DEF c
  <2>2. c \in Statement /\ c.id = 0 /\ c.inner = NoBlock
    BY <2>1 DEF Generated, SoundStatement
  <2>3. /\ d \in Statement /\ d.id = 0 /\ d.inner = NoBlock
        /\ d.fun \notin LookedAt /\ d.form # "assign"
    BY <2>1, <2>2 DEF Statement
  <2> HIDE DEF d
  <2>4. d \in Generated
    BY <2>3, PlainGenerated
  <2> QED
    BY <2>4 DEF DeferSegment, c, d
<1>4. TxnFromContext(txn, context) \in Generated
  <2> DEFINE c == [Call("newrelic.FromContext", <<context.recv>>)
                     EXCEPT !.nested = context.fun]
  <2>1. c \in Generated /\ c.fun \notin LookedAt
    BY <1>0, SpelledCalls
  <2> HIDE DEF c
  <2>2. Define(<<txn>>, c) \in Generated
    BY <1>0, <2>1, DefinesGenerated
  <2> QED
    BY <2>2 DEF TxnFromContext, c
<1>5. CreateContextWithTransaction(txn) \in Generated
  <2> DEFINE c == Call("newrelic.NewContext", <<txn>>)
  <2>1. c \in Generated /\ c.fun \notin LookedAt
    BY <1>0, SpelledCalls
  <2> HIDE DEF c
  <2>2. Define(<<DefaultContextParameter>>, c) \in Generated
    BY <1>0, <2>1, DefinesGenerated
  <2> QED
    BY <2>2 DEF CreateContextWithTransaction, c
<1> QED
  BY <1>1, <1>2, <1>3, <1>4, <1>5

LEMMA SpelledDefines ==
  ASSUME NEW f \in Spelled, NEW args \in Seq(STRING),
         NEW names \in Seq(STRING), names # << >>, NEW x \in STRING
  PROVE  /\ Define(names, Call(f, args)) \in Generated
         /\ Assign(names, Call(f, args)) \in Generated
         /\ SetField(x, Call(f, args)) \in Generated
<1>1. PICK c : c = Call(f, args)
  OBVIOUS
<1>2. c \in Generated /\ c.fun \notin LookedAt
  BY <1>1, SpelledCalls, NoneSpelled
<1>3. /\ Define(names, c) \in Generated
      /\ Assign(names, c) \in Generated
      /\ SetField(x, c) \in Generated
  BY <1>2, DefinesGenerated
<1> QED
  BY <1>1, <1>3

LEMMA ShortLists ==
  ASSUME NEW T, NEW a \in T, NEW b \in T
  PROVE  /\ << >> \in Seq(T)
         /\ <<a>> \in Seq(T) /\ <<a>> # << >>
         /\ <<a, b>> \in Seq(T) /\ <<a, b>> # << >>
<1>1. << >> \in Seq(T) /\ <<a>> \in Seq(T)
  OBVIOUS
<1>2. <<a>> # << >>
  OBVIOUS
<1>3. <<a, b>> \in Seq(T)
  OBVIOUS
<1>4. <<a, b>> # << >>
  OBVIOUS
<1> QED
  BY <1>1, <1>2, <1>3, <1>4

LEMMA NameLists ==
  ASSUME NEW a \in STRING, NEW b \in STRING
  PROVE  /\ << >> \in Seq(STRING)
         /\ <<a>> \in Seq(STRING) /\ <<a>> # << >>
         /\ <<a, b>> \in Seq(STRING) /\ <<a, b>> # << >>
BY ShortLists, Zenon

LEMMA WebStatements ==
  ASSUME NEW router \in STRING, NEW agent \in STRING, NEW txn \in STRING,
         NEW ctx \in STRING, NEW v
  PROVE  /\ NrGinMiddleware(router, agent) \in Generated
         /\ NrEchoMiddleware(v, router, agent) \in Generated
         /\ NrChiMiddleware(router, agent) \in Generated
         /\ TxnFromGinContext(txn, ctx) \in Generated
         /\ TxnFromEchoContext(v, txn, ctx) \in Generated
<1>0. /\ {"Use", "nrgin.Transaction", "nrecho4.FromContext",
          "nrecho3.FromContext"} \subseteq Spelled
      /\ {"nrgin.Middleware", "nrecho4.Middleware", "nrecho3.Middleware",
          "nrgochi.Middleware"} \subseteq Spelled
  BY DEF Spelled
<1>5. /\ <<agent>> \in Seq(STRING) /\ <<ctx>> \in Seq(STRING)
      /\ <<txn>> \in Seq(STRING) /\ <<txn>> # << >>
  BY NameLists
<1>1. ASSUME NEW m \in Spelled PROVE Use(router, m, agent) \in Generated
  <2>1. m \in STRING /\ "Use" \in Spelled
    BY <1>0, PlainFuns
  <2> QED
    BY <1>0, <1>5, <2>1, SpelledCalls DEF Use
<1>2. /\ NrGinMiddleware(router, agent) \in Generated
      /\ NrEchoMiddleware(v, router, agent) \in Generated
      /\ NrChiMiddleware(router, agent) \in Generated
  BY <1>0, <1>1 DEF NrGinMiddleware, NrEchoMiddleware, NrChiMiddleware
<1>3. TxnFromGinContext(txn, ctx) \in Generated
  BY <1>0, <1>5, SpelledDefines, NoneSpelled DEF TxnFromGinContext
<1>4. TxnFromEchoContext(v, txn, ctx) \in Generated
  <2>1. PICK f \in Spelled : f = IF v = 4 THEN "nrecho4.FromContext"
                                          ELSE "nrecho3.FromContext"
    BY <1>0
  <2>2. Define(<<txn>>, Call(f, <<ctx>>)) \in Generated
    BY <1>0, <1>5, SpelledDefines, NoneSpelled
  <2> QED
    BY <2>1, <2>2 DEF TxnFromEchoContext
<1> QED
  BY <1>2, <1>3, <1>4

LEMMA HttpStatements ==
  ASSUME NEW client \in STRING, NEW request \in STRING, NEW txn \in STRING,
         NEW segment \in STRING, NEW response \in STRING
  PROVE  /\ RoundTripper(client) \in Generated
         /\ WrapRequestContext(request, txn) \in Generated
         /\ StartExternalSegment(request, txn, segment) \in Generated
         /\ EndExternalSegment(segment) \in Generated
         /\ CaptureHttpResponse(segment, response) \in Generated
<1>0. /\ {"newrelic.NewRoundTripper", "newrelic.RequestWithTransactionContext",
          "newrelic.StartExternalSegment", "End"} \subseteq Spelled
  BY DEF Spelled
<1>6. /\ <<client>> \in Seq(STRING) /\ <<request, txn>> \in Seq(STRING)
      /\ <<txn, request>> \in Seq(STRING) /\ <<request>> \in Seq(STRING)
      /\ <<segment>> \in Seq(STRING) /\ << >> \in Seq(STRING)
      /\ <<request>> # << >> /\ <<segment>> # << >> /\ <<response>> \in Seq(STRING)
  BY NameLists
<1>1. RoundTripper(client) \in Generated
  BY <1>0, <1>6, SpelledDefines DEF RoundTripper
<1>2. WrapRequestContext(request, txn) \in Generated
  BY <1>0, <1>6, SpelledDefines DEF WrapRequestContext
<1>3. StartExternalSegment(request, txn, segment) \in Generated
  BY <1>0, <1>6, SpelledDefines DEF StartExternalSegment
<1>4. EndExternalSegment(segment) \in Generated
  BY <1>0, <1>6, SpelledCalls DEF EndExternalSegment
<1>5. CaptureHttpResponse(segment, response) \in Generated
  <2> DEFINE c == [Blank EXCEPT !.args = <<response>>]
  <2>1. c \in Statement /\ c.id = 0 /\ c.inner = NoBlock /\ c.form = "expr" /\ c.fun = None
    BY <1>6, BlankTyped DEF Statement
  <2>2. None \notin LookedAt
    BY DEF None, LookedAt
  <2> HIDE DEF c
  <2>3. c \in Generated /\ c.fun \notin LookedAt
    BY <2>1, <2>2, PlainGenerated
  <2>4. SetField(segment, c) \in Generated
    BY <1>0, <1>6, <2>3, DefinesGenerated
  <2> QED
    BY <2>4 DEF CaptureHttpResponse, c
<1> QED
  BY <1>1, <1>2, <1>3, <1>4, <1>5

LEMMA AgentStatements ==
  ASSUME NEW agent \in STRING
  PROVE  /\ InitializeAgent(agent) \in Seq(Generated)
         /\ ShutdownAgent(agent) \in Generated
<1>0. /\ {"newrelic.NewApplication", "Shutdown"} \subseteq Spelled
  BY DEF Spelled
<1>5. /\ << >> \in Seq(STRING) /\ <<AgentErrorVariableName>> \in Seq(STRING)
      /\ <<agent, AgentErrorVariableName>> \in Seq(STRING)
      /\ <<agent, AgentErrorVariableName>> # << >>
  BY NamesSpelled, NameLists
<1>1. Define(<<agent, AgentErrorVariableName>>, Call("newrelic.NewApplication", << >>))
        \in Generated
  BY <1>0, <1>5, SpelledDefines
<1>2. PanicOnError(AgentErrorVariableName) \in Generated
  <2> DEFINE c == PanicOnError(AgentErrorVariableName)
  <2>1. /\ c \in Statement /\ c.id = 0 /\ c.inner = NoBlock /\ c.form # "assign"
        /\ c.fun = None
    BY <1>5, BlankTyped DEF Statement, PanicOnError
  <2>2. None \notin LookedAt
    BY DEF None, LookedAt
  <2> HIDE DEF c
  <2>3. c \in Generated
    BY <2>1, <2>2, PlainGenerated
  <2> QED
    BY <2>3 DEF c
<1>3. ShutdownAgent(agent) \in Generated
  BY <1>0, <1>5, SpelledCalls DEF ShutdownAgent
<1>4. PICK a, b : /\ InitializeAgent(agent) = <<a, b>>
                  /\ a \in Generated /\ b \in Generated
  BY <1>1, <1>2 DEF InitializeAgent
<1> QED
  BY <1>3, <1>4, ShortLists

LEMMA LogStatements ==
  ASSUME NEW handler \in STRING, NEW nrHandler \in STRING,
         NEW logger \in STRING, NEW agent \in STRING
  PROVE  /\ SlogHandlerWrapper(handler, nrHandler) \in Generated
         /\ DefaultSetFormatterStmt(PackageSetFormatter, agent) \in Generated
         /\ DefaultSetFormatterStmt(LoggerSetFormatter(logger), agent) \in Generated
<1>0. {"nrslog.WrapHandler", "SetFormatter", "logrus.SetFormatter"} \subseteq Spelled
  BY DEF Spelled
<1>1. {"NewRelicAgent", "nrlogrus.NewFormatter", "logrus.TextFormatter"} \subseteq STRING
  BY SpelledAssumption DEF Spelled
<1>2. /\ <<"NewRelicAgent", handler>> \in Seq(STRING) /\ << >> \in Seq(STRING)
      /\ <<nrHandler>> \in Seq(STRING) /\ <<nrHandler>> # << >>
      /\ <<agent>> \in Seq(STRING)
  BY <1>1, NameLists
<1>3. SlogHandlerWrapper(handler, nrHandler) \in Generated
  BY <1>0, <1>2, SpelledDefines DEF SlogHandlerWrapper
<1>4. ASSUME NEW c \in Generated, c.fun \notin LookedAt, c.form # "assign"
      PROVE  DefaultSetFormatterStmt(c, agent) \in Generated
  <2> DEFINE d == [c EXCEPT !.lit = "logrus.TextFormatter"]
             e == [d EXCEPT !.nested = "nrlogrus.NewFormatter", !.args = <<agent>> \o @]
             Plain(t) == /\ t \in Statement /\ t.id = 0 /\ t.inner = NoBlock
                         /\ t.fun \notin LookedAt /\ t.form # "assign"
  <2>1. Plain(c)
    BY <1>4 DEF Generated, SoundStatement
  <2>2. Plain(d)
    BY <1>1, <2>1 DEF Statement
  <2> HIDE DEF d
  <2>3. d.args \in Seq(STRING)
    BY <2>2 DEF Statement
  <2>4. <<agent>> \o d.args \in Seq(STRING)
    BY <1>2, <2>3, ConcatProperties
  <2>5. Plain(e)
    BY <1>1, <2>2, <2>4 DEF Statement
  <2>6. e = DefaultSetFormatterStmt(c, agent)
    BY DEF DefaultSetFormatterStmt, WrapWithNewFormatter, DefaultTextFormatter, d
  <2> HIDE DEF e
  <2> QED
    BY <2>5, <2>6, PlainGenerated
<1>5. /\ LoggerSetFormatter(logger) \in Generated
      /\ LoggerSetFormatter(logger).fun \notin LookedAt
      /\ LoggerSetFormatter(logger).form # "assign"
  <2>1. /\ Method(logger, "SetFormatter", << >>) \in Generated
        /\ Method(logger, "SetFormatter", << >>).fun \notin LookedAt
    BY <1>0, <1>2, SpelledCalls, NoneSpelled
  <2>2. Method(logger, "SetFormatter", << >>).form = "expr"
    BY BlankTyped DEF Method, Call, Statement
  <2> QED
    BY <2>1, <2>2 DEF LoggerSetFormatter
<1>6. /\ PackageSetFormatter \in Generated
      /\ PackageSetFormatter.fun \notin LookedAt
      /\ PackageSetFormatter.form # "assign"
  <2>1. /\ Call("logrus.SetFormatter", << >>) \in Generated
        /\ Call("logrus.SetFormatter", << >>).fun \notin LookedAt
    BY <1>0, <1>2, SpelledCalls, NoneSpelled
  <2>2. Call("logrus.SetFormatter", << >>).form = "expr"
    BY BlankTyped DEF Call, Statement
  <2> QED
    BY <2>1, <2>2 DEF PackageSetFormatter
<1> QED
  BY <1>3, <1>4, <1>5, <1>6

-----------------------------------------------------------------------------
(* Changed statements of the user.                                         *)

LEMMA ChangedSound ==
  ASSUME NEW s \in SoundStatement, NEW t \in Statement,
         t.id = s.id, t.inner = s.inner, t.form = s.form, t.lhs = s.lhs,
         \/ t.fun = s.fun /\ (s.args # << >> => t.args # << >>)
         \/ t.fun \notin LookedAt /\ ~ConnectsWithConfig(s)
  PROVE  t \in SoundStatement /\ Alike(t, s)
<1>1. CASE t.fun = s.fun /\ (s.args # << >> => t.args # << >>)
  <2>1. /\ GetNetHttpMethod(t) = GetNetHttpMethod(s)
        /\ SlogMiddlewareCall(t) = SlogMiddlewareCall(s)
        /\ ConnectsWithConfig(t) = ConnectsWithConfig(s)
    BY <1>1 DEF GetNetHttpMethod, SlogMiddlewareCall, ConnectsWithConfig
  <2> QED
    BY <1>1, <2>1 DEF SoundStatement, Alike
<1>2. CASE t.fun \notin LookedAt /\ ~ConnectsWithConfig(s)
  <2>1. GetNetHttpMethod(t) # "Do" /\ ~SlogMiddlewareCall(t)
    BY <1>2 DEF GetNetHttpMethod, SlogMiddlewareCall, LookedAt, None
  <2> QED
    BY <1>2, <2>1 DEF SoundStatement, Alike
<1> QED
  BY <1>1, <1>2

LEMMA SoundParts ==
  ASSUME NEW s \in SoundStatement
  PROVE  /\ s \in Statement /\ s.args \in Seq(STRING) /\ s.lhs \in Seq(STRING)
         /\ s.id \in Nat /\ s.inner \in Block \cup {NoBlock}
         /\ s.fun \in STRING
         /\ s.form = "assign" => s.lhs[1] \in STRING
BY DEF SoundStatement, Statement

LEMMA PrependedArgs ==
  ASSUME NEW name \in STRING, NEW args \in Seq(STRING)
  PROVE  <<name>> \o args \in Seq(STRING) /\ <<name>> \o args # << >>
<1>1. PICK T : T = STRING
  OBVIOUS
<1>2. name \in T /\ args \in Seq(T)
  BY <1>1
<1>3. <<name>> \o args \in Seq(T)
  <2>1. <<name>> \in Seq(T)
    BY <1>2, ShortLists, Zenon
  <2> QED
    BY <1>2, <2>1, ConcatProperties
<1>4. Len(<<name>> \o args) = 1 + Len(args) /\ Len(args) \in Nat
  BY <1>2
<1>5. <<name>> \o args # << >>
  <2>1. Len(<<name>> \o args) # 0
    BY <1>4
  <2> QED
    BY <2>1
<1> QED
  BY <1>1, <1>3, <1>5

LEMMA HandedTransaction ==
  ASSUME NEW s \in SoundStatement
  PROVE  AddToCall(s) \in SoundStatement /\ Alike(AddToCall(s), s)
<1>1. CASE AddToCall(s) = s
  BY <1>1 DEF Alike
<1>2. CASE AddToCall(s) # s
  <2> DEFINE t == [s EXCEPT !.args = Append(@, nrTxn)]
  <2>1. AddToCall(s) = t
    BY <1>2 DEF AddToCall
  <2>2. s \in Statement /\ s.args \in Seq(STRING) /\ nrTxn \in STRING
    BY SoundParts, NamesSpelled
  <2>3. Append(s.args, nrTxn) \in Seq(STRING) /\ Append(s.args, nrTxn) # << >>
    <3>1. PICK T : T = STRING
      OBVIOUS
    <3>2. s.args \in Seq(T) /\ nrTxn \in T
      BY <2>2, <3>1
    <3>3. Append(s.args, nrTxn) \in Seq(T) /\ Append(s.args, nrTxn) # << >>
      BY <3>2
    <3> QED
      BY <3>1, <3>3
  <2>4. /\ t \in Statement /\ t.args = Append(s.args, nrTxn)
        /\ t.id = s.id /\ t.inner = s.inner /\ t.form = s.form
        /\ t.lhs = s.lhs /\ t.fun = s.fun
    BY <2>2, <2>3 DEF Statement
  <2> HIDE DEF t
  <2> QED
    BY <2>1, <2>3, <2>4, ChangedSound
<1> QED
  BY <1>1, <1>2

LEMMA HandedAgent ==
  ASSUME NEW s \in SoundStatement, NEW agent \in STRING
  PROVE  /\ WrapHttpHandleFunc(agent, s) \in SoundStatement
         /\ Alike(WrapHttpHandleFunc(agent, s), s)
         /\ WrapHttpHandle(agent, s) \in SoundStatement
         /\ Alike(WrapHttpHandle(agent, s), s)
         /\ WrapWithNewFormatter(s, agent) \in SoundStatement
         /\ Alike(WrapWithNewFormatter(s, agent), s)
<1>1. ASSUME NEW m \in {"newrelic.WrapHandleFunc", "newrelic.WrapHandle",
                        "nrlogrus.NewFormatter"},
             NEW t, t = [s EXCEPT !.nested = m, !.args = <<agent>> \o @]
      PROVE  t \in SoundStatement /\ Alike(t, s)
  <2>1. m \in STRING
    BY <1>1, SpelledAssumption DEF Spelled
  <2>2. s \in Statement /\ s.args \in Seq(STRING)
    BY SoundParts
  <2>3. <<agent>> \o s.args \in Seq(STRING) /\ <<agent>> \o s.args # << >>
    BY <2>2, PrependedArgs
  <2>4. /\ t \in Statement /\ t.args = <<agent>> \o s.args
        /\ t.id = s.id /\ t.inner = s.inner /\ t.form = s.form
        /\ t.lhs = s.lhs /\ t.fun = s.fun
    BY <1>1, <2>1, <2>2, <2>3 DEF Statement
  <2> QED
    BY <2>3, <2>4, ChangedSound
<1> QED
  BY <1>1 DEF WrapHttpHandleFunc, WrapHttpHandle, WrapWithNewFormatter

OptionType == [fun : STRING, args : Seq(STRING)]

LEMMA GivenOptions ==
  ASSUME NEW s \in SoundStatement, NEW a \in OptionType, NEW b \in OptionType,
         NEW t, t = [s EXCEPT !.opts = @ \o <<a, b>>]
  PROVE  t \in SoundStatement /\ Alike(t, s)
<1>1. s \in Statement /\ s.opts \in Seq(OptionType)
  BY DEF SoundStatement, Statement, OptionType
<1>2. <<a, b>> \in Seq(OptionType)
  BY ShortLists
<1>3. s.opts \o <<a, b>> \in Seq(OptionType)
  BY <1>1, <1>2, ConcatProperties
<1>4. /\ t \in Statement /\ t.args = s.args
      /\ t.id = s.id /\ t.inner = s.inner /\ t.form = s.form
      /\ t.lhs = s.lhs /\ t.fun = s.fun
  BY <1>1, <1>3 DEF Statement, OptionType
<1> QED
  BY <1>4, ChangedSound

LEMMA Interceptors ==
  ASSUME NEW agent \in STRING
  PROVE  /\ NrGrpcUnaryClientInterceptor \in OptionType
         /\ NrGrpcStreamClientInterceptor \in OptionType
         /\ NrGrpcUnaryServerInterceptor(agent) \in OptionType
         /\ NrGrpcStreamServerInterceptor(agent) \in OptionType
<1>1. {"nrgrpc.UnaryClientInterceptor", "nrgrpc.StreamClientInterceptor",
       "nrgrpc.UnaryServerInterceptor", "nrgrpc.StreamServerInterceptor"}
        \subseteq STRING
  BY SpelledAssumption DEF Spelled
<1>2. << >> \in Seq(STRING) /\ <<agent>> \in Seq(STRING)
  BY NameLists
<1> QED
  BY <1>1, <1>2 DEF OptionType, NrGrpcUnaryClientInterceptor,
     NrGrpcStreamClientInterceptor, NrGrpcUnaryServerInterceptor,
     NrGrpcStreamServerInterceptor

LEMMA WithContext ==
  ASSUME NEW s \in SoundStatement, s.fun \in DOMAIN ContextMethodName, NEW ctx \in STRING
  PROVE  /\ ReplaceSQLMethodWithContext(s, ctx) \in SoundStatement
         /\ Alike(ReplaceSQLMethodWithContext(s, ctx), s)
<1> DEFINE t == ReplaceSQLMethodWithContext(s, ctx)
<1>1. s \in Statement /\ s.args \in Seq(STRING)
  BY SoundParts
<1>2. <<ctx>> \o s.args \in Seq(STRING)
  BY <1>1, PrependedArgs
<1>3. ContextMethodName[s.fun] \in {"QueryRowContext", "QueryContext", "ExecContext"}
  BY DEF ContextMethodName
<1>4. ContextMethodName[s.fun] \in STRING /\ ContextMethodName[s.fun] \notin LookedAt
  <2>1. {"QueryRowContext", "QueryContext", "ExecContext"} \subseteq Spelled
    BY DEF Spelled
  <2> QED
    BY <1>3, <2>1, PlainFuns
<1>5. /\ t \in Statement /\ t.fun = ContextMethodName[s.fun]
      /\ t.id = s.id /\ t.inner = s.inner /\ t.form = s.form /\ t.lhs = s.lhs
  BY <1>1, <1>2, <1>4 DEF Statement, ReplaceSQLMethodWithContext
<1>6. ~ConnectsWithConfig(s)
  BY DEF ConnectsWithConfig, ContextMethodName
<1> HIDE DEF t
<1>7. t \in SoundStatement /\ Alike(t, s)
  BY <1>4, <1>5, <1>6, ChangedSound
<1> QED
  BY <1>7 DEF t

LEMMA OtherDriver ==
  ASSUME NEW s \in SoundStatement
  PROVE  /\ [s EXCEPT !.lit = "nrpq"] \in SoundStatement
         /\ Alike([s EXCEPT !.lit = "nrpq"], s)
<1> DEFINE t == [s EXCEPT !.lit = "nrpq"]
<1>1. "nrpq" \in STRING
  BY SpelledAssumption DEF Spelled
<1>2. s \in Statement
  BY SoundParts
<1>3. /\ t \in Statement /\ t.fun = s.fun /\ t.args = s.args
      /\ t.id = s.id /\ t.inner = s.inner /\ t.form = s.form /\ t.lhs = s.lhs
  BY <1>1, <1>2 DEF Statement
<1> HIDE DEF t
<1>4. t \in SoundStatement /\ Alike(t, s)
  BY <1>3, ChangedSound
<1> QED
  BY <1>4 DEF t

LEMMA Renamed ==
  ASSUME NEW s \in SoundStatement, NEW handlers \in SUBSET HandlerName
  PROVE  Rename(s, handlers) \in SoundStatement /\ Alike(Rename(s, handlers), s)
<1> DEFINE a == [i \in DOMAIN s.args |-> IF s.args[i] \in handlers THEN NRName[s.args[i]]
                                                                   ELSE s.args[i]]
           t == Rename(s, handlers)
<1>1. s \in Statement /\ s.args \in Seq(STRING)
  BY SoundParts
<1>2. /\ DOMAIN s.args = 1 .. Len(s.args) /\ Len(s.args) \in Nat
      /\ \A i \in DOMAIN s.args : s.args[i] \in STRING
  BY <1>1
<1>3. ASSUME NEW i \in DOMAIN s.args PROVE a[i] \in STRING
  BY <1>2, HandlerAssumption
<1>4. a \in [1 .. Len(s.args) -> STRING]
  BY <1>2, <1>3
<1>5. a \in Seq(STRING) /\ Len(a) = Len(s.args)
  <2>1. PICK T : T = STRING
    OBVIOUS
  <2> HIDE DEF a
  <2>2. a \in [1 .. Len(s.args) -> T]
    BY <1>4, <2>1
  <2>3. a \in Seq(T) /\ Len(a) = Len(s.args)
    BY <1>2, <2>2
  <2> QED
    BY <2>1, <2>3
<1>6. t = [s EXCEPT !.args = a]
  BY DEF Rename
<1> HIDE DEF a, t
<1>7. s.args # << >> => a # << >>
  <2>1. PICK T : T = STRING
    OBVIOUS
  <2>2. s.args \in Seq(T) /\ a \in Seq(T)
    BY <1>1, <1>5, <2>1
  <2> QED
    BY <1>5, <2>2
<1>8. /\ t \in Statement /\ t.fun = s.fun /\ t.args = a
      /\ t.id = s.id /\ t.inner = s.inner /\ t.form = s.form /\ t.lhs = s.lhs
  BY <1>1, <1>5, <1>6 DEF Statement
<1>9. t \in SoundStatement /\ Alike(t, s)
  BY <1>7, <1>8, ChangedSound
<1> QED
  BY <1>9 DEF t

-----------------------------------------------------------------------------
(* The edits of the loggers and the SQL drivers.                           *)

LEMMA Becomes ==
  ASSUME NEW s, NEW t \in SoundStatement, Alike(t, s)
  PROVE  Edits(<<s>>, <<t>>)
<1> DEFINE m == [j \in 1 .. 1 |-> 1]
<1>1. /\ <<t>> \in Seq(SoundStatement) /\ DOMAIN <<t>> = {1} /\ <<t>>[1] = t
      /\ Len(<<s>>) = 1 /\ <<s>>[1] = s
  OBVIOUS
<1>2. m \in [1 .. 1 -> {1}] /\ m[1] = 1
  OBVIOUS
<1> HIDE DEF m
<1>3. \A j \in 1 .. 1 : j = 1
  OBVIOUS
<1>4. Embeds(m, 1, <<s>>, <<t>>)
  BY <1>1, <1>2, <1>3 DEF Embeds
<1> QED
  BY <1>1, <1>4 DEF Edits

LEMMA Pair ==
  ASSUME NEW T, NEW a \in T, NEW b \in T
  PROVE  <<a, b>> = <<a>> \o <<b>>
<1>1. PICK c, d, e : c = <<a>> /\ d = <<b>> /\ e = <<a, b>>
  OBVIOUS
<1>2. /\ c \in Seq(T) /\ Len(c) = 1 /\ c[1] = a
      /\ d \in Seq(T) /\ Len(d) = 1 /\ d[1] = b
  BY <1>1
<1>3. e \in Seq(T) /\ Len(e) = 2 /\ e[1] = a /\ e[2] = b
  BY <1>1
<1>4. PICK f : f = c \o d
  OBVIOUS
<1>5. f \in Seq(T) /\ Len(f) = 2 /\ f[1] = a /\ f[2] = b
  <2>1. /\ f \in Seq(T) /\ Len(f) = Len(c) + Len(d)
        /\ \A i \in 1 .. Len(c) + Len(d) :
             f[i] = IF i <= Len(c) THEN c[i] ELSE d[i - Len(c)]
    BY <1>2, <1>4, ConcatProperties
  <2> QED
    BY <1>2, <2>1
<1>6. \A j \in 1 .. Len(e) : e[j] = f[j]
  BY <1>3, <1>5
<1>7. e = f
  BY <1>3, <1>5, <1>6, SeqEqual
<1> QED
  BY <1>1, <1>4, <1>7

LEMMA HandlersNamed ==
  ASSUME NEW list \in Seq(SoundStatement), NEW i \in DOMAIN list
  PROVE  HandlersBefore(list, i) \subseteq HandlerName
<1>1. \A j \in 1 .. i - 1 : j \in DOMAIN list
  OBVIOUS
<1>2. \A j \in DOMAIN list : list[j] \in SoundStatement
  OBVIOUS
<1> QED
  BY <1>1, <1>2 DEF HandlersBefore, SoundStatement

LEMMA SlogEdits ==
  ASSUME NEW list \in Seq(SoundStatement)
  PROVE  Edits(list, SlogEdit(list))
<1> DEFINE ss == [i \in DOMAIN list |->
                    IF SlogMiddlewareCall(list[i])
                    THEN <<list[i], SlogHandlerWrapper(list[i].lhs[1], NRName[list[i].lhs[1]])>>
                    ELSE IF Renames(list[i])
                    THEN <<Rename(list[i], HandlersBefore(list, i))>>
                    ELSE <<list[i]>>]
<1>1. ASSUME NEW i \in DOMAIN list PROVE Edits(<<list[i]>>, ss[i])
  <2>1. list[i] \in SoundStatement
    OBVIOUS
  <2>2. CASE SlogMiddlewareCall(list[i])
    <3>1. PICK w : w = SlogHandlerWrapper(list[i].lhs[1], NRName[list[i].lhs[1]])
      OBVIOUS
    <3>2. list[i].lhs[1] \in STRING /\ NRName[list[i].lhs[1]] \in STRING
      <4>1. list[i].lhs[1] \in HandlerName
        BY <2>1, <2>2 DEF SoundStatement
      <4>2. list[i].lhs[1] \in STRING
        BY <2>1, <2>2, SoundParts DEF SlogMiddlewareCall
      <4> QED
        BY <4>1, <4>2, HandlerAssumption
    <3>3. w \in Generated
      BY <3>1, <3>2, LogStatements
    <3>4. w \in SoundStatement
      BY <3>3 DEF Generated
    <3>5. <<list[i], w>> = <<list[i]>> \o <<w>>
      BY <2>1, <3>4, Pair
    <3>6. <<list[i]>> \in Seq(SoundStatement)
      BY <2>1
    <3>7. Edits(<<list[i]>>, <<list[i]>> \o <<w>>)
      BY <3>3, <3>6, OneGenerated, AppendEdits
    <3> QED
      BY <2>2, <3>1, <3>5, <3>7
  <2>3. CASE ~SlogMiddlewareCall(list[i]) /\ Renames(list[i])
    <3>1. /\ Rename(list[i], HandlersBefore(list, i)) \in SoundStatement
          /\ Alike(Rename(list[i], HandlersBefore(list, i)), list[i])
      BY <2>1, HandlersNamed, Renamed
    <3> QED
      BY <2>3, <3>1, Becomes
  <2>4. CASE ~SlogMiddlewareCall(list[i]) /\ ~Renames(list[i])
    <3>1. <<list[i]>> \in Seq(SoundStatement)
      BY <2>1
    <3> QED
      BY <2>4, <3>1, EditsSelf
  <2> QED
    BY <2>2, <2>3, <2>4
<1>2. SlogEdit(list) = FlattenSeq(ss)
  BY DEF SlogEdit
<1>3. ss = [i \in DOMAIN list |-> ss[i]]
  OBVIOUS
<1> HIDE DEF ss
<1> QED
  BY <1>1, <1>2, <1>3, FlattenEdits

LEMMA LogrusEdits ==
  ASSUME NEW text, NEW list \in Seq(SoundStatement), NEW agent \in STRING
  PROVE  Edits(list, LogrusEdit(text, list, agent))
<1> DEFINE Before(i) ==
             IF InjectPackage(text, list) /\ i = PackageAnchor(text, list)
             THEN <<DefaultSetFormatterStmt(PackageSetFormatter, agent)>> ELSE << >>
           Here1(i) == IF WrapsFormatter(list, i) THEN WrapWithNewFormatter(list[i], agent)
                                                  ELSE list[i]
           After(i) ==
             IF NeedsDefault(list, i)
             THEN <<DefaultSetFormatterStmt(
                      LoggerSetFormatter(LogrusNewVarName(list[i])), agent)>>
             ELSE << >>
           ss == [i \in DOMAIN list |-> (Before(i) \o <<Here1(i)>>) \o After(i)]
<1>1. ASSUME NEW i \in DOMAIN list PROVE Edits(<<list[i]>>, ss[i])
  <2>1. list[i] \in SoundStatement
    OBVIOUS
  <2>2. Before(i) \in Seq(Generated)
    BY LogStatements, OneGenerated, NoneSpelled
  <2>3. Here1(i) \in SoundStatement /\ Alike(Here1(i), list[i])
    <3>1. Alike(list[i], list[i])
      BY DEF Alike
    <3> QED
      BY <2>1, <3>1, HandedAgent
  <2>4. After(i) \in Seq(Generated)
    <3>1. CASE NeedsDefault(list, i)
      <4>1. LogrusNewVarName(list[i]) # None
        BY <3>1 DEF NeedsDefault
      <4>2. LogrusNewVarName(list[i]) = list[i].lhs[1] /\ Len(list[i].lhs) = 1
        BY <4>1 DEF LogrusNewVarName, NameAndValue
      <4>3. LogrusNewVarName(list[i]) \in STRING
        BY <2>1, <4>2, SoundParts
      <4>4. DefaultSetFormatterStmt(LoggerSetFormatter(LogrusNewVarName(list[i])), agent)
              \in Generated
        BY <4>3, LogStatements
      <4> QED
        BY <3>1, <4>4, OneGenerated
    <3>2. CASE ~NeedsDefault(list, i)
      BY <3>2
    <3> QED
      BY <3>1, <3>2
  <2>5. ss[i] = (Before(i) \o <<Here1(i)>>) \o After(i)
    OBVIOUS
  <2> HIDE DEF Before, Here1, After, ss
  <2>6. <<list[i]>> \in Seq(SoundStatement) /\ <<Here1(i)>> \in Seq(SoundStatement)
    BY <2>1, <2>3
  <2>7. Edits(<<list[i]>>, <<Here1(i)>>)
    BY <2>3, Becomes
  <2>8. Edits(<<Here1(i)>>, Before(i) \o <<Here1(i)>>)
    BY <2>2, <2>6, AppendEdits
  <2>9. Edits(Before(i) \o <<Here1(i)>>, (Before(i) \o <<Here1(i)>>) \o After(i))
    <3>1. Before(i) \o <<Here1(i)>> \in Seq(SoundStatement)
      BY <2>8 DEF Edits
    <3> QED
      BY <2>4, <3>1, AppendEdits
  <2>10. Edits(<<list[i]>>, Before(i) \o <<Here1(i)>>)
    BY <2>6, <2>7, <2>8, EditsTrans
  <2> QED
    BY <2>5, <2>6, <2>9, <2>10, EditsTrans
<1>2. LogrusEdit(text, list, agent) = FlattenSeq(ss)
  BY DEF LogrusEdit
<1>3. ss = [i \in DOMAIN list |-> ss[i]]
  OBVIOUS
<1> HIDE DEF ss
<1> QED
  BY <1>1, <1>2, <1>3, FlattenEdits

LEMMA FirstFound ==
  ASSUME NEW I, I \subseteq Nat \ {0}, NEW list, FirstIndex(list, I) # 0
  PROVE  FirstIndex(list, I) \in I
<1>1. I # {}
  BY DEF FirstIndex
<1>2. \E i \in I : \A j \in I : i <= j
  BY <1>1, HasLeast
<1> QED
  BY <1>1, <1>2 DEF FirstIndex

(* The replaced connection stands for the user's.                          *)
LEMMA ConnectionReplaced ==
  ASSUME NEW s \in SoundStatement, DetectPgxCallPattern(s)
  PROVE  Edits(<<s>>, BuildPgxReplacement(s))
<1> DEFINE pkg == IF s.fun = "pgx.Connect" THEN "pgx" ELSE "pgxpool"
           config == CreateParseConfig(s.args[2], pkg)
           connect == CreateConnectWithConfig(s.lhs[1], s.args[1], pkg)
           last == [connect EXCEPT !.id = s.id, !.inner = s.inner]
           m == [j \in 1 .. 1 |-> 3]
<1>1. /\ s.lhs[1] \in STRING /\ s.args[1] \in STRING /\ s.args[2] \in STRING
      /\ s.id \in Nat /\ s.inner \in Block \cup {NoBlock}
  BY SoundParts DEF DetectPgxCallPattern
<1>2. "err" \in STRING
  BY SpelledAssumption DEF Spelled
<1>3. {"pgx.ParseConfig", "pgxpool.ParseConfig", "pgx.ConnectConfig",
       "pgxpool.NewWithConfig", "nrpgx5.NewTracer"} \subseteq Spelled
  BY DEF Spelled
<1>4. config \in Generated
  <2>1. PICK f \in Spelled : f = IF pkg = "pgx" THEN "pgx.ParseConfig" ELSE "pgxpool.ParseConfig"
    BY <1>3
  <2>2. Define(<<ConfigVar, "err">>, Call(f, <<s.args[2]>>)) \in Generated
    BY <1>1, <1>2, NamesSpelled, NameLists, SpelledDefines
  <2> QED
    BY <2>1, <2>2 DEF CreateParseConfig
<1>5. CreateTracerAssignment \in Generated
  BY <1>3, NamesSpelled, NameLists, SpelledDefines DEF CreateTracerAssignment, NewTracerCall
<1>6. PICK f \in {"pgx.ConnectConfig", "pgxpool.NewWithConfig"} :
        f = IF pkg = "pgx" THEN "pgx.ConnectConfig" ELSE "pgxpool.NewWithConfig"
  OBVIOUS
<1>7. connect \in Generated
  <2>1. Define(<<s.lhs[1], "err">>, Call(f, <<s.args[1], ConfigVar>>)) \in Generated
    BY <1>1, <1>2, <1>3, NamesSpelled, NameLists, SpelledDefines
  <2> QED
    BY <1>6, <2>1 DEF CreateConnectWithConfig
<1>8. connect.fun = f /\ connect.lhs = <<s.lhs[1], "err">> /\ connect.form = "assign"
  <2>1. PICK c : c = Call(f, <<s.args[1], ConfigVar>>)
    OBVIOUS
  <2>2. c \in Statement /\ c.fun = f
    <3>1. c \in Generated /\ c.fun = f
      <4>1. f \in Spelled
        BY <1>3
      <4> QED
        BY <1>1, <2>1, <4>1, PlainFuns, NamesSpelled, NameLists, NoneSpelled, CallsGenerated
    <3> QED
      BY <3>1 DEF Generated, SoundStatement
  <2>3. connect = Define(<<s.lhs[1], "err">>, c)
    BY <1>6, <2>1 DEF CreateConnectWithConfig
  <2> HIDE DEF connect
  <2> QED
    BY <2>2, <2>3 DEF Define, Statement
<1> HIDE DEF config, connect, pkg
<1>9. /\ last \in Statement /\ last.id = s.id /\ last.inner = s.inner
      /\ last.fun = f /\ last.lhs = <<s.lhs[1], "err">> /\ last.form = "assign"
  <2>1. connect \in Statement
    BY <1>7 DEF Generated, SoundStatement
  <2> QED
    BY <1>1, <1>8, <2>1 DEF Statement
<1>10. BuildPgxReplacement(s) = <<config, CreateTracerAssignment, last>>
  BY DEF BuildPgxReplacement, config, connect, pkg
<1> HIDE DEF last
<1>11. last \in SoundStatement /\ Alike(last, s)
  <2>1. f \notin LookedAt
    BY DEF LookedAt
  <2>2. GetNetHttpMethod(last) # "Do" /\ ~SlogMiddlewareCall(last)
    BY <1>9, <2>1 DEF GetNetHttpMethod, SlogMiddlewareCall, LookedAt, None
  <2>3. last.lhs # << >>
    BY <1>9
  <2>4. ConnectsWithConfig(last)
    BY <1>9 DEF ConnectsWithConfig
  <2> QED
    BY <1>9, <2>2, <2>3, <2>4 DEF SoundStatement, Alike
<1>12. PICK new : new = BuildPgxReplacement(s)
  OBVIOUS
<1>13. PICK x, y : x = config /\ y = CreateTracerAssignment
  OBVIOUS
<1>14. new = <<x, y, last>> /\ x \in Generated /\ y \in Generated
  BY <1>4, <1>5, <1>10, <1>12, <1>13
<1>15. x \in SoundStatement /\ y \in SoundStatement
  BY <1>14 DEF Generated
<1>16. /\ new \in Seq(SoundStatement) /\ DOMAIN new = 1 .. 3
       /\ new[1] = x /\ new[2] = y /\ new[3] = last
  BY <1>11, <1>14, <1>15
<1>17. Embeds(m, 1, <<s>>, new)
  <2>1. m \in [1 .. 1 -> DOMAIN new] /\ m[1] = 3
    BY <1>16
  <2>2. <<s>>[1] = s
    OBVIOUS
  <2>3. \A j \in 1 .. 1 : j = 1
    OBVIOUS
  <2>4. \A k \in DOMAIN new : k = 1 \/ k = 2 \/ k = 3
    BY <1>16
  <2> HIDE DEF m
  <2> QED
    BY <1>11, <1>14, <1>16, <2>1, <2>2, <2>3, <2>4 DEF Embeds
<1> HIDE DEF m
<1> QED
  <2>1. Len(<<s>>) = 1
    OBVIOUS
  <2> QED
    BY <1>12, <1>16, <1>17, <2>1 DEF Edits

LEMMA PgxEdits ==
  ASSUME NEW list \in Seq(SoundStatement)
  PROVE  Edits(list, PgxEdit(list))
<1>1. PICK i : i = PgxConnects(list)
  OBVIOUS
<1>2. CASE i = 0
  BY <1>1, <1>2, EditsSelf DEF PgxEdit
<1>3. CASE i # 0
  <2>1. i \in 1 .. Len(list) /\ DetectPgxCallPattern(list[i])
    <3> DEFINE I == {j \in DOMAIN list : DetectPgxCallPattern(list[j])}
    <3>1. I \subseteq Nat \ {0}
      OBVIOUS
    <3>2. i = FirstIndex(list, I)
      BY <1>1, <1>3 DEF PgxConnects
    <3>3. i \in I
      BY <1>3, <3>1, <3>2, FirstFound
    <3> QED
      BY <3>3
  <2>2. PICK S, n : S = SoundStatement /\ n = Len(list)
    OBVIOUS
  <2>3. /\ list \in Seq(S) /\ n \in Nat /\ i \in Nat /\ 1 \in Nat /\ 1 <= 1
        /\ 1 <= i + 1 /\ i <= n /\ n <= Len(list)
    BY <2>1, <2>2
  <2> DEFINE a == SubSeq(list, 1, i - 1)
             b == SubSeq(list, i + 1, n)
             r == BuildPgxReplacement(list[i])
  <2>4. b \in Seq(S) /\ SubSeq(list, 1, n) = SubSeq(list, 1, i) \o b
    BY <2>3, SplitAt
  <2>5. a \in Seq(S) /\ SubSeq(list, 1, i) = a \o <<list[i]>>
    BY <2>1, <2>3, SplitLast
  <2>6. SubSeq(list, 1, n) = list
    BY <2>2
  <2>7. PgxEdit(list) = (a \o r) \o b
    BY <1>1, <1>3, <2>2 DEF PgxEdit
  <2>8. list[i] \in SoundStatement /\ <<list[i]>> \in Seq(SoundStatement)
    BY <2>1
  <2>9. Edits(<<list[i]>>, r)
    BY <2>1, <2>8, ConnectionReplaced
  <2> HIDE DEF a, b, r
  <2>10. Edits(a \o <<list[i]>>, a \o r)
    BY <2>2, <2>5, <2>8, <2>9, EditsSelf, EditsJoin
  <2>11. a \o <<list[i]>> \in Seq(SoundStatement)
    BY <2>2, <2>5, <2>8, ConcatProperties
  <2>12. Edits((a \o <<list[i]>>) \o b, (a \o r) \o b)
    BY <2>2, <2>4, <2>10, <2>11, EditsSelf, EditsJoin
  <2> QED
    BY <2>4, <2>5, <2>6, <2>7, <2>12
<1> QED
  BY <1>2, <1>3

LEMMA LastUsed ==
  ASSUME NEW text, NEW list \in Seq(SoundStatement), NEW name,
         NEW from \in 1 .. Len(list)
  PROVE  FindLastUsageOfExecutionResult(text, list, name, from) \in from .. Len(list)
<1> DEFINE U == {i \in from + 1 .. Len(list) : name \in MentionedIn(text, list[i])}
<1>1. Len(list) \in Nat /\ from \in from .. Len(list)
  OBVIOUS
<1>2. CASE name = None \/ U = {}
  BY <1>1, <1>2 DEF FindLastUsageOfExecutionResult
<1>3. CASE ~(name = None \/ U = {})
  <2>1. U \subseteq 1 .. Len(list) /\ U # {} /\ U \subseteq from .. Len(list)
    BY <1>3
  <2>2. \E i \in U : \A j \in U : j <= i
    <3> HIDE DEF U
    <3> QED
      BY <1>1, <2>1, HasGreatest
  <2>3. FindLastUsageOfExecutionResult(text, list, name, from)
          = CHOOSE i \in U : \A j \in U : j <= i
    BY <1>3 DEF FindLastUsageOfExecutionResult
  <2> HIDE DEF U
  <2> QED
    BY <2>1, <2>2, <2>3
<1> QED
  BY <1>2, <1>3

LEMMA QueryWrapped ==
  ASSUME NEW text, NEW list \in Seq(SoundStatement), NEW agent \in STRING,
         NEW open \in DOMAIN list
  PROVE  Edits(list, WrapQueryWithTransaction(text, list, open, agent))
<1> DEFINE db == list[open].lhs[1]
<1>1. PICK exec : exec = FindSQLExecutionStatement(list, db, open + 1)
  OBVIOUS
<1>2. CASE exec = 0
  BY <1>1, <1>2, EditsSelf DEF WrapQueryWithTransaction
<1>3. CASE exec # 0
  <2>1. exec \in 1 .. Len(list) /\ DetectSQLExecutionCall(list[exec], db)
    <3> DEFINE I == {i \in open + 1 .. Len(list) : DetectSQLExecutionCall(list[i], db)}
    <3>1. I \subseteq Nat \ {0} /\ I \subseteq 1 .. Len(list)
      OBVIOUS
    <3>2. exec = FirstIndex(list, I)
      BY <1>1 DEF FindSQLExecutionStatement
    <3>3. exec \in I
      BY <1>3, <3>1, <3>2, FirstFound
    <3> QED
      BY <3>1, <3>3
  <2>2. PICK result : result = IF list[exec].lhs[1] = "_" THEN None ELSE list[exec].lhs[1]
    OBVIOUS
  <2>3. PICK last : last = FindLastUsageOfExecutionResult(text, list, result, exec)
    OBVIOUS
  <2>4. last \in exec .. Len(list)
    BY <2>1, <2>3, LastUsed
  <2>5. PICK traced : traced = ReplaceAt(list, exec, ReplaceSQLMethodWithContext(
                                           list[exec], DefaultContextParameter))
    OBVIOUS
  <2>6. list[exec] \in SoundStatement /\ list[exec].fun \in DOMAIN ContextMethodName
    BY <2>1 DEF DetectSQLExecutionCall
  <2>7. Edits(list, traced)
    <3>1. DefaultContextParameter \in STRING
      BY NamesSpelled
    <3>2. /\ ReplaceSQLMethodWithContext(list[exec], DefaultContextParameter) \in SoundStatement
          /\ Alike(ReplaceSQLMethodWithContext(list[exec], DefaultContextParameter), list[exec])
      BY <2>6, <3>1, WithContext
    <3>3. exec \in DOMAIN list
      BY <2>1
    <3> QED
      BY <2>5, <3>2, <3>3, ReplaceEdits
  <2>8. PICK S, n, e : S = SoundStatement /\ n = Len(list) /\ e = exec - 1
    OBVIOUS
  <2>9. traced \in Seq(S) /\ Len(traced) = n
    <3>1. traced \in Seq(S)
      BY <2>7, <2>8 DEF Edits
    <3>2. DOMAIN traced = DOMAIN list
      BY <2>5 DEF ReplaceAt
    <3> QED
      BY <2>8, <3>1, <3>2
  <2>10. /\ e \in Nat /\ n \in Nat /\ last \in Nat /\ exec \in Nat /\ 1 \in Nat /\ 1 <= 1
         /\ 1 <= e + 1 /\ e <= last /\ e + 1 = exec /\ last <= Len(traced)
         /\ 1 <= last + 1 /\ last <= n /\ n <= Len(traced)
    BY <2>1, <2>4, <2>8, <2>9
  <2> DEFINE a == SubSeq(traced, 1, e)
             b == SubSeq(traced, exec, last)
             c == SubSeq(traced, last + 1, n)
             x == SqlTransaction(agent)
             y == <<EndTransaction(DefaultTransactionVariable)>>
  <2>11. a \in Seq(S) /\ b \in Seq(S) /\ SubSeq(traced, 1, last) = a \o b
    BY <2>9, <2>10, SplitAt
  <2>12. c \in Seq(S) /\ SubSeq(traced, 1, n) = SubSeq(traced, 1, last) \o c
    BY <2>9, <2>10, SplitAt
  <2>13. SubSeq(traced, 1, n) = traced
    BY <2>9
  <2>14. x \in Seq(Generated) /\ y \in Seq(Generated)
    <3>1. PICK f, g : /\ f = StartTransaction(agent, DefaultTransactionVariable, FALSE)
                      /\ g = CreateContextWithTransaction(DefaultTransactionVariable)
      OBVIOUS
    <3>2. FALSE \in BOOLEAN
      BY Zenon
    <3>3. PICK context : context.recv \in STRING /\ context.fun \in STRING
      BY NoneSpelled, BlankTyped DEF Statement
    <3>4. f \in Generated /\ g \in Generated
      BY <3>1, <3>2, <3>3, NamesSpelled, TransactionStatements
    <3>5. EndTransaction(DefaultTransactionVariable) \in Generated
      BY <3>2, <3>3, NamesSpelled, TransactionStatements
    <3>6. x = <<f, g>>
      BY <3>1 DEF SqlTransaction
    <3> HIDE DEF x
    <3> QED
      BY <3>4, <3>5, <3>6, ShortLists, OneGenerated
  <2>15. WrapQueryWithTransaction(text, list, open, agent) = (((a \o x) \o b) \o y) \o c
    BY <1>1, <1>3, <2>2, <2>3, <2>5, <2>8 DEF WrapQueryWithTransaction
  <2> HIDE DEF a, b, c, x, y
  <2>16. Edits(a \o b, (a \o x) \o b)
    BY <2>8, <2>11, <2>14, AppendEdits, EditsSelf, EditsJoin
  <2>17. a \o b \in Seq(SoundStatement)
    BY <2>8, <2>11, ConcatProperties
  <2>18. Edits(a \o b, ((a \o x) \o b) \o y)
    <3>1. (a \o x) \o b \in Seq(SoundStatement)
      BY <2>16 DEF Edits
    <3>2. Edits((a \o x) \o b, ((a \o x) \o b) \o y)
      BY <2>14, <3>1, AppendEdits
    <3> QED
      BY <2>16, <2>17, <3>2, EditsTrans
  <2>19. Edits((a \o b) \o c, (((a \o x) \o b) \o y) \o c)
    BY <2>8, <2>12, <2>17, <2>18, EditsSelf, EditsJoin
  <2>20. Edits(traced, WrapQueryWithTransaction(text, list, open, agent))
    BY <2>11, <2>12, <2>13, <2>15, <2>19
  <2> QED
    BY <2>7, <2>20, EditsTrans
<1> QED
  BY <1>2, <1>3

LEMMA PQEdits ==
  ASSUME NEW text, NEW b, text[b] \in Seq(SoundStatement), NEW isMain,
         NEW agent \in STRING
  PROVE  Edits(text[b], PQEdit(text, b, isMain, agent))
<1>1. PICK list, open : list = text[b] /\ open = ScanForPostgresOpen(list)
  OBVIOUS
<1>2. list \in Seq(SoundStatement)
  BY <1>1
<1>3. CASE open = 0
  BY <1>1, <1>2, <1>3, EditsSelf DEF PQEdit
<1>4. CASE open # 0
  <2>1. open \in DOMAIN list
    <3> DEFINE I == {i \in DOMAIN list : /\ DetectSQLOpen(list[i])
                                         /\ list[i].lit \in {"postgres", "nrpq"}}
    <3>1. I \subseteq Nat \ {0}
      BY <1>2
    <3>2. open = FirstIndex(list, I)
      BY <1>1 DEF ScanForPostgresOpen
    <3>3. open \in I
      BY <1>4, <3>1, <3>2, FirstFound
    <3> QED
      BY <3>3
  <2>2. PICK swap : swap = ReplaceAt(list, open, [list[open] EXCEPT !.lit = "nrpq"])
    OBVIOUS
  <2>3. Edits(list, swap)
    <3>1. list[open] \in SoundStatement
      BY <1>2, <2>1
    <3>2. PICK t : t = [list[open] EXCEPT !.lit = "nrpq"]
      OBVIOUS
    <3>3. t \in SoundStatement /\ Alike(t, list[open])
      BY <3>1, <3>2, OtherDriver
    <3> QED
      BY <1>2, <2>1, <2>2, <3>2, <3>3, ReplaceEdits
  <2>4. swap \in Seq(SoundStatement) /\ DOMAIN swap = DOMAIN list
    BY <2>2, <2>3 DEF Edits, ReplaceAt
  <2>5. Edits(swap, WrapQueryWithTransaction(text, swap, open, agent))
    BY <2>1, <2>4, QueryWrapped
  <2>6. Edits(list, WrapQueryWithTransaction(text, swap, open, agent))
    BY <1>2, <2>3, <2>5, EditsTrans
  <2>7. \/ PQEdit(text, b, isMain, agent) = list
        \/ PQEdit(text, b, isMain, agent) = swap
        \/ PQEdit(text, b, isMain, agent) = WrapQueryWithTransaction(text, swap, open, agent)
    BY <1>1, <1>4, <2>2 DEF PQEdit
  <2> QED
    BY <1>1, <1>2, <2>3, <2>6, <2>7, EditsSelf
<1> QED
  BY <1>3, <1>4

-----------------------------------------------------------------------------
(* The inductive invariant: beside the types, what is kept of every block, *)
(* and that the nodes still to be visited or walked are statements of the  *)
(* user, which no edit loses.                                              *)

WalkNodes(text) == {n \in NodesIn(text) : n.kind = "stmt"}

GoodText(p, text) ==
  /\ text \in [Block -> Seq(SoundStatement)]
  /\ \A b \in Block : Kept(text[b], p.body[b])

IInv ==
  /\ TypeOK
  /\ GoodText(prog, body)
  /\ visit \in Seq(NodesIn(prog.body))
  /\ walk \in Seq(WalkNodes(prog.body))
  /\ tracing # "none" => visit # << >>

LEMMA ProgFacts ==
  ASSUME NEW p \in Progs
  PROVE  /\ p.body \in [Block -> Seq(SoundStatement)]
         /\ \A b \in Block : \A i \in DOMAIN p.body[b] : p.body[b][i].id # 0
         /\ \E height : Nests(p.body, height)
         /\ p.agent \in STRING
         /\ \A b \in Block : p.params[b] \in Seq(Param)
<1>1. p \in ProgType /\ WellFormed(p)
  BY ProgsAssumption
<1>2. /\ \A b \in Block : p.body[b] \in Seq(Statement)
      /\ p.body = [b \in Block |-> p.body[b]]
      /\ p.agent \in STRING
      /\ \A b \in Block : p.params[b] \in Seq(Param)
  BY <1>1 DEF ProgType
<1>3. \A b \in Block : \A i \in DOMAIN p.body[b] :
        p.body[b][i] \in SoundStatement /\ p.body[b][i].id # 0
  BY <1>1 DEF WellFormed
<1>4. ASSUME NEW b \in Block PROVE p.body[b] \in Seq(SoundStatement)
  <2>1. PICK list, S : list = p.body[b] /\ S = Statement
    OBVIOUS
  <2>2. list \in Seq(S) /\ \A i \in DOMAIN list : list[i] \in SoundStatement
    BY <1>2, <1>3, <2>1
  <2>3. /\ list = [i \in 1 .. Len(list) |-> list[i]]
        /\ Len(list) \in Nat /\ DOMAIN list = 1 .. Len(list)
    BY <2>2
  <2>4. list \in [1 .. Len(list) -> SoundStatement]
    BY <2>2, <2>3
  <2> QED
    BY <2>1, <2>3, <2>4
<1>5. p.body \in [Block -> Seq(SoundStatement)]
  BY <1>2, <1>4
<1>6. PICK height \in [Block -> 0 .. Cardinality(Block)] :
        \A b \in Block : \A i \in DOMAIN p.body[b] :
          p.body[b][i].inner # NoBlock => height[p.body[b][i].inner] < height[b]
  BY <1>1, Zenon DEF WellFormed
<1>7. Nests(p.body, height)
  BY <1>6 DEF Nests
<1> QED
  BY <1>2, <1>3, <1>5, <1>7

LEMMA TextEdited ==
  ASSUME NEW p \in Progs, NEW text, GoodText(p, text),
         NEW new, new = [b \in Block |-> new[b]],
         \A b \in Block : Edits(text[b], new[b])
  PROVE  GoodText(p, new)
<1>1. ASSUME NEW b \in Block
      PROVE  new[b] \in Seq(SoundStatement) /\ Kept(new[b], p.body[b])
  <2>1. /\ text[b] \in Seq(SoundStatement) /\ Kept(text[b], p.body[b])
        /\ \A i \in DOMAIN p.body[b] : p.body[b][i].id # 0
    BY ProgFacts DEF GoodText
  <2>2. new[b] \in Seq(SoundStatement)
    BY DEF Edits
  <2>3. Edits(text[b], new[b])
    OBVIOUS
  <2> QED
    BY <2>1, <2>2, <2>3, EditsKeep
<1>2. new \in [Block -> Seq(SoundStatement)]
  BY <1>1
<1> QED
  BY <1>1, <1>2 DEF GoodText

LEMMA BlockEdited ==
  ASSUME NEW p \in Progs, NEW text, GoodText(p, text), NEW b \in Block,
         NEW list, Edits(text[b], list)
  PROVE  GoodText(p, [text EXCEPT ![b] = list])
<1> DEFINE new == [text EXCEPT ![b] = list]
<1>1. DOMAIN text = Block /\ \A c \in Block : text[c] \in Seq(SoundStatement)
  BY DEF GoodText
<1>2. new = [c \in Block |-> new[c]] /\ \A c \in Block : new[c] = IF c = b THEN list ELSE text[c]
  BY <1>1
<1> HIDE DEF new
<1>3. \A c \in Block : Edits(text[c], new[c])
  BY <1>1, <1>2, EditsSelf
<1>4. GoodText(p, new)
  BY <1>2, <1>3, TextEdited
<1> QED
  BY <1>4 DEF new

LEMMA TextNests ==
  ASSUME NEW p \in Progs, NEW text, GoodText(p, text)
  PROVE  \E height : Nests(text, height)
<1>1. PICK height : Nests(p.body, height)
  BY ProgFacts
<1>2. ASSUME NEW b \in Block, NEW j \in DOMAIN text[b], text[b][j].inner # NoBlock
      PROVE  height[text[b][j].inner] < height[b]
  <2>1. text[b][j].id # 0
    BY <1>2 DEF GoodText, Kept
  <2>2. PICK i \in DOMAIN p.body[b] : SameStatement(text[b][j], p.body[b][i])
    BY <2>1 DEF GoodText, Kept, Keeps
  <2> QED
    BY <1>1, <1>2, <2>2 DEF SameStatement, Nests
<1> QED
  BY <1>1, <1>2 DEF Nests

(* The statements of the user are found where they were.                   *)
LEMMA KeptIds ==
  ASSUME NEW p \in Progs, NEW text, GoodText(p, text), NEW b \in Block, NEW id, id # 0
  PROVE  HasId(text[b], id) <=> HasId(p.body[b], id)
<1>1. ASSUME HasId(text[b], id) PROVE HasId(p.body[b], id)
  BY <1>1 DEF GoodText, Kept, Keeps, HasId, SameStatement
<1>2. ASSUME HasId(p.body[b], id) PROVE HasId(text[b], id)
  BY <1>2 DEF GoodText, Kept, Keeps, HasId, SameStatement
<1> QED
  BY <1>1, <1>2

LEMMA WalkTyped ==
  ASSUME NEW p \in Progs, NEW text, GoodText(p, text)
  PROVE  PreOrder(text) \in Seq(WalkNodes(p.body))
<1>1. PICK height : Nests(text, height)
  BY TextNests
<1>2. PreOrder(text) \in Seq({n \in NodesIn(text) : n.kind = "stmt"})
  BY <1>1, PreOrderTyped DEF GoodText
<1>3. {n \in NodesIn(text) : n.kind = "stmt"} \subseteq WalkNodes(p.body)
  <2> SUFFICES ASSUME NEW n \in NodesIn(text), n.kind = "stmt"
               PROVE  n \in NodesIn(p.body)
    BY DEF WalkNodes
  <2>1. n \in NodeType /\ n.id # 0 /\ HasId(text[n.blk], n.id)
    BY DEF NodesIn
  <2>2. HasId(p.body[n.blk], n.id)
    BY <2>1, KeptIds DEF NodeType
  <2> QED
    BY <2>1, <2>2 DEF NodesIn
<1> QED
  BY <1>2, <1>3

(* A node of the walk, or a statement among the nodes visited.             *)
LEMMA StatementFound ==
  ASSUME NEW p \in Progs, NEW text, GoodText(p, text),
         NEW n \in NodesIn(p.body), n.kind = "stmt"
  PROVE  /\ n.blk \in Block /\ text[n.blk] \in Seq(SoundStatement)
         /\ HasId(text[n.blk], n.id)
         /\ text[n.blk][IndexOfId(text[n.blk], n.id)] \in SoundStatement
         /\ text[n.blk][IndexOfId(text[n.blk], n.id)].id = n.id
<1>1. n.blk \in Block /\ n.id # 0 /\ HasId(p.body[n.blk], n.id)
  BY DEF NodesIn, NodeType
<1>2. text[n.blk] \in Seq(SoundStatement) /\ HasId(text[n.blk], n.id)
  BY <1>1, KeptIds DEF GoodText
<1> QED
  BY <1>1, <1>2, IndexFound

-----------------------------------------------------------------------------
(* Initially.                                                              *)

LEMMA IdleTyped == Idle \in StateType
BY NoneSpelled, Zenon DEF Idle, StateType

LEMMA StatesTyped ==
  ASSUME NEW st \in StateType, NEW agent \in STRING, NEW owner \in STRING,
         NEW object \in {"txn", "ctx"}
  PROVE  /\ Main(agent) \in StateType
         /\ FunctionBody(object, owner) \in StateType
         /\ TxnUsed(st) \in StateType
         /\ AgentFromTxn(st) \in StateType
         /\ st.agent \in STRING /\ st.owner \in STRING
<1>1. Main(agent) \in StateType
  BY IdleTyped, Zenon DEF Main, StateType
<1>2. FunctionBody(object, owner) \in StateType
  BY IdleTyped, Zenon DEF FunctionBody, StateType
<1>4. TxnUsed(st) \in StateType
  BY Zenon DEF TxnUsed, StateType
<1>5. AgentFromTxn(st) \in StateType
  BY <1>4, Zenon DEF AgentFromTxn, TxnUsed
<1>6. st.agent \in STRING /\ st.owner \in STRING
  BY Zenon DEF StateType
<1> QED
  BY <1>1, <1>2, <1>4, <1>5, <1>6, Zenon

LEMMA GoodSelf ==
  ASSUME NEW p \in Progs
  PROVE  GoodText(p, p.body)
<1>1. WellFormed(p) /\ p.body \in [Block -> Seq(SoundStatement)]
  BY ProgFacts, ProgsAssumption
<1>2. ASSUME NEW b \in Block PROVE Kept(p.body[b], p.body[b])
  <2>1. PICK old : old = p.body[b]
    OBVIOUS
  <2>2. \A i \in DOMAIN old : /\ old[i].id # 0
                              /\ \A j \in DOMAIN old : old[j].id = old[i].id => j = i
    BY <1>1, <2>1 DEF WellFormed
  <2>3. \A i \in DOMAIN old : SameStatement(old[i], old[i])
    BY DEF SameStatement
  <2>4. ASSUME NEW j \in DOMAIN old, NEW k \in DOMAIN old,
               NEW h \in DOMAIN old, NEW i \in DOMAIN old,
               old[j].id = old[h].id, old[k].id = old[i].id, j < k
        PROVE  h < i
    <3>1. j = h /\ k = i
      BY <2>2, <2>4
    <3> QED
      BY <2>4, <3>1
  <2>5. Keeps(old, old)
    BY <2>3, <2>4 DEF Keeps
  <2> QED
    BY <2>1, <2>2, <2>5 DEF Kept
<1> QED
  BY <1>1, <1>2 DEF GoodText

LEMMA NodesTyped ==
  ASSUME NEW text
  PROVE  /\ Seq(NodesIn(text)) \subseteq Seq(NodeType)
         /\ Seq(WalkNodes(text)) \subseteq Seq(NodeType)
<1>1. NodesIn(text) \subseteq NodeType /\ WalkNodes(text) \subseteq NodeType
  BY DEF NodesIn, WalkNodes
<1>2. PICK N, W : N = NodesIn(text) /\ W = WalkNodes(text)
  OBVIOUS
<1>3. Seq(N) \subseteq Seq(NodeType) /\ Seq(W) \subseteq Seq(NodeType)
  BY <1>1, <1>2
<1> QED
  BY <1>2, <1>3

LEMMA InitInv ==
  ASSUME Init
  PROVE  IInv
<1>1. prog \in Progs /\ body = prog.body
  BY DEF Init
<1>2. GoodText(prog, body) /\ body \in [Block -> Seq(SoundStatement)]
  BY <1>1, GoodSelf, ProgFacts
<1>3. visit \in Seq(NodesIn(prog.body))
  <2>1. PICK p : p = prog
    OBVIOUS
  <2>2. PICK height : Nests(p.body, height)
    BY <1>1, <2>1, ProgFacts
  <2>3. PostOrder(p) \in Seq(NodesIn(p.body))
    BY <1>1, <2>1, <2>2, ProgFacts, PostOrderTyped
  <2> QED
    BY <2>1, <2>3 DEF Init
<1>4. walk \in Seq(WalkNodes(prog.body)) /\ tracing = "none"
  BY DEF Init
<1>5. step \in DOMAIN Stateless /\ hook \in 0 .. LastHook
  BY DEF Init, Stateless, LastHook
<1>6. state \in StateType
  <2>1. state = Idle
    BY DEF Init
  <2> QED
    BY <2>1, IdleTyped
<1>7. changed \in BOOLEAN /\ crashed \in BOOLEAN /\ setup \in BOOLEAN
  BY Zenon DEF Init
<1>8. agentVariable \in STRING /\ imports = {}
  BY <1>1, ProgFacts DEF Init
<1>9. TypeOK
  BY <1>1, <1>2, <1>3, <1>4, <1>5, <1>6, <1>7, <1>8, NodesTyped DEF TypeOK
<1> QED
  BY <1>2, <1>3, <1>4, <1>9 DEF IInv

-----------------------------------------------------------------------------
(* What the actions have in common.                                        *)

LEMMA TailTyped ==
  ASSUME NEW T, NEW list \in Seq(T), list # << >>
  PROVE  Tail(list) \in Seq(T) /\ Head(list) \in T
OBVIOUS

LEMMA FunctionDone ==
  ASSUME IInv, NextFunction, visit # << >>
  PROVE  /\ prog' = prog /\ prog' \in Progs
         /\ visit' \in Seq(NodesIn(prog.body)) /\ visit' \in Seq(NodeType)
         /\ step' \in DOMAIN Stateless
<1>1. prog' = prog /\ prog' \in Progs
  BY DEF NextFunction, IInv, TypeOK
<1>2. visit' \in Seq(NodesIn(prog.body))
  <2>1. Tail(visit) \in Seq(NodesIn(prog.body)) /\ visit \in Seq(NodesIn(prog.body))
    BY TailTyped DEF IInv
  <2> QED
    BY <2>1 DEF NextFunction
<1>3. step' \in DOMAIN Stateless
  <2>1. Len(Stateless) = 12 /\ DOMAIN Stateless = 1 .. 12
    BY DEF Stateless
  <2>2. step \in 1 .. 12
    BY <2>1 DEF IInv, TypeOK
  <2>3. step' = IF step = 12 THEN 1 ELSE step + 1
    BY <2>1 DEF NextFunction
  <2> QED
    BY <2>1, <2>2, <2>3
<1> QED
  BY <1>1, <1>2, <1>3, NodesTyped

LEMMA EditStep ==
  ASSUME IInv, visit # << >>, tracing = "none",
         NEW text, GoodText(prog, text), NEW new \in SUBSET Imported, Edit(text, new)
  PROVE  IInv'
<1>1. /\ body' = text /\ imports' = imports \cup new /\ NextFunction
      /\ UNCHANGED <<tracing, walk, hook, state, changed, agentVariable, setup, crashed>>
  BY DEF Edit, trace, manager
<1>2. /\ prog' = prog /\ prog' \in Progs
      /\ visit' \in Seq(NodesIn(prog.body)) /\ visit' \in Seq(NodeType)
      /\ step' \in DOMAIN Stateless
  BY <1>1, FunctionDone
<1>3. GoodText(prog', body') /\ body' \in [Block -> Seq(SoundStatement)]
  BY <1>1, <1>2 DEF GoodText
<1>4. imports' \subseteq Imported
  BY <1>1 DEF IInv, TypeOK
<1>5. TypeOK'
  BY <1>1, <1>2, <1>3, <1>4 DEF IInv, TypeOK
<1>6. walk' \in Seq(WalkNodes(prog'.body)) /\ (tracing' # "none" => visit' # << >>)
  BY <1>1, <1>2 DEF IInv
<1> QED
  BY <1>2, <1>3, <1>5, <1>6 DEF IInv

LEMMA BlockStep ==
  ASSUME IInv, visit # << >>, tracing = "none", NEW b \in Block, NEW list,
         Edits(body[b], list), NEW new \in SUBSET Imported, EditBlock(b, list, new)
  PROVE  IInv'
<1>1. PICK text : text = [body EXCEPT ![b] = list]
  OBVIOUS
<1>2. Edit(text, new)
  BY <1>1 DEF EditBlock
<1>3. GoodText(prog, text)
  BY <1>1, BlockEdited DEF IInv, TypeOK
<1> QED
  BY <1>2, <1>3, EditStep

LEMMA SkipStep ==
  ASSUME IInv, visit # << >>, tracing = "none", Skip
  PROVE  IInv'
<1>1. GoodText(prog, body) /\ Edit(body, {})
  BY DEF IInv, Skip
<1> QED
  BY <1>1, EditStep

LEMMA TraceStarts ==
  ASSUME IInv, visit # << >>, NEW text, GoodText(prog, text),
         NEW who \in {"main", "http", "gin", "grpc"}, NEW st \in StateType,
         StartTrace(who, text, st), agentVariable' \in STRING, setup' \in BOOLEAN,
         imports' \subseteq Imported
  PROVE  IInv'
<1>1. /\ body' = text /\ tracing' = who /\ walk' = PreOrder(text) /\ hook' = 0
      /\ state' = st
      /\ UNCHANGED <<prog, visit, step, crashed>>
  BY DEF StartTrace, outer
<1>2. changed' \in BOOLEAN
  BY Zenon DEF StartTrace
<1>3. GoodText(prog', body') /\ body' \in [Block -> Seq(SoundStatement)]
  BY <1>1 DEF GoodText
<1>4. walk' \in Seq(WalkNodes(prog.body)) /\ walk' \in Seq(NodeType)
  <2>1. prog \in Progs
    BY DEF IInv, TypeOK
  <2> QED
    BY <1>1, <2>1, WalkTyped, NodesTyped
<1>5. hook' \in 0 .. LastHook
  BY <1>1 DEF LastHook
<1>6. TypeOK'
  BY <1>1, <1>2, <1>3, <1>4, <1>5 DEF IInv, TypeOK
<1>7. visit' \in Seq(NodesIn(prog'.body)) /\ visit' # << >>
  BY <1>1 DEF IInv
<1> QED
  BY <1>1, <1>3, <1>4, <1>6, <1>7 DEF IInv

LEMMA PanicStep ==
  ASSUME IInv, Panic
  PROVE  IInv'
<1>1. UNCHANGED <<prog, visit, step, body, tracing, walk, hook, state, changed,
                  agentVariable, setup, imports>>
  BY DEF Panic, outer, trace, manager
<1>2. crashed' \in BOOLEAN
  BY Zenon DEF Panic
<1>3. TypeOK'
  BY <1>1, <1>2 DEF IInv, TypeOK
<1> QED
  BY <1>1, <1>3 DEF IInv, GoodText

LEMMA HookDone ==
  ASSUME IInv, walk # << >>, NextHook
  PROVE  /\ UNCHANGED <<prog, visit, step, agentVariable, setup, tracing>>
         /\ walk' \in Seq(WalkNodes(prog.body)) /\ walk' \in Seq(NodeType)
         /\ hook' \in 0 .. LastHook
<1>1. UNCHANGED <<prog, visit, step, agentVariable, setup, tracing>>
  BY DEF NextHook, outer, manager
<1>2. walk' \in Seq(WalkNodes(prog.body))
  <2>1. Tail(walk) \in Seq(WalkNodes(prog.body)) /\ walk \in Seq(WalkNodes(prog.body))
    BY TailTyped DEF IInv
  <2> QED
    BY <2>1 DEF NextHook
<1>3. hook' \in 0 .. LastHook
  <2>1. hook \in 0 .. 8 /\ hook' = IF hook = 8 THEN 0 ELSE hook + 1
    BY DEF IInv, TypeOK, LastHook, NextHook
  <2> QED
    BY <2>1 DEF LastHook
<1> QED
  BY <1>1, <1>2, <1>3, NodesTyped

LEMMA HookStep ==
  ASSUME IInv, walk # << >>, NextHook, UNCHANGED crashed, GoodText(prog, body'),
         state' \in StateType, changed' \in BOOLEAN, imports' \subseteq Imported
  PROVE  IInv'
<1>1. /\ UNCHANGED <<prog, visit, step, agentVariable, setup, tracing>>
      /\ walk' \in Seq(WalkNodes(prog.body)) /\ walk' \in Seq(NodeType)
      /\ hook' \in 0 .. LastHook
  BY HookDone
<1>2. GoodText(prog', body') /\ body' \in [Block -> Seq(SoundStatement)]
  BY <1>1 DEF GoodText
<1>3. TypeOK'
  BY <1>1, <1>2 DEF IInv, TypeOK
<1>4. /\ visit' \in Seq(NodesIn(prog'.body)) /\ (tracing' # "none" => visit' # << >>)
      /\ walk' \in Seq(WalkNodes(prog'.body))
  BY <1>1 DEF IInv
<1> QED
  BY <1>2, <1>3, <1>4 DEF IInv

LEMMA WalkedFound ==
  ASSUME IInv, walk # << >>
  PROVE  /\ prog \in Progs /\ WalkedIn \in Block
         /\ body[WalkedIn] \in Seq(SoundStatement)
         /\ HasId(body[WalkedIn], Walked.id)
         /\ Walked \in SoundStatement
         /\ Walked = body[WalkedIn][IndexOfId(body[WalkedIn], Walked.id)]
<1>1. Head(walk) \in WalkNodes(prog.body) /\ prog \in Progs /\ GoodText(prog, body)
  BY TailTyped DEF IInv, TypeOK
<1>2. PICK n : n = Head(walk)
  OBVIOUS
<1>3. n \in NodesIn(prog.body) /\ n.kind = "stmt"
  BY <1>1, <1>2 DEF WalkNodes
<1>4. /\ n.blk \in Block /\ body[n.blk] \in Seq(SoundStatement)
      /\ HasId(body[n.blk], n.id)
      /\ body[n.blk][IndexOfId(body[n.blk], n.id)] \in SoundStatement
      /\ body[n.blk][IndexOfId(body[n.blk], n.id)].id = n.id
  BY <1>1, <1>3, StatementFound
<1>5. Walked = body[n.blk][IndexOfId(body[n.blk], n.id)] /\ WalkedIn = n.blk
  BY <1>2 DEF Walked, WalkedIn, StatementAt
<1> QED
  BY <1>1, <1>4, <1>5

LEMMA ModifyStep ==
  ASSUME IInv, walk # << >>, NEW list, Edits(body[WalkedIn], list),
         NEW st \in StateType, NEW ch \in BOOLEAN, NEW new \in SUBSET Imported,
         Modify(list, st, ch, new)
  PROVE  IInv'
<1>1. /\ body' = [body EXCEPT ![WalkedIn] = list] /\ state' = st
      /\ imports' = imports \cup new /\ NextHook /\ UNCHANGED crashed
  BY DEF Modify
<1>2. changed' \in BOOLEAN
  BY Zenon DEF Modify
<1>3. prog \in Progs /\ GoodText(prog, body) /\ WalkedIn \in Block
  BY WalkedFound DEF IInv
<1>4. GoodText(prog, body')
  BY <1>1, <1>3, BlockEdited
<1>5. imports' \subseteq Imported
  BY <1>1 DEF IInv, TypeOK
<1> QED
  BY <1>1, <1>2, <1>4, <1>5, HookStep

LEMMA PassStep ==
  ASSUME IInv, walk # << >>, Pass
  PROVE  IInv'
<1>1. Edits(body[WalkedIn], body[WalkedIn])
  BY WalkedFound, EditsSelf
<1>2. state \in StateType
  BY DEF IInv, TypeOK
<1>3. PICK f : f = FALSE /\ f \in BOOLEAN
  BY Zenon
<1>4. Modify(body[WalkedIn], state, f, {})
  BY <1>3 DEF Pass
<1> QED
  BY <1>1, <1>2, <1>3, <1>4, ModifyStep

-----------------------------------------------------------------------------
(* The stateless functions, one by one.                                    *)

LEMMA VisitFound ==
  ASSUME IInv, NEW f, Running(f)
  PROVE  /\ visit # << >> /\ tracing = "none" /\ prog \in Progs
         /\ Here \in NodesIn(prog.body) /\ Here.blk \in Block
         /\ body[Here.blk] \in Seq(SoundStatement)
         /\ Decl \in Block /\ body[Decl] \in Seq(SoundStatement)
<1>1. visit # << >> /\ tracing = "none" /\ prog \in Progs
  BY DEF Running, IInv, TypeOK
<1>2. Here \in NodesIn(prog.body)
  BY <1>1, TailTyped DEF IInv, Here
<1>3. Here.blk \in Block /\ Decl \in Block
  BY <1>2, BlockAssumption DEF NodesIn, NodeType
<1> QED
  BY <1>1, <1>2, <1>3 DEF IInv, TypeOK

LEMMA HereFound ==
  ASSUME IInv, NEW f, Running(f), Here.kind = "stmt"
  PROVE  /\ HasId(body[Here.blk], Here.id)
         /\ StatementAt(Here) \in SoundStatement
         /\ StatementAt(Here) = body[Here.blk][IndexOfId(body[Here.blk], Here.id)]
<1>1. PICK n : n = Here
  OBVIOUS
<1>2. n \in NodesIn(prog.body) /\ n.kind = "stmt" /\ prog \in Progs /\ GoodText(prog, body)
  BY <1>1, VisitFound DEF IInv
<1>3. HasId(body[n.blk], n.id) /\ body[n.blk][IndexOfId(body[n.blk], n.id)] \in SoundStatement
  BY <1>2, StatementFound
<1> QED
  BY <1>1, <1>3 DEF StatementAt

LEMMA HandleFunctionStep ==
  ASSUME IInv, InstrumentHandleFunction
  PROVE  IInv'
<1>1. visit # << >> /\ tracing = "none"
  BY VisitFound DEF InstrumentHandleFunction
<1>2. CASE Skip
  BY <1>1, <1>2, SkipStep
<1>3. CASE /\ StartTrace("http", body, FunctionBody("txn", None))
           /\ UNCHANGED <<manager, imports>>
  <2>1. FunctionBody("txn", None) \in StateType
    BY StatesTyped, IdleTyped, NoneSpelled
  <2>2. agentVariable' \in STRING /\ setup' \in BOOLEAN /\ imports' \subseteq Imported
    BY <1>3 DEF manager, IInv, TypeOK
  <2>3. GoodText(prog, body)
    BY DEF IInv
  <2> QED
    BY <1>1, <1>3, <2>1, <2>2, <2>3, TraceStarts
<1> QED
  BY <1>2, <1>3 DEF InstrumentHandleFunction

LEMMA HttpClientStep ==
  ASSUME IInv, InstrumentHttpClient
  PROVE  IInv'
<1>1. /\ visit # << >> /\ tracing = "none" /\ Here.blk \in Block
      /\ body[Here.blk] \in Seq(SoundStatement) /\ Running("HttpClient")
  BY VisitFound DEF InstrumentHttpClient
<1>2. CASE Skip
  BY <1>1, <1>2, SkipStep
<1>3. CASE /\ Here.kind = "stmt" /\ IsNetHttpClientDefinition(StatementAt(Here))
           /\ EditBlock(Here.blk,
                InsertAfter(body[Here.blk], Here.id,
                            RoundTripper(StatementAt(Here).lhs[1])), {"newrelic"})
  <2>1. PICK s : s = StatementAt(Here)
    OBVIOUS
  <2>2. HasId(body[Here.blk], Here.id) /\ s \in SoundStatement
    BY <1>1, <1>3, <2>1, HereFound
  <2>3. s.lhs[1] \in STRING
    <3>1. s.lhs \in Seq(STRING) /\ Len(s.lhs) = 1
      BY <1>3, <2>1, <2>2, SoundParts DEF IsNetHttpClientDefinition
    <3>2. PICK T : T = STRING
      OBVIOUS
    <3>3. s.lhs \in Seq(T)
      BY <3>1, <3>2
    <3>4. s.lhs[1] \in T
      BY <3>1, <3>3
    <3> QED
      BY <3>2, <3>4
  <2>4. RoundTripper(s.lhs[1]) \in Generated
    BY <2>3, NoneSpelled, HttpStatements
  <2>5. Edits(body[Here.blk], InsertAfter(body[Here.blk], Here.id, RoundTripper(s.lhs[1])))
    BY <1>1, <2>2, <2>4, InsertAfterEdits
  <2>6. {"newrelic"} \in SUBSET Imported
    BY DEF Imported
  <2> QED
    BY <1>1, <1>3, <2>1, <2>5, <2>6, BlockStep
<1> QED
  BY <1>2, <1>3 DEF InstrumentHttpClient

LEMMA GrpcDialStep ==
  ASSUME IInv, InstrumentGrpcDial
  PROVE  IInv'
<1>1. /\ visit # << >> /\ tracing = "none" /\ Here.blk \in Block
      /\ body[Here.blk] \in Seq(SoundStatement) /\ Running("GrpcDial")
  BY VisitFound DEF InstrumentGrpcDial
<1>2. CASE Skip
  BY <1>1, <1>2, SkipStep
<1>3. CASE ~Skip
  <2>1. PICK s, t : /\ s = StatementAt(Here)
                    /\ t = [s EXCEPT !.opts = @ \o <<NrGrpcUnaryClientInterceptor,
                                                    NrGrpcStreamClientInterceptor>>]
    OBVIOUS
  <2>2. Here.kind = "stmt" /\ EditBlock(Here.blk, ReplaceById(body[Here.blk], Here.id, t),
                                        {"nrgrpc"})
    BY <1>3, <2>1 DEF InstrumentGrpcDial
  <2>3. /\ HasId(body[Here.blk], Here.id) /\ s \in SoundStatement
        /\ s = body[Here.blk][IndexOfId(body[Here.blk], Here.id)]
    BY <1>1, <2>1, <2>2, HereFound
  <2>4. t \in SoundStatement /\ Alike(t, s)
    BY <2>1, <2>3, NoneSpelled, Interceptors, GivenOptions
  <2>5. Edits(body[Here.blk], ReplaceById(body[Here.blk], Here.id, t))
    BY <1>1, <2>3, <2>4, ReplaceByIdEdits
  <2>6. {"nrgrpc"} \in SUBSET Imported
    BY DEF Imported
  <2> QED
    BY <1>1, <2>2, <2>5, <2>6, BlockStep
<1> QED
  BY <1>2, <1>3

(* The names of parameters.                                                *)
LEMMA ParamNamed ==
  ASSUME NEW params \in Seq(Param), NEW type
  PROVE  /\ OnlyParam(params, type) \in STRING
         /\ LastOf(params, type) \in STRING
         /\ GetHTTPRequestArgName(params) \in STRING
         /\ GetHTTPRequestArgNameDecl(params) \in STRING
<1>0. /\ DOMAIN params = 1 .. Len(params) /\ Len(params) \in Nat
      /\ \A i \in DOMAIN params : params[i].name \in STRING
  <2>1. DOMAIN params = 1 .. Len(params) /\ Len(params) \in Nat
    OBVIOUS
  <2>2. \A i \in DOMAIN params : params[i] \in Param
    OBVIOUS
  <2>3. \A p \in Param : p.name \in STRING
    BY DEF Param
  <2> QED
    BY <2>1, <2>2, <2>3, Zenon
<1>1. OnlyParam(params, type) \in STRING
  BY <1>0, NoneSpelled DEF OnlyParam
<1>2. LastOf(params, type) \in STRING
  <2> DEFINE P == {i \in DOMAIN params : params[i].type = type}
  <2>1. CASE P = {}
    BY <2>1, NoneSpelled DEF LastOf
  <2>2. CASE P # {}
    <3>1. PICK n : n = Len(params) /\ n \in Nat
      BY <1>0
    <3>2. P \subseteq 1 .. n
      BY <1>0, <3>1
    <3>3. \E i \in P : \A j \in P : j <= i
      BY <2>2, <3>1, <3>2, HasGreatest
    <3>4. PICK i : i = CHOOSE k \in P : \A j \in P : j <= k
      OBVIOUS
    <3>5. i \in P
      BY <3>3, <3>4
    <3>6. LastOf(params, type) = params[i].name
      BY <2>2, <3>4 DEF LastOf
    <3> QED
      BY <1>0, <3>5, <3>6
  <2> QED
    BY <2>1, <2>2
<1>3. GetHTTPRequestArgName(params) \in STRING
  <2> DEFINE P == {i \in DOMAIN params : params[i].type = "request"}
  <2>1. CASE P = {}
    BY <2>1, NoneSpelled DEF GetHTTPRequestArgName
  <2>2. CASE P # {}
    <3>1. P \subseteq Nat
      BY <1>0
    <3>2. \E i \in P : \A j \in P : i <= j
      BY <2>2, <3>1, HasLeast
    <3>3. PICK i : i = CHOOSE k \in P : \A j \in P : k <= j
      OBVIOUS
    <3>4. i \in P
      BY <3>2, <3>3
    <3>5. GetHTTPRequestArgName(params) = params[i].name
      BY <2>2, <3>3 DEF GetHTTPRequestArgName
    <3> QED
      BY <1>0, <3>4, <3>5
  <2> QED
    BY <2>1, <2>2
<1>4. GetHTTPRequestArgNameDecl(params) \in STRING
  BY <1>0, NoneSpelled DEF GetHTTPRequestArgNameDecl, IsHTTPHandler
<1> QED
  BY <1>1, <1>2, <1>3, <1>4

(* A segment, and the definition of the transaction before it.             *)
LEMMA HandlerEdits ==
  ASSUME NEW list \in Seq(SoundStatement), NEW ctx \in STRING, NEW v
  PROVE  /\ Edits(list, WithSegment(list))
         /\ Edits(list, DefineTxnFromGinCtx(list, ctx))
         /\ Edits(list, DefineTxnFromEchoCtx(v, list, ctx))
         /\ Edits(list, DefineTxnFromGinCtx(WithSegment(list), ctx))
         /\ Edits(list, DefineTxnFromEchoCtx(v, WithSegment(list), ctx))
<1>1. DeferSegment(nrTxn) \in Generated
  <2>1. FALSE \in BOOLEAN
    BY Zenon
  <2>2. PICK context : context.recv \in STRING /\ context.fun \in STRING
    BY NoneSpelled, BlankTyped DEF Statement
  <2> QED
    BY <2>1, <2>2, NoneSpelled, NamesSpelled, TransactionStatements
<1>2. Edits(list, WithSegment(list)) /\ WithSegment(list) \in Seq(SoundStatement)
  BY <1>1, PrependEdits DEF WithSegment, Edits
<1>3. /\ TxnFromGinContext(DefaultTransactionVariable, ctx) \in Generated
      /\ TxnFromEchoContext(v, DefaultTransactionVariable, ctx) \in Generated
  BY NoneSpelled, NamesSpelled, WebStatements
<1>4. ASSUME NEW l \in Seq(SoundStatement)
      PROVE  /\ Edits(l, DefineTxnFromGinCtx(l, ctx))
             /\ Edits(l, DefineTxnFromEchoCtx(v, l, ctx))
  BY <1>3, PrependEdits DEF DefineTxnFromGinCtx, DefineTxnFromEchoCtx
<1>5. PICK l : l = WithSegment(list)
  OBVIOUS
<1>6. /\ Edits(l, DefineTxnFromGinCtx(l, ctx)) /\ Edits(list, l)
      /\ Edits(l, DefineTxnFromEchoCtx(v, l, ctx))
  BY <1>2, <1>4, <1>5
<1>7. /\ Edits(list, DefineTxnFromGinCtx(l, ctx))
      /\ Edits(list, DefineTxnFromEchoCtx(v, l, ctx))
  BY <1>6, EditsTrans
<1> QED
  BY <1>2, <1>4, <1>5, <1>7

LEMMA GinFunctionStep ==
  ASSUME IInv, InstrumentGinFunction
  PROVE  IInv'
<1>1. /\ visit # << >> /\ tracing = "none" /\ Here.blk \in Block /\ prog \in Progs
      /\ body[Here.blk] \in Seq(SoundStatement)
  BY VisitFound DEF InstrumentGinFunction
<1>2. CASE Skip
  BY <1>1, <1>2, SkipStep
<1>3. CASE /\ StartTrace("gin", body, FunctionBody("txn", None))
           /\ UNCHANGED <<manager, imports>>
  <2>1. FunctionBody("txn", None) \in StateType
    BY StatesTyped, IdleTyped, NoneSpelled
  <2>2. agentVariable' \in STRING /\ setup' \in BOOLEAN /\ imports' \subseteq Imported
    BY <1>3 DEF manager, IInv, TypeOK
  <2>3. GoodText(prog, body)
    BY DEF IInv
  <2> QED
    BY <1>1, <1>3, <2>1, <2>2, <2>3, TraceStarts
<1>4. PICK ctx : ctx = IF Here.kind = "stmt" THEN None
                       ELSE GetGinContextFromHandler(prog.params[Here.blk])
  OBVIOUS
<1>5. CASE EditBlock(Here.blk, DefineTxnFromGinCtx(WithSegment(body[Here.blk]), ctx), {})
  <2>1. ctx \in STRING
    <3>1. prog.params[Here.blk] \in Seq(Param)
      BY <1>1, ProgFacts
    <3> QED
      BY <1>4, <3>1, ParamNamed, NoneSpelled DEF GetGinContextFromHandler
  <2>2. Edits(body[Here.blk], DefineTxnFromGinCtx(WithSegment(body[Here.blk]), ctx))
    BY <1>1, <2>1, HandlerEdits
  <2> QED
    BY <1>1, <1>5, <2>2, BlockStep
<1> QED
  BY <1>2, <1>3, <1>4, <1>5 DEF InstrumentGinFunction

LEMMA EchoFunctionStep ==
  ASSUME IInv, NEW v \in {3, 4}, InstrumentEchoFunction(v)
  PROVE  IInv'
<1>1. /\ visit # << >> /\ tracing = "none" /\ Here.blk \in Block /\ prog \in Progs
      /\ body[Here.blk] \in Seq(SoundStatement)
  BY VisitFound DEF InstrumentEchoFunction
<1>2. CASE Skip
  BY <1>1, <1>2, SkipStep
<1>3. PICK ctx : ctx = IF Here.kind = "stmt" THEN None
                       ELSE GetEchoContextFromHandler(v, prog.params[Here.blk])
  OBVIOUS
<1>4. CASE EditBlock(Here.blk, DefineTxnFromEchoCtx(v, WithSegment(body[Here.blk]), ctx), {})
  <2>1. ctx \in STRING
    <3>1. prog.params[Here.blk] \in Seq(Param)
      BY <1>1, ProgFacts
    <3> QED
      BY <1>3, <3>1, ParamNamed, NoneSpelled DEF GetEchoContextFromHandler
  <2>2. Edits(body[Here.blk], DefineTxnFromEchoCtx(v, WithSegment(body[Here.blk]), ctx))
    BY <1>1, <2>1, HandlerEdits
  <2> QED
    BY <1>1, <1>4, <2>2, BlockStep
<1> QED
  BY <1>2, <1>3, <1>4 DEF InstrumentEchoFunction

LEMMA GrpcServerMethodStep ==
  ASSUME IInv, InstrumentGrpcServerMethod
  PROVE  IInv'
<1>1. /\ visit # << >> /\ tracing = "none" /\ Decl \in Block /\ prog \in Progs
  BY VisitFound DEF InstrumentGrpcServerMethod
<1>2. CASE Skip
  BY <1>1, <1>2, SkipStep
<1>3. PICK txn : txn = GetTxnFromGrpcServer(prog.params[Decl])
  OBVIOUS
<1>4. CASE /\ txn.object # "none"
           /\ StartTrace("grpc", body, FunctionBody(txn.object, txn.owner))
           /\ UNCHANGED <<manager, imports>>
  <2>1. txn.object \in {"txn", "ctx"} /\ txn.owner \in STRING
    <3>1. prog.params[Decl] \in Seq(Param)
      BY <1>1, ProgFacts
    <3>2. /\ LastOf(prog.params[Decl], "stream") \in STRING
          /\ LastOf(prog.params[Decl], "context") \in STRING
      BY <3>1, ParamNamed
    <3> QED
      BY <1>3, <1>4, <3>2 DEF GetTxnFromGrpcServer
  <2>2. FunctionBody(txn.object, txn.owner) \in StateType
    BY <2>1, StatesTyped, IdleTyped
  <2>3. agentVariable' \in STRING /\ setup' \in BOOLEAN /\ imports' \subseteq Imported
    BY <1>4 DEF manager, IInv, TypeOK
  <2>4. GoodText(prog, body)
    BY DEF IInv
  <2> QED
    BY <1>1, <1>4, <2>2, <2>3, <2>4, TraceStarts
<1> QED
  BY <1>2, <1>3, <1>4 DEF InstrumentGrpcServerMethod

LEMMA SlogHandlerStep ==
  ASSUME IInv, InstrumentSlogHandler
  PROVE  IInv'
<1>1. /\ visit # << >> /\ tracing = "none" /\ Decl \in Block
      /\ body[Decl] \in Seq(SoundStatement)
  BY VisitFound DEF InstrumentSlogHandler
<1>2. CASE Skip
  BY <1>1, <1>2, SkipStep
<1>3. CASE Panic
  BY <1>3, PanicStep
<1>4. ASSUME NEW new \in SUBSET Imported, EditBlock(Decl, SlogEdit(body[Decl]), new)
      PROVE  IInv'
  BY <1>1, <1>4, SlogEdits, BlockStep
<1>5. {} \in SUBSET Imported /\ {"nrslog"} \in SUBSET Imported
  BY DEF Imported
<1> QED
  BY <1>2, <1>3, <1>4, <1>5 DEF InstrumentSlogHandler

LEMMA LogrusHandlerStep ==
  ASSUME IInv, InstrumentLogrusHandler
  PROVE  IInv'
<1>1. /\ visit # << >> /\ tracing = "none" /\ Decl \in Block
      /\ body[Decl] \in Seq(SoundStatement) /\ agentVariable \in STRING
  BY VisitFound DEF InstrumentLogrusHandler, IInv, TypeOK
<1>2. CASE Skip
  BY <1>1, <1>2, SkipStep
<1>3. PICK new : new = IF LogrusMutates(body, body[Decl]) THEN {"nrlogrus"} ELSE {}
  OBVIOUS
<1>4. CASE EditBlock(Decl, LogrusEdit(body, body[Decl], agentVariable), new)
  <2>1. new \in SUBSET Imported
    BY <1>3 DEF Imported
  <2>2. Edits(body[Decl], LogrusEdit(body, body[Decl], agentVariable))
    BY <1>1, LogrusEdits
  <2> QED
    BY <1>1, <1>4, <2>1, <2>2, BlockStep
<1> QED
  BY <1>2, <1>3, <1>4 DEF InstrumentLogrusHandler

LEMMA PQHandlerStep ==
  ASSUME IInv, InstrumentPQHandler
  PROVE  IInv'
<1>1. /\ visit # << >> /\ tracing = "none" /\ Here.blk \in Block
      /\ body[Here.blk] \in Seq(SoundStatement) /\ agentVariable \in STRING
  BY VisitFound DEF InstrumentPQHandler, IInv, TypeOK
<1>2. CASE Skip
  BY <1>1, <1>2, SkipStep
<1>3. PICK b, list, new :
        /\ b = Here.blk
        /\ list = PQEdit(body, b, IsMainDecl, agentVariable)
        /\ new = (IF PQSwaps(body[b]) THEN {"nrpq"} ELSE {})
                 \cup IF Len(list) > Len(body[b]) THEN {"newrelic"} ELSE {}
  OBVIOUS
<1>4. CASE EditBlock(b, list, new)
  <2>1. new \in SUBSET Imported
    <3>1. {"nrpq"} \subseteq Imported /\ {"newrelic"} \subseteq Imported
      BY DEF Imported
    <3>2. new \in {{}, {"nrpq"}, {"newrelic"}, {"nrpq"} \cup {"newrelic"}}
      BY <1>3
    <3> QED
      BY <3>1, <3>2
  <2>2. Edits(body[b], list)
    <3>1. PICK m : m = IsMainDecl
      OBVIOUS
    <3>2. Edits(body[b], PQEdit(body, b, m, agentVariable))
      BY <1>1, <1>3, PQEdits
    <3> QED
      BY <1>3, <3>1, <3>2
  <2> QED
    BY <1>1, <1>3, <1>4, <2>1, <2>2, BlockStep
<1> QED
  BY <1>2, <1>3, <1>4 DEF InstrumentPQHandler

LEMMA PgxHandlerStep ==
  ASSUME IInv, InstrumentPgxHandler
  PROVE  IInv'
<1>1. /\ visit # << >> /\ tracing = "none" /\ Here.blk \in Block
      /\ body[Here.blk] \in Seq(SoundStatement)
  BY VisitFound DEF InstrumentPgxHandler
<1>2. CASE Skip
  BY <1>1, <1>2, SkipStep
<1>3. PICK new : new = IF PgxConnects(body[Here.blk]) = 0 THEN {} ELSE {"nrpgx5"}
  OBVIOUS
<1>4. CASE EditBlock(Here.blk, PgxEdit(body[Here.blk]), new)
  <2>1. new \in SUBSET Imported
    BY <1>3 DEF Imported
  <2>2. Edits(body[Here.blk], PgxEdit(body[Here.blk]))
    BY <1>1, PgxEdits
  <2> QED
    BY <1>1, <1>4, <2>1, <2>2, BlockStep
<1> QED
  BY <1>2, <1>3, <1>4 DEF InstrumentPgxHandler

LEMMA NotedNamed ==
  ASSUME IInv
  PROVE  AgentNoted \in STRING
<1> DEFINE nodes == PreOrder(body)
           Noted == {i \in DOMAIN nodes :
                       /\ AssignsCall(StatementAt(nodes[i]), {prog.setup} \ {None})
                       /\ ~StatementAt(nodes[i]).field}
<1>1. prog \in Progs /\ GoodText(prog, body) /\ agentVariable \in STRING
  BY DEF IInv, TypeOK
<1>2. nodes \in Seq(WalkNodes(prog.body))
  BY <1>1, WalkTyped
<1>3. /\ DOMAIN nodes = 1 .. Len(nodes) /\ Len(nodes) \in Nat
      /\ \A i \in DOMAIN nodes : nodes[i] \in WalkNodes(prog.body)
  BY <1>2
<1> HIDE DEF nodes
<1>4. CASE Noted = {}
  BY <1>1, <1>4 DEF AgentNoted, nodes
<1>5. CASE Noted # {}
  <2>1. PICK n : n = Len(nodes) /\ n \in Nat
    BY <1>3
  <2>2. Noted \subseteq 1 .. n
    BY <1>3, <2>1
  <2>3. \E i \in Noted : \A j \in Noted : j <= i
    BY <1>5, <2>1, <2>2, HasGreatest
  <2>4. PICK i : i = CHOOSE k \in Noted : \A j \in Noted : j <= k
    OBVIOUS
  <2>5. i \in Noted
    BY <2>3, <2>4
  <2>6. AgentNoted = agentVariable \/ AgentNoted = StatementAt(nodes[i]).lhs[1]
    BY <2>4 DEF AgentNoted, nodes
  <2>7. PICK s, m : s = StatementAt(nodes[i]) /\ m = nodes[i]
    OBVIOUS
  <2>8. m \in NodesIn(prog.body) /\ m.kind = "stmt"
    BY <1>3, <2>5, <2>7 DEF WalkNodes
  <2>9. s \in SoundStatement
    BY <1>1, <2>7, <2>8, StatementFound DEF StatementAt
  <2>10. s.form = "assign"
    BY <2>5, <2>7 DEF AssignsCall
  <2>11. s.lhs[1] \in STRING
    BY <2>9, <2>10, SoundParts
  <2> QED
    BY <1>1, <2>6, <2>7, <2>11
<1> QED
  BY <1>4, <1>5

LEMMA ApplicationFound ==
  ASSUME NEW list \in Seq(SoundStatement), ExistingApplication(list) # 0
  PROVE  list[ExistingApplication(list)].lhs[1] \in STRING
<1> DEFINE I == {i \in DOMAIN list : AssignsCall(list[i], NewRelicFuns)}
<1>1. /\ DOMAIN list = 1 .. Len(list) /\ Len(list) \in Nat
      /\ \A i \in DOMAIN list : list[i] \in SoundStatement
  OBVIOUS
<1>2. I \subseteq Nat \ {0}
  BY <1>1
<1>3. ExistingApplication(list) \in I
  BY <1>2, FirstFound DEF ExistingApplication
<1>4. PICK s : s = list[ExistingApplication(list)]
  OBVIOUS
<1>5. s \in SoundStatement /\ s.form = "assign"
  BY <1>1, <1>3, <1>4 DEF AssignsCall
<1> QED
  BY <1>4, <1>5, SoundParts

LEMMA AgentInjected ==
  ASSUME IInv
  PROVE  GoodText(prog, InjectAgent(body))
<1>1. /\ prog \in Progs /\ GoodText(prog, body) /\ agentVariable \in STRING
      /\ Decl \in Block /\ body[Decl] \in Seq(SoundStatement)
  BY BlockAssumption DEF IInv, TypeOK
<1>2. PICK list, init, down : /\ list = body[Decl]
                              /\ init = InitializeAgent(agentVariable)
                              /\ down = ShutdownAgent(agentVariable)
  OBVIOUS
<1>3. init \in Seq(Generated) /\ <<down>> \in Seq(Generated)
  BY <1>1, <1>2, AgentStatements, OneGenerated
<1>4. Edits(list, init \o list) /\ init \o list \in Seq(SoundStatement)
  BY <1>1, <1>2, <1>3, AppendEdits DEF Edits
<1>5. Edits(init \o list, (init \o list) \o <<down>>)
  BY <1>3, <1>4, AppendEdits
<1>6. Edits(list, (init \o list) \o <<down>>)
  BY <1>1, <1>2, <1>4, <1>5, EditsTrans
<1>7. InjectAgent(body) = [body EXCEPT ![Decl] = (init \o list) \o <<down>>]
  BY <1>2 DEF InjectAgent
<1>8. PICK new : new = (init \o list) \o <<down>>
  OBVIOUS
<1>9. Edits(body[Decl], new)
  BY <1>2, <1>6, <1>8
<1>10. GoodText(prog, [body EXCEPT ![Decl] = new])
  BY <1>1, <1>9, BlockEdited
<1> QED
  BY <1>7, <1>8, <1>10

LEMMA MainStep ==
  ASSUME IInv, InstrumentMain
  PROVE  IInv'
<1>1. /\ visit # << >> /\ tracing = "none" /\ Decl \in Block
      /\ body[Decl] \in Seq(SoundStatement)
  BY VisitFound DEF InstrumentMain
<1>2. AgentNoted \in STRING /\ GoodText(prog, body)
  BY NotedNamed DEF IInv
<1>3. CASE /\ agentVariable' = AgentNoted
           /\ NextFunction /\ UNCHANGED <<body, trace, setup, imports, crashed>>
  <2>1. /\ prog' = prog /\ prog' \in Progs
        /\ visit' \in Seq(NodesIn(prog.body)) /\ visit' \in Seq(NodeType)
        /\ step' \in DOMAIN Stateless
    BY <1>1, <1>3, FunctionDone
  <2>2. UNCHANGED <<body, tracing, walk, hook, state, changed, setup, imports, crashed>>
    BY <1>3 DEF trace
  <2>3. TypeOK'
    BY <1>2, <1>3, <2>1, <2>2 DEF IInv, TypeOK
  <2>4. walk' \in Seq(WalkNodes(prog'.body)) /\ (tracing' # "none" => visit' # << >>)
    BY <1>1, <2>1, <2>2 DEF IInv
  <2>5. GoodText(prog', body')
    BY <1>2, <2>1, <2>2 DEF GoodText
  <2> QED
    BY <2>1, <2>3, <2>4, <2>5 DEF IInv
<1>4. CASE /\ agentVariable' = AgentNoted
           /\ StartTrace("main", body, Main(agentVariable'))
           /\ UNCHANGED <<setup, imports>>
  <2>1. PICK agent \in STRING : agent = AgentNoted
    BY <1>2
  <2>2. Main(agent) \in StateType /\ agentVariable' = agent
    BY <1>4, <2>1, IdleTyped, NoneSpelled, StatesTyped
  <2>3. setup' \in BOOLEAN /\ imports' \subseteq Imported /\ agentVariable' \in STRING
    BY <1>4, <2>2 DEF IInv, TypeOK
  <2>4. StartTrace("main", body, Main(agent))
    BY <1>4, <2>2
  <2> QED
    BY <1>1, <1>2, <2>2, <2>3, <2>4, TraceStarts
<1>5. CASE Panic
  BY <1>5, PanicStep
<1>6. ASSUME ExistingApplication(body[Decl]) # 0, setup' = TRUE,
             agentVariable' = body[Decl][ExistingApplication(body[Decl])].lhs[1],
             StartTrace("main", body, Main(agentVariable')), UNCHANGED imports
      PROVE  IInv'
  <2>1. PICK agent \in STRING : agent = body[Decl][ExistingApplication(body[Decl])].lhs[1]
    BY <1>1, <1>6, ApplicationFound
  <2>2. Main(agent) \in StateType /\ agentVariable' = agent
    BY <1>6, <2>1, IdleTyped, NoneSpelled, StatesTyped
  <2>3. setup' \in BOOLEAN
    BY <1>6, Zenon
  <2>4. imports' \subseteq Imported /\ agentVariable' \in STRING
    BY <1>6, <2>2 DEF IInv, TypeOK
  <2>5. StartTrace("main", body, Main(agent))
    BY <1>6, <2>2
  <2> QED
    BY <1>1, <1>2, <2>2, <2>3, <2>4, <2>5, TraceStarts
<1>7. CASE /\ StartTrace("main", InjectAgent(body), Main(agentVariable))
           /\ imports' = imports \cup {"newrelic"}
           /\ UNCHANGED manager
  <2>1. /\ agentVariable \in STRING /\ agentVariable' \in STRING /\ setup' \in BOOLEAN
        /\ imports' \subseteq Imported
    BY <1>7 DEF IInv, TypeOK, manager, Imported
  <2>2. Main(agentVariable) \in StateType
    BY <2>1, IdleTyped, NoneSpelled, StatesTyped
  <2>3. GoodText(prog, InjectAgent(body))
    BY AgentInjected
  <2>4. PICK text, st : text = InjectAgent(body) /\ st = Main(agentVariable)
    OBVIOUS
  <2> QED
    BY <1>1, <1>7, <2>1, <2>2, <2>3, <2>4, TraceStarts
<1>8. \/ agentVariable' = AgentNoted
           /\ NextFunction /\ UNCHANGED <<body, trace, setup, imports, crashed>>
      \/ agentVariable' = AgentNoted
           /\ StartTrace("main", body, Main(agentVariable'))
           /\ UNCHANGED <<setup, imports>>
      \/ Panic
      \/ /\ ExistingApplication(body[Decl]) # 0 /\ setup' = TRUE
         /\ agentVariable' = body[Decl][ExistingApplication(body[Decl])].lhs[1]
         /\ StartTrace("main", body, Main(agentVariable')) /\ UNCHANGED imports
      \/ /\ StartTrace("main", InjectAgent(body), Main(agentVariable))
         /\ imports' = imports \cup {"newrelic"}
         /\ UNCHANGED manager
  BY Zenon DEF InstrumentMain
<1> QED
  BY <1>3, <1>4, <1>5, <1>6, <1>7, <1>8

-----------------------------------------------------------------------------
(* The stateful functions, one by one.                                     *)

LEMMA Walks ==
  ASSUME IInv, NEW h, Walking(h)
  PROVE  /\ walk # << >> /\ prog \in Progs /\ WalkedIn \in Block
         /\ body[WalkedIn] \in Seq(SoundStatement)
         /\ HasId(body[WalkedIn], Walked.id)
         /\ Walked \in SoundStatement
         /\ Walked = body[WalkedIn][IndexOfId(body[WalkedIn], Walked.id)]
         /\ state \in StateType /\ imports \subseteq Imported
         /\ AgentVariable \in STRING
         /\ TxnUsed(state) \in StateType /\ AgentFromTxn(state) \in StateType
<1>1. walk # << >>
  BY DEF Walking
<1>2. state \in StateType /\ imports \subseteq Imported
  BY DEF IInv, TypeOK
<1>3. /\ state.agent \in STRING
      /\ TxnUsed(state) \in StateType /\ AgentFromTxn(state) \in StateType
  BY <1>2, NoneSpelled, StatesTyped
<1>4. AgentVariable \in STRING
  BY <1>3, NamesSpelled DEF AgentVariable
<1> QED
  BY <1>1, <1>2, <1>3, <1>4, WalkedFound

(* A modification that is reported.                                        *)
LEMMA ChangeStep ==
  ASSUME IInv, walk # << >>, NEW list, Edits(body[WalkedIn], list),
         NEW st \in StateType, NEW new \in SUBSET Imported,
         Modify(list, st, TRUE, new)
  PROVE  IInv'
<1>1. PICK t : t = TRUE /\ t \in BOOLEAN
  BY Zenon
<1>2. Modify(list, st, t, new)
  BY <1>1
<1> QED
  BY <1>1, <1>2, ModifyStep

LEMMA NestedHandleStep ==
  ASSUME IInv, WrapNestedHandleFunction
  PROVE  IInv'
<1>1. /\ walk # << >> /\ WalkedIn \in Block
      /\ body[WalkedIn] \in Seq(SoundStatement)
      /\ HasId(body[WalkedIn], Walked.id) /\ Walked \in SoundStatement
      /\ Walked = body[WalkedIn][IndexOfId(body[WalkedIn], Walked.id)]
      /\ AgentVariable \in STRING /\ AgentFromTxn(state) \in StateType
  BY Walks DEF WrapNestedHandleFunction
<1>2. CASE Pass
  BY <1>1, <1>2, PassStep
<1>3. PICK t : t = IF GetNetHttpMethod(Walked) = "HandleFunc"
                   THEN WrapHttpHandleFunc(AgentVariable, Walked)
                   ELSE WrapHttpHandle(AgentVariable, Walked)
  OBVIOUS
<1>4. CASE Modify(ReplaceById(body[WalkedIn], Walked.id, t), AgentFromTxn(state),
                  TRUE, {"newrelic"})
  <2>1. PICK s : s = Walked
    OBVIOUS
  <2>2. t \in SoundStatement /\ Alike(t, s)
    BY <1>1, <1>3, <2>1, HandedAgent
  <2>3. Edits(body[WalkedIn], ReplaceById(body[WalkedIn], Walked.id, t))
    BY <1>1, <2>1, <2>2, ReplaceByIdEdits
  <2>4. {"newrelic"} \in SUBSET Imported
    BY DEF Imported
  <2> QED
    BY <1>1, <1>4, <2>3, <2>4, ChangeStep
<1> QED
  BY <1>2, <1>3, <1>4 DEF WrapNestedHandleFunction

LEMMA GrpcServerStep ==
  ASSUME IInv, InstrumentGrpcServer
  PROVE  IInv'
<1>1. /\ walk # << >> /\ WalkedIn \in Block
      /\ body[WalkedIn] \in Seq(SoundStatement)
      /\ HasId(body[WalkedIn], Walked.id) /\ Walked \in SoundStatement
      /\ Walked = body[WalkedIn][IndexOfId(body[WalkedIn], Walked.id)]
      /\ AgentVariable \in STRING /\ AgentFromTxn(state) \in StateType
  BY Walks DEF InstrumentGrpcServer
<1>2. CASE Pass
  BY <1>1, <1>2, PassStep
<1>3. CASE ~Pass
  <2>1. PICK s, t : /\ s = Walked
                    /\ t = [s EXCEPT !.opts = @ \o
                              <<NrGrpcUnaryServerInterceptor(AgentVariable),
                                NrGrpcStreamServerInterceptor(AgentVariable)>>]
    OBVIOUS
  <2>2. Modify(ReplaceById(body[WalkedIn], Walked.id, t), AgentFromTxn(state),
               TRUE, {"nrgrpc"})
    BY <1>3, <2>1 DEF InstrumentGrpcServer
  <2>3. t \in SoundStatement /\ Alike(t, s)
    BY <1>1, <2>1, Interceptors, GivenOptions
  <2>4. Edits(body[WalkedIn], ReplaceById(body[WalkedIn], Walked.id, t))
    BY <1>1, <2>1, <2>3, ReplaceByIdEdits
  <2>5. {"nrgrpc"} \in SUBSET Imported
    BY DEF Imported
  <2> QED
    BY <1>1, <2>2, <2>4, <2>5, ChangeStep
<1> QED
  BY <1>2, <1>3

(* The middleware is only made when the target is an identifier.           *)
LEMMA MiddlewareStep ==
  ASSUME IInv, NEW h, Walking(h), NEW isRouter, NEW existing, NEW use, NEW import,
         import \in Imported, isRouter => use \in Generated,
         AddMiddleware(isRouter, existing, use, import)
  PROVE  IInv'
<1>1. /\ walk # << >> /\ WalkedIn \in Block
      /\ body[WalkedIn] \in Seq(SoundStatement)
      /\ HasId(body[WalkedIn], Walked.id)
      /\ AgentFromTxn(state) \in StateType
  BY Walks
<1>2. CASE Pass
  BY <1>1, <1>2, PassStep
<1>3. CASE Panic
  BY <1>3, PanicStep
<1>4. CASE /\ isRouter
           /\ Modify(InsertAfter(body[WalkedIn], Walked.id, use),
                     AgentFromTxn(state), TRUE, {import})
  <2>1. Edits(body[WalkedIn], InsertAfter(body[WalkedIn], Walked.id, use))
    BY <1>1, <1>4, InsertAfterEdits
  <2>2. {import} \in SUBSET Imported
    OBVIOUS
  <2> QED
    BY <1>1, <1>4, <2>1, <2>2, ChangeStep
<1> QED
  BY <1>2, <1>3, <1>4 DEF AddMiddleware

LEMMA RouterNamed ==
  ASSUME NEW s \in SoundStatement, NEW funs, AssignsCall(s, funs)
  PROVE  s.lhs[1] \in STRING
BY SoundParts DEF AssignsCall

LEMMA GinMiddlewareStep ==
  ASSUME IInv, InstrumentGinMiddleware
  PROVE  IInv'
<1>1. Walking(4) /\ Walked \in SoundStatement /\ AgentVariable \in STRING
  BY Walks DEF InstrumentGinMiddleware
<1>2. PICK router, existing, use :
        /\ router = GinMiddlewareCall(Walked)
        /\ existing = (Listed /\ HasExistingGinMiddleware(body[WalkedIn],
                                  IndexOfId(body[WalkedIn], Walked.id)))
        /\ use = NrGinMiddleware(Walked.lhs[1], AgentVariable)
  OBVIOUS
<1>3. router => use \in Generated
  BY <1>1, <1>2, NoneSpelled, RouterNamed, WebStatements DEF GinMiddlewareCall
<1>4. AddMiddleware(router, existing, use, "nrgin") /\ "nrgin" \in Imported
  BY <1>2 DEF InstrumentGinMiddleware, Imported
<1> QED
  BY <1>1, <1>3, <1>4, MiddlewareStep

LEMMA EchoMiddlewareStep ==
  ASSUME IInv, NEW v \in {3, 4}, InstrumentEchoMiddleware(v)
  PROVE  IInv'
<1>1. PICK h : h = IF v = 4 THEN 5 ELSE 6
  OBVIOUS
<1>2. Walking(h) /\ Walked \in SoundStatement /\ AgentVariable \in STRING
  BY <1>1, Walks DEF InstrumentEchoMiddleware
<1>3. PICK router, existing, use, import :
        /\ router = EchoMiddlewareCall(v, Walked)
        /\ existing = HasExistingEchoMiddleware(v, prog.kinds[WalkedIn],
                        body[WalkedIn], IndexOfId(body[WalkedIn], Walked.id))
        /\ use = NrEchoMiddleware(v, Walked.lhs[1], AgentVariable)
        /\ import = IF v = 4 THEN "nrecho4" ELSE "nrecho3"
  OBVIOUS
<1>4. router => use \in Generated
  BY <1>2, <1>3, NoneSpelled, RouterNamed, WebStatements DEF EchoMiddlewareCall
<1>5. AddMiddleware(router, existing, use, import) /\ import \in Imported
  BY <1>3 DEF InstrumentEchoMiddleware, Imported
<1> QED
  BY <1>2, <1>4, <1>5, MiddlewareStep

LEMMA ChiMiddlewareStep ==
  ASSUME IInv, InstrumentChiMiddleware
  PROVE  IInv'
<1>1. Walking(7) /\ Walked \in SoundStatement /\ AgentVariable \in STRING
  BY Walks DEF InstrumentChiMiddleware
<1>2. PICK router, existing, use :
        /\ router = GetChiRouterName(Walked) /\ existing = FALSE
        /\ use = NrChiMiddleware(Walked.lhs[1], AgentVariable)
  BY Zenon
<1>3. router => use \in Generated
  BY <1>1, <1>2, NoneSpelled, RouterNamed, WebStatements DEF GetChiRouterName
<1>4. AddMiddleware(router, existing, use, "nrgochi") /\ "nrgochi" \in Imported
  BY <1>2 DEF InstrumentChiMiddleware, Imported
<1> QED
  BY <1>1, <1>3, <1>4, MiddlewareStep

LEMMA FromContextMade ==
  ASSUME NEW name \in STRING
  PROVE  /\ TxnFromContext(nrTxn, HttpRequestContext(name)) \in Generated
         /\ TxnFromContext(nrTxn, GrpcStreamContext(name)) \in Generated
         /\ TxnFromContext(nrTxn, [Blank EXCEPT !.recv = name]) \in Generated
<1>1. FALSE \in BOOLEAN /\ nrTxn \in STRING
  BY NamesSpelled, Zenon
<1>2. ASSUME NEW context, context.recv = name, context.fun \in STRING
      PROVE  TxnFromContext(nrTxn, context) \in Generated
  BY <1>1, <1>2, TransactionStatements
<1>3. PICK c, d : c = Method(name, "Context", << >>) /\ d = [Blank EXCEPT !.recv = name]
  OBVIOUS
<1>4. "Context" \in STRING
  BY SpelledAssumption DEF Spelled
<1>5. c.recv = name /\ c.fun \in STRING
  BY <1>3, <1>4, BlankTyped DEF Method, Call, Statement
<1>6. d.recv = name /\ d.fun \in STRING
  BY <1>3, BlankTyped DEF Statement
<1>7. TxnFromContext(nrTxn, c) \in Generated /\ TxnFromContext(nrTxn, d) \in Generated
  BY <1>2, <1>5, <1>6
<1> QED
  BY <1>3, <1>7 DEF HttpRequestContext, GrpcStreamContext

LEMMA ChiRouterLiteralStep ==
  ASSUME IInv, InstrumentChiRouterLiteral
  PROVE  IInv'
<1>1. /\ walk # << >> /\ prog \in Progs /\ Walked \in SoundStatement
      /\ TxnUsed(state) \in StateType /\ imports \subseteq Imported
      /\ GoodText(prog, body) /\ body \in [Block -> Seq(SoundStatement)]
  BY Walks DEF InstrumentChiRouterLiteral, IInv, TypeOK
<1>2. CASE Pass
  BY <1>1, <1>2, PassStep
<1>3. CASE ~Pass
  <2>1. PICK lit, request :
          /\ lit = Walked.inner
          /\ request = IF GetChiHTTPMethod(Walked)
                            /\ GetChiHTTPHandlerRouteName(Walked, prog.kinds)
                       THEN GetHTTPRequestArgName(prog.params[lit]) ELSE None
    OBVIOUS
  <2>2. PICK txn : txn = TxnFromContext(nrTxn, HttpRequestContext(request))
    OBVIOUS
  <2>3. /\ request # None
        /\ body' = [body EXCEPT ![lit] = PrependStatement(WithSegment(@), txn)]
        /\ state' = TxnUsed(state) /\ changed' = TRUE
        /\ NextHook /\ UNCHANGED <<imports, crashed>>
    BY <1>3, <2>1, <2>2 DEF InstrumentChiRouterLiteral
  <2>4. lit \in Block
    BY <1>1, <2>1, <2>3, SoundParts DEF GetChiHTTPHandlerRouteName
  <2>5. request \in STRING
    <3>1. prog.params[lit] \in Seq(Param)
      BY <1>1, <2>4, ProgFacts
    <3> QED
      BY <2>1, <3>1, ParamNamed, NoneSpelled
  <2>6. txn \in Generated
    BY <2>2, <2>5, FromContextMade
  <2>7. PICK list, new : list = WithSegment(body[lit]) /\ new = PrependStatement(list, txn)
    OBVIOUS
  <2>8. body[lit] \in Seq(SoundStatement)
    BY <1>1, <2>4
  <2>9. Edits(body[lit], list) /\ list \in Seq(SoundStatement)
    BY <2>7, <2>8, NoneSpelled, HandlerEdits DEF Edits
  <2>10. Edits(list, new)
    BY <2>6, <2>7, <2>9, PrependEdits
  <2>11. Edits(body[lit], new)
    BY <2>8, <2>9, <2>10, EditsTrans
  <2>12. GoodText(prog, [body EXCEPT ![lit] = new])
    BY <1>1, <2>4, <2>11, BlockEdited
  <2>13. body' = [body EXCEPT ![lit] = new]
    BY <2>3, <2>7
  <2>14. changed' \in BOOLEAN
    BY <2>3, Zenon
  <2> QED
    BY <1>1, <2>3, <2>12, <2>13, <2>14, HookStep
<1> QED
  BY <1>2, <1>3

(* A call of Do that is found has a request, and what it is assigned to a  *)
(* name.                                                                   *)
LEMMA DoFound ==
  ASSUME IInv, NEW h, Walking(h), NEW call,
         call = LastHttp(Inspected(body, prog.kinds, Walked), {"Do"}), call # Blank
  PROVE  call.args[1] \in STRING /\ GetHttpResponseVariable(call) \in STRING
<1>1. PICK list : list = Inspected(body, prog.kinds, Walked)
  OBVIOUS
<1>2. list \in Seq(SoundStatement)
  <2>1. /\ Walked \in SoundStatement /\ <<Walked>> \in Seq(SoundStatement)
        /\ body \in [Block -> Seq(SoundStatement)]
    BY Walks, ShortLists DEF IInv, TypeOK
  <2>2. CASE Walked.inner # NoBlock
    <3>1. body[Walked.inner] \in Seq(SoundStatement)
      BY <2>1, <2>2, SoundParts
    <3>2. <<Walked>> \o body[Walked.inner] \in Seq(SoundStatement)
      BY <2>1, <3>1, ConcatProperties
    <3> QED
      BY <1>1, <2>1, <3>2 DEF Inspected
  <2>3. CASE Walked.inner = NoBlock
    BY <1>1, <2>1, <2>3 DEF Inspected
  <2> QED
    BY <2>2, <2>3
<1> DEFINE M == {i \in DOMAIN list : GetNetHttpMethod(list[i]) \in {"Do"}}
<1>3. /\ DOMAIN list = 1 .. Len(list) /\ Len(list) \in Nat
      /\ \A i \in DOMAIN list : list[i] \in SoundStatement
  BY <1>2
<1>4. M # {}
  BY <1>1 DEF LastHttp
<1>5. PICK n : n = Len(list) /\ n \in Nat
  BY <1>3
<1>6. M \subseteq 1 .. n
  BY <1>3, <1>5
<1>7. \E i \in M : \A j \in M : j <= i
  BY <1>4, <1>5, <1>6, HasGreatest
<1>8. PICK i : i = CHOOSE k \in M : \A j \in M : j <= k
  OBVIOUS
<1>9. i \in M /\ call = list[i]
  BY <1>1, <1>4, <1>7, <1>8 DEF LastHttp
<1>10. call \in SoundStatement /\ GetNetHttpMethod(call) = "Do"
  BY <1>3, <1>9
<1>11. call.args # << >> /\ call.args \in Seq(STRING)
  BY <1>10, SoundParts DEF SoundStatement
<1>12. call.args[1] \in STRING
  <2>1. PICK T : T = STRING
    OBVIOUS
  <2>2. call.args \in Seq(T) /\ call.args # << >>
    BY <1>11, <2>1
  <2>3. call.args[1] \in T
    BY <2>2
  <2> QED
    BY <2>1, <2>3
<1>13. GetHttpResponseVariable(call) \in STRING
  BY <1>10, SoundParts, NoneSpelled DEF GetHttpResponseVariable
<1> QED
  BY <1>12, <1>13

LEMMA ExternalHttpCallStep ==
  ASSUME IInv, ExternalHttpCall
  PROVE  IInv'
<1>1. /\ walk # << >> /\ WalkedIn \in Block /\ Walking(1)
      /\ body[WalkedIn] \in Seq(SoundStatement)
      /\ HasId(body[WalkedIn], Walked.id)
      /\ TxnUsed(state) \in StateType
  BY Walks DEF ExternalHttpCall
<1>2. CASE Pass
  BY <1>1, <1>2, PassStep
<1>3. CASE ~Pass
  <2>1. PICK call, id, list, segment :
          /\ call = LastHttp(Inspected(body, prog.kinds, Walked), {"Do"})
          /\ id = Walked.id /\ list = body[WalkedIn] /\ segment = "externalSegment"
    OBVIOUS
  <2>2. PICK start, end, response, wrap, capture :
          /\ start = StartExternalSegment(call.args[1], nrTxn, segment)
          /\ end = EndExternalSegment(segment)
          /\ response = GetHttpResponseVariable(call)
          /\ wrap = WrapRequestContext(call.args[1], nrTxn)
          /\ capture = CaptureHttpResponse(segment, response)
    OBVIOUS
  <2>3. PICK opened, closed, captured, wrapped :
          /\ opened = InsertBefore(list, id, start)
          /\ closed = InsertAfter(opened, id, end)
          /\ captured = InsertAfter(closed, id, capture)
          /\ wrapped = InsertBefore(list, id, wrap)
    OBVIOUS
  <2>4. /\ call # Blank
        /\ \/ Modify(IF response = None THEN closed ELSE captured,
                     TxnUsed(state), TRUE, {"newrelic"})
           \/ Modify(wrapped, TxnUsed(state), TRUE, {"newrelic"})
    BY <1>3, <2>1, <2>2, <2>3 DEF ExternalHttpCall
  <2>5. call.args[1] \in STRING /\ response \in STRING
    BY <1>1, <2>1, <2>2, <2>4, DoFound
  <2>6. segment \in STRING
    BY <2>1, SpelledAssumption DEF Spelled
  <2>7. /\ start \in Generated /\ end \in Generated /\ wrap \in Generated
        /\ capture \in Generated
    BY <2>2, <2>5, <2>6, NamesSpelled, HttpStatements
  <2>8. list \in Seq(SoundStatement) /\ HasId(list, id)
    BY <1>1, <2>1
  <2>9. Edits(list, wrapped) /\ Edits(list, opened)
    BY <2>3, <2>7, <2>8, InsertBeforeEdits
  <2>10. opened \in Seq(SoundStatement) /\ HasId(opened, id)
    BY <2>8, <2>9, EditsHas
  <2>11. Edits(opened, closed)
    BY <2>3, <2>7, <2>10, InsertAfterEdits
  <2>12. closed \in Seq(SoundStatement) /\ HasId(closed, id)
    BY <2>10, <2>11, EditsHas
  <2>13. Edits(closed, captured)
    BY <2>3, <2>7, <2>12, InsertAfterEdits
  <2>14. Edits(list, closed) /\ Edits(list, captured)
    BY <2>8, <2>9, <2>11, <2>13, EditsTrans
  <2>15. {"newrelic"} \in SUBSET Imported
    BY DEF Imported
  <2>16. PICK new : /\ Modify(new, TxnUsed(state), TRUE, {"newrelic"})
                    /\ new \in {closed, captured, wrapped}
    BY <2>4
  <2>17. Edits(body[WalkedIn], new)
    BY <2>1, <2>9, <2>14, <2>16
  <2> QED
    BY <1>1, <2>15, <2>16, <2>17, ChangeStep
<1> QED
  BY <1>2, <1>3

LEMMA CallsHanded ==
  ASSUME IInv, NEW ids
  PROVE  /\ GoodText(prog, AddToCalls(body, ids))
         /\ \A b \in Block : Edits(body[b], AddToCalls(body, ids)[b])
<1>1. prog \in Progs /\ GoodText(prog, body) /\ body \in [Block -> Seq(SoundStatement)]
  BY DEF IInv, TypeOK
<1>2. PICK given : given = AddToCalls(body, ids)
  OBVIOUS
<1>3. /\ given = [b \in Block |-> given[b]]
      /\ \A b \in Block : given[b] = [i \in DOMAIN body[b] |->
           IF body[b][i].id \in ids THEN AddToCall(body[b][i]) ELSE body[b][i]]
  BY <1>2 DEF AddToCalls
<1>4. ASSUME NEW b \in Block PROVE Edits(body[b], given[b])
  <2>1. PICK list, new : list = body[b] /\ new = given[b]
    OBVIOUS
  <2>2. list \in Seq(SoundStatement)
    BY <1>1, <2>1
  <2>3. new = [i \in DOMAIN list |->
                 IF list[i].id \in ids THEN AddToCall(list[i]) ELSE list[i]]
    BY <1>3, <2>1
  <2>4. ASSUME NEW i \in DOMAIN list
        PROVE  new[i] \in SoundStatement /\ Alike(new[i], list[i])
    <3>1. PICK s : s = list[i]
      OBVIOUS
    <3>2. s \in SoundStatement
      BY <2>2, <3>1
    <3>3. AddToCall(s) \in SoundStatement /\ Alike(AddToCall(s), s) /\ Alike(s, s)
      BY <3>2, HandedTransaction DEF Alike
    <3>4. new[i] = s \/ new[i] = AddToCall(s)
      BY <2>3, <3>1
    <3> QED
      BY <3>1, <3>2, <3>3, <3>4
  <2>5. new = [i \in DOMAIN list |-> new[i]]
    BY <2>3
  <2> QED
    BY <2>1, <2>2, <2>4, <2>5, MapEdits
<1>5. GoodText(prog, given)
  BY <1>1, <1>3, <1>4, TextEdited
<1> QED
  BY <1>2, <1>4, <1>5

LEMMA TransactionWrapped ==
  ASSUME IInv, NEW list \in Seq(SoundStatement), HasId(list, Walked.id)
  PROVE  Edits(list, WrapWithTransaction(list))
<1>1. state \in StateType
  BY DEF IInv, TypeOK
<1>2. state.agent \in STRING /\ state.defined \in BOOLEAN
  BY <1>1, Zenon DEF StateType
<1>3. PICK id, start, end, ended :
        /\ id = Walked.id /\ start = StartTransaction(state.agent, nrTxn, state.defined)
        /\ end = EndTransaction(nrTxn) /\ ended = InsertAfter(list, id, end)
  OBVIOUS
<1>4. start \in Generated /\ end \in Generated
  <2>1. PICK context : context.recv \in STRING /\ context.fun \in STRING
    BY NoneSpelled, BlankTyped DEF Statement
  <2> QED
    BY <1>2, <1>3, <2>1, NamesSpelled, TransactionStatements
<1>5. Edits(list, ended)
  BY <1>3, <1>4, InsertAfterEdits
<1>6. ended \in Seq(SoundStatement) /\ HasId(ended, id)
  BY <1>3, <1>5, EditsHas
<1>7. Edits(ended, InsertBefore(ended, id, start))
  BY <1>4, <1>6, InsertBeforeEdits
<1>8. Edits(list, InsertBefore(ended, id, start))
  BY <1>5, <1>7, EditsTrans
<1> QED
  BY <1>3, <1>8 DEF WrapWithTransaction

LEMMA TraceCallsStep ==
  ASSUME IInv, TraceCalls
  PROVE  IInv'
<1>1. /\ walk # << >> /\ WalkedIn \in Block /\ prog \in Progs
      /\ HasId(body[WalkedIn], Walked.id)
      /\ body[WalkedIn] \in Seq(SoundStatement)
      /\ state \in StateType /\ imports \subseteq Imported
  BY Walks DEF TraceCalls
<1>2. CASE Pass
  BY <1>1, <1>2, PassStep
<1>3. CASE ~Pass
  <2>1. PICK given : given = AddToCalls(body, {s.id : s \in CalledHere})
    OBVIOUS
  <2>2. /\ body' = IF Wraps THEN [given EXCEPT ![WalkedIn] = WrapWithTransaction(@)]
                            ELSE given
        /\ imports' = imports \cup {"newrelic"}
        /\ NextHook /\ UNCHANGED crashed
    BY <1>3, <2>1 DEF TraceCalls
  <2>3. state' \in StateType
    <3>1. state' = [state EXCEPT !.defined = @ \/ Wraps,
                       !.used = @ \/ \E s \in CalledHere : ~HandsOn(s)]
      BY <1>3 DEF TraceCalls
    <3> QED
      BY <1>1, <3>1, Zenon DEF StateType
  <2>4. changed' \in BOOLEAN
    <3>1. changed' = TRUE
      BY <1>3 DEF TraceCalls
    <3> QED
      BY <3>1, Zenon
  <2>5. GoodText(prog, given) /\ Edits(body[WalkedIn], given[WalkedIn])
    BY <1>1, <2>1, CallsHanded
  <2>6. given[WalkedIn] \in Seq(SoundStatement) /\ HasId(given[WalkedIn], Walked.id)
    BY <1>1, <2>5, EditsHas
  <2>7. PICK new : new = WrapWithTransaction(given[WalkedIn])
    OBVIOUS
  <2>8. Edits(given[WalkedIn], new)
    BY <2>6, <2>7, TransactionWrapped
  <2>9. GoodText(prog, [given EXCEPT ![WalkedIn] = new])
    BY <1>1, <2>5, <2>8, BlockEdited
  <2>10. body' = given \/ body' = [given EXCEPT ![WalkedIn] = new]
    BY <2>2, <2>7
  <2>11. GoodText(prog, body')
    BY <2>5, <2>9, <2>10
  <2>12. imports' \subseteq Imported
    BY <1>1, <2>2 DEF Imported
  <2> QED
    BY <1>1, <2>2, <2>3, <2>4, <2>11, <2>12, HookStep
<1> QED
  BY <1>2, <1>3

LEMMA TransactionAssigned ==
  ASSUME IInv, NEW list \in Seq(SoundStatement)
  PROVE  Edits(list, TxnAssignment(AssignTransactionVariable(list)))
<1>1. /\ prog \in Progs /\ state \in StateType
      /\ prog.params[Decl] \in Seq(Param)
  BY ProgFacts, BlockAssumption DEF IInv, TypeOK
<1>2. ASSUME NEW l \in Seq(SoundStatement) PROVE Edits(l, AssignTransactionVariable(l))
  <2>1. state.owner \in STRING
    BY <1>1, Zenon DEF StateType
  <2>2. TxnFromContext(nrTxn, [Blank EXCEPT !.recv = state.owner]) \in Generated
    BY <2>1, FromContextMade
  <2>3. PICK s : s = TxnFromContext(nrTxn, [Blank EXCEPT !.recv = state.owner])
    OBVIOUS
  <2>4. Edits(l, PrependStatement(l, s)) /\ Edits(l, l)
    BY <2>2, <2>3, PrependEdits, EditsSelf
  <2>5. \/ AssignTransactionVariable(l) = l
        \/ AssignTransactionVariable(l) = PrependStatement(l, s)
    BY <2>3 DEF AssignTransactionVariable
  <2> QED
    BY <2>4, <2>5
<1>3. ASSUME NEW l \in Seq(SoundStatement) PROVE Edits(l, TxnAssignment(l))
  <2>1. PICK request, ctx, owner :
          /\ request = GetHTTPRequestArgNameDecl(prog.params[Decl])
          /\ ctx = GetGinContextFromHandler(prog.params[Decl])
          /\ owner = GetTxnFromGrpcServer(prog.params[Decl]).owner
    OBVIOUS
  <2>2. request \in STRING /\ ctx \in STRING /\ owner \in STRING
    <3>1. /\ LastOf(prog.params[Decl], "stream") \in STRING
          /\ LastOf(prog.params[Decl], "context") \in STRING
          /\ OnlyParam(prog.params[Decl], "gin") \in STRING
          /\ request \in STRING
      BY <1>1, <2>1, ParamNamed
    <3> QED
      BY <2>1, <3>1, NoneSpelled DEF GetTxnFromGrpcServer, GetGinContextFromHandler
  <2>3. PICK a, b : /\ a = TxnFromContext(nrTxn, HttpRequestContext(request))
                    /\ b = TxnFromContext(nrTxn, GrpcStreamContext(owner))
    OBVIOUS
  <2>4. a \in Generated /\ b \in Generated
    BY <2>2, <2>3, FromContextMade
  <2>5. /\ Edits(l, l) /\ Edits(l, PrependStatement(l, a))
        /\ Edits(l, PrependStatement(l, b)) /\ Edits(l, DefineTxnFromGinCtx(l, ctx))
    BY <2>2, <2>4, EditsSelf, PrependEdits, NoneSpelled, HandlerEdits
  <2>6. \/ DefineTxnFromCtx(l, prog.params[Decl]) = l
        \/ DefineTxnFromCtx(l, prog.params[Decl]) = PrependStatement(l, a)
    BY <2>1, <2>3 DEF DefineTxnFromCtx, nrTxn
  <2>7. \/ TxnAssignment(l) = l
        \/ TxnAssignment(l) = DefineTxnFromCtx(l, prog.params[Decl])
        \/ TxnAssignment(l) = DefineTxnFromGinCtx(l, ctx)
        \/ TxnAssignment(l) = PrependStatement(l, b)
    BY <2>1, <2>3 DEF TxnAssignment
  <2> QED
    BY <2>5, <2>6, <2>7
<1>4. PICK l : l = AssignTransactionVariable(list)
  OBVIOUS
<1>5. Edits(list, l) /\ l \in Seq(SoundStatement)
  BY <1>2, <1>4 DEF Edits
<1>6. Edits(l, TxnAssignment(l))
  BY <1>3, <1>5
<1> QED
  BY <1>4, <1>5, <1>6, EditsTrans

LEMMA EndTraceStep ==
  ASSUME IInv, EndTrace
  PROVE  IInv'
<1>1. /\ tracing # "none" /\ visit # << >> /\ prog \in Progs /\ Decl \in Block
      /\ GoodText(prog, body) /\ body[Decl] \in Seq(SoundStatement)
  BY BlockAssumption DEF EndTrace, IInv, TypeOK
<1>2. PICK list : list = TxnAssignment(AssignTransactionVariable(body[Decl]))
  OBVIOUS
<1>3. /\ body' = [body EXCEPT ![Decl] = list]
      /\ tracing' = "none" /\ walk' = << >> /\ hook' = 0 /\ state' = Idle
      /\ NextFunction /\ UNCHANGED <<agentVariable, setup, imports, crashed>>
  BY <1>2 DEF EndTrace, manager
<1>4. changed' \in BOOLEAN
  BY Zenon DEF EndTrace
<1>5. /\ prog' = prog /\ prog' \in Progs
      /\ visit' \in Seq(NodesIn(prog.body)) /\ visit' \in Seq(NodeType)
      /\ step' \in DOMAIN Stateless
  BY <1>1, <1>3, FunctionDone
<1>6. Edits(body[Decl], list)
  BY <1>1, <1>2, TransactionAssigned
<1>7. GoodText(prog', body') /\ body' \in [Block -> Seq(SoundStatement)]
  <2>1. GoodText(prog, [body EXCEPT ![Decl] = list])
    BY <1>1, <1>6, BlockEdited
  <2> QED
    BY <1>3, <1>5, <2>1 DEF GoodText
<1>8. /\ walk' \in Seq(WalkNodes(prog'.body)) /\ walk' \in Seq(NodeType)
      /\ hook' \in 0 .. LastHook /\ state' \in StateType
  <2>1. 0 \in 0 .. LastHook
    BY DEF LastHook
  <2> QED
    BY <1>3, <2>1, IdleTyped
<1>9. TypeOK'
  BY <1>3, <1>4, <1>5, <1>7, <1>8 DEF IInv, TypeOK
<1> QED
  BY <1>3, <1>5, <1>7, <1>8, <1>9 DEF IInv

-----------------------------------------------------------------------------
(* The theorems.                                                           *)

LEMMA StutterInv ==
  ASSUME IInv, UNCHANGED vars
  PROVE  IInv'
<1>1. UNCHANGED <<prog, visit, step, body, tracing, walk, hook, state, changed,
                  agentVariable, setup, imports, crashed>>
  BY DEF vars, outer, trace, manager
<1>2. TypeOK'
  BY <1>1 DEF IInv, TypeOK
<1> QED
  BY <1>1, <1>2 DEF IInv, GoodText

LEMMA NextInv ==
  ASSUME IInv, [Next]_vars
  PROVE  IInv'
<1>1. CASE InstrumentMain
  BY <1>1, MainStep
<1>2. CASE InstrumentHandleFunction
  BY <1>2, HandleFunctionStep
<1>3. CASE InstrumentHttpClient
  BY <1>3, HttpClientStep
<1>4. CASE InstrumentGrpcDial
  BY <1>4, GrpcDialStep
<1>5. CASE InstrumentGinFunction
  BY <1>5, GinFunctionStep
<1>6. CASE \E v \in {3, 4} : InstrumentEchoFunction(v)
  BY <1>6, EchoFunctionStep
<1>7. CASE InstrumentGrpcServerMethod
  BY <1>7, GrpcServerMethodStep
<1>8. CASE InstrumentSlogHandler
  BY <1>8, SlogHandlerStep
<1>9. CASE InstrumentLogrusHandler
  BY <1>9, LogrusHandlerStep
<1>10. CASE InstrumentPQHandler
  BY <1>10, PQHandlerStep
<1>11. CASE InstrumentPgxHandler
  BY <1>11, PgxHandlerStep
<1>12. CASE TraceCalls
  BY <1>12, TraceCallsStep
<1>13. CASE ExternalHttpCall
  BY <1>13, ExternalHttpCallStep
<1>14. CASE WrapNestedHandleFunction
  BY <1>14, NestedHandleStep
<1>15. CASE InstrumentGrpcServer
  BY <1>15, GrpcServerStep
<1>16. CASE InstrumentGinMiddleware
  BY <1>16, GinMiddlewareStep
<1>17. CASE \E v \in {3, 4} : InstrumentEchoMiddleware(v)
  BY <1>17, EchoMiddlewareStep
<1>18. CASE InstrumentChiMiddleware
  BY <1>18, ChiMiddlewareStep
<1>19. CASE InstrumentChiRouterLiteral
  BY <1>19, ChiRouterLiteralStep
<1>20. CASE EndTrace
  BY <1>20, EndTraceStep
<1>21. CASE Done
  BY <1>21, StutterInv DEF Done
<1>22. CASE UNCHANGED vars
  BY <1>22, StutterInv
<1> QED
  BY <1>1, <1>2, <1>3, <1>4, <1>5, <1>6, <1>7, <1>8, <1>9, <1>10, <1>11, <1>12,
     <1>13, <1>14, <1>15, <1>16, <1>17, <1>18, <1>19, <1>20, <1>21, <1>22 DEF Next

(* IInv is inductive: after every function of every integration the text   *)
(* has its types and keeps the user's, and the nodes instrumentPackages    *)
(* and TraceFunction still hold are statements that are there.             *)
THEOREM DeclarationInvariant == Spec => []IInv
<1>1. Init => IInv
  BY InitInv
<1>2. IInv /\ [Next]_vars => IInv'
  BY NextInv
<1> QED
  BY <1>1, <1>2, PTL DEF Spec

(* Every statement in the text is one the parser lets through, and every   *)
(* node, state and table has its type, whichever integrations ran.         *)
THEOREM DeclarationTypes == Spec => []TypeOK
<1>1. IInv => TypeOK
  BY DEF IInv
<1> QED
  BY <1>1, DeclarationInvariant, PTL

(* No statement of the user is lost, duplicated or moved by the edits of   *)
(* the integrations, in whatever order they meet in a block, and each      *)
(* binds what it bound; a replaced connection calls its error err.         *)
THEOREM DeclarationKeepsUserCode == Spec => []UserCodeKept
<1>1. IInv => UserCodeKept
  BY DEF IInv, GoodText, Kept, UserCodeKept
<1> QED
  BY <1>1, DeclarationInvariant, PTL

=============================================================================
