---------------------------- MODULE NativeUpProofs ---------------------------
(***************************************************************************)
(* What the native provider promises, for any Launchfiles, requests and    *)
(* edits and any number of ups: what runs is on record, what was generated *)
(* stays, what is on a server is on record, a prepare that is skipped has  *)
(* nothing to do, a url that was handed out opens its server, `env`        *)
(* reports what the running app has, and one `up` wires no two uses of     *)
(* redis to one database.                                                  *)
(*                                                                         *)
(* Every step is first put under one of eight kinds (Kinds), each of which *)
(* says what a step of it does to what is on record; each invariant is     *)
(* then followed through the kinds, and through the few actions among them *)
(* that matter to it.  The invariants build on each other: Shapes,         *)
(* IDeclared, IOnRecord, IStanding, IRolesOpen; IEnv and IWired on         *)
(* IDeclared.                                                              *)
(***************************************************************************)
EXTENDS NativeUp, Integers, FiniteSetTheorems, WellFoundedInduction, TLAPS

\* Every set of naturals that has an element has a least one.
LEMMA Least ==
  ASSUME NEW T \in SUBSET Nat, T # {}
  PROVE \E x \in T : \A y \in T : x <= y
<1>1. PICK m \in T : \A k \in T : <<k, m>> \notin OpToRel(<, Nat)
  BY WFMin, NatLessThanWellFounded, Zenon
<1>2. \A k \in T : ~ (k < m)
  <2> SUFFICES ASSUME NEW k \in T PROVE ~(k < m) OBVIOUS
  <2>1. <<k,m>> \in Nat \X Nat /\ <<k,m>>[1] = k /\ <<k,m>>[2] = m OBVIOUS
  <2>2. k < m => <<k,m>> \in OpToRel(<, Nat) BY <2>1, Zenon DEF OpToRel
  <2> QED BY <2>2, <1>1
<1>. QED BY <1>2

\* Induction over a set: the provers cannot instantiate an operator.
LEMMA Induction ==
  ASSUME NEW S, 0 \in S, \A n \in Nat : n \in S => n + 1 \in S
  PROVE Nat \subseteq S
<1> SUFFICES ASSUME Nat \ S # {} PROVE FALSE OBVIOUS
<1>1. PICK m \in Nat \ S : \A k \in Nat \ S : m <= k BY Least
<1>2. m - 1 \in S /\ m - 1 \in Nat BY <1>1
<1> QED BY <1>1, <1>2

\* What is kept of a sequence, element by element: a sequence of what was asked for.
Keeping(c, E, s, set) ==
  /\ Among(s, set) = c[Len(s)] /\ c[0] = <<>>
  /\ \A i \in 0..Len(s) : c[i] \in Seq(E \cap set)
  /\ \A i \in 1..Len(s) : c[i] = IF s[i] \in set THEN Append(c[i - 1], s[i]) ELSE c[i - 1]

LEMMA AmongSteps ==
  ASSUME NEW E, NEW s \in Seq(E), NEW set
  PROVE  \E c : Keeping(c, E, s, set)
<1> DEFINE F == E \cap set
           K(g, n) == /\ g \in [0..n -> Seq(F)] /\ g[0] = <<>>
                      /\ \A i \in 1..n : g[i] = IF s[i] \in set THEN Append(g[i - 1], s[i]) ELSE g[i - 1]
           S == {n \in Nat : n <= Len(s) => \E g : K(g, n)}
<1>0. Len(s) \in Nat OBVIOUS
<1>1. 0 \in S
  <2>1. K([i \in 0..0 |-> <<>>], 0) OBVIOUS
  <2> QED BY <2>1
<1>2. ASSUME NEW n \in Nat, n \in S, n + 1 <= Len(s) PROVE \E g : K(g, n + 1)
  <2>1. PICK g : K(g, n)
    <3> HIDE DEF K
    <3> QED BY <1>2, <1>0
  <2> DEFINE h == [i \in 0..(n + 1) |->
                     IF i = n + 1 THEN (IF s[i] \in set THEN Append(g[n], s[i]) ELSE g[n]) ELSE g[i]]
  <2>2. s[n + 1] \in E BY <1>2
  <2>3. g[n] \in Seq(F) BY <2>1
  <2>4. s[n + 1] \in set => Append(g[n], s[n + 1]) \in Seq(F) BY <2>2, <2>3
  <2>5. h \in [0..(n + 1) -> Seq(F)] BY <2>1, <2>3, <2>4
  <2>6. h[0] = <<>> BY <2>1
  <2>7. ASSUME NEW i \in 1..(n + 1)
        PROVE h[i] = IF s[i] \in set THEN Append(h[i - 1], s[i]) ELSE h[i - 1]
    <3>1. CASE i = n + 1 BY <3>1, <2>1
    <3>2. CASE i # n + 1 
      <4>1. i \in 1..n /\ i - 1 \in 0..n BY <3>2
      <4>2. h[i] = g[i] /\ h[i - 1] = g[i - 1] BY <4>1
      <4> QED BY <4>1, <4>2, <2>1
    <3> QED BY <3>1, <3>2
  <2> HIDE DEF h
  <2>8. K(h, n + 1) BY <2>5, <2>6, <2>7
  <2> QED BY <2>8
<1>3. \A n \in Nat : n \in S => n + 1 \in S
  <2> HIDE DEF K
  <2> QED BY <1>2
<1>4. Nat \subseteq S
  <2> HIDE DEF S
  <2> QED BY <1>1, <1>3, Induction
<1>5. PICK g : K(g, Len(s))
  <2> HIDE DEF K
  <2> QED BY <1>4, <1>0
<1> DEFINE Is(f) == f = [i \in 0..Len(s) |->
        IF i = 0 THEN <<>>
          ELSE IF s[i] \in set THEN Append(f[i - 1], s[i]) ELSE f[i - 1]]
<1>6. Is(g)
  <2>1. \A i \in 0..Len(s) : i # 0 => i \in 1..Len(s) BY <1>0
  <2>2. \A i \in 0..Len(s) : g[i] = IF i = 0 THEN <<>>
          ELSE IF s[i] \in set THEN Append(g[i - 1], s[i]) ELSE g[i - 1]
    BY <2>1, <1>5
  <2>3. g = [i \in 0..Len(s) |-> g[i]] BY <1>5
  <2> QED BY <2>2, <2>3
<1> DEFINE c == CHOOSE f : Is(f)
<1>7. Is(c) BY <1>6
<1>8. Among(s, set) = c[Len(s)] BY DEF Among
<1> HIDE DEF c
<1>12. \A i \in 0..Len(s) : c[i] = IF i = 0 THEN <<>>
          ELSE IF s[i] \in set THEN Append(c[i - 1], s[i]) ELSE c[i - 1]
  BY <1>7
<1> DEFINE T == {n \in Nat : n <= Len(s) => c[n] \in Seq(F)}
<1>13. c[0] = <<>> /\ <<>> \in Seq(F) BY <1>12, <1>0
<1>9. 0 \in T BY <1>13
<1>10. ASSUME NEW n \in Nat, n \in T PROVE n + 1 \in T
  <2> SUFFICES ASSUME n + 1 <= Len(s) PROVE c[n + 1] \in Seq(F) OBVIOUS
  <2>1. c[n] \in Seq(F) BY <1>10, <1>0
  <2>2. s[n + 1] \in E OBVIOUS
  <2>3. n + 1 \in 0..Len(s) /\ n + 1 # 0 /\ n + 1 - 1 = n BY <1>0
  <2>4. c[n + 1] = IF s[n + 1] \in set THEN Append(c[n + 1 - 1], s[n + 1]) ELSE c[n + 1 - 1]
    BY <1>12, <2>3
  <2> QED BY <2>1, <2>2, <2>3, <2>4
<1>11. Nat \subseteq T
  <2> HIDE DEF T
  <2> QED BY <1>9, <1>10, Induction
<1>14. \A i \in 0..Len(s) : c[i] \in Seq(F)
  <2> SUFFICES ASSUME NEW i \in 0..Len(s) PROVE c[i] \in Seq(F) OBVIOUS
  <2>1. i \in T BY <1>11, <1>0
  <2> QED BY <2>1, <1>0
<1>15. \A i \in 1..Len(s) : c[i] = IF s[i] \in set THEN Append(c[i - 1], s[i]) ELSE c[i - 1]
  <2>1. \A i \in 1..Len(s) : i \in 0..Len(s) /\ i # 0 BY <1>0
  <2> HIDE DEF F
  <2> QED BY <2>1, <1>12
<1> HIDE DEF T
<1>16. Keeping(c, E, s, set)
  <2> HIDE DEF F
  <2> QED BY <1>8, <1>13, <1>14, <1>15 DEF Keeping, F
<1> QED BY <1>16

LEMMA AmongIn ==
  ASSUME NEW E, NEW s \in Seq(E), NEW set
  PROVE  Among(s, set) \in Seq(E \cap set)
<1>1. Len(s) \in 0..Len(s) OBVIOUS
<1>2. PICK c : Keeping(c, E, s, set) BY AmongSteps
<1> QED BY <1>1, <1>2 DEF Keeping

\* All of it, if all of it is asked for,
LEMMA AmongAll ==
  ASSUME NEW E, NEW s \in Seq(E), NEW set, E \subseteq set
  PROVE  Among(s, set) = s
<1>0. Len(s) \in Nat OBVIOUS
<1>1. PICK c : Keeping(c, E, s, set) BY AmongSteps
<1>7. \A n \in Nat : n + 1 \in 1..Len(s) =>
        c[n + 1] = IF s[n + 1] \in set THEN Append(c[n], s[n + 1]) ELSE c[n]
  <2> SUFFICES ASSUME NEW n \in Nat, n + 1 \in 1..Len(s)
               PROVE  c[n + 1] = IF s[n + 1] \in set THEN Append(c[n], s[n + 1]) ELSE c[n]
    OBVIOUS
  <2>1. n + 1 - 1 = n OBVIOUS
  <2> QED BY <1>1, <2>1 DEF Keeping
<1> DEFINE T == {n \in Nat : n <= Len(s) => c[n] = SubSeq(s, 1, n)}
<1>2. 0 \in T BY <1>1 DEF Keeping
<1>3. ASSUME NEW n \in Nat, n \in T PROVE n + 1 \in T
  <2> SUFFICES ASSUME n + 1 <= Len(s) PROVE c[n + 1] = SubSeq(s, 1, n + 1) OBVIOUS
  <2>1. c[n] = SubSeq(s, 1, n) BY <1>3, <1>0
  <2>2. n + 1 \in 1..Len(s) /\ n + 1 - 1 = n /\ s[n + 1] \in set BY <1>0
  <2>5. c[n + 1] = IF s[n + 1] \in set THEN Append(c[n], s[n + 1]) ELSE c[n]
    BY <1>7, <2>2
  <2>3. c[n + 1] = Append(c[n], s[n + 1]) BY <2>2, <2>5
  <2>4. Append(SubSeq(s, 1, n), s[n + 1]) = SubSeq(s, 1, n + 1) BY <1>0
  <2> QED BY <2>1, <2>3, <2>4
<1>4. Nat \subseteq T
  <2> HIDE DEF T
  <2> QED BY <1>2, <1>3, Induction
<1>5. c[Len(s)] = SubSeq(s, 1, Len(s)) BY <1>4, <1>0
<1>6. SubSeq(s, 1, Len(s)) = s OBVIOUS
<1> QED BY <1>1, <1>5, <1>6 DEF Keeping

\* and every element that is asked for.
LEMMA AmongHas ==
  ASSUME NEW E, NEW s \in Seq(E), NEW set, NEW x \in ToSet(s) \cap set
  PROVE  x \in ToSet(Among(s, set))
<1>0. Len(s) \in Nat OBVIOUS
<1>1. PICK c : Keeping(c, E, s, set) BY AmongSteps
<1>2. PICK k \in 1..Len(s) : s[k] = x BY DEF ToSet
<1> DEFINE Having(q) == \E j \in 1..Len(q) : q[j] = x
           T == {n \in Nat : n <= Len(s) /\ k <= n => Having(c[n])}
<1>3. 0 \in T OBVIOUS
<1>4. ASSUME NEW n \in Nat, n \in T PROVE n + 1 \in T
  <2> SUFFICES ASSUME n + 1 <= Len(s), k <= n + 1 PROVE Having(c[n + 1]) OBVIOUS
  <2>1. n + 1 \in 1..Len(s) /\ n + 1 - 1 = n /\ n \in 0..Len(s) BY <1>0
  <2>2. c[n + 1] = IF s[n + 1] \in set THEN Append(c[n], s[n + 1]) ELSE c[n] BY <1>1, <2>1 DEF Keeping
  <2>3. c[n] \in Seq(E \cap set) BY <1>1, <2>1 DEF Keeping
  <2>4. CASE k = n + 1
    <3>1. c[n + 1] = Append(c[n], x) BY <1>2, <2>2, <2>4
    <3>2. Len(c[n + 1]) = Len(c[n]) + 1 /\ c[n + 1][Len(c[n]) + 1] = x /\ Len(c[n]) \in Nat
      BY <2>3, <3>1
    <3>3. Len(c[n]) + 1 \in 1..Len(c[n + 1]) BY <3>2
    <3> QED BY <3>2, <3>3
  <2>5. CASE k # n + 1
    <3>1. Having(c[n]) BY <1>4, <2>5, <1>0
    <3>2. PICK j \in 1..Len(c[n]) : c[n][j] = x BY <3>1
    <3>3. Having(Append(c[n], s[n + 1]))
      <4> DEFINE q == Append(c[n], s[n + 1])
      <4>1. j \in 1..Len(q) /\ q[j] = x BY <2>3, <3>2
      <4> QED BY <4>1
    <3> QED BY <2>2, <3>1, <3>3
  <2> QED BY <2>4, <2>5
<1>5. Nat \subseteq T
  <2> HIDE DEF T
  <2> QED BY <1>3, <1>4, Induction
<1>6. Having(c[Len(s)]) BY <1>5, <1>0
<1>7. c[Len(s)] \in Seq(E \cap set)
  <2>1. Len(s) \in 0..Len(s) BY <1>0
  <2> QED BY <1>1, <2>1 DEF Keeping
<1> QED BY <1>1, <1>6, <1>7 DEF ToSet, Keeping


\* Sequences of one type flatten, one after another, to one of that type.
LEMMA FlattenSteps ==
  ASSUME NEW E, NEW s \in Seq(Seq(E)), s # <<>>
  PROVE  \E c : /\ FlattenSeq(s) = c[Len(s)]
                /\ \A i \in 1..Len(s) :
                     c[i] \in Seq(E) /\ c[i] = IF i = 1 THEN s[i] ELSE c[i - 1] \o s[i]
<1> DEFINE K(g, n) == /\ g \in [1..n -> Seq(E)]
                      /\ \A i \in 1..n : g[i] = IF i = 1 THEN s[i] ELSE g[i - 1] \o s[i]
           S == {n \in Nat : n <= Len(s) => \E g : K(g, n)}
<1>0. Len(s) \in Nat OBVIOUS
<1>1. 0 \in S
  <2>1. K([i \in 1..0 |-> <<>>], 0) OBVIOUS
  <2> QED BY <2>1
<1>2. ASSUME NEW n \in Nat, n \in S, n + 1 <= Len(s) PROVE \E g : K(g, n + 1)
  <2>1. PICK g : K(g, n)
    <3> HIDE DEF K
    <3> QED BY <1>2, <1>0
  <2> DEFINE h == [i \in 1..(n + 1) |->
                     IF i = n + 1 THEN (IF i = 1 THEN s[i] ELSE g[n] \o s[i]) ELSE g[i]]
  <2>2. s[n + 1] \in Seq(E) BY <1>2
  <2>3. n # 0 => g[n] \in Seq(E) BY <2>1
  <2>4. n # 0 => g[n] \o s[n + 1] \in Seq(E) BY <2>2, <2>3
  <2>5. h \in [1..(n + 1) -> Seq(E)] BY <2>1, <2>2, <2>3, <2>4
  <2>7. ASSUME NEW i \in 1..(n + 1)
        PROVE h[i] = IF i = 1 THEN s[i] ELSE h[i - 1] \o s[i]
    <3>1. CASE i = n + 1 BY <3>1, <2>1
    <3>2. CASE i # n + 1
      <4>1. i \in 1..n /\ (i # 1 => i - 1 \in 1..n) BY <3>2
      <4>2. h[i] = g[i] /\ (i # 1 => h[i - 1] = g[i - 1]) BY <4>1
      <4> QED BY <4>1, <4>2, <2>1
    <3> QED BY <3>1, <3>2
  <2> HIDE DEF h
  <2>8. K(h, n + 1) BY <2>5, <2>7
  <2> QED BY <2>8
<1>3. \A n \in Nat : n \in S => n + 1 \in S
  <2> SUFFICES ASSUME NEW n \in Nat, n \in S PROVE n + 1 \in S OBVIOUS
  <2>1. n + 1 <= Len(s) => \E g : K(g, n + 1) BY <1>2
  <2> HIDE DEF K
  <2> QED BY <2>1
<1>4. Nat \subseteq S
  <2> HIDE DEF S
  <2> QED BY <1>1, <1>3, Induction
<1>5. PICK g : K(g, Len(s))
  <2> HIDE DEF K
  <2> QED BY <1>4, <1>0
<1> DEFINE Is(f) == f = [i \in 1..Len(s) |-> IF i = 1 THEN s[i] ELSE f[i - 1] \o s[i]]
<1>6. Is(g)
  <2>1. g = [i \in 1..Len(s) |-> g[i]] BY <1>5
  <2> QED BY <1>5, <2>1
<1> DEFINE c == CHOOSE f : Is(f)
<1>7. Is(c) BY <1>6
<1>8. Len(s) # 0 => FlattenSeq(s) = c[Len(s)] BY DEF FlattenSeq
<1> HIDE DEF c
<1>9. \A i \in 1..Len(s) : c[i] = IF i = 1 THEN s[i] ELSE c[i - 1] \o s[i]
  BY <1>7
<1> DEFINE T == {n \in Nat : n >= 1 /\ n <= Len(s) => c[n] \in Seq(E)}
<1>10. 0 \in T OBVIOUS
<1>11. ASSUME NEW n \in Nat, n \in T PROVE n + 1 \in T
  <2> SUFFICES ASSUME n + 1 <= Len(s) PROVE c[n + 1] \in Seq(E) OBVIOUS
  <2>1. n # 0 => c[n] \in Seq(E) BY <1>11, <1>0
  <2>2. s[n + 1] \in Seq(E) OBVIOUS
  <2>3. n + 1 \in 1..Len(s) /\ n + 1 - 1 = n BY <1>0
  <2>4. c[n + 1] = IF n = 0 THEN s[n + 1] ELSE c[n] \o s[n + 1] BY <1>9, <2>3
  <2> QED BY <2>1, <2>2, <2>4
<1>12. Nat \subseteq T
  <2> HIDE DEF T
  <2> QED BY <1>10, <1>11, Induction
<1>13. \A i \in 1..Len(s) : c[i] \in Seq(E)
  <2> SUFFICES ASSUME NEW i \in 1..Len(s) PROVE c[i] \in Seq(E) OBVIOUS
  <2>1. i \in T BY <1>12, <1>0
  <2> QED BY <2>1, <1>0
<1>14. Len(s) # 0 OBVIOUS
<1> HIDE DEF T
<1> QED BY <1>8, <1>9, <1>13, <1>14

LEMMA FlattenType ==
  ASSUME NEW E, NEW s \in Seq(Seq(E))
  PROVE  FlattenSeq(s) \in Seq(E)
<1>1. CASE s = <<>> BY <1>1 DEF FlattenSeq
<1>2. CASE s # <<>>
  <2>1. Len(s) \in 1..Len(s) BY <1>2
  <2> QED BY <1>2, <2>1, FlattenSteps
<1> QED BY <1>1, <1>2

\* Every element of every one is in it.
LEMMA FlattenHas ==
  ASSUME NEW E, NEW s \in Seq(Seq(E)), NEW k \in DOMAIN s, NEW x \in ToSet(s[k])
  PROVE  x \in ToSet(FlattenSeq(s))
<1>0. Len(s) \in Nat /\ k \in 1..Len(s) /\ s # <<>> OBVIOUS
<1>1. PICK c : /\ FlattenSeq(s) = c[Len(s)]
               /\ \A i \in 1..Len(s) :
                    c[i] \in Seq(E) /\ c[i] = IF i = 1 THEN s[i] ELSE c[i - 1] \o s[i]
  BY <1>0, FlattenSteps
<1> DEFINE Having(q) == \E j \in 1..Len(q) : q[j] = x
           T == {n \in Nat : n <= Len(s) /\ k <= n => Having(c[n])}
<1>2. s[k] \in Seq(E) /\ Having(s[k]) BY DEF ToSet
<1>3. 0 \in T BY <1>0
<1>4. ASSUME NEW n \in Nat, n \in T PROVE n + 1 \in T
  <2> SUFFICES ASSUME n + 1 <= Len(s), k <= n + 1 PROVE Having(c[n + 1]) OBVIOUS
  <2>1. n + 1 \in 1..Len(s) /\ n + 1 - 1 = n /\ (n # 0 => n \in 1..Len(s)) BY <1>0
  <2>2. c[n + 1] = IF n = 0 THEN s[n + 1] ELSE c[n] \o s[n + 1] BY <1>1, <2>1
  <2>3. n # 0 => c[n] \in Seq(E) BY <1>1, <2>1
  <2>4. s[n + 1] \in Seq(E) BY <2>1
  <2>5. CASE k = n + 1
    <3>1. n = 0 => Having(c[n + 1]) BY <1>2, <2>2, <2>5
    <3>2. ASSUME n # 0 PROVE Having(c[n] \o s[n + 1])
      <4>1. PICK j \in 1..Len(s[n + 1]) : s[n + 1][j] = x BY <1>2, <2>5
      <4> DEFINE q == c[n] \o s[n + 1]
      <4>2. \A f, g \in Seq(E) : \A i \in 1..Len(g) :
              Len(f) + i \in 1..Len(f \o g) /\ (f \o g)[Len(f) + i] = g[i]
        OBVIOUS
      <4>3. Len(c[n]) + j \in 1..Len(q) /\ q[Len(c[n]) + j] = x
        BY <2>3, <2>4, <3>2, <4>1, <4>2
      <4> QED BY <4>3
    <3> QED BY <2>2, <3>1, <3>2
  <2>6. CASE k # n + 1
    <3>1. n # 0 /\ Having(c[n]) BY <1>4, <2>6, <1>0
    <3>2. PICK j \in 1..Len(c[n]) : c[n][j] = x BY <3>1
    <3> DEFINE q == c[n] \o s[n + 1]
    <3>3. \A f, g \in Seq(E) : \A i \in 1..Len(f) : i \in 1..Len(f \o g) /\ (f \o g)[i] = f[i]
      OBVIOUS
    <3>4. j \in 1..Len(q) /\ q[j] = x BY <2>3, <2>4, <3>1, <3>2, <3>3
    <3>5. Having(q) BY <3>4
    <3> QED BY <2>2, <3>1, <3>5
  <2> QED BY <2>5, <2>6
<1>5. Nat \subseteq T
  <2> HIDE DEF T
  <2> QED BY <1>3, <1>4, Induction
<1>6. Having(c[Len(s)]) BY <1>5, <1>0
<1>7. c[Len(s)] \in Seq(E)
  <2>1. Len(s) \in 1..Len(s) BY <1>0
  <2> QED BY <1>1, <2>1
<1> QED BY <1>1, <1>6, <1>7 DEF ToSet

StateShape(s) ==
  s = [resources |-> s.resources, secrets |-> s.secrets, generated |-> s.generated,
       ports |-> s.ports, bound |-> s.bound, appUrl |-> s.appUrl,
       primaryEndpoint |-> s.primaryEndpoint, prepared |-> s.prepared,
       processes |-> s.processes]

UpShape(u) ==
  /\ u = [at |-> u.at, launch |-> u.launch, order |-> u.order, request |-> u.request,
          state |-> u.state, map |-> u.map, todo |-> u.todo, refused |-> u.refused,
          required |-> u.required, primary |-> u.primary, envs |-> u.envs,
          begun |-> u.begun, prepared |-> u.prepared, procs |-> u.procs]
  /\ StateShape(u.state)

Running == {"entry", "create", "env", "prepare", "preparing", "release", "start",
            "started", "failed", "session"}

Shapes ==
  /\ disk = Absent \/ StateShape(disk)
  /\ up = NoUp \/ (UpShape(up) /\ up.at \in Running)

\* Shapes: the fields there are, before a field is read or changed.
LEMMA InitShapes == Init => Shapes
BY DEF Init, Shapes

LEMMA StateApart == ASSUME NEW s, StateShape(s) PROVE s # Absent
BY DEF StateShape, Absent

\* While there is an `up` it has all its fields.
LEMMA AnyUp ==
  ASSUME Shapes, up.at # "idle" PROVE UpShape(up) /\ up.at \in Running
BY DEF Shapes, NoUp

LEMMA LoadShape == ASSUME StateShape(disk) PROVE StateShape(loadState)
BY DEF StateShape, loadState

\* No step leaves a record without one of its fields.
LEMMA ShapesKept == ASSUME Shapes, [Next]_vars PROVE Shapes'
<1>1. ASSUME NEW name, NEW request, Up(name, request) PROVE Shapes'
  <2> DEFINE s0 == IF disk = Absent THEN initState ELSE loadState
  <2>1. StateShape(s0) BY LoadShape DEF Shapes, StateShape, initState
  <2>2. PICK a, b : up'.state = [s0 EXCEPT !.appUrl = a, !.secrets = b] BY <1>1 DEF Up
  <2> HIDE DEF s0
  <2>3. StateShape(up'.state) BY <2>1, <2>2 DEF StateShape
  <2>4. UpShape(up') /\ up'.at = "entry" /\ disk' = disk BY <1>1, <2>3 DEF Up, UpShape
  <2> QED BY <2>4 DEF Shapes, Running
<1>2. ASSUME End PROVE up' = NoUp BY <1>2 DEF End
<1>3. ASSUME NEW record, NEW base, AtEntry \/ up.at = "create", Registered(record, base)
      PROVE UpShape(up') /\ up'.at \in Running
  <2>1. UpShape(up) BY <1>3, AnyUp DEF AtEntry
  <2> DEFINE res == IF record = NoRecord THEN up.state.resources
                    ELSE Only(Entry.key, record) ++ up.state.resources
             m == Only(Entry.key, registerResource(Entry.type, Entry.key, declaredUses(Launch),
                                                  base, Indexes(Entry.key))) ++ up.map
  <2>2. up' = [up EXCEPT !.at = "entry", !.todo = Tail(@), !.state.resources = res, !.map = m]
    BY <1>3 DEF Registered
  <2> HIDE DEF res, m
  <2> QED BY <2>1, <2>2 DEF UpShape, StateShape, Running
<1>4. CASE SkipEntry
  <2>1. UpShape(up) BY <1>4, AnyUp DEF SkipEntry, AtEntry
  <2> QED BY <2>1, <1>4 DEF SkipEntry, UpShape, StateShape, Shapes, Running, AtEntry
<1>5. CASE ProvisionDry BY <1>5, <1>3 DEF ProvisionDry, Shapes
<1>6. CASE ProvisionRedis BY <1>6, <1>3 DEF ProvisionRedis, Provisioning, Shapes
<1>7. CASE ProvisionSqlite BY <1>7, <1>3 DEF ProvisionSqlite, Provisioning, Shapes
<1>8. CASE RefuseSqlite
  <2>1. UpShape(up) BY <1>8, AnyUp DEF RefuseSqlite, Provisioning, AtEntry
  <2> QED BY <2>1, <1>8 DEF RefuseSqlite, UpShape, StateShape, Shapes, Running, AtEntry, Provisioning
<1>9. CASE SkipOptional
  <2>1. UpShape(up) BY <1>9, AnyUp DEF SkipOptional, Provisioning, AtEntry
  <2> QED BY <2>1, <1>9 DEF SkipOptional, UpShape, StateShape, Shapes, Running, AtEntry, Provisioning
<1>10. CASE PersistRecord
  <2>1. UpShape(up) BY <1>10, AnyUp DEF PersistRecord, Provisioning, AtEntry
  <2> DEFINE res == Only(Entry.key, Record) ++ up.state.resources
  <2>2. up' = [up EXCEPT !.at = "create", !.state.resources = res] BY <1>10 DEF PersistRecord
  <2> HIDE DEF res
  <2>3. UpShape(up') /\ up'.at = "create" BY <2>1, <2>2 DEF UpShape, StateShape
  <2>4. disk' = up'.state BY <1>10 DEF PersistRecord, saveState, written
  <2> QED BY <2>3, <2>4 DEF Shapes, UpShape, Running
<1>11. CASE CreateNothing BY <1>11, <1>3 DEF CreateNothing, Shapes
<1>12. ASSUME NEW made, Create(made) PROVE Shapes'
  <2>1. UpShape(up) BY <1>12, AnyUp DEF Create
  <2>2. disk' = disk /\ up.at = "create" BY <1>12 DEF Create
  <2>3. CASE up' = NoUp BY <2>2, <2>3 DEF Shapes
  <2>4. CASE up' = [up EXCEPT !.at = "entry", !.todo = Tail(@)]
    BY <2>1, <2>2, <2>4 DEF Shapes, UpShape, StateShape, Running
  <2> QED BY <1>12, <1>3, <2>2, <2>3, <2>4 DEF Create, End, Shapes
<1>13. CASE Wire
  <2>1. UpShape(up) BY <1>13, AnyUp DEF Wire
  <2>2. PICK a, b, c : up' = [up EXCEPT !.at = "env", !.todo = up.order, !.state.ports = a,
                  !.state.primaryEndpoint = b, !.state.bound = c]
    BY <1>13 DEF Wire
  <2>3. UpShape(up') /\ up'.at = "env" BY <2>1, <2>2 DEF UpShape, StateShape
  <2> QED BY <2>3, <1>13 DEF Wire, Shapes, Running
<1>14. ASSUME NEW c, WriteEnv(c) PROVE Shapes'
  <2>1. UpShape(up) /\ up.at = "env" BY <1>14, AnyUp DEF WriteEnv
  <2>2. PICK g, e : up' = [up EXCEPT !.todo = Tail(@), !.state.generated = g, !.envs = e]
    BY <1>14 DEF WriteEnv
  <2>3. UpShape(up') /\ up'.at = "env" BY <2>1, <2>2 DEF UpShape, StateShape
  <2> QED BY <2>3, <1>14 DEF WriteEnv, Shapes, Running
<1>15. CASE SaveUp
  <2>1. UpShape(up) BY <1>15, AnyUp DEF SaveUp
  <2> QED BY <2>1, <1>15 DEF SaveUp, saveState, written, Shapes, UpShape, StateShape, Running
<1>16. CASE SkipPrepare
  <2>1. UpShape(up) /\ up.at = "prepare" BY <1>16, AnyUp DEF SkipPrepare, AtPrepare
  <2>2. CASE up' = [up EXCEPT !.todo = Tail(@)] /\ disk' = disk
    BY <2>1, <2>2 DEF Shapes, UpShape, StateShape, Running
  <2>3. CASE /\ up' = [up EXCEPT !.todo = Tail(@), !.prepared = @ \cup {Key(Preparing)},
                            !.state.prepared = Only(Preparing, Fingerprint(Preparing)) ++ @]
             /\ disk' = disk \/ disk' = up'.state
    <3>1. PICK k, f : up' = [up EXCEPT !.todo = Tail(@), !.prepared = k, !.state.prepared = f]
      BY <2>3
    <3>2. UpShape(up') /\ up'.at = "prepare" BY <2>1, <3>1 DEF UpShape, StateShape
    <3> QED BY <3>2, <2>3 DEF Shapes, UpShape, Running
  <2> QED BY <1>16, <2>2, <2>3 DEF SkipPrepare, written
<1>17. CASE BeginPrepare
  <2>1. UpShape(up) BY <1>17, AnyUp DEF BeginPrepare, AtPrepare
  <2>2. PICK b : up' = [up EXCEPT !.at = "preparing", !.begun = b] BY <1>17 DEF BeginPrepare
  <2> QED BY <2>1, <2>2, <1>17 DEF BeginPrepare, Shapes, UpShape, StateShape, Running
<1>18. CASE EndPrepare
  <2>1. UpShape(up) BY <1>18, AnyUp DEF EndPrepare
  <2>2. PICK k, f : up' = [up EXCEPT !.at = "prepare", !.todo = Tail(@), !.begun = <<>>,
                                     !.prepared = k, !.state.prepared = f]
    BY <1>18 DEF EndPrepare
  <2>3. UpShape(up') /\ up'.at = "prepare" BY <2>1, <2>2 DEF UpShape, StateShape
  <2> QED BY <2>3, <1>18 DEF EndPrepare, saveState, written, Shapes, UpShape, Running
<1>19. CASE RunReleases
  <2>1. UpShape(up) BY <1>19, AnyUp DEF RunReleases
  <2> QED BY <2>1, <1>19 DEF RunReleases, Shapes, UpShape, StateShape, Running
<1>20. ASSUME NEW started, NEW failed, StartAll(started, failed) PROVE Shapes'
  <2>1. UpShape(up) BY <1>20, AnyUp DEF StartAll
  <2>2. PICK b : up' = [up EXCEPT !.at = IF failed THEN "failed" ELSE "started", !.procs = b]
    BY <1>20 DEF StartAll
  <2> QED BY <2>1, <2>2, <1>20 DEF StartAll, Shapes, UpShape, StateShape, Running
<1>21. ASSUME NEW late, RecordProcesses(late) PROVE Shapes'
  <2>1. UpShape(up) BY <1>21, AnyUp DEF RecordProcesses
  <2> DEFINE s == [up.state EXCEPT !.processes = up.procs]
  <2>2. StateShape(s) BY <2>1 DEF UpShape, StateShape
  <2>3. disk' = s /\ (up' = NoUp \/ up' = [up EXCEPT !.at = "session", !.state = s])
    BY <1>21 DEF RecordProcesses, saveState, written
  <2> HIDE DEF s
  <2> QED BY <2>1, <2>2, <2>3 DEF Shapes, UpShape, Running
<1>22. ASSUME NEW late, Interrupt(late) PROVE Shapes'
  <2>1. UpShape(up) BY <1>22, AnyUp DEF Interrupt
  <2> QED BY <2>1, <1>22 DEF Interrupt, written, Shapes, UpShape, StateShape
<1>23. CASE Abort BY <1>23 DEF Abort, End, Shapes
<1>24. CASE KillSaving BY <1>24 DEF KillSaving, End, Shapes
<1>25. CASE Down
  <2>1. StateShape(loadState) BY <1>25, LoadShape DEF Down, Quiet, Shapes
  <2>2. StateShape(disk') /\ up' = up
    BY <2>1, <1>25 DEF Down, saveState, written, StateShape
  <2> QED BY <2>2 DEF Shapes
<1>26. ASSUME NEW dropped, Destroy(dropped) PROVE Shapes' BY <1>26 DEF Destroy, Shapes
<1>27. ASSUME NEW launch, NEW state, StateShape(state), Answer(launch, state) PROVE Shapes'
  BY <1>27 DEF Answer, Shapes
<1>28. ASSUME NEW launch, Env(launch) PROVE Shapes'
  <2>1. StateShape(loadState) BY <1>28, LoadShape DEF Env, Quiet, Shapes
  <2>2. PICK g : Answer(launch, [loadState EXCEPT !.generated = g]) BY <1>28 DEF Env
  <2>3. StateShape([loadState EXCEPT !.generated = g]) BY <2>1 DEF StateShape
  <2> QED BY <2>2, <2>3, <1>27
<1>29. ASSUME NEW launch, NEW c, Bootstrap(launch, c) PROVE Shapes'
  <2>1. StateShape(loadState) BY <1>29, LoadShape DEF Bootstrap, Quiet, Shapes
  <2>2. PICK g : Answer(launch, [loadState EXCEPT !.generated = g]) BY <1>29 DEF Bootstrap
  <2>3. StateShape([loadState EXCEPT !.generated = g]) BY <2>1 DEF StateShape
  <2> QED BY <2>2, <2>3, <1>27
<1>30. ASSUME NEW dir, EditFiles(dir) PROVE Shapes' BY <1>30 DEF EditFiles, Shapes
<1>31. CASE UNCHANGED vars BY <1>31 DEF vars, Shapes
<1>. QED
  BY <1>1, <1>4, <1>5, <1>6, <1>7, <1>8, <1>9, <1>10, <1>11, <1>12, <1>13, <1>14, <1>15,
     <1>16, <1>17, <1>18, <1>19, <1>20, <1>21, <1>22, <1>23, <1>24, <1>25, <1>26, <1>28,
     <1>29, <1>30, <1>31 DEF Next

-----------------------------------------------------------------------------
(* What is provisioned is declared, and what is on record was. *)

\* What is declared, and what of it is provisioned.
LEMMA OrderNames ==
  ASSUME NEW n \in DOMAIN Launches PROVE Launches[n].order \in Seq(Names(Launches[n]))
BY LaunchesAssumption DEF Names, ToSet

LEMMA EntriesDeclared ==
  ASSUME NEW n \in DOMAIN Launches, NEW c \in Names(Launches[n])
  PROVE  /\ Launches[n].comp[c].requires \in Seq(Declared(n))
         /\ Launches[n].comp[c].supports \in Seq(Declared(n))
<1> DEFINE r == Launches[n].comp[c].requires
           s == Launches[n].comp[c].supports
<1>1. c \in DOMAIN Launches[n].comp BY LaunchesAssumption DEF Names, ToSet
<1>2. r \in Seq(ToSet(r)) /\ s \in Seq(ToSet(s)) BY <1>1, LaunchesAssumption DEF IsSeq
<1>3. ToSet(Entries(Launches[n].comp[c])) \subseteq Declared(n) BY DEF Declared
<1>4. Entries(Launches[n].comp[c]) = r \o s BY DEF Entries
<1> HIDE DEF r, s
<1>5. ToSet(r) \subseteq ToSet(r \o s) /\ ToSet(s) \subseteq ToSet(r \o s)
  <2>1. ASSUME NEW i \in DOMAIN r PROVE r[i] \in ToSet(r \o s)
    <3>1. i \in DOMAIN (r \o s) /\ (r \o s)[i] = r[i] BY <1>2
    <3> QED BY <3>1 DEF ToSet
  <2>2. ASSUME NEW i \in DOMAIN s PROVE s[i] \in ToSet(r \o s)
    <3>1. i + Len(r) \in DOMAIN (r \o s) /\ (r \o s)[i + Len(r)] = s[i] BY <1>2
    <3> QED BY <3>1 DEF ToSet
  <2> QED BY <2>1, <2>2 DEF ToSet
<1>6. ToSet(r) \subseteq Declared(n) /\ ToSet(s) \subseteq Declared(n) BY <1>3, <1>4, <1>5
<1>7. r \in Seq(Declared(n)) /\ s \in Seq(Declared(n)) BY <1>2, <1>6
<1> QED BY <1>7 DEF r, s

Provisionable(n) == {e \in Declared(n) : ~e.host /\ e.type # HttpsOrigin}

\* What an `up` provisions is declared by its Launchfile.
LEMMA ProvisionedDeclared ==
  ASSUME NEW n \in DOMAIN Launches, NEW order \in Seq(Names(Launches[n])), NEW optional
  PROVE  Provisioned([Launches[n] EXCEPT !.order = order], optional) \in Seq(Provisionable(n))
<1> DEFINE launch == [Launches[n] EXCEPT !.order = order]
           entries(c) == launch.comp[c].requires \o
                           (IF optional THEN launch.comp[c].supports ELSE <<>>)
           seqs == [i \in DOMAIN launch.order |-> entries(launch.order[i])]
           all == FlattenSeq(seqs)
           wanted == {e \in ToSet(all) : ~e.host /\ e.type # HttpsOrigin}
<1>1. launch.order = order /\ launch.comp = Launches[n].comp
  BY LaunchesAssumption
<1>2. Provisioned(launch, optional) = Among(all, wanted) BY DEF Provisioned
<1> HIDE DEF launch
<1>3. seqs \in Seq(Seq(Declared(n)))
  <2>1. ASSUME NEW i \in DOMAIN order PROVE entries(order[i]) \in Seq(Declared(n))
    <3>1. order[i] \in Names(Launches[n]) OBVIOUS
    <3> QED BY <1>1, <3>1, EntriesDeclared
  <2> HIDE DEF entries
  <2> QED BY <1>1, <2>1
<1>4. all \in Seq(Declared(n))
  <2> HIDE DEF seqs
  <2> QED BY <1>3, FlattenType
<1>5. Among(all, wanted) \in Seq(Declared(n) \cap wanted)
  <2> HIDE DEF all, wanted
  <2> QED BY <1>4, AmongIn
<1>6. Declared(n) \cap wanted \subseteq Provisionable(n) BY DEF Provisionable
<1>7. Among(all, wanted) \in Seq(Provisionable(n))
  <2> HIDE DEF all, wanted
  <2> QED BY <1>5, <1>6
<1> QED BY <1>2, <1>7 DEF launch

-----------------------------------------------------------------------------
(* The steps, by what they do to what is on record. *)

Busy == {"entry", "create", "env", "prepare", "preparing", "release", "start"}

\* What has happened that the code does not provide for has happened for good.
LEMMA OddGrows == ASSUME [Next]_vars PROVE odd \subseteq odd'
BY DEF Next, vars, Up, Env, Answer, Bootstrap, SkipEntry, ProvisionDry, ProvisionRedis,
  ProvisionSqlite, RefuseSqlite, SkipOptional, PersistRecord, CreateNothing, Create, Wire,
  SaveUp, SkipPrepare, BeginPrepare, EndPrepare, RunReleases, WriteEnv, StartAll,
  RecordProcesses, Interrupt, Abort, KillSaving, Down, Destroy, EditFiles, saveState, written

\* A step within an `up`, up to its start.  What it was asked and the processes
\* and secrets it holds stay; it records what it provisions and keeps what it
\* generates, and what it holds is what it saves.
Persists ==
  /\ disk' = up.state \/ (up' # NoUp /\ disk' = up'.state)
  /\ "up" \notin stale' /\ ("up" \in stale => "lost" \in odd')

Records ==
  \/ /\ up.at = "entry" /\ up.todo # <<>> /\ Entry.type \in Provisioners
     /\ up'.state.resources = Only(Entry.key, Record) ++ up.state.resources
     /\ Entry.type \in SqlTypes => PersistRecord
  \/ /\ up.at = "create"
     /\ up'.state.resources = Only(Entry.key, up.state.resources[Entry.key]) ++ up.state.resources

\* The entries, and then the components, are taken one after another.
Provisions == {"entry", "create"}
Visits     == {"env", "prepare", "preparing"}
Wired      == {"prepare", "preparing", "release", "start"}

Advances ==
  /\ up'.at \in Provisions =>
       /\ up.at \in Provisions
       /\ up'.todo = up.todo \/ (up'.todo = Tail(up.todo) /\ (up.at = "entry" => up.todo # <<>>))
  /\ up'.at \in Visits =>
       \/ up'.todo = up.order
       \/ /\ up.at \in Visits
          /\ \/ up'.todo = up.todo
             \/ up'.todo = Tail(up.todo) /\ (up.at # "preparing" => up.todo # <<>>)
  /\ up'.at = "create" => PersistRecord
  /\ up'.at = "preparing" => BeginPrepare
  /\ up'.at = "env" => up'.todo = up.order \/ \E c : WriteEnv(c)
  /\ up'.at \in Wired => up.at \in Wired \/ (up.at = "env" /\ up.todo = <<>>)

\* What is registered: what is on record, or what stands for it in a dry run.
Registers ==
  \E base :
    /\ up'.map = Only(Entry.key, registerResource(Entry.type, Entry.key, declaredUses(Launch),
                                                  base, Indexes(Entry.key))) ++ up.map
    /\ \/ base = Placeholder
       \/ Entry.type \in Provisioners \ SqlTypes /\ base = Properties(Record)
       \/ up.at = "create" /\ base = Properties(up.state.resources[Entry.key])

Continues ==
  /\ UpShape(up') /\ up'.at \in Busy /\ Advances
  /\ up'.launch = up.launch /\ up'.order = up.order /\ up'.request = up.request
  /\ up'.primary = up.primary
  /\ up'.state.processes = up.state.processes
  /\ up'.state.secrets = up.state.secrets /\ up'.state.appUrl = up.state.appUrl
  /\ up'.state.generated = up.state.generated \/ \E c : WriteEnv(c)
  /\ up'.state.resources = up.state.resources \/ Records
  /\ up'.state.prepared = up.state.prepared \/ SkipPrepare \/ EndPrepare
  /\ (up'.state.ports = up.state.ports /\ up'.state.bound = up.state.bound) \/ Wire
  /\ up'.map = up.map \/ (up'.at = "entry" /\ Registers)
  /\ up'.envs = up.envs \/ \E c : WriteEnv(c)

Labours ==
  /\ up.at \in Busy /\ alive' = alive /\ round' = round
  /\ (disk' = disk /\ (up' # NoUp => stale' = stale)) \/ Persists
  /\ up' = NoUp \/ Continues

Labour ==
  \/ SkipEntry \/ ProvisionDry \/ ProvisionRedis \/ ProvisionSqlite \/ RefuseSqlite
  \/ SkipOptional \/ PersistRecord \/ CreateNothing \/ \E made : Create(made)
  \/ Wire \/ \E c : WriteEnv(c) \/ SaveUp \/ SkipPrepare \/ BeginPrepare \/ EndPrepare
  \/ RunReleases

LEMMA BusyUp ==
  ASSUME Shapes, up.at \in Busy PROVE UpShape(up)
BY AnyUp DEF Busy

\* What stays where a resource is registered.
LEMMA Registering ==
  ASSUME Shapes, NEW record, NEW base, up.at \in {"entry", "create"}, Registered(record, base)
  PROVE  /\ UpShape(up') /\ up'.at = "entry"
         /\ up' # NoUp
         /\ up'.launch = up.launch /\ up'.order = up.order /\ up'.request = up.request
         /\ up'.primary = up.primary /\ up'.todo = Tail(up.todo)
         /\ up'.state.processes = up.state.processes
         /\ up'.state.secrets = up.state.secrets /\ up'.state.appUrl = up.state.appUrl
         /\ up'.state.generated = up.state.generated
         /\ up'.state.prepared = up.state.prepared /\ up'.envs = up.envs
         /\ up'.state.ports = up.state.ports /\ up'.state.bound = up.state.bound
         /\ up'.required = up.required
         /\ up'.state.resources = IF record = NoRecord THEN up.state.resources
                                  ELSE Only(Entry.key, record) ++ up.state.resources
         /\ up'.map = Only(Entry.key, registerResource(Entry.type, Entry.key, declaredUses(Launch),
                                                       base, Indexes(Entry.key))) ++ up.map
<1>1. UpShape(up) BY BusyUp DEF Busy
<1> DEFINE res == IF record = NoRecord THEN up.state.resources
                  ELSE Only(Entry.key, record) ++ up.state.resources
           m == Only(Entry.key, registerResource(Entry.type, Entry.key, declaredUses(Launch),
                                                  base, Indexes(Entry.key))) ++ up.map
<1>2. up' = [up EXCEPT !.at = "entry", !.todo = Tail(@), !.state.resources = res, !.map = m]
  BY DEF Registered
<1> HIDE DEF res, m
<1>3. UpShape(up') /\ up'.at = "entry"
         /\ up'.launch = up.launch /\ up'.order = up.order /\ up'.request = up.request
         /\ up'.primary = up.primary /\ up'.todo = Tail(up.todo)
         /\ up'.state.processes = up.state.processes
         /\ up'.state.secrets = up.state.secrets /\ up'.state.appUrl = up.state.appUrl
         /\ up'.state.generated = up.state.generated
         /\ up'.state.prepared = up.state.prepared /\ up'.envs = up.envs
         /\ up'.state.ports = up.state.ports /\ up'.state.bound = up.state.bound
         /\ up'.required = up.required
         /\ up'.state.resources = res /\ up'.map = m
  BY <1>1, <1>2 DEF UpShape, StateShape
<1>4. up' # NoUp BY <1>3 DEF NoUp
<1> QED BY <1>3, <1>4 DEF res, m

\* Every step within an `up` is such a step.
LEMMA Labouring == ASSUME Shapes, Labour PROVE Labours
<1>4. CASE SkipEntry
  <2>1. UpShape(up) /\ up.at = "entry" /\ up.todo # <<>> BY <1>4, AnyUp DEF SkipEntry, AtEntry
  <2>2. PICK r : up' = [up EXCEPT !.todo = Tail(@), !.required = r] BY <1>4 DEF SkipEntry
  <2>3. Continues
    BY <2>1, <2>2 DEF Continues, UpShape, StateShape, Busy, Advances, Provisions, Visits, Wired
  <2> QED BY <2>1, <2>3, <1>4 DEF SkipEntry, Labours, Busy
<1>5. CASE ProvisionDry
  <2>1. up.at = "entry" /\ up.todo # <<>> BY <1>5 DEF ProvisionDry, AtEntry
  <2>2. Continues
    BY <2>1, <1>5, Registering
         DEF ProvisionDry, Continues, Registers, Busy, Advances, Provisions, Visits, Wired
  <2> QED BY <2>1, <2>2, <1>5 DEF ProvisionDry, Labours, Busy
<1>6. CASE ProvisionRedis
  <2>1. up.at = "entry" /\ up.todo # <<>> /\ Entry.type = "redis"
    BY <1>6 DEF ProvisionRedis, Provisioning, AtEntry
  <2>2. Continues
    BY <2>1, <1>6, Registering DEF ProvisionRedis, Continues, Registers, Busy, Records, Provisioners, SqlTypes,
      Advances, Provisions, Visits, Wired
  <2> QED BY <2>1, <2>2, <1>6 DEF ProvisionRedis, Labours, Busy
<1>7. CASE ProvisionSqlite
  <2>1. up.at = "entry" /\ up.todo # <<>> /\ Entry.type = "sqlite"
    BY <1>7 DEF ProvisionSqlite, Provisioning, AtEntry
  <2>2. Continues
    BY <2>1, <1>7, Registering DEF ProvisionSqlite, Continues, Registers, Busy, Records, Provisioners, SqlTypes,
      Advances, Provisions, Visits, Wired
  <2> QED BY <2>1, <2>2, <1>7 DEF ProvisionSqlite, Labours, Busy
<1>8. CASE RefuseSqlite
  <2>1. UpShape(up) /\ up.at = "entry" /\ up.todo # <<>>
    BY <1>8, AnyUp DEF RefuseSqlite, Provisioning, AtEntry
  <2>2. PICK r, q : up' = [up EXCEPT !.todo = Tail(@), !.refused = q, !.required = r]
    BY <1>8 DEF RefuseSqlite
  <2>3. Continues
    BY <2>1, <2>2 DEF Continues, UpShape, StateShape, Busy, Advances, Provisions, Visits, Wired
  <2> QED BY <2>1, <2>3, <1>8 DEF RefuseSqlite, Labours, Busy
<1>9. CASE SkipOptional
  <2>1. UpShape(up) /\ up.at = "entry" /\ up.todo # <<>>
    BY <1>9, AnyUp DEF SkipOptional, Provisioning, AtEntry
  <2>2. up' = [up EXCEPT !.todo = Tail(@)] BY <1>9 DEF SkipOptional
  <2>3. Continues
    BY <2>1, <2>2 DEF Continues, UpShape, StateShape, Busy, Advances, Provisions, Visits, Wired
  <2> QED BY <2>1, <2>3, <1>9 DEF SkipOptional, Labours, Busy
<1>10. CASE PersistRecord
  <2>1. UpShape(up) /\ up.at = "entry" /\ up.todo # <<>> /\ Entry.type \in SqlTypes
    BY <1>10, AnyUp DEF PersistRecord, Provisioning, AtEntry
  <2> DEFINE res == Only(Entry.key, Record) ++ up.state.resources
  <2>2. up' = [up EXCEPT !.at = "create", !.state.resources = res]
    BY <1>10 DEF PersistRecord
  <2> HIDE DEF res
  <2>3. /\ UpShape(up') /\ up'.at = "create" /\ up'.state.resources = res
        /\ up'.launch = up.launch /\ up'.order = up.order /\ up'.request = up.request
        /\ up'.primary = up.primary
        /\ up'.state.processes = up.state.processes
        /\ up'.state.secrets = up.state.secrets /\ up'.state.appUrl = up.state.appUrl
        /\ up'.state.generated = up.state.generated /\ up'.todo = up.todo
        /\ up'.state.prepared = up.state.prepared /\ up'.map = up.map /\ up'.envs = up.envs
        /\ up'.state.ports = up.state.ports /\ up'.state.bound = up.state.bound
    BY <2>1, <2>2 DEF UpShape, StateShape
  <2>4. Continues
    BY <1>10, <2>1, <2>3
         DEF Continues, Records, res, Busy, Provisioners, Advances, Provisions, Visits, Wired
  <2>5. up' # NoUp BY <2>3 DEF NoUp
  <2>6. Persists BY <2>5, <1>10 DEF PersistRecord, saveState, written, Persists, Lost
  <2> QED BY <2>1, <2>4, <2>6, <1>10 DEF PersistRecord, Labours, Busy
<1>11. CASE CreateNothing
  <2>1. up.at = "create" /\ Registered(up.state.resources[Entry.key], Properties(up.state.resources[Entry.key]))
    BY <1>11 DEF CreateNothing
  <2>2. Continues
    BY <2>1, Registering
       DEF Continues, Registers, Busy, Records, Advances, Provisions, Visits, Wired
  <2> QED BY <2>1, <2>2, <1>11 DEF CreateNothing, Labours, Busy
<1>12. ASSUME NEW made, Create(made) PROVE Labours
  <2>1. UpShape(up) /\ up.at = "create" BY <1>12, AnyUp DEF Create
  <2>2. disk' = disk /\ alive' = alive /\ round' = round BY <1>12 DEF Create
  <2>3. CASE up' = NoUp BY <2>1, <2>2, <2>3 DEF Labours, Busy
  <2>4. CASE up' = [up EXCEPT !.at = "entry", !.todo = Tail(@)] /\ stale' = stale
    <3>1. Continues
      BY <2>1, <2>4 DEF Continues, UpShape, StateShape, Busy, Advances, Provisions, Visits, Wired
    <3> QED BY <3>1, <2>1, <2>2, <2>4 DEF Labours, Busy
  <2>5. CASE /\ Registered(up.state.resources[Entry.key], Properties(up.state.resources[Entry.key]))
             /\ stale' = stale
    <3>1. Continues
      BY <2>1, <2>5, Registering
         DEF Continues, Registers, Busy, Records, Advances, Provisions, Visits, Wired
    <3> QED BY <3>1, <2>1, <2>2, <2>5 DEF Labours, Busy
  <2> QED BY <1>12, <2>3, <2>4, <2>5 DEF Create, End
<1>13. CASE Wire
  <2>1. UpShape(up) /\ up.at = "entry" BY <1>13, AnyUp DEF Wire
  <2>2. PICK a, b, c : up' = [up EXCEPT !.at = "env", !.todo = up.order, !.state.ports = a,
                  !.state.primaryEndpoint = b, !.state.bound = c]
    BY <1>13 DEF Wire
  <2>3. Continues
    BY <1>13, <2>1, <2>2 DEF Continues, UpShape, StateShape, Busy, Advances, Provisions, Visits, Wired
  <2> QED BY <2>1, <2>3, <1>13 DEF Wire, Labours, Busy
<1>14. ASSUME NEW c, WriteEnv(c) PROVE Labours
  <2>1. UpShape(up) /\ up.at = "env" BY <1>14, AnyUp DEF WriteEnv
  <2>2. PICK g, e : up' = [up EXCEPT !.todo = Tail(@), !.state.generated = g, !.envs = e]
    BY <1>14 DEF WriteEnv
  <2>3. /\ UpShape(up') /\ up'.at = "env" /\ up'.state.resources = up.state.resources
        /\ up'.launch = up.launch /\ up'.order = up.order /\ up'.request = up.request
        /\ up'.primary = up.primary
        /\ up'.state.processes = up.state.processes
        /\ up'.state.secrets = up.state.secrets /\ up'.state.appUrl = up.state.appUrl
        /\ up'.todo = Tail(up.todo) /\ up'.state.prepared = up.state.prepared
        /\ up'.state.ports = up.state.ports /\ up'.state.bound = up.state.bound
        /\ up'.map = up.map
    BY <2>1, <2>2 DEF UpShape, StateShape
  <2>6. up.todo # <<>> BY <1>14 DEF WriteEnv
  <2>4. Continues
    BY <2>1, <2>3, <2>6, <1>14 DEF Continues, Busy, Advances, Provisions, Visits, Wired
  <2>5. disk' = disk /\ stale' = stale /\ alive' = alive /\ round' = round BY <1>14 DEF WriteEnv
  <2> QED BY <2>1, <2>4, <2>5 DEF Labours, Busy
<1>15. CASE SaveUp
  <2>1. UpShape(up) /\ up.at = "env" /\ up.todo = <<>> BY <1>15, AnyUp DEF SaveUp
  <2>2. Persists /\ alive' = alive /\ round' = round
    BY <1>15 DEF SaveUp, saveState, written, Persists, Lost
  <2>3. CASE up' = NoUp BY <2>1, <2>2, <2>3 DEF Labours, Busy
  <2>4. CASE up' = [up EXCEPT !.at = IF up.request.noBuild THEN "release" ELSE "prepare",
                              !.todo = up.order]
    <3>1. Continues
      BY <2>1, <2>4 DEF Continues, UpShape, StateShape, Busy, Advances, Provisions, Visits, Wired
    <3> QED BY <3>1, <2>1, <2>2 DEF Labours, Busy
  <2> QED BY <2>3, <2>4, <1>15 DEF SaveUp
<1>16. CASE SkipPrepare
  <2>1. UpShape(up) /\ up.at = "prepare" /\ alive' = alive /\ round' = round /\ up.todo # <<>>
    BY <1>16, AnyUp DEF SkipPrepare, AtPrepare
  <2>2. CASE up' = [up EXCEPT !.todo = Tail(@)] /\ disk' = disk /\ stale' = stale
    <3>1. Continues
      BY <2>1, <2>2 DEF Continues, UpShape, StateShape, Busy, Advances, Provisions, Visits, Wired
    <3> QED BY <3>1, <2>1, <2>2 DEF Labours, Busy
  <2>3. CASE /\ up' = [up EXCEPT !.todo = Tail(@), !.prepared = @ \cup {Key(Preparing)},
                            !.state.prepared = Only(Preparing, Fingerprint(Preparing)) ++ @]
             /\ \/ disk' = disk /\ stale' = stale
                \/ written("up", up'.state) /\ odd' = odd \cup Lost("up") \cup Outrun(Preparing)
    <3>1. PICK k, f : up' = [up EXCEPT !.todo = Tail(@), !.prepared = k, !.state.prepared = f]
      BY <2>3
    <3>2. Continues
      BY <1>16, <2>1, <3>1
         DEF Continues, UpShape, StateShape, Busy, Advances, Provisions, Visits, Wired
    <3>3. up' # NoUp BY <3>2 DEF Continues, NoUp, Busy
    <3>4. (disk' = disk /\ stale' = stale) \/ Persists
      BY <2>3, <3>3 DEF written, Persists, Lost
    <3> QED BY <3>2, <3>4, <2>1 DEF Labours, Busy
  <2> QED BY <1>16, <2>2, <2>3 DEF SkipPrepare
<1>17. CASE BeginPrepare
  <2>1. UpShape(up) /\ up.at = "prepare" BY <1>17, AnyUp DEF BeginPrepare, AtPrepare
  <2>2. PICK b : up' = [up EXCEPT !.at = "preparing", !.begun = b] BY <1>17 DEF BeginPrepare
  <2>3. Continues
    BY <1>17, <2>1, <2>2
       DEF Continues, UpShape, StateShape, Busy, Advances, Provisions, Visits, Wired
  <2> QED BY <2>1, <2>3, <1>17 DEF BeginPrepare, Labours, Busy
<1>18. CASE EndPrepare
  <2>1. UpShape(up) /\ up.at = "preparing" BY <1>18, AnyUp DEF EndPrepare
  <2>2. PICK k, f : up' = [up EXCEPT !.at = "prepare", !.todo = Tail(@), !.begun = <<>>,
                                     !.prepared = k, !.state.prepared = f]
    BY <1>18 DEF EndPrepare
  <2>3. Continues
    BY <1>18, <2>1, <2>2
       DEF Continues, UpShape, StateShape, Busy, Advances, Provisions, Visits, Wired
  <2>4. up' # NoUp BY <2>3 DEF Continues, NoUp, Busy
  <2>5. Persists /\ alive' = alive /\ round' = round
    BY <2>4, <1>18 DEF EndPrepare, saveState, written, Persists, Lost
  <2> QED BY <2>1, <2>3, <2>5 DEF Labours, Busy
<1>19. CASE RunReleases
  <2>1. UpShape(up) /\ up.at \in {"release", "prepare"} BY <1>19, AnyUp DEF RunReleases
  <2>2. up' = [up EXCEPT !.at = "start", !.todo = <<>>] BY <1>19 DEF RunReleases
  <2>3. Continues
    BY <2>1, <2>2 DEF Continues, UpShape, StateShape, Busy, Advances, Provisions, Visits, Wired
  <2> QED BY <2>1, <2>3, <1>19 DEF RunReleases, Labours, Busy
<1> QED
  BY <1>4, <1>5, <1>6, <1>7, <1>8, <1>9, <1>10, <1>11, <1>12, <1>13, <1>14, <1>15, <1>16,
     <1>17, <1>18, <1>19 DEF Labour

\* What comes beside an `up`, or between two, leaves what an `up` keeps on record,
\* and an `up` that is under way with an old copy.
MintedSince(old, new) ==
  \A k \in DOMAIN new \ DOMAIN old : \E by : new[k] = Minted(by, "env", k)

Besides ==
  /\ Quiet /\ up' = up /\ round' = round
  /\ alive' = alive \ Stopped \/ (disk' # Absent /\ disk'.processes = disk.processes /\ alive' = alive)
  /\ \/ disk' = Absent /\ Holding \subseteq stale'
     \/ disk' = disk /\ stale' = stale
     \/ /\ StateShape(disk') /\ Holding \subseteq stale'
        /\ disk'.resources = validResources(disk.resources)
        /\ disk'.secrets = disk.secrets /\ KeptIn(disk.generated, disk'.generated)
        /\ MintedSince(disk.generated, disk'.generated)
        /\ disk'.prepared = disk.prepared /\ disk'.processes \in {<<>>, disk.processes}

Beside ==
  \/ Down \/ (\E dropped : Destroy(dropped)) \/ (\E launch : Env(launch))
  \/ \E launch, c : Bootstrap(launch, c)

\* What is loaded is what is on record, without its sqlite resources.
LEMMA Loaded ==
  ASSUME Shapes, Quiet
  PROVE  /\ StateShape(disk) /\ StateShape(loadState)
         /\ loadState.resources = validResources(disk.resources)
         /\ loadState.secrets = disk.secrets /\ loadState.generated = disk.generated
         /\ loadState.processes = disk.processes /\ loadState.prepared = disk.prepared
BY LoadShape DEF Quiet, Shapes, StateShape, loadState

\* `env` and `bootstrap` keep what there is and add what they mint.
LEMMA BesidesAnswer ==
  ASSUME Shapes, Quiet, NEW launch, NEW g, KeptIn(disk.generated, g),
         MintedSince(disk.generated, g),
         Answer(launch, [loadState EXCEPT !.generated = g])
  PROVE  Besides
<1> DEFINE state == [loadState EXCEPT !.generated = g]
<1>1. /\ StateShape(state) /\ state.processes = disk.processes
      /\ state.resources = validResources(disk.resources)
      /\ state.secrets = disk.secrets /\ state.generated = g
      /\ state.prepared = disk.prepared
  BY Loaded DEF StateShape
<1> HIDE DEF state
<1>2. Answer(launch, state) BY DEF state
<1>3. CASE disk' = disk /\ stale' = stale
  BY <1>2, <1>3, Loaded, StateApart DEF Answer, Besides
<1>4. CASE disk' = state /\ stale' = stale \cup Holding
  BY <1>1, <1>2, <1>4, StateApart DEF Answer, Besides
<1> QED BY <1>2, <1>3, <1>4 DEF Answer

\* So do `down` and `down --destroy`.
LEMMA Besiding == ASSUME Shapes, Beside PROVE Besides
<1>1. CASE Down
  <2>1. Quiet /\ disk' = [loadState EXCEPT !.processes = <<>>] /\ alive' = alive \ Stopped
        /\ up' = up /\ round' = round
    BY <1>1 DEF Down, saveState, written
  <2>2. Holding \subseteq stale' BY <1>1 DEF Down, saveState, written, Holding
  <2>3. /\ StateShape(disk') /\ disk'.resources = validResources(disk.resources)
        /\ disk'.secrets = disk.secrets /\ disk'.generated = disk.generated
        /\ disk'.prepared = disk.prepared /\ disk'.processes = <<>>
    BY <2>1, Loaded DEF StateShape
  <2> QED BY <2>1, <2>2, <2>3 DEF Besides, KeptIn, MintedSince
<1>2. ASSUME NEW dropped, Destroy(dropped) PROVE Besides BY <1>2 DEF Destroy, Besides
<1>3. ASSUME NEW launch, Env(launch) PROVE Besides
  <2> DEFINE answers == [c \in Names(launch) |-> EnvOf(launch, c, StateContext(launch), {})]
             h == [k \in UNION {DOMAIN answers[c].generated : c \in Names(launch)} |->
                     answers[k[1]].generated[k]]
             old == loadState.generated
  <2>1. Quiet /\ Answer(launch, [loadState EXCEPT !.generated = old ++ h]) BY <1>3 DEF Env
  <2>2. ASSUME NEW c \in Names(launch)
        PROVE  \E names, by : answers[c].generated = old ++ Generated(c, names, by)
    <3>1. answers[c] = EnvOf(launch, c, StateContext(launch), {}) OBVIOUS
    <3> HIDE DEF answers
    <3> QED BY <3>1 DEF EnvOf, AnsweredEnv, resolveGenerators, WithGenerated
  <2>3. ASSUME NEW k \in DOMAIN h \ DOMAIN old PROVE \E by : h[k] = Minted(by, "env", k)
    <3>1. PICK c \in Names(launch) : k \in DOMAIN answers[c].generated OBVIOUS
    <3>2. h[k] = answers[k[1]].generated[k] OBVIOUS
    <3> HIDE DEF answers, h, old
    <3>3. PICK names, by : answers[c].generated = old ++ Generated(c, names, by) BY <2>2
    <3>4. k \in {<<c, v>> : v \in names} BY <2>3, <3>1, <3>3 DEF Generated, ++
    <3>5. k[1] = c BY <3>4
    <3>6. answers[c].generated[k] = Minted(by, "env", k)
      BY <2>3, <3>3, <3>4 DEF Generated, ++
    <3> QED BY <3>2, <3>5, <3>6
  <2> HIDE DEF answers, h
  <2>4. KeptIn(disk.generated, old ++ h) BY <2>1, Loaded DEF KeptIn, ++
  <2>5. MintedSince(disk.generated, old ++ h) BY <2>1, <2>3, Loaded DEF MintedSince, ++
  <2> QED BY <2>1, <2>4, <2>5, BesidesAnswer
<1>4. ASSUME NEW launch, NEW c, Bootstrap(launch, c) PROVE Besides
  <2> DEFINE answer == AnsweredEnv(launch.comp[c], c, StateContext(launch), loadState, <<>>, {},
                                   <<"bootstrap", round>>)
  <2>1. Quiet /\ Answer(launch, [loadState EXCEPT !.generated = answer.generated])
    BY <1>4 DEF Bootstrap
  <2>2. PICK names, by : answer.generated = loadState.generated ++ Generated(c, names, by)
    BY DEF AnsweredEnv, resolveGenerators, WithGenerated
  <2> HIDE DEF answer
  <2>3. KeptIn(disk.generated, answer.generated) BY <2>1, <2>2, Loaded DEF KeptIn, ++
  <2>4. MintedSince(disk.generated, answer.generated)
    BY <2>1, <2>2, Loaded DEF MintedSince, Generated, ++
  <2> QED BY <2>1, <2>3, <2>4, BesidesAnswer
<1> QED BY <1>1, <1>2, <1>3, <1>4 DEF Beside

\* The beginning: what is on record is loaded.
Loads ==
  LET state == IF disk = Absent THEN initState ELSE loadState
  IN  /\ up'.state.resources = state.resources /\ up'.state.generated = state.generated
      /\ up'.state.processes = state.processes /\ up'.state.prepared = state.prepared
      /\ KeptIn(state.secrets, up'.state.secrets)

Begins ==
  /\ \E name \in DOMAIN Launches : \E request : Up(name, request)
  /\ up.at = "idle" /\ round' = round + 1 /\ stale' = stale \ {"up"}
  /\ UNCHANGED <<disk, server, envFiles, deps, installed, alive, odd>>
  /\ UpShape(up') /\ up'.at = "entry" /\ Loads
  /\ up'.launch \in DOMAIN Launches /\ up'.order \in Seq(Names(Launches[up'.launch]))
  /\ up'.todo \in Seq(Provisionable(up'.launch))
  /\ up'.map = <<>> /\ up'.envs = <<>> /\ up'.procs = <<>> /\ up'.prepared = {}
  /\ \E names : up'.state.secrets = generateSecrets(names,
       IF disk = Absent THEN <<>> ELSE disk.secrets, <<"up", round + 1>>)

LEMMA Beginning ==
  ASSUME Shapes, NEW name \in DOMAIN Launches, NEW request, Up(name, request)
  PROVE  Begins
<1> DEFINE s0 == IF disk = Absent THEN initState ELSE loadState
           launch == Launches[name]
           narrowed(a) == Narrowed(launch, request.components, a, request.optional)
           left(a) == [launch EXCEPT !.order = narrowed(a)]
           secrets == generateSecrets(launch.secrets, s0.secrets, <<"up", round + 1>>)
<1>1. StateShape(s0) BY LoadShape DEF Shapes, StateShape, initState
<1>2. PICK a : /\ up'.state = [s0 EXCEPT !.appUrl = a, !.secrets = secrets]
               /\ up'.order = left(a).order
               /\ up'.todo = Provisioned(left(a), request.optional)
  BY DEF Up
<1>3. narrowed(a) \in Seq(Names(launch))
  <2> HIDE DEF launch
  <2>1. launch.order \in Seq(Names(launch)) BY OrderNames DEF launch
  <2>2. \A set : Among(launch.order, set) \in Seq(Names(launch) \cap set) BY <2>1, AmongIn
  <2>3. \A set : Seq(Names(launch) \cap set) \subseteq Seq(Names(launch)) OBVIOUS
  <2>4. \A set : Among(launch.order, set) \in Seq(Names(launch)) BY <2>2, <2>3
  <2> QED BY <2>4 DEF Narrowed
<1>4. left(a).order = narrowed(a) BY LaunchesAssumption
<1>5. up'.order \in Seq(Names(launch)) BY <1>2, <1>3, <1>4
<1>6. up'.todo \in Seq(Provisionable(name))
  <2> HIDE DEF narrowed
  <2> QED BY <1>2, <1>3, ProvisionedDeclared
<1>7. s0.secrets = IF disk = Absent THEN <<>> ELSE disk.secrets
  BY DEF Shapes, StateShape, initState, loadState
<1>8. KeptIn(s0.secrets, secrets) BY DEF KeptIn, generateSecrets, ++
<1> HIDE DEF s0, secrets
<1>9. /\ StateShape(up'.state) /\ up'.state.resources = s0.resources
      /\ up'.state.generated = s0.generated /\ up'.state.processes = s0.processes
      /\ up'.state.prepared = s0.prepared /\ up'.state.secrets = secrets
  BY <1>1, <1>2 DEF StateShape
<1>10. Loads BY <1>8, <1>9 DEF Loads, s0
<1>11. UpShape(up') /\ up'.at = "entry" /\ up'.launch = name
       /\ up'.map = <<>> /\ up'.envs = <<>> /\ up'.procs = <<>> /\ up'.prepared = {}
  BY <1>9 DEF Up, UpShape
<1>12. /\ up.at = "idle" /\ round' = round + 1 /\ stale' = stale \ {"up"}
       /\ UNCHANGED <<disk, server, envFiles, deps, installed, alive, odd>>
  BY DEF Up
<1>13. \E names : up'.state.secrets = generateSecrets(names,
       IF disk = Absent THEN <<>> ELSE disk.secrets, <<"up", round + 1>>)
  BY <1>7, <1>9 DEF secrets
<1> QED BY <1>5, <1>6, <1>10, <1>11, <1>12, <1>13 DEF Begins

\* The start, and what is recorded after it.
Starts ==
  /\ up.at = "start" /\ up'.at \in {"started", "failed"} /\ UpShape(up')
  /\ up'.launch = up.launch /\ up'.order = up.order /\ up'.state = up.state
  /\ up'.request = up.request /\ up'.primary = up.primary /\ up'.map = up.map
  /\ up'.envs = up.envs /\ round' = round
  /\ disk' = disk /\ stale' = stale /\ UNCHANGED <<server, envFiles, deps, installed>>
  /\ alive = {} \/ "again" \in odd'
  /\ \E started \in SUBSET Runnable :
       /\ alive' = alive \cup {Process(c, FALSE) : c \in started}
       /\ up'.procs = [c \in started |-> round]

LEMMA Starting ==
  ASSUME Shapes, NEW started, NEW failed, StartAll(started, failed) PROVE Starts
<1>1. UpShape(up) BY AnyUp DEF StartAll
<1>2. PICK a \in {"started", "failed"} :
          up' = [up EXCEPT !.at = a, !.procs = [c \in started |-> round]]
  BY DEF StartAll
<1> DEFINE p == [c \in started |-> round]
<1> HIDE DEF p
<1>3. /\ UpShape(up') /\ up'.at = a /\ up'.procs = p
      /\ up'.launch = up.launch /\ up'.order = up.order /\ up'.state = up.state
      /\ up'.request = up.request /\ up'.primary = up.primary /\ up'.map = up.map
      /\ up'.envs = up.envs
  BY <1>1, <1>2 DEF UpShape, StateShape, p
<1>4. /\ started \in SUBSET Runnable /\ alive' = alive \cup {Process(c, FALSE) : c \in started}
      /\ up.at = "start" /\ round' = round /\ disk' = disk /\ stale' = stale
      /\ (alive = {} \/ "again" \in odd') /\ UNCHANGED <<server, envFiles, deps, installed>>
  BY DEF StartAll
<1> QED BY <1>3, <1>4 DEF Starts, p

Finishes == \E late : RecordProcesses(late) \/ Interrupt(late)

Concludes ==
  /\ up.at \in {"start", "started", "failed", "session"} /\ round' = round
  /\ StateShape(disk')
  /\ disk'.resources = up.state.resources /\ disk'.secrets = up.state.secrets
  /\ disk'.generated = up.state.generated /\ disk'.prepared = up.state.prepared
  /\ disk'.ports = up.state.ports /\ disk'.bound = up.state.bound
  /\ disk'.appUrl = up.state.appUrl
  /\ "up" \notin stale' /\ ("up" \in stale => "lost" \in odd')
  /\ \/ up' = NoUp
     \/ /\ UpShape(up') /\ up'.at = "session" /\ up'.state = disk'
        /\ up'.launch = up.launch /\ up'.order = up.order /\ up'.envs = up.envs
        /\ up'.request = up.request /\ up'.primary = up.primary /\ up'.map = up.map

LEMMA Concluding == ASSUME Shapes, Finishes PROVE Concludes
<1>1. UpShape(up) /\ up.at \in {"start", "started", "failed", "session"} /\ round' = round
  BY AnyUp DEF Finishes, RecordProcesses, Interrupt
<1>2. PICK p : /\ written("up", [up.state EXCEPT !.processes = p])
               /\ odd \cup Lost("up") \subseteq odd'
               /\ \/ up' = NoUp
                  \/ up' = [up EXCEPT !.at = "session", !.state = [up.state EXCEPT !.processes = p]]
  BY DEF Finishes, RecordProcesses, Interrupt, saveState
<1> DEFINE s == [up.state EXCEPT !.processes = p]
<1>3. /\ StateShape(s)
      /\ s.resources = up.state.resources /\ s.secrets = up.state.secrets
      /\ s.generated = up.state.generated /\ s.prepared = up.state.prepared
      /\ s.ports = up.state.ports /\ s.bound = up.state.bound /\ s.appUrl = up.state.appUrl
  BY <1>1 DEF UpShape, StateShape
<1> HIDE DEF s
<1>4. disk' = s /\ "up" \notin stale' /\ ("up" \in stale => "lost" \in odd')
  BY <1>2 DEF written, Lost, s
<1>5. \/ up' = NoUp
      \/ /\ UpShape(up') /\ up'.at = "session" /\ up'.state = s
         /\ up'.launch = up.launch /\ up'.order = up.order /\ up'.envs = up.envs
         /\ up'.request = up.request /\ up'.primary = up.primary /\ up'.map = up.map
  <2>1. CASE up' = [up EXCEPT !.at = "session", !.state = s]
    BY <1>1, <1>3, <2>1 DEF UpShape
  <2> QED BY <1>2, <2>1 DEF s
<1> QED BY <1>1, <1>3, <1>4, <1>5 DEF Concludes

\* It ends otherwise, or nothing of this happens.
Breaks ==
  /\ up.at # "idle" /\ up' = NoUp /\ disk' \in {disk, Absent} /\ alive' = alive /\ round' = round
  /\ UNCHANGED <<server, envFiles, deps, installed>>
  /\ disk' = disk \/ "torn" \in odd'
  /\ up.at \in {"started", "failed"} /\ up.procs # <<>> => odd' \cap {"torn", "killed"} # {}

Rests ==
  /\ UNCHANGED <<disk, server, envFiles, installed, alive, up, round, stale>>
  /\ (deps' = deps /\ odd' = odd) \/ \E dir \in DOMAIN deps : EditFiles(dir)

\* These are all the steps there are.
LEMMA Kinds ==
  ASSUME Shapes, [Next]_vars
  PROVE  \/ Begins \/ Labour \/ Starts \/ Finishes \/ Breaks
         \/ Beside \/ Rests
<1>1. ASSUME NEW name \in DOMAIN Launches, NEW request, Up(name, request) PROVE Begins
  BY <1>1, Beginning
<1>2. ASSUME NEW started, NEW failed, StartAll(started, failed) PROVE Starts BY <1>2, Starting
<1>3. CASE Abort BY <1>3 DEF Abort, End, Breaks
<1>4. CASE KillSaving BY <1>4 DEF KillSaving, End, Breaks
<1>5. ASSUME NEW dir \in DOMAIN deps, EditFiles(dir) PROVE Rests BY <1>5 DEF EditFiles, Rests
<1>6. CASE UNCHANGED vars BY <1>6 DEF vars, Rests
<1> QED BY <1>1, <1>2, <1>3, <1>4, <1>5, <1>6 DEF Next, Labour, Beside, Finishes

-----------------------------------------------------------------------------
(* Whatever an `up` leaves running is on record. *)

RecordedIn(processes) == \A p \in alive : p.late \/ IsRecorded(p, processes)
AllLate == \A p \in alive : p.late

IReachable ==
  /\ Shapes
  /\ odd \cap {"killed", "again", "torn"} = {} =>
       /\ up.at \notin {"started", "failed"} =>
            AllLate \/ (disk # Absent /\ RecordedIn(disk.processes))
       /\ up.at \in Busy => RecordedIn(up.state.processes)
       /\ up.at \in {"started", "failed"} => RecordedIn(up.procs)
       /\ up.at \in {"started", "failed", "session"} => \A p \in alive : p.round = round

\* No step leaves a process running that is not on record.
LEMMA ReachableKept == ASSUME IReachable, [Next]_vars PROVE IReachable'
<1>1. Shapes' BY ShapesKept DEF IReachable
<1> SUFFICES ASSUME odd' \cap {"killed", "again", "torn"} = {}
             PROVE  /\ up'.at \notin {"started", "failed"} =>
                         AllLate' \/ (disk' # Absent /\ RecordedIn(disk.processes)')
                    /\ up'.at \in Busy => RecordedIn(up.state.processes)'
                    /\ up'.at \in {"started", "failed"} => RecordedIn(up.procs)'
                    /\ up'.at \in {"started", "failed", "session"} => \A p \in alive' : p.round = round'
  BY <1>1 DEF IReachable
<1>2. odd \cap {"killed", "again", "torn"} = {} BY OddGrows
<1>3. /\ up.at \notin {"started", "failed"} =>
            AllLate \/ (disk # Absent /\ RecordedIn(disk.processes))
      /\ up.at \in Busy => RecordedIn(up.state.processes)
      /\ up.at \in {"started", "failed"} => RecordedIn(up.procs)
      /\ up.at \in {"started", "failed", "session"} => \A p \in alive : p.round = round
      /\ Shapes
  BY <1>2 DEF IReachable
<1>4. CASE Labours
  <2>1. alive' = alive /\ up.at \in Busy BY <1>4 DEF Labours
  <2>2. RecordedIn(up.state.processes) /\ (AllLate \/ (disk # Absent /\ RecordedIn(disk.processes)))
    BY <2>1, <1>3 DEF Busy
  <2>3. up' = NoUp \/ (up'.at \in Busy /\ up'.state.processes = up.state.processes)
    BY <1>4 DEF Labours, Continues
  <2>4. disk' = disk \/ (disk' # Absent /\ disk'.processes = up.state.processes)
    BY <1>3, <1>4, <2>1, BusyUp, StateApart DEF Labours, Continues, Persists, UpShape
  <2> QED BY <2>1, <2>2, <2>3, <2>4 DEF Busy, NoUp, RecordedIn, AllLate
<1>5. CASE Besides
  <2>1. CASE alive' = alive \ Stopped
    <3>1. AllLate \/ (disk # Absent /\ RecordedIn(disk.processes))
      BY <1>3, <1>5 DEF Besides, Quiet
    <3>2. disk # Absent => loadState.processes = disk.processes
      BY <1>3 DEF Shapes, StateShape, loadState
    <3>3. AllLate' BY <2>1, <3>1, <3>2, <1>5 DEF Stopped, RecordedIn, AllLate, Besides, Quiet
    <3>4. \A p \in alive' : p \in alive BY <2>1
    <3> QED BY <3>3, <3>4, <1>3, <1>5 DEF Besides, RecordedIn, AllLate
  <2>2. CASE disk' # Absent /\ disk'.processes = disk.processes /\ alive' = alive
    BY <2>2, <1>5, <1>3 DEF Besides, RecordedIn, AllLate
  <2> QED BY <1>5, <2>1, <2>2 DEF Besides
<1>6. CASE Begins
  BY <1>3, <1>6 DEF Begins, Loads, RecordedIn, AllLate, Busy, Shapes, StateShape, loadState, initState
<1>7. CASE Starts
  <2>1. PICK started : /\ alive' = alive \cup {Process(c, FALSE) : c \in started}
                       /\ up'.procs = [c \in started |-> round]
    BY <1>7 DEF Starts
  <2>2. ASSUME alive = {} PROVE \A p \in alive' : p.component \in started /\ p.round = round
    BY <2>1, <2>2 DEF Process
  <2>3. alive = {} BY <1>7 DEF Starts
  <2> QED BY <2>1, <2>2, <2>3, <1>7 DEF Starts, RecordedIn, IsRecorded, Busy
<1>10. ASSUME NEW late, RecordProcesses(late)
       PROVE  /\ AllLate' \/ (disk' # Absent /\ RecordedIn(disk.processes)')
              /\ up'.at \in {"idle", "session"} /\ \A p \in alive' : p.round = round'
  <2>1. /\ UpShape(up) /\ round' = round /\ RecordedIn(up.procs)
        /\ alive' = alive \cup {Process(c, TRUE) : c \in late}
    BY <1>3, <1>10, AnyUp DEF RecordProcesses, Spawning
  <2> DEFINE s == [up.state EXCEPT !.processes = up.procs]
  <2>2. StateShape(s) /\ s.processes = up.procs BY <2>1 DEF UpShape, StateShape
  <2>3. disk' = s /\ (up' = NoUp \/ up' = [up EXCEPT !.at = "session", !.state = s])
    BY <1>10 DEF RecordProcesses, saveState, written
  <2> HIDE DEF s
  <2>4. up'.at \in {"idle", "session"}
    <3>1. CASE up' = NoUp BY <3>1 DEF NoUp
    <3>2. CASE up' = [up EXCEPT !.at = "session", !.state = s]
      BY <2>1, <3>2 DEF UpShape
    <3> QED BY <2>3, <3>1, <3>2
  <2>5. disk' # Absent /\ RecordedIn(disk.processes)'
    BY <2>1, <2>2, <2>3, StateApart DEF RecordedIn, Process
  <2>6. \A p \in alive' : p.round = round' BY <2>1, <1>3, <1>10 DEF RecordProcesses, Process
  <2> QED BY <2>4, <2>5, <2>6
<1>11. ASSUME NEW late, Interrupt(late) PROVE AllLate' /\ up'.at = "idle"
  <2>1. Earlier = {} BY <1>11 DEF Interrupt, When
  <2> QED BY <2>1, <1>11 DEF Interrupt, NoUp, AllLate, Process
<1>14. CASE Finishes BY <1>10, <1>11, <1>14 DEF Finishes, Busy
<1>12. CASE Breaks
  <2>1. up' = NoUp /\ disk' = disk /\ alive' = alive BY <1>12 DEF Breaks
  <2>2. up.at \in {"started", "failed"} => AllLate
    BY <1>3, <1>12 DEF Breaks, RecordedIn, AllLate, IsRecorded
  <2> QED BY <1>3, <2>1, <2>2 DEF NoUp, Busy, RecordedIn, AllLate
<1>13. CASE Rests BY <1>3, <1>13 DEF Rests, RecordedIn, AllLate
<1> QED
  BY <1>3, <1>4, <1>5, <1>6, <1>7, <1>12, <1>13, <1>14, Kinds, Labouring, Besiding

\* Whatever an `up` had started by the time it succeeded, failed or was stopped
\* with Ctrl+C, and leaves running, is on record for `down` (Reachable of
\* NativeUp).
THEOREM ReachableAlways == Spec => []Reachable
<1>1. Init => IReachable
  BY InitShapes DEF Init, IReachable, AllLate, NoUp, Busy
<1>2. IReachable /\ [Next]_vars => IReachable' BY ReachableKept
<1>3. IReachable => Reachable BY DEF IReachable, Reachable, RecordedIn, AllLate
<1> QED BY <1>1, <1>2, <1>3, PTL DEF Spec

-----------------------------------------------------------------------------
(* What is on record: declared, and with a password where there is a role. *)

Sound(resources) ==
  \A k \in DOMAIN resources :
    resources[k].type \in Servers =>
      /\ resources[k].password # Empty
      /\ \E e \in AllDeclared :
           e.key = k /\ e.type \in SqlTypes /\ resources[k].type = Server(e.type)

IDeclared ==
  /\ Shapes
  /\ up.at # "idle" =>
       /\ up.launch \in DOMAIN Launches /\ up.order \in Seq(Names(Launches[up.launch]))
       /\ Sound(up.state.resources)
  /\ up.at \in Provisions => up.todo \in Seq(Provisionable(up.launch))
  /\ up.at \in Visits => up.todo \in Seq(Names(Launches[up.launch]))
  /\ up.at = "preparing" => up.todo # <<>>
  /\ up.at = "create" =>
       /\ up.todo # <<>> /\ Entry.type \in SqlTypes
       /\ Entry.key \in DOMAIN up.state.resources
       /\ up.state.resources[Entry.key].type = Server(Entry.type)
  /\ disk # Absent => Sound(disk.resources)

LEMMA MintedNotEmpty ==
  ASSUME NEW by, NEW space, NEW key PROVE Minted(by, space, key) # Empty
BY DEF Minted, Empty

\* The record of a role has a password: the one on record, if there is one.
LEMMA SqlRecord ==
  ASSUME NEW type \in SqlTypes, NEW key, NEW existing, NEW names, NEW indexes, NEW by
  PROVE  LET r == ResourceState(type, key, existing, names, indexes, by)
         IN  /\ r.type = Server(type) /\ r.type \in Servers /\ r.password # Empty
             /\ existing.password # Empty => r.password = existing.password
             /\ r.databases = names \cup existing.databases
BY MintedNotEmpty DEF ResourceState, reusedPassword, Servers

\* Nothing else is recorded as a role.
LEMMA OtherRecord ==
  ASSUME NEW type \in Provisioners \ SqlTypes, NEW key, NEW existing, NEW names, NEW indexes, NEW by
  PROVE  ResourceState(type, key, existing, names, indexes, by).type \notin Servers
BY DEF ResourceState, NoRecord, Servers, Server, SqlTypes, Provisioners

LEMMA SoundLoaded ==
  ASSUME NEW resources, Sound(resources) PROVE Sound(validResources(resources))
BY DEF Sound, validResources, Restrict

LEMMA Taken ==
  ASSUME NEW S, NEW s \in Seq(S), s # <<>> PROVE Head(s) \in S /\ Tail(s) \in Seq(S)
OBVIOUS

\* No step provisions or records what no Launchfile declares.
LEMMA DeclaredKept == ASSUME IDeclared, [Next]_vars PROVE IDeclared'
<1>1. Shapes /\ Shapes' BY ShapesKept DEF IDeclared
<1>2. CASE Begins
  <2>1. Sound(up'.state.resources)
    BY <1>1, <1>2, SoundLoaded
       DEF Begins, Loads, IDeclared, Shapes, StateShape, loadState, initState, Sound
  <2> QED BY <1>1, <1>2, <2>1 DEF Begins, IDeclared, Provisions, Visits, Sound
<1>3. CASE Labour
  <2>1. Labours /\ UpShape(up) /\ up.at # "idle" BY <1>1, <1>3, Labouring, BusyUp DEF Labours, Busy
  <2>2. ASSUME Continues
        PROVE  /\ Sound(up.state.resources)'
               /\ up'.at = "create" => /\ up'.todo # <<>> /\ Entry'.type \in SqlTypes
                                       /\ Entry'.key \in DOMAIN up'.state.resources
                                       /\ up'.state.resources[Entry'.key].type = Server(Entry'.type)
               /\ up'.at \in Provisions => up'.todo \in Seq(Provisionable(up'.launch))
               /\ up'.at \in Visits => up'.todo \in Seq(Names(Launches[up'.launch]))
               /\ up'.at = "preparing" => up'.todo # <<>>
    <3>1. up.at \in Provisions => up.todo \in Seq(Provisionable(up.launch)) BY DEF IDeclared
    <3>2. up.at \in Visits => up.todo \in Seq(Names(Launches[up.launch])) BY DEF IDeclared
    <3>3. up'.at \in Provisions => up'.todo \in Seq(Provisionable(up'.launch))
      <4>1. up.at = "create" => up.todo # <<>> BY DEF IDeclared
      <4>2. up.at \in Provisions /\ up.todo # <<>> => Tail(up.todo) \in Seq(Provisionable(up.launch))
        BY <3>1, Taken
      <4> QED BY <2>2, <3>1, <4>1, <4>2, Zenon DEF Continues, Advances, Provisions
    <3>4. up'.at \in Visits => up'.todo \in Seq(Names(Launches[up'.launch]))
      <4>1. up.at = "preparing" => up.todo # <<>> BY DEF IDeclared
      <4>2. up.order \in Seq(Names(Launches[up.launch])) BY <2>1 DEF IDeclared
      <4>3. up.at \in Visits /\ up.todo # <<>> => Tail(up.todo) \in Seq(Names(Launches[up.launch]))
        BY <3>2, Taken
      <4> QED BY <2>2, <3>2, <4>1, <4>2, <4>3, Zenon DEF Continues, Advances, Visits
    <3>5. up'.at = "preparing" => up'.todo # <<>>
      <4> SUFFICES ASSUME BeginPrepare PROVE up'.todo # <<>> BY <2>2 DEF Continues, Advances
      <4>1. PICK b : up' = [up EXCEPT !.at = "preparing", !.begun = b] BY DEF BeginPrepare
      <4>2. up'.todo = up.todo BY <2>1, <4>1 DEF UpShape
      <4> QED BY <4>2 DEF BeginPrepare, AtPrepare
    <3>6. up.at \in Provisions /\ up.todo # <<>> => Entry \in Provisionable(up.launch)
      BY <3>1 DEF Entry
    <3>7. Provisionable(up.launch) \subseteq AllDeclared
      BY <2>1 DEF IDeclared, Provisionable, AllDeclared
    <3>8. Sound(up.state.resources)'
      <4>1. Sound(up.state.resources) BY <2>1 DEF IDeclared
      <4>2. CASE up'.state.resources = up.state.resources BY <4>1, <4>2 DEF Sound
      <4>3. CASE /\ up.at = "entry" /\ up.todo # <<>> /\ Entry.type \in Provisioners
                 /\ up'.state.resources = Only(Entry.key, Record) ++ up.state.resources
        <5>1. Entry \in AllDeclared BY <4>3, <3>6, <3>7 DEF Provisions
        <5>2. Entry.type \in SqlTypes => Record.type = Server(Entry.type) /\ Record.password # Empty
          BY SqlRecord DEF Record
        <5>3. Entry.type \notin SqlTypes => Record.type \notin Servers
          BY <4>3, OtherRecord DEF Record
        <5> QED BY <4>1, <4>3, <5>1, <5>2, <5>3 DEF Sound, Only, ++
      <4>4. CASE /\ up.at = "create"
                 /\ up'.state.resources = Only(Entry.key, up.state.resources[Entry.key])
                                            ++ up.state.resources
        <5>1. Entry.key \in DOMAIN up.state.resources BY <4>4 DEF IDeclared
        <5> QED BY <4>1, <4>4, <5>1 DEF Sound, Only, ++
      <4> QED BY <2>2, <4>2, <4>3, <4>4 DEF Continues, Records
    <3>9. ASSUME up'.at = "create"
          PROVE  /\ up'.todo # <<>> /\ Entry'.type \in SqlTypes
                 /\ Entry'.key \in DOMAIN up'.state.resources
                 /\ up'.state.resources[Entry'.key].type = Server(Entry'.type)
      <4>1. PersistRecord BY <2>2, <3>9 DEF Continues, Advances
      <4> DEFINE res == Only(Entry.key, Record) ++ up.state.resources
      <4>2. up' = [up EXCEPT !.at = "create", !.state.resources = res] BY <4>1 DEF PersistRecord
      <4>3. up.todo # <<>> /\ Entry.type \in SqlTypes
        BY <4>1 DEF PersistRecord, Provisioning, AtEntry
      <4>4. Record.type = Server(Entry.type) BY <4>3, SqlRecord DEF Record
      <4>5. Entry.key \in DOMAIN res /\ res[Entry.key] = Record BY DEF Only, ++
      <4> HIDE DEF res
      <4>6. up'.todo = up.todo /\ up'.state.resources = res
        BY <2>1, <4>2 DEF UpShape, StateShape
      <4>7. Entry' = Entry BY <4>6 DEF Entry
      <4> QED BY <4>3, <4>4, <4>5, <4>6, <4>7
    <3> QED BY <3>3, <3>4, <3>5, <3>8, <3>9
  <2>3. disk' # Absent => Sound(disk.resources)'
    <3>1. CASE disk' = disk BY <3>1 DEF IDeclared, Sound
    <3>2. CASE disk' = up.state BY <2>1, <3>2 DEF IDeclared, Sound
    <3>3. CASE up' # NoUp /\ disk' = up'.state
      BY <2>1, <2>2, <3>3 DEF Labours, Sound
    <3> QED BY <2>1, <3>1, <3>2, <3>3 DEF Labours, Persists
  <2>4. CASE up' = NoUp BY <1>1, <2>3, <2>4 DEF IDeclared, NoUp, Provisions, Visits
  <2>5. CASE Continues
    BY <1>1, <2>1, <2>2, <2>3, <2>5 DEF Continues, IDeclared, Sound
  <2> QED BY <2>1, <2>4, <2>5 DEF Labours
<1>4. CASE Starts
  BY <1>1, <1>4 DEF Starts, IDeclared, Sound, Provisions, Visits
<1>5. CASE Concludes
  BY <1>1, <1>5 DEF Concludes, IDeclared, Sound, Provisions, Visits, NoUp
<1>6. CASE Breaks
  BY <1>1, <1>6 DEF Breaks, IDeclared, Sound, Provisions, Visits, NoUp
<1>7. CASE Besides
  BY <1>1, <1>7, SoundLoaded DEF Besides, Quiet, IDeclared, Sound, Entry
<1>8. CASE Rests
  BY <1>1, <1>8 DEF Rests, IDeclared, Sound, Entry
<1> QED
  BY <1>1, <1>2, <1>3, <1>4, <1>5, <1>6, <1>7, <1>8, Kinds, Concluding, Besiding

-----------------------------------------------------------------------------
(* Generated once, then kept. *)

Keeps(s, t) ==
  /\ KeptIn(s.generated, t.generated) /\ KeptIn(s.secrets, t.secrets)
  /\ KeptIn(Passwords(s), Passwords(t))

IGenerated ==
  /\ IDeclared
  /\ up.at # "idle" /\ "up" \notin stale /\ disk # Absent => Keeps(disk, up.state)

\* To keep is reflexive and transitive.
LEMMA KeepsItself == ASSUME NEW s PROVE Keeps(s, s)
BY DEF Keeps, KeptIn

LEMMA KeptInTransitive ==
  ASSUME NEW f, NEW g, NEW h, KeptIn(f, g), KeptIn(g, h) PROVE KeptIn(f, h)
BY DEF KeptIn

LEMMA KeepsTransitive ==
  ASSUME NEW s, NEW t, NEW u, Keeps(s, t), Keeps(t, u) PROVE Keeps(s, u)
BY KeptInTransitive DEF Keeps

\* No load drops a role.
LEMMA PasswordsLoaded ==
  ASSUME NEW s, NEW t, t.resources = validResources(s.resources)
  PROVE  KeptIn(Passwords(s), Passwords(t))
<1> DEFINE sql(x) == {k \in DOMAIN x.resources : x.resources[k].type \in Servers}
<1>1. ASSUME NEW k \in sql(s) PROVE k \in sql(t) /\ t.resources[k] = s.resources[k]
  BY DEF validResources, Restrict, Servers, Server, SqlTypes
<1>2. \A x : Passwords(x) = [k \in sql(x) |-> x.resources[k].password] BY DEF Passwords
<1> QED BY <1>1, <1>2 DEF KeptIn

\* Within an `up` everything generated is kept.
LEMMA LabourKeeps ==
  ASSUME KeysStaySql, IDeclared, Continues, Labours PROVE Keeps(up.state, up'.state)
<1>1. UpShape(up) /\ up.at \in Busy /\ up.at # "idle"
  BY BusyUp DEF Labours, IDeclared, Busy
<1>2. KeptIn(up.state.generated, up'.state.generated)
  <2>1. CASE up'.state.generated = up.state.generated BY <2>1 DEF KeptIn
  <2>2. ASSUME NEW c, WriteEnv(c) PROVE KeptIn(up.state.generated, up'.state.generated)
    <3> DEFINE started == StartedEnv(Comp(c), c, Context, up.state, By)
    <3>1. \E h : started.generated = up.state.generated ++ h
      BY DEF StartedEnv, resolveGenerators, WithGenerated
    <3>2. PICK g, e : up' = [up EXCEPT !.todo = Tail(@), !.state.generated = g, !.envs = e]
                      /\ g = started.generated
      BY <2>2 DEF WriteEnv
    <3> HIDE DEF started
    <3>3. up'.state.generated = g BY <1>1, <3>2 DEF UpShape, StateShape
    <3> QED BY <3>1, <3>2, <3>3 DEF KeptIn, ++
  <2> QED BY <2>1, <2>2 DEF Continues
<1>3. KeptIn(up.state.secrets, up'.state.secrets) BY DEF Continues, KeptIn
<1> DEFINE old == up.state.resources
           new == up'.state.resources
<1>4. ASSUME NEW k \in DOMAIN old, old[k].type \in Servers
      PROVE  k \in DOMAIN new /\ new[k].type \in Servers /\ new[k].password = old[k].password
  <2>1. CASE new = old BY <2>1, <1>4
  <2>2. CASE /\ up.at = "entry" /\ up.todo # <<>> /\ Entry.type \in Provisioners
             /\ new = Only(Entry.key, Record) ++ old
    <3>1. CASE k # Entry.key BY <1>4, <2>2, <3>1 DEF Only, ++
    <3>2. CASE k = Entry.key
      <4>1. Entry \in Provisionable(up.launch)
        BY <2>2, Taken DEF IDeclared, Provisions, Entry
      <4>2. Entry \in AllDeclared
        BY <1>1, <4>1 DEF IDeclared, Provisionable, AllDeclared
      <4>3. /\ old[k].password # Empty
            /\ \E e \in AllDeclared : e.key = k /\ e.type \in SqlTypes
        BY <1>1, <1>4 DEF IDeclared, Sound
      <4>4. Entry.type \in SqlTypes BY <2>2, <3>2, <4>2, <4>3 DEF KeysStaySql
      <4>5. Existing = old[k] BY <1>4, <3>2 DEF Existing, Get, Only, ++
      <4>6. Record.type \in Servers /\ Record.password = old[k].password
        BY <4>3, <4>4, <4>5, SqlRecord DEF Record
      <4> QED BY <2>2, <3>2, <4>6 DEF Only, ++
    <3> QED BY <3>1, <3>2
  <2>3. CASE up.at = "create" /\ new = Only(Entry.key, old[Entry.key]) ++ old
    BY <1>4, <2>3 DEF Only, ++
  <2> QED BY <2>1, <2>2, <2>3 DEF Continues, Records
<1>5. KeptIn(Passwords(up.state), Passwords(up'.state))
  BY <1>4 DEF KeptIn, Passwords
<1> QED BY <1>2, <1>3, <1>5 DEF Keeps

GeneratedStep ==
  disk # Absent /\ disk' # Absent /\ "lost" \notin odd' => Keeps(disk, disk')

\* No step changes or drops what was generated.
LEMMA GeneratedKept ==
  ASSUME KeysStaySql, IGenerated, [Next]_vars PROVE IGenerated' /\ GeneratedStep
<1>1. IDeclared /\ IDeclared' /\ Shapes BY DeclaredKept DEF IGenerated, IDeclared
<1>2. CASE Begins
  <2>1. disk # Absent => Keeps(disk, up'.state)
    <3>1. disk # Absent => /\ up'.state.resources = validResources(disk.resources)
                           /\ up'.state.generated = disk.generated
                           /\ KeptIn(disk.secrets, up'.state.secrets)
      BY <1>1, <1>2 DEF Begins, Loads, Shapes, StateShape, loadState
    <3> QED BY <3>1, PasswordsLoaded DEF Keeps, KeptIn
  <2> QED BY <1>1, <1>2, <2>1, KeepsItself DEF Begins, IGenerated, GeneratedStep
<1>3. CASE Labour
  <2>1. Labours /\ UpShape(up) /\ up.at # "idle" BY <1>1, <1>3, Labouring, BusyUp DEF Labours, Busy
  <2>2. Continues => Keeps(up.state, up'.state) BY <1>1, <2>1, LabourKeeps
  <2>3. "up" \notin stale /\ disk # Absent => Keeps(disk, up.state) BY <2>1 DEF IGenerated
  <2>4. up' = NoUp => up'.at = "idle" BY DEF NoUp
  <2>5. CASE disk' = disk /\ (up' # NoUp => stale' = stale)
    BY <1>1, <2>1, <2>2, <2>3, <2>4, <2>5, KeepsItself, KeepsTransitive
       DEF Labours, IGenerated, GeneratedStep
  <2>6. CASE Persists
    BY <1>1, <2>1, <2>2, <2>3, <2>4, <2>6, KeepsItself, KeepsTransitive
       DEF Labours, Persists, IGenerated, GeneratedStep
  <2> QED BY <2>1, <2>5, <2>6 DEF Labours
<1>4. CASE Starts
  BY <1>1, <1>4, KeepsItself DEF Starts, IGenerated, GeneratedStep
<1>5. CASE Concludes
  <2>1. Keeps(up.state, disk')
    BY <1>5 DEF Concludes, Keeps, KeptIn, Passwords
  <2>2. "up" \notin stale /\ disk # Absent => Keeps(disk, up.state)
    BY <1>5 DEF Concludes, IGenerated
  <2>3. GeneratedStep BY <1>5, <2>1, <2>2, KeepsTransitive DEF Concludes, GeneratedStep
  <2>4. up'.at # "idle" => Keeps(disk', up'.state)
    BY <1>5, KeepsItself DEF Concludes, NoUp
  <2> QED BY <1>1, <2>3, <2>4 DEF IGenerated
<1>6. CASE Breaks
  BY <1>1, <1>6, KeepsItself DEF Breaks, IGenerated, GeneratedStep, NoUp
<1>7. CASE Besides
  <2>1. CASE disk' = Absent BY <1>1, <2>1 DEF IGenerated, GeneratedStep
  <2>2. CASE disk' = disk /\ stale' = stale
    BY <1>1, <1>7, <2>2, KeepsItself DEF Besides, IGenerated, GeneratedStep
  <2>3. CASE /\ StateShape(disk') /\ Holding \subseteq stale'
             /\ disk'.resources = validResources(disk.resources)
             /\ disk'.secrets = disk.secrets /\ KeptIn(disk.generated, disk'.generated)
    <3>1. Keeps(disk, disk') BY <2>3, PasswordsLoaded DEF Keeps, KeptIn
    <3>2. up'.at # "idle" => "up" \in stale' BY <1>7, <2>3 DEF Besides, Holding
    <3> QED BY <1>1, <3>1, <3>2 DEF IGenerated, GeneratedStep
  <2> QED BY <1>7, <2>1, <2>2, <2>3 DEF Besides
<1>8. CASE Rests
  BY <1>1, <1>8, KeepsItself DEF Rests, IGenerated, GeneratedStep
<1> QED
  BY <1>1, <1>2, <1>3, <1>4, <1>5, <1>6, <1>7, <1>8, Kinds, Concluding, Besiding

\* Generated once, then kept (GeneratedOnce of NativeUp).
THEOREM GeneratedOnceHolds == ASSUME KeysStaySql PROVE Spec => GeneratedOnce
<1>1. Init => IGenerated
  BY InitShapes DEF Init, IGenerated, IDeclared, NoUp, Provisions, Visits
<1>2. IGenerated /\ [Next]_vars => IGenerated' BY GeneratedKept
<1>3. IGenerated /\ [Next]_vars =>
        [disk # Absent /\ disk' # Absent /\ "lost" \notin odd' =>
         /\ KeptIn(disk.generated, disk'.generated) /\ KeptIn(disk.secrets, disk'.secrets)
         /\ KeptIn(Passwords(disk), Passwords(disk'))]_vars
  BY GeneratedKept DEF GeneratedStep, Keeps
<1> QED BY <1>1, <1>2, <1>3, PTL DEF Spec, GeneratedOnce

-----------------------------------------------------------------------------
(* What is on a server is on record. *)

Covers(s, state) ==
  /\ server[s].bases \subseteq UNION {Bases(r) : r \in Mine(s, state)}
  /\ server[s].password \in {r.password : r \in Mine(s, state)}

Carries(f, g) ==
  \A k \in DOMAIN f :
    f[k].type \in Servers =>
      /\ k \in DOMAIN g /\ g[k].type = f[k].type /\ g[k].password = f[k].password
      /\ f[k].databases \subseteq g[k].databases

IOnRecord ==
  /\ IDeclared /\ DOMAIN server = Servers
  /\ up.at # "idle" /\ disk # Absent => Carries(disk.resources, up.state.resources)
  /\ up.at = "create" =>
       /\ disk = up.state
       /\ namedDatabases(Uses(Entry.key)) \subseteq up.state.resources[Entry.key].databases
  /\ odd \cap {"torn", "drop", "overlap", "ahead"} = {} =>
       \A s \in Servers : server[s] # NoRole => disk # Absent /\ Covers(s, disk)

\* To carry is reflexive and transitive.
LEMMA CarriesItself == ASSUME NEW f PROVE Carries(f, f)
BY DEF Carries

LEMMA CarriesTransitive ==
  ASSUME NEW f, NEW g, NEW h, Carries(f, g), Carries(g, h) PROVE Carries(f, h)
BY DEF Carries

\* A load carries the roles and their databases.
LEMMA CarriesLoaded ==
  ASSUME NEW f PROVE Carries(f, validResources(f)) /\ Carries(validResources(f), f)
BY DEF Carries, validResources, Restrict, Servers, Server, SqlTypes

\* What is carried still covers.
LEMMA MineCarried ==
  ASSUME NEW s \in Servers, NEW a, NEW b, Carries(a.resources, b.resources)
  PROVE  /\ UNION {Bases(r) : r \in Mine(s, a)} \subseteq UNION {Bases(r) : r \in Mine(s, b)}
         /\ {r.password : r \in Mine(s, a)} \subseteq {r.password : r \in Mine(s, b)}
<1>1. ASSUME NEW r \in Mine(s, a)
      PROVE  \E q \in Mine(s, b) : q.password = r.password /\ Bases(r) \subseteq Bases(q)
  <2>1. PICK k \in DOMAIN a.resources : r = a.resources[k] /\ r.type = s
    BY DEF Mine, Range
  <2>2. /\ k \in DOMAIN b.resources /\ b.resources[k].type = s
        /\ b.resources[k].password = r.password /\ r.databases \subseteq b.resources[k].databases
    BY <2>1 DEF Carries
  <2> QED BY <2>2 DEF Mine, Range, Bases
<1> QED BY <1>1

LEMMA CoversCarried ==
  ASSUME NEW s \in Servers, NEW a, NEW b, Carries(a.resources, b.resources), Covers(s, a)
  PROVE  Covers(s, b)
BY MineCarried DEF Covers

\* Within an `up` the roles on record are carried.
LEMMA LabourCarries ==
  ASSUME KeysKeepServer, IDeclared, Continues, Labours
  PROVE  Carries(up.state.resources, up'.state.resources)
<1>1. up.at # "idle" BY DEF Labours, Busy
<1> DEFINE old == up.state.resources
           new == up'.state.resources
<1>2. CASE new = old BY <1>2, CarriesItself
<1>3. CASE /\ up.at = "entry" /\ up.todo # <<>> /\ Entry.type \in Provisioners
           /\ new = Only(Entry.key, Record) ++ old
  <2> SUFFICES ASSUME NEW k \in DOMAIN old, old[k].type \in Servers
               PROVE  /\ k \in DOMAIN new /\ new[k].type = old[k].type
                      /\ new[k].password = old[k].password
                      /\ old[k].databases \subseteq new[k].databases
    BY DEF Carries
  <2>1. CASE k # Entry.key BY <1>3, <2>1 DEF Only, ++
  <2>2. CASE k = Entry.key
    <3>1. Entry \in Provisionable(up.launch)
      BY <1>3, Taken DEF IDeclared, Provisions, Entry
    <3>2. Entry \in AllDeclared
      BY <1>1, <3>1 DEF IDeclared, Provisionable, AllDeclared
    <3>3. /\ old[k].password # Empty
          /\ \E e \in AllDeclared : e.key = k /\ e.type \in SqlTypes /\ old[k].type = Server(e.type)
      BY <1>1 DEF IDeclared, Sound
    <3>4. Entry.type \in SqlTypes /\ Server(Entry.type) = old[k].type
      BY <1>3, <2>2, <3>2, <3>3 DEF KeysKeepServer
    <3>5. Existing = old[k] BY <2>2 DEF Existing, Get, Only, ++
    <3>6. /\ Record.type = old[k].type /\ Record.password = old[k].password
          /\ old[k].databases \subseteq Record.databases
      BY <3>3, <3>4, <3>5, SqlRecord DEF Record
    <3> QED BY <1>3, <2>2, <3>6 DEF Only, ++
  <2> QED BY <2>1, <2>2
<1>4. CASE up.at = "create" /\ new = Only(Entry.key, old[Entry.key]) ++ old
  BY <1>4 DEF Carries, Only, ++
<1> QED BY <1>2, <1>3, <1>4 DEF Continues, Records

\* Within an `up` one step alone changes a server.
LEMMA LabourServer == ASSUME Labour PROVE server' = server \/ \E made : Create(made)
BY DEF Labour, SkipEntry, ProvisionDry, ProvisionRedis, ProvisionSqlite, RefuseSqlite,
  SkipOptional, PersistRecord, CreateNothing, Wire, WriteEnv, SaveUp, SkipPrepare,
  BeginPrepare, EndPrepare, RunReleases

\* A role keeps its password, and only a new one gets another.
LEMMA CreatedFields ==
  ASSUME NEW standing, NEW p, NEW b
  PROVE  /\ Created(standing, p, b).password = IF standing.password = Empty THEN p ELSE standing.password
         /\ Created(standing, p, b).bases = standing.bases \cup b
BY DEF Created

LEMMA CreatedAnew ==
  ASSUME NEW p, NEW b
  PROVE  Created(NoRole, p, b).password = p /\ Created(NoRole, p, b).bases = b
BY DEF Created, NoRole

\* At the role that is created the record is on disk.
LEMMA CreateCovered ==
  ASSUME IOnRecord, NEW made, Create(made), NEW s \in Servers,
         server[s] # NoRole => Covers(s, disk)
  PROVE  server'[s] # NoRole => Covers(s, disk)' /\ DOMAIN server' = Servers
<1> DEFINE r == up.state.resources[Entry.key]
           names == namedDatabases(Uses(Entry.key))
<1>1. /\ up.at = "create" /\ made \subseteq names /\ disk' = disk
      /\ server' = [server EXCEPT ![r.type] = Created(@, r.password, {""} \cup made)]
  BY DEF Create
<1>2. disk = up.state /\ names \subseteq r.databases /\ Entry.key \in DOMAIN up.state.resources
  BY <1>1 DEF IOnRecord, IDeclared
<1>3. r \in Range(disk.resources) BY <1>2 DEF Range
<1> HIDE DEF r, names
<1>4. DOMAIN server = Servers BY DEF IOnRecord
<1>5. CASE s # r.type BY <1>1, <1>4, <1>5 DEF Covers, Mine
<1>6. CASE s = r.type
  <2> DEFINE p == r.password
             b == {""} \cup made
  <2>1. server'[s] = Created(server[s], p, b) BY <1>1, <1>4, <1>6
  <2>2. r \in Mine(s, disk) /\ p \in {q.password : q \in Mine(s, disk)}
    BY <1>3, <1>6 DEF Mine
  <2>3. b \subseteq UNION {Bases(q) : q \in Mine(s, disk)}
    <3>1. b \subseteq Bases(r) BY <1>1, <1>2 DEF Bases
    <3> HIDE DEF b
    <3> QED BY <2>2, <3>1
  <2>4. Mine(s, disk)' = Mine(s, disk) BY <1>1 DEF Mine
  <2> HIDE DEF p, b
  <2>5. CASE server[s] = NoRole
    <3>1. server'[s].password = p /\ server'[s].bases = b BY <2>1, <2>5, CreatedAnew
    <3> QED BY <1>1, <1>4, <2>2, <2>3, <2>4, <3>1 DEF Covers
  <2>6. CASE server[s] # NoRole
    <3>1. server'[s].password \in {server[s].password, p} BY <2>1, CreatedFields
    <3>2. server'[s].bases = server[s].bases \cup b BY <2>1, CreatedFields
    <3> QED BY <1>1, <1>4, <2>2, <2>3, <2>4, <2>6, <3>1, <3>2 DEF Covers
  <2> QED BY <2>5, <2>6
<1> QED BY <1>5, <1>6

\* What `env` and `bootstrap` provision is what is on record.
LEMMA AnswerCovered ==
  ASSUME Shapes, Quiet, NEW launch, NEW state, Answer(launch, state), "ahead" \notin odd',
         NEW s \in Servers, server[s] # NoRole => Covers(s, disk)
  PROVE  /\ DOMAIN server' = Servers
         /\ server'[s] # NoRole =>
              /\ server'[s].bases \subseteq UNION {Bases(r) : r \in Mine(s, disk)}
              /\ server'[s].password \in {r.password : r \in Mine(s, disk)}
<1> DEFINE held == {k \in DOMAIN loadState.resources : loadState.resources[k].type = s}
           k0 == CHOOSE k \in held : TRUE
           bases == {""} \cup UNION {NamedBases(launch, k) : k \in held}
<1>1. DOMAIN server' = Servers /\ server'[s] = Ensured(launch, s) BY DEF Answer
<1>2. loadState.resources = validResources(disk.resources) BY Loaded
<1>3. Mine(s, loadState) \subseteq Mine(s, disk)
  BY <1>2 DEF Mine, Range, validResources, Restrict
<1>4. CASE held = {}
  <2>1. server'[s] = server[s] BY <1>1, <1>4 DEF Ensured
  <2> QED BY <1>1, <2>1 DEF Covers
<1>5. CASE held # {}
  <2>1. k0 \in held BY <1>5
  <2>2. server'[s] = Created(server[s], loadState.resources[k0].password, bases)
    BY <1>1, <1>5 DEF Ensured
  <2>3. loadState.resources[k0] \in Mine(s, disk)
    BY <2>1, <1>3 DEF Mine, Range
  <2>4. server'[s].bases \subseteq server[s].bases \cup UNION {Bases(r) : r \in Mine(s, loadState)}
    BY DEF Answer
  <2> DEFINE p == loadState.resources[k0].password
  <2>5. p \in {r.password : r \in Mine(s, disk)} BY <2>3
  <2> HIDE DEF p, bases, k0
  <2>6. server'[s].password = IF server[s].password = Empty THEN p ELSE server[s].password
    BY <2>2, CreatedFields DEF p
  <2>7. CASE server[s] = NoRole
    <3>1. server'[s].password = p BY <2>6, <2>7 DEF NoRole
    <3>2. server[s].bases = {} BY <2>7 DEF NoRole
    <3> QED BY <1>1, <1>3, <2>4, <2>5, <3>1, <3>2
  <2>8. CASE server[s] # NoRole
    BY <1>1, <1>3, <2>4, <2>5, <2>6, <2>8 DEF Covers
  <2> QED BY <2>7, <2>8
<1> QED BY <1>4, <1>5

LEMMA BesideKinds ==
  ASSUME Beside
  PROVE  \/ Down \/ \E dropped : Destroy(dropped)
         \/ Quiet /\ \E launch, g : Answer(launch, [loadState EXCEPT !.generated = g])
BY DEF Beside, Env, Bootstrap

\* No step makes on a server what is not on record.
LEMMA OnRecordKept == ASSUME KeysKeepServer, IOnRecord, [Next]_vars PROVE IOnRecord'
<1> DEFINE Clean == odd \cap {"torn", "drop", "overlap", "ahead"} = {}
<1>1. IDeclared /\ IDeclared' /\ Shapes /\ DOMAIN server = Servers
  BY DeclaredKept DEF IOnRecord, IDeclared
<1>2. Clean' => Clean BY OddGrows
<1>3. Clean => \A s \in Servers : server[s] # NoRole => disk # Absent /\ Covers(s, disk)
  BY DEF IOnRecord
<1>4. up.at # "idle" /\ disk # Absent => Carries(disk.resources, up.state.resources)
  BY DEF IOnRecord
\* Where the servers stay, it is enough that the record on disk grows.
<1>5. ASSUME server' = server,
             disk # Absent => disk' # Absent /\ Carries(disk.resources, disk'.resources)
      PROVE  Clean' => \A s \in Servers : server'[s] # NoRole => disk' # Absent /\ Covers(s, disk)'
  <2> SUFFICES ASSUME Clean', NEW s \in Servers, server'[s] # NoRole
               PROVE disk' # Absent /\ Covers(s, disk)'
    OBVIOUS
  <2>1. disk # Absent /\ Covers(s, disk) BY <1>2, <1>3, <1>5
  <2>2. disk' # Absent /\ Carries(disk.resources, disk'.resources) BY <1>5, <2>1
  <2>3. Covers(s, disk') BY <2>1, <2>2, CoversCarried
  <2> QED BY <2>2, <2>3, <1>5 DEF Covers, Mine
<1>6. CASE Begins
  <2>1. disk # Absent => Carries(disk.resources, up'.state.resources)
    BY <1>1, <1>6, CarriesLoaded DEF Begins, Loads, Shapes, StateShape, loadState
  <2>2. disk' = disk /\ server' = server /\ up'.at = "entry" BY <1>6 DEF Begins
  <2> QED BY <1>1, <1>5, <2>1, <2>2, CarriesItself DEF IOnRecord
<1>7. CASE Labour
  <2>1. Labours /\ up.at # "idle" /\ UpShape(up)
    BY <1>1, <1>7, Labouring, BusyUp DEF Labours, Busy
  <2>2. Continues => Carries(up.state.resources, up'.state.resources)
    BY <1>1, <2>1, LabourCarries
  <2>3. up' = NoUp => up'.at = "idle" BY DEF NoUp
  <2>4. disk' # Absent /\ up'.at # "idle" => Carries(disk'.resources, up'.state.resources)
    BY <2>1, <2>2, <2>3, <1>4, CarriesItself, CarriesTransitive DEF Labours, Persists
  <2>5. disk # Absent => disk' # Absent /\ Carries(disk.resources, disk'.resources)
    <3>1. CASE disk' = disk BY <3>1, CarriesItself
    <3>2. CASE disk' = up.state
      BY <2>1, <1>4, <3>2, StateApart DEF UpShape
    <3>3. CASE up' # NoUp /\ disk' = up'.state
      BY <2>1, <2>2, <1>4, <3>3, StateApart, CarriesTransitive DEF Labours, Continues, UpShape
    <3> QED BY <2>1, <3>1, <3>2, <3>3 DEF Labours, Persists
  <2>6. ASSUME up'.at = "create"
        PROVE  /\ disk' = up'.state
               /\ namedDatabases(Uses(Entry.key))' \subseteq up'.state.resources[Entry'.key].databases
    <3>1. PersistRecord BY <2>1, <2>3, <2>6 DEF Labours, Continues, Advances
    <3> DEFINE res == Only(Entry.key, Record) ++ up.state.resources
    <3>2. up' = [up EXCEPT !.at = "create", !.state.resources = res] BY <3>1 DEF PersistRecord
    <3>3. Entry.type \in SqlTypes BY <3>1 DEF PersistRecord, Provisioning, AtEntry
    <3>4. res[Entry.key] = Record BY DEF Only, ++
    <3>5. namedDatabases(Uses(Entry.key)) \subseteq Record.databases
      BY <3>3, SqlRecord DEF Record
    <3> HIDE DEF res
    <3>6. /\ up'.todo = up.todo /\ up'.state.resources = res
          /\ up'.launch = up.launch /\ up'.order = up.order
      BY <2>1, <3>2 DEF UpShape, StateShape
    <3>7. Entry' = Entry /\ Launch' = Launch BY <3>6 DEF Entry, Launch
    <3>8. namedDatabases(Uses(Entry.key))' = namedDatabases(Uses(Entry.key))
      BY <3>7 DEF Uses
    <3>9. disk' = up'.state BY <3>1 DEF PersistRecord, saveState, written
    <3> QED BY <3>4, <3>5, <3>6, <3>7, <3>8, <3>9
  <2>7. CASE server' = server
    BY <1>1, <1>5, <2>4, <2>5, <2>6, <2>7 DEF IOnRecord
  <2>8. ASSUME NEW made, Create(made) PROVE IOnRecord'
    <3>1. disk' = disk /\ odd' = odd /\ disk # Absent
      BY <2>1, <2>8, StateApart DEF Create, IOnRecord, UpShape
    <3>2. Clean' => \A s \in Servers : server'[s] # NoRole => disk' # Absent /\ Covers(s, disk)'
      BY <1>2, <1>3, <2>8, <3>1, CreateCovered
    <3>3. DOMAIN server' = Servers BY <1>1, <2>8 DEF Create
    <3> QED BY <1>1, <2>4, <2>6, <3>2, <3>3 DEF IOnRecord
  <2> QED BY <1>7, <2>7, <2>8, LabourServer
<1>8. CASE Starts
  <2>1. server' = server BY <1>8 DEF Starts
  <2>2. disk' = disk /\ up'.state = up.state /\ up'.at # "idle" /\ up.at # "idle" /\ up'.at # "create"
    BY <1>8 DEF Starts
  <2> QED BY <1>1, <1>4, <1>5, <2>1, <2>2, CarriesItself DEF IOnRecord
<1>9. CASE Finishes
  <2>1. Concludes BY <1>1, <1>9, Concluding
  <2>2. server' = server BY <1>9 DEF Finishes, RecordProcesses, Interrupt
  <2>3. disk' # Absent /\ disk'.resources = up.state.resources /\ up.at # "idle" /\ up'.at # "create"
    BY <2>1, StateApart DEF Concludes, NoUp
  <2>4. up'.at # "idle" => up'.state.resources = disk'.resources BY <2>1 DEF Concludes, NoUp
  <2> QED BY <1>1, <1>4, <1>5, <2>2, <2>3, <2>4, CarriesItself DEF IOnRecord
<1>10. CASE Breaks
  <2>1. up'.at = "idle" /\ server' = server BY <1>10 DEF Breaks, NoUp
  <2>2. CASE disk' = disk BY <1>1, <1>5, <2>1, <2>2, CarriesItself DEF IOnRecord
  <2>3. CASE "torn" \in odd' BY <1>1, <2>1, <2>3 DEF IOnRecord
  <2> QED BY <1>10, <2>2, <2>3 DEF Breaks
<1>11. CASE Beside
  <2>1. Besides /\ Quiet /\ up' = up /\ up'.at # "create"
    BY <1>1, <1>11, Besiding DEF Besides, Quiet
  <2>2. disk' # Absent =>
          Carries(disk.resources, disk'.resources) /\ Carries(disk'.resources, disk.resources)
    BY <2>1, CarriesItself, CarriesLoaded DEF Besides
  <2>3. up'.at # "idle" /\ disk' # Absent => Carries(disk'.resources, up'.state.resources)
    BY <2>1, <2>2, <1>4, CarriesTransitive DEF Quiet
  <2>4. CASE Down
    <3>1. disk' # Absent /\ server' = server
      BY <1>1, <2>4, <2>1, Loaded DEF Down, saveState, written, StateShape, Absent
    <3> QED BY <1>1, <1>5, <2>1, <2>2, <2>3, <3>1 DEF IOnRecord
  <2>5. ASSUME NEW dropped, Destroy(dropped) PROVE IOnRecord'
    <3>1. disk' = Absent BY <2>5 DEF Destroy
    <3>2. DOMAIN server' = Servers BY <1>1, <2>5 DEF Destroy
    <3>3. Clean' => server' = [s \in Servers |-> NoRole]
      BY <2>5 DEF Destroy
    <3> QED BY <1>1, <2>1, <3>1, <3>2, <3>3 DEF IOnRecord
  <2>6. ASSUME NEW launch, NEW g, Answer(launch, [loadState EXCEPT !.generated = g])
        PROVE  IOnRecord'
    <3> DEFINE state == [loadState EXCEPT !.generated = g]
    <3>5. StateShape(state) BY <1>1, <2>1, Loaded DEF StateShape
    <3> HIDE DEF state
    <3>6. Answer(launch, state) BY <2>6 DEF state
    <3>1. Clean' => "ahead" \notin odd' OBVIOUS
    <3>2. DOMAIN server' = Servers BY <3>6 DEF Answer
    <3>3. disk' # Absent BY <2>1, <3>5, <3>6, StateApart DEF Answer, Quiet
    <3>4. ASSUME Clean', NEW s \in Servers, server'[s] # NoRole PROVE Covers(s, disk)'
      <4>1. server[s] # NoRole => Covers(s, disk) BY <1>2, <1>3, <3>4
      <4>2. /\ server'[s].bases \subseteq UNION {Bases(r) : r \in Mine(s, disk)}
            /\ server'[s].password \in {r.password : r \in Mine(s, disk)}
        BY <1>1, <2>1, <3>6, <3>1, <3>4, <4>1, AnswerCovered
      <4>3. Carries(disk.resources, disk'.resources) BY <2>2, <3>3
      <4>4. /\ server'[s].bases \subseteq UNION {Bases(r) : r \in Mine(s, disk')}
            /\ server'[s].password \in {r.password : r \in Mine(s, disk')}
        BY <4>2, <4>3, MineCarried
      <4> QED BY <4>4 DEF Covers, Mine
    <3> QED BY <1>1, <2>1, <2>3, <3>2, <3>3, <3>4 DEF IOnRecord
  <2> QED BY <1>11, <2>1, <2>4, <2>5, <2>6, BesideKinds
<1>12. CASE Rests
  BY <1>1, <1>4, <1>5, <1>12, CarriesItself DEF Rests, IOnRecord, Entry, Uses, Launch
<1> QED
  BY <1>1, <1>6, <1>7, <1>8, <1>9, <1>10, <1>11, <1>12, Kinds

\* What is on a server is on record (OnRecord of NativeUp).
THEOREM OnRecordAlways == ASSUME KeysKeepServer PROVE Spec => []OnRecord
<1>1. Init => IOnRecord
  BY InitShapes DEF Init, IOnRecord, IDeclared, NoUp, Provisions, Visits
<1>2. IOnRecord /\ [Next]_vars => IOnRecord' BY OnRecordKept
<1>3. IOnRecord => OnRecord BY DEF IOnRecord, OnRecord, Covers
<1> QED BY <1>1, <1>2, <1>3, PTL DEF Spec

-----------------------------------------------------------------------------
(* A prepare that is skipped has nothing to do. *)

Dir(n, c) == Launches[n].comp[c].dir

\* The components that have had no other directory.
Homes(n) == {c \in Names(Launches[n]) : DirsOf(c) = {Dir(n, c)}}

\* Nothing has happened that the skip of a prepare does not provide for.
Foreseen == odd \cap {"shared", "returned"} = {}

\* What is recorded of a component was once the content of its directory, and
\* where it still is, the directory was prepared from it.
Was(prepared) ==
  \A n \in DOMAIN Launches : \A c \in Homes(n) \cap DOMAIN prepared :
    \E i \in 1..deps[Dir(n, c)] : prepared[c] = <<prepared[c][1], Contents[i]>>

Serves(prepared, store) ==
  \A n \in DOMAIN Launches : \A c \in Homes(n) \cap DOMAIN prepared :
    prepared[c][2] = Files(Dir(n, c))
      => Get(store, <<Dir(n, c), prepared[c][1]>>) = Files(Dir(n, c))

\* What is being prepared is not prepared yet, and is what will be recorded.
Underway ==
  LET dir == Dir(up.launch, Preparing)
      command == up.begun[2][1]
  IN  /\ up.begun[1] = <<dir, command>>
      /\ \E i \in 1..deps[dir] : up.begun[2] = <<command, Contents[i]>>
      /\ Get(installed, <<dir, command>>) = Partial

IUpToDate ==
  /\ IDeclared
  /\ deps \in [Dirs \cup {"."} -> 1..Len(Contents)]
  /\ up.at = "preparing" => Underway
  /\ disk # Absent => Was(disk.prepared)
  /\ up.at # "idle" => Was(up.state.prepared)
  /\ up.at # "idle" /\ disk # Absent => KeptIn(disk.prepared, up.state.prepared)
  /\ Foreseen =>
       /\ disk # Absent => Serves(disk.prepared, installed)
       /\ up.at # "idle" => Serves(up.state.prepared, installed)

\* What holds of a record holds of a part of it.
LEMMA Lesser ==
  ASSUME NEW P, NEW Q, NEW store, KeptIn(Q, P)
  PROVE  (Was(P) => Was(Q)) /\ (Serves(P, store) => Serves(Q, store))
BY DEF KeptIn, Was, Serves

LEMMA DirIn ==
  ASSUME NEW n \in DOMAIN Launches, NEW c \in Names(Launches[n])
  PROVE  Dir(n, c) \in Dirs /\ Dir(n, c) \in DirsOf(c)
BY DEF Dirs, Dir, DirsOf

LEMMA AtHome ==
  ASSUME NEW n \in DOMAIN Launches, NEW c \in Homes(n)
  PROVE  c \in Names(Launches[n]) /\ Dir(n, c) \in Dirs
BY DirIn DEF Homes

\* Only an edit changes the dependency files, and it adds one content.
LEMMA FilesKept ==
  ASSUME Shapes, [Next]_vars
  PROVE  \/ deps' = deps /\ (installed' = installed \/ BeginPrepare \/ EndPrepare)
         \/ Rests /\ \E dir \in DOMAIN deps : EditFiles(dir)
<1>1. CASE Begins BY <1>1 DEF Begins
<1>2. CASE Labour
  BY <1>2 DEF Labour, SkipEntry, ProvisionDry, ProvisionRedis, ProvisionSqlite, RefuseSqlite,
     SkipOptional, PersistRecord, CreateNothing, Create, Wire, WriteEnv, SaveUp, SkipPrepare,
     RunReleases, BeginPrepare, EndPrepare
<1>3. CASE Starts BY <1>3 DEF Starts
<1>4. CASE Finishes BY <1>4 DEF Finishes, RecordProcesses, Interrupt
<1>5. CASE Breaks BY <1>5 DEF Breaks
<1>6. CASE Beside BY <1>6, BesideKinds DEF Down, Destroy, Answer
<1>7. CASE Rests BY <1>7 DEF Rests
<1> QED BY <1>1, <1>2, <1>3, <1>4, <1>5, <1>6, <1>7, Kinds

\* The command that runs, and its directory, at a component of the `up`.
LEMMA AtComponent ==
  ASSUME IUpToDate, up.at \in Visits, up.todo # <<>>
  PROVE  /\ up.launch \in DOMAIN Launches /\ Preparing \in Names(Launches[up.launch])
         /\ Comp(Preparing).dir = Dir(up.launch, Preparing)
         /\ Key(Preparing) = <<Dir(up.launch, Preparing), Command(Preparing)>>
         /\ Fingerprint(Preparing) = <<Command(Preparing), Files(Dir(up.launch, Preparing))>>
         /\ Dir(up.launch, Preparing) \in Dirs
         /\ deps[Dir(up.launch, Preparing)] \in 1..deps[Dir(up.launch, Preparing)]
<1>1. up.at # "idle" BY DEF Visits
<1>2. up.launch \in DOMAIN Launches /\ Preparing \in Names(Launches[up.launch])
  BY <1>1, Taken DEF IUpToDate, IDeclared, Preparing
<1>3. Launch.comp = Launches[up.launch].comp BY <1>2, LaunchesAssumption DEF Launch
<1>4. Comp(Preparing).dir = Dir(up.launch, Preparing) BY <1>3 DEF Comp, Dir
<1>5. Dir(up.launch, Preparing) \in Dirs BY <1>2, DirIn
<1>6. deps[Dir(up.launch, Preparing)] \in 1..Len(Contents) BY <1>5 DEF IUpToDate
<1> QED
  BY <1>2, <1>4, <1>5, <1>6 DEF Key, Fingerprint, prepareFingerprint

\* One more component on record.
LEMMA Added ==
  ASSUME NEW P, NEW store, NEW n \in DOMAIN Launches, NEW c \in Names(Launches[n]),
         NEW command, NEW i \in 1..deps[Dir(n, c)]
  PROVE  LET Q == Only(c, <<command, Contents[i]>>) ++ P
         IN  /\ Was(P) => Was(Q)
             /\ /\ Serves(P, store)
                /\ Contents[i] = Files(Dir(n, c))
                     => Get(store, <<Dir(n, c), command>>) = Files(Dir(n, c))
                => Serves(Q, store)
<1> DEFINE fp == <<command, Contents[i]>>
           Q == Only(c, fp) ++ P
<1>1. DOMAIN Q = {c} \cup DOMAIN P /\ Q[c] = fp /\ \A d \in DOMAIN P \ {c} : Q[d] = P[d]
  BY DEF Only, ++
<1>2. \A m \in DOMAIN Launches : c \in Homes(m) => Dir(m, c) = Dir(n, c)
  BY DirIn DEF Homes
<1>3. fp = <<fp[1], Contents[i]>> /\ fp[2] = Contents[i] /\ fp[1] = command OBVIOUS
<1> HIDE DEF Q, fp
<1>4. Was(P) => Was(Q) BY <1>1, <1>2, <1>3 DEF Was
<1>5. /\ Serves(P, store)
      /\ Contents[i] = Files(Dir(n, c))
           => Get(store, <<Dir(n, c), command>>) = Files(Dir(n, c))
      => Serves(Q, store)
  BY <1>1, <1>2, <1>3 DEF Serves
<1> QED BY <1>4, <1>5 DEF Q, fp

\* What is recorded of another component was prepared in another directory or
\* with another command, or is no longer the content.
LEMMA Elsewhere ==
  ASSUME IUpToDate, NEW P, NEW key, NEW value, Serves(P, installed),
         \A n \in DOMAIN Launches : \A c \in Homes(n) \cap DOMAIN P :
           <<Dir(n, c), P[c][1]>> = key => P[c][2] # Files(Dir(n, c))
  PROVE  Serves(P, Only(key, value) ++ installed)
<1> SUFFICES ASSUME NEW n \in DOMAIN Launches, NEW c \in Homes(n) \cap DOMAIN P,
                    P[c][2] = Files(Dir(n, c))
             PROVE  Get(Only(key, value) ++ installed, <<Dir(n, c), P[c][1]>>) = Files(Dir(n, c))
  BY DEF Serves
<1>1. <<Dir(n, c), P[c][1]>> # key OBVIOUS
<1>2. Get(installed, <<Dir(n, c), P[c][1]>>) = Files(Dir(n, c)) BY DEF Serves
<1> DEFINE k == <<Dir(n, c), P[c][1]>>
<1> HIDE DEF k
<1>3. k # key => Get(Only(key, value) ++ installed, k) = Get(installed, k) BY DEF Get, Only, ++
<1> QED BY <1>1, <1>2, <1>3 DEF k

\* The one prepare that was run.
LEMMA GetOnly ==
  ASSUME NEW key, NEW value, NEW f PROVE Get(Only(key, value) ++ f, key) = value
BY DEF Get, Only, ++

LEMMA Current ==
  ASSUME IUpToDate, NEW dir \in Dirs
  PROVE  deps[dir] \in DOMAIN Contents /\ 1..deps[dir] \subseteq DOMAIN Contents
<1>1. deps[dir] \in 1..Len(Contents) BY DEF IUpToDate
<1>2. DOMAIN Contents = 1..Len(Contents) BY ContentsAssumption DEF IsSeq
<1> QED BY <1>1, <1>2

\* A skipped prepare is recorded as it was, or for the files there are now.
LEMMA PreparedSkipped ==
  ASSUME IUpToDate, SkipPrepare
  PROVE  /\ up'.at = "prepare" /\ installed' = installed /\ deps' = deps
         /\ up.todo # <<>> /\ up.at = "prepare"
         /\ \/ /\ disk' = disk /\ KeptIn(up.state.prepared, up'.state.prepared)
               /\ KeptIn(up'.state.prepared, up.state.prepared)
            \/ /\ disk' = up'.state
               /\ up'.state.prepared = Only(Preparing, Fingerprint(Preparing)) ++ up.state.prepared
               /\ Foreseen' =>
                    Get(installed, Key(Preparing)) = Files(Comp(Preparing).dir)
<1>1. UpShape(up) /\ up.at = "prepare" /\ installed' = installed /\ deps' = deps /\ up.todo # <<>>
  BY AnyUp DEF SkipPrepare, AtPrepare, IUpToDate, IDeclared
<1>2. CASE up' = [up EXCEPT !.todo = Tail(@)] /\ disk' = disk
  <2>1. up'.at = "prepare" /\ up'.state.prepared = up.state.prepared
    BY <1>1, <1>2 DEF UpShape, StateShape
  <2> QED BY <1>1, <1>2, <2>1 DEF KeptIn
<1>3. CASE /\ up' = [up EXCEPT !.todo = Tail(@), !.prepared = @ \cup {Key(Preparing)},
                          !.state.prepared = Only(Preparing, Fingerprint(Preparing)) ++ @]
           /\ IF Prepared(Preparing) = Fingerprint(Preparing) THEN UNCHANGED <<disk, stale, odd>>
              ELSE /\ written("up", up'.state)
                   /\ odd' = odd \cup Lost("up") \cup Outrun(Preparing)
  <2> DEFINE f == Only(Preparing, Fingerprint(Preparing)) ++ up.state.prepared
  <2>1. PICK k : up' = [up EXCEPT !.todo = Tail(@), !.prepared = k, !.state.prepared = f]
    BY <1>3
  <2> HIDE DEF f
  <2>2. up'.at = "prepare" /\ up'.state.prepared = f
    BY <1>1, <2>1 DEF UpShape, StateShape
  <2>3. CASE Prepared(Preparing) = Fingerprint(Preparing)
    <3>1. Preparing \in DOMAIN up.state.prepared
          /\ up.state.prepared[Preparing] = Fingerprint(Preparing)
      BY <2>3 DEF Prepared, Get, Fingerprint, prepareFingerprint, Undefined
    <3>2. KeptIn(up.state.prepared, f) /\ KeptIn(f, up.state.prepared)
      BY <3>1 DEF KeptIn, f, Only, ++
    <3> QED BY <1>1, <1>3, <2>2, <2>3, <3>2
  <2>4. CASE Prepared(Preparing) # Fingerprint(Preparing)
    <3>1. disk' = up'.state /\ odd' = odd \cup Lost("up") \cup Outrun(Preparing)
      BY <1>3, <2>4 DEF written
    <3>2. Foreseen' => Get(installed, Key(Preparing)) = Files(Comp(Preparing).dir)
      BY <3>1 DEF Outrun, Foreseen
    <3> QED BY <1>1, <2>2, <3>1, <3>2 DEF f
  <2> QED BY <2>3, <2>4
<1> QED BY <1>2, <1>3 DEF SkipPrepare

\* What is on record is what was, or what the `up` held.
PassesOn ==
  /\ up'.at # "preparing" \/ up' = up
  /\ disk' # Absent => \/ disk # Absent /\ disk'.prepared = disk.prepared
                       \/ up.at # "idle" /\ disk'.prepared = up.state.prepared
  /\ up'.at # "idle" => \/ up'.state.prepared = <<>>
                        \/ disk # Absent /\ up'.state.prepared = disk.prepared
                        \/ up.at # "idle" /\ up'.state.prepared = up.state.prepared
  /\ up'.at # "idle" /\ disk' # Absent => KeptIn(disk'.prepared, up'.state.prepared)

\* What holds where neither the files nor what was prepared from them change.
LEMMA UpToDateStays ==
  ASSUME IUpToDate, IDeclared', odd \subseteq odd', deps' = deps, installed' = installed,
         PassesOn
  PROVE  IUpToDate'
<1>3. Was(<<>>) /\ Serves(<<>>, installed) BY DEF Was, Serves
<1>4. (up.at = "preparing" => Underway) /\ (up' = up => Underway' = Underway)
  BY DEF PassesOn, IUpToDate, Underway, Dir, Preparing
<1>5. Foreseen' => Foreseen BY DEF Foreseen
<1>6. disk' # Absent => Was(disk'.prepared) /\ (Foreseen' => Serves(disk'.prepared, installed))
  BY <1>5 DEF PassesOn, IUpToDate
<1>7. up'.at # "idle" => Was(up'.state.prepared)
                         /\ (Foreseen' => Serves(up'.state.prepared, installed))
  BY <1>3, <1>5 DEF PassesOn, IUpToDate
<1>8. disk' # Absent => Was(disk.prepared)' /\ (Foreseen' => Serves(disk.prepared, installed)')
  BY <1>6 DEF Was, Serves, Dir, Files
<1>9. up'.at # "idle" => Was(up.state.prepared)'
                         /\ (Foreseen' => Serves(up.state.prepared, installed)')
  BY <1>7 DEF Was, Serves, Dir, Files
<1> QED BY <1>4, <1>8, <1>9 DEF PassesOn, IUpToDate

\* A prepare that begins leaves nothing on record that it undoes.
LEMMA BeginKept == ASSUME IUpToDate, IDeclared', BeginPrepare PROVE IUpToDate'
<1> DEFINE n   == up.launch
           c   == Preparing
           dir == Dir(n, c)
           fp  == Fingerprint(c)
           key == Key(c)
<1>1. /\ up.at = "prepare" /\ up.todo # <<>> /\ disk' = disk /\ deps' = deps
      /\ installed' = Only(key, Partial) ++ installed
      /\ odd' = IF Covering = {} THEN odd ELSE odd \cup {"shared"}
      /\ UpShape(up)
  BY AnyUp DEF BeginPrepare, AtPrepare, IUpToDate, IDeclared
<1>2. /\ dir \in Dirs /\ key = <<dir, Command(c)>> /\ fp = <<Command(c), Files(dir)>>
      /\ deps[dir] \in 1..deps[dir]
  BY <1>1, AtComponent DEF Visits
<1>3. PICK b : up' = [up EXCEPT !.at = "preparing", !.begun = b] /\ b = <<key, fp>>
  BY DEF BeginPrepare
<1>4. /\ up'.at = "preparing" /\ up'.begun = b /\ up'.launch = up.launch
      /\ up'.todo = up.todo /\ up'.state = up.state
  BY <1>1, <1>3 DEF UpShape, StateShape
<1>5. Preparing' = Preparing BY <1>4 DEF Preparing
<1> HIDE DEF dir, fp, key
<1>6. Underway'
  <2>1. up'.begun[1] = <<dir, Command(c)>> /\ up'.begun[2] = fp /\ fp[1] = Command(c)
    BY <1>2, <1>3, <1>4
  <2>2. fp = <<Command(c), Contents[deps[dir]]>> BY <1>2 DEF Files
  <2>3. Get(installed', key) = Partial BY <1>1, GetOnly
  <2>4. Dir(up'.launch, Preparing') = dir BY <1>4, <1>5 DEF dir
  <2>5. \E i \in 1..deps[dir] : up'.begun[2] = <<Command(c), Contents[i]>>
    BY <1>2, <2>1, <2>2
  <2> HIDE DEF c
  <2>6. up'.begun[1] = <<dir, up'.begun[2][1]>> /\ Get(installed', <<dir, up'.begun[2][1]>>) = Partial
        /\ \E i \in 1..deps[dir] : up'.begun[2] = <<up'.begun[2][1], Contents[i]>>
    BY <1>2, <2>1, <2>3, <2>5
  <2>7. Dir(n, Preparing)' = dir BY <2>4 DEF Dir
  <2> QED BY <1>1, <2>6, <2>7 DEF Underway
\* Of what is on record nothing is what begins, or the directory is shared.
<1>7. ASSUME Foreseen', NEW P, Was(P), Serves(P, installed), KeptIn(P, up.state.prepared)
      PROVE  Serves(P, installed')
  <2>1. Covering = {} BY <1>1, <1>7 DEF Foreseen
  <2>2. ASSUME NEW m \in DOMAIN Launches, NEW d \in Homes(m) \cap DOMAIN P,
               <<Dir(m, d), P[d][1]>> = key, P[d][2] = Files(Dir(m, d))
        PROVE  FALSE
    <3>1. PICK i \in 1..deps[Dir(m, d)] : P[d] = <<P[d][1], Contents[i]>> BY <1>7 DEF Was
    <3>2. Dir(m, d) = dir /\ P[d][1] = Command(c) BY <1>2, <2>2
    <3>3. P[d][2] = Contents[i] BY <3>1
    <3>4. P[d] = fp BY <1>2, <2>2, <3>1, <3>2, <3>3
    <3>5. d \in Covering BY <1>7, <3>4 DEF Covering, KeptIn, fp
    <3> QED BY <2>1, <3>5
  <2>3. Serves(P, Only(key, Partial) ++ installed) BY <1>7, <2>2, Elsewhere
  <2> QED BY <1>1, <2>3
<1>8. Foreseen' => Foreseen BY <1>1 DEF Foreseen
<1>9. up.at # "idle" BY <1>1
<1>10. disk # Absent => Was(disk.prepared) /\ (Foreseen' => Serves(disk.prepared, installed'))
  BY <1>7, <1>8, <1>9 DEF IUpToDate
<1>11. Was(up.state.prepared) /\ (Foreseen' => Serves(up.state.prepared, installed'))
  BY <1>7, <1>8, <1>9 DEF IUpToDate, KeptIn
<1>12. disk' # Absent => Was(disk.prepared)' /\ (Foreseen' => Serves(disk.prepared, installed)')
  BY <1>1, <1>10 DEF Was, Serves, Dir, Files
<1>13. Was(up.state.prepared)' /\ (Foreseen' => Serves(up.state.prepared, installed)')
  BY <1>1, <1>4, <1>11 DEF Was, Serves, Dir, Files
<1>14. disk' # Absent => KeptIn(disk'.prepared, up'.state.prepared)
  BY <1>1, <1>4, <1>9 DEF IUpToDate
<1>15. deps' \in [Dirs \cup {"."} -> 1..Len(Contents)] BY <1>1 DEF IUpToDate
<1> QED BY <1>6, <1>12, <1>13, <1>14, <1>15 DEF IUpToDate

\* A prepare is recorded for what it ran on, if that is still there.
LEMMA EndKept ==
  ASSUME IUpToDate, IDeclared', odd \subseteq odd', EndPrepare
  PROVE  IUpToDate'
<1> DEFINE n   == up.launch
           c   == Preparing
           dir == Dir(n, c)
           fp  == up.begun[2]
           key == up.begun[1]
           P   == up.state.prepared
           Q   == Only(c, fp) ++ P
<1>1. up.at = "preparing" /\ up.todo # <<>> /\ deps' = deps /\ UpShape(up) /\ up.at # "idle"
  BY AnyUp DEF EndPrepare, IUpToDate, IDeclared
<1>2. n \in DOMAIN Launches /\ c \in Names(Launches[n]) /\ dir \in Dirs
  BY <1>1, AtComponent DEF Visits
<1>3. PICK i \in 1..deps[dir] : fp = <<fp[1], Contents[i]>> BY <1>1 DEF IUpToDate, Underway
<1>4. key = <<dir, fp[1]>> /\ Get(installed, key) = Partial BY <1>1 DEF IUpToDate, Underway
<1>5. PICK read \in {fp[2], Files(key[1])} : installed' = Only(key, read) ++ installed
  BY DEF EndPrepare
<1>6. up'.at = "prepare" /\ disk' = up'.state /\ up'.state.prepared = Q
  <2>1. PICK k, f : /\ up' = [up EXCEPT !.at = "prepare", !.todo = Tail(@), !.begun = <<>>,
                                        !.prepared = k, !.state.prepared = f]
                    /\ f = Q
    BY DEF EndPrepare
  <2>2. disk' = up'.state BY DEF EndPrepare, saveState, written
  <2> HIDE DEF Q
  <2> QED BY <1>1, <2>1, <2>2 DEF UpShape, StateShape
<1> HIDE DEF dir, fp, key, n, c
<1>7. Was(P) /\ (Foreseen' => Serves(P, installed)) BY <1>1 DEF IUpToDate, Foreseen
<1>8. ASSUME Serves(P, installed) PROVE Serves(P, installed')
  <2>1. ASSUME NEW m \in DOMAIN Launches, NEW d \in Homes(m) \cap DOMAIN P,
               <<Dir(m, d), P[d][1]>> = key, P[d][2] = Files(Dir(m, d))
        PROVE  FALSE
    <3>1. Get(installed, key) = Files(Dir(m, d)) BY <1>8, <2>1 DEF Serves
    <3>2. Dir(m, d) \in Dirs BY AtHome
    <3>3. Files(Dir(m, d)) # Partial BY <3>2, Current, ContentsAssumption DEF Files, ToSet
    <3> QED BY <1>4, <3>1, <3>3
  <2> HIDE DEF P
  <2>2. Serves(P, Only(key, read) ++ installed) BY <1>8, <2>1, Elsewhere
  <2> QED BY <1>5, <2>2
<1>9. Contents[i] = Files(dir) => Get(installed', <<dir, fp[1]>>) = Files(dir)
  <2>1. Get(installed', key) = read BY <1>5, GetOnly
  <2>2. key[1] = dir /\ fp[2] = Contents[i] BY <1>3, <1>4
  <2> QED BY <1>4, <1>5, <2>1, <2>2
<1> DEFINE command == fp[1]
<1>10. fp = <<command, Contents[i]>> BY <1>3
<1> HIDE DEF P, command
<1>11. Was(Q) /\ (Foreseen' => Serves(Q, installed'))
  <2>1. i \in 1..deps[Dir(n, c)] BY <1>3 DEF dir
  <2>2. LET R == Only(c, <<command, Contents[i]>>) ++ P
        IN  /\ Was(P) => Was(R)
            /\ /\ Serves(P, installed')
               /\ Contents[i] = Files(Dir(n, c))
                    => Get(installed', <<Dir(n, c), command>>) = Files(Dir(n, c))
               => Serves(R, installed')
    BY <1>2, <2>1, Added
  <2>3. Was(Q) /\ (Serves(P, installed') => Serves(Q, installed'))
    BY <1>7, <1>9, <1>10, <2>2 DEF dir, command
  <2> QED BY <1>7, <1>8, <2>3
<1> HIDE DEF Q
<1>12. Was(up.state.prepared)' /\ Was(disk.prepared)'
  BY <1>1, <1>6, <1>11 DEF Was, Dir
<1>13. Foreseen' => Serves(up.state.prepared, installed)' /\ Serves(disk.prepared, installed)'
  BY <1>1, <1>6, <1>11 DEF Serves, Dir, Files
<1>14. deps' \in [Dirs \cup {"."} -> 1..Len(Contents)] BY <1>1 DEF IUpToDate
<1>15. KeptIn(disk'.prepared, up'.state.prepared) BY <1>6 DEF KeptIn
<1> QED BY <1>6, <1>12, <1>13, <1>14, <1>15 DEF IUpToDate

\* A prepare is recorded as skipped where it has been run.
LEMMA SkipKept ==
  ASSUME IUpToDate, IDeclared', odd \subseteq odd', SkipPrepare
  PROVE  IUpToDate'
<1>1. /\ up'.at = "prepare" /\ installed' = installed /\ deps' = deps
      /\ up.todo # <<>> /\ up.at = "prepare"
  BY PreparedSkipped
<1>2. CASE /\ disk' = disk /\ KeptIn(up.state.prepared, up'.state.prepared)
           /\ KeptIn(up'.state.prepared, up.state.prepared)
  <2>1. disk # Absent => KeptIn(disk.prepared, up'.state.prepared)
    BY <1>1, <1>2, KeptInTransitive DEF IUpToDate
  <2>2. Was(up'.state.prepared)
        /\ (Foreseen' => Serves(up'.state.prepared, installed))
    BY <1>1, <1>2, Lesser DEF IUpToDate, Foreseen
  <2>3. Was(up.state.prepared)'
        /\ (Foreseen' => Serves(up.state.prepared, installed)')
    BY <1>1, <2>2 DEF Was, Serves, Dir, Files
  <2>4. disk # Absent => Was(disk.prepared)'
                         /\ (Foreseen' => Serves(disk.prepared, installed)')
    BY <1>1, <1>2 DEF IUpToDate, Foreseen, Was, Serves, Dir, Files
  <2> QED BY <1>1, <1>2, <2>1, <2>3, <2>4 DEF IUpToDate
<1>3. CASE /\ disk' = up'.state
           /\ up'.state.prepared = Only(Preparing, Fingerprint(Preparing)) ++ up.state.prepared
           /\ Foreseen' =>
                Get(installed, Key(Preparing)) = Files(Comp(Preparing).dir)
  <2> DEFINE n   == up.launch
             c   == Preparing
             dir == Dir(n, c)
             i   == deps[dir]
             command == Command(c)
             P   == up.state.prepared
             Q   == Only(c, <<command, Contents[i]>>) ++ P
  <2>1. /\ n \in DOMAIN Launches /\ c \in Names(Launches[n]) /\ i \in 1..deps[Dir(n, c)]
        /\ Fingerprint(c) = <<command, Contents[i]>> /\ Key(c) = <<dir, command>>
        /\ Comp(c).dir = dir /\ Files(dir) = Contents[i]
    BY <1>1, AtComponent DEF Visits, Files
  <2>2. Was(P) /\ (Foreseen' => Serves(P, installed)) BY <1>1 DEF IUpToDate, Foreseen
  <2>3. Foreseen' => Get(installed, <<dir, command>>) = Files(dir) BY <1>3, <2>1
  <2>4. up'.state.prepared = Q BY <1>3, <2>1
  <2> HIDE DEF c, n, i, command, P
  <2>5. Was(Q) /\ (Foreseen' => Serves(Q, installed))
    BY <2>1, <2>2, <2>3, Added
  <2> HIDE DEF Q
  <2>6. Was(up.state.prepared)' /\ Was(disk.prepared)'
    BY <1>1, <1>3, <2>4, <2>5 DEF Was, Dir
  <2>7. Foreseen' => Serves(up.state.prepared, installed)' /\ Serves(disk.prepared, installed)'
    BY <1>1, <1>3, <2>4, <2>5 DEF Serves, Dir, Files
  <2>8. KeptIn(disk'.prepared, up'.state.prepared) BY <1>3 DEF KeptIn
  <2> QED BY <1>1, <2>6, <2>7, <2>8 DEF IUpToDate
<1> QED BY <1>2, <1>3, PreparedSkipped

\* An edit brings a content that was not there before, of which nothing is on record,
\* or puts one back, which is not provided for.
LEMMA EditKept ==
  ASSUME IUpToDate, IDeclared', Rests, NEW d \in DOMAIN deps, EditFiles(d)
  PROVE  IUpToDate'
<1>1. /\ deps[d] < Len(Contents) /\ deps' = [deps EXCEPT ![d] = @ + 1]
      /\ deps \in [Dirs \cup {"."} -> 1..Len(Contents)]
      /\ UNCHANGED <<disk, installed, up>> /\ odd \subseteq odd'
      /\ (\E i \in 1..deps[d] : Contents[i] = Contents[deps'[d]]) => "returned" \in odd'
  BY DEF EditFiles, When, IUpToDate
<1>2. DOMAIN Contents = 1..Len(Contents) /\ Len(Contents) \in Nat
  BY ContentsAssumption DEF IsSeq
<1>3. deps' \in [Dirs \cup {"."} -> 1..Len(Contents)] BY <1>1, <1>2
<1>4. ASSUME NEW dir \in Dirs PROVE deps[dir] <= deps'[dir] /\ 1..deps[dir] \subseteq 1..deps'[dir]
  BY <1>1, <1>2
<1>5. ASSUME NEW P, Was(P) PROVE Was(P)'
  BY <1>4, <1>5, AtHome DEF Was, Dir
<1>6. ASSUME Foreseen', NEW P, Was(P), Serves(P, installed) PROVE Serves(P, installed)'
  <2> SUFFICES ASSUME NEW n \in DOMAIN Launches, NEW c \in Homes(n) \cap DOMAIN P,
                      P[c][2] = Contents[deps'[Dir(n, c)]]
               PROVE  P[c][2] = Files(Dir(n, c)) /\ deps'[Dir(n, c)] = deps[Dir(n, c)]
    BY <1>1, <1>6 DEF Serves, Dir, Files
  <2> DEFINE dir == Dir(n, c)
  <2>1. dir \in Dirs BY AtHome
  <2> HIDE DEF dir
  <2>2. PICK i \in 1..deps[dir] : P[c] = <<P[c][1], Contents[i]>> BY <1>6 DEF Was, dir
  <2>4. Contents[i] = Contents[deps'[dir]] BY <2>2 DEF dir
  <2>5. dir # d BY <1>1, <1>6, <2>2, <2>4 DEF Foreseen
  <2>6. deps'[dir] = deps[dir] BY <1>1, <2>1, <2>5
  <2> QED BY <2>6 DEF dir, Files
<1>7. up.at = "preparing" => Underway'
  <2> SUFFICES ASSUME up.at = "preparing" PROVE Underway' OBVIOUS
  <2>1. up.todo # <<>> /\ Underway BY DEF IUpToDate, IDeclared
  <2>2. Dir(up.launch, Preparing) \in Dirs BY <2>1, AtComponent DEF Visits
  <2> QED BY <1>1, <1>4, <2>1, <2>2 DEF Underway, Dir, Preparing
<1>8. disk # Absent => Was(disk.prepared)'
                       /\ (Foreseen' => Serves(disk.prepared, installed)')
  BY <1>1, <1>5, <1>6 DEF IUpToDate, Foreseen
<1>9. up.at # "idle" => Was(up.state.prepared)'
                        /\ (Foreseen' => Serves(up.state.prepared, installed)')
  BY <1>1, <1>5, <1>6 DEF IUpToDate, Foreseen
<1> QED BY <1>1, <1>3, <1>7, <1>8, <1>9 DEF IUpToDate

\* No step records a directory as prepared that is not.
LEMMA UpToDateKept ==
  ASSUME IUpToDate, [Next]_vars PROVE IUpToDate'
<1>1. IDeclared /\ IDeclared' /\ Shapes /\ odd \subseteq odd'
  BY DeclaredKept, OddGrows DEF IUpToDate, IDeclared
<1>2. CASE BeginPrepare BY <1>1, <1>2, BeginKept
<1>3. CASE EndPrepare BY <1>1, <1>3, EndKept
<1>4. CASE SkipPrepare BY <1>1, <1>4, SkipKept
<1>5. ASSUME Rests, NEW d \in DOMAIN deps, EditFiles(d) PROVE IUpToDate'
  BY <1>1, <1>5, EditKept
\* Anything else leaves the files, and passes on what is recorded.
<1>6. ASSUME ~SkipPrepare, ~BeginPrepare, ~EndPrepare PROVE PassesOn
  <2>1. CASE Begins
    <3>1. up'.state.prepared = IF disk = Absent THEN <<>> ELSE disk.prepared
      BY <1>1, <2>1 DEF Begins, Loads, Shapes, StateShape, loadState, initState
    <3>2. disk' = disk /\ up'.at = "entry" BY <2>1 DEF Begins
    <3>3. disk' # Absent => KeptIn(disk'.prepared, up'.state.prepared) BY <3>1, <3>2 DEF KeptIn
    <3> QED BY <3>1, <3>2, <3>3 DEF PassesOn, KeptIn
  <2>2. CASE Labour
    <3>1. Labours /\ up.at # "idle" BY <1>1, <2>2, Labouring DEF Labours, Busy
    <3>2. up' = NoUp \/ (up'.state.prepared = up.state.prepared /\ up'.at # "preparing")
      BY <1>6, <3>1 DEF Labours, Continues, Advances
    <3>3. up' = NoUp => up'.at = "idle" BY DEF NoUp
    <3>4. disk' = disk \/ disk' = up.state \/ (up' # NoUp /\ disk' = up'.state)
      BY <3>1 DEF Labours, Persists
    <3>5. disk' # Absent => disk' = disk \/ disk'.prepared = up.state.prepared
      BY <3>2, <3>4
    <3>6. up'.at # "idle" /\ disk' # Absent => KeptIn(disk'.prepared, up'.state.prepared)
      BY <3>1, <3>2, <3>3, <3>5 DEF IUpToDate, KeptIn
    <3> QED BY <3>1, <3>2, <3>3, <3>5, <3>6 DEF PassesOn, KeptIn
  <2>3. CASE Starts
    <3>1. up'.at # "preparing" /\ up'.state = up.state /\ disk' = disk /\ up.at # "idle"
      BY <2>3 DEF Starts
    <3>2. disk' # Absent => KeptIn(disk'.prepared, up'.state.prepared)
      BY <3>1 DEF IUpToDate
    <3> QED BY <3>1, <3>2 DEF PassesOn, KeptIn
  <2>4. CASE Finishes
    <3>1. Concludes BY <1>1, <2>4, Concluding
    <3>2. up.at # "idle" /\ up'.at # "preparing" /\ disk'.prepared = up.state.prepared
      BY <3>1 DEF Concludes, NoUp
    <3>3. up'.at # "idle" => up'.state.prepared = disk'.prepared BY <3>1 DEF Concludes, NoUp
    <3> QED BY <3>2, <3>3 DEF PassesOn, KeptIn
  <2>5. CASE Breaks
    <3>1. up'.at = "idle" /\ disk' \in {disk, Absent} BY <2>5 DEF Breaks, NoUp
    <3> QED BY <3>1 DEF PassesOn, KeptIn
  <2>6. CASE Beside
    <3>1. Besides /\ up' = up /\ disk # Absent BY <1>1, <2>6, Besiding DEF Besides, Quiet
    <3>2. disk' # Absent => disk'.prepared = disk.prepared BY <3>1 DEF Besides
    <3>3. up'.at # "idle" /\ disk' # Absent => KeptIn(disk'.prepared, up'.state.prepared)
      BY <3>1, <3>2 DEF IUpToDate
    <3> QED BY <3>1, <3>2, <3>3 DEF PassesOn, KeptIn
  <2>7. CASE Rests
    <3>1. up' = up /\ disk' = disk BY <2>7 DEF Rests
    <3>2. up'.at # "idle" /\ disk' # Absent => KeptIn(disk'.prepared, up'.state.prepared)
      BY <3>1 DEF IUpToDate
    <3> QED BY <3>1, <3>2 DEF PassesOn, KeptIn
  <2> QED BY <1>1, <2>1, <2>2, <2>3, <2>4, <2>5, <2>6, <2>7, Kinds
<1> QED BY <1>1, <1>2, <1>3, <1>4, <1>5, <1>6, FilesKept, UpToDateStays

\* A prepare that is skipped has nothing to do (UpToDate of NativeUp).
THEOREM UpToDateAlways == Spec => []UpToDate
<1>1. Init => IUpToDate
  <2> SUFFICES ASSUME Init PROVE IUpToDate OBVIOUS
  <2>1. IDeclared BY InitShapes DEF Init, IDeclared, NoUp, Provisions, Visits
  <2>2. 1 \in 1..Len(Contents) BY ContentsAssumption DEF IsSeq
  <2> QED BY <2>1, <2>2 DEF Init, IUpToDate, NoUp
<1>2. IUpToDate /\ [Next]_vars => IUpToDate' BY UpToDateKept
<1>3. IUpToDate => UpToDate
  <2> SUFFICES ASSUME IUpToDate, disk # Absent, Foreseen,
                      NEW n \in DOMAIN Launches, NEW c \in Homes(n) \cap DOMAIN disk.prepared,
                      NEW command, disk.prepared[c] = <<command, Files(Dir(n, c))>>
               PROVE  Get(installed, <<Dir(n, c), command>>) = Files(Dir(n, c))
    BY DEF UpToDate, prepareFingerprint, Dir, Homes, Foreseen
  <2> DEFINE P == disk.prepared
  <2>1. P[c][1] = command /\ P[c][2] = Files(Dir(n, c)) OBVIOUS
  <2>2. Serves(P, installed) BY DEF IUpToDate
  <2> HIDE DEF P
  <2> QED BY <2>1, <2>2 DEF Serves, P
<1> QED BY <1>1, <1>2, <1>3, PTL DEF Spec

-----------------------------------------------------------------------------
(* A url that was handed out opens its server. *)

\* A value that is a url of a role has the password of a record.
IsUrl(v) == Len(v) = 4 /\ v[1] = "url" /\ v[2] \in Servers

Held(resources, type, password) ==
  \E k \in DOMAIN resources : resources[k].type = type /\ resources[k].password = password

Opening(resources, v) == IsUrl(v) => Held(resources, v[2], v[3])

AllOpen(resources, f) == \A x \in DOMAIN f : Opening(resources, f[x])

\* What opens with a record opens with what carries it on.
LEMMA HeldCarried ==
  ASSUME NEW R, NEW Q, Carries(R, Q), NEW s \in Servers, NEW w, Held(R, s, w) PROVE Held(Q, s, w)
BY DEF Carries, Held

LEMMA OpenCarried ==
  ASSUME NEW R, NEW Q, Carries(R, Q), NEW f, AllOpen(R, f) PROVE AllOpen(Q, f)
BY HeldCarried DEF AllOpen, Opening, IsUrl

\* Values that open are put together from values that do.
LEMMA OpenOver ==
  ASSUME NEW R, NEW f, NEW g, AllOpen(R, f), AllOpen(R, g) PROVE AllOpen(R, f ++ g)
BY DEF AllOpen, ++

LEMMA OpenOnly ==
  ASSUME NEW R, NEW k, NEW v, Opening(R, v) PROVE AllOpen(R, Only(k, v))
BY DEF AllOpen, Only

LEMMA OpenGet ==
  ASSUME NEW R, NEW f, NEW k, AllOpen(R, f) PROVE Opening(R, Get(f, k))
<1>1. ~IsUrl(Undefined) BY DEF IsUrl, Undefined
<1> QED BY <1>1 DEF AllOpen, Get, Opening

\* What is no url opens whatever there is.
LEMMA NoUrl == ASSUME NEW R, NEW v, ~IsUrl(v) PROVE Opening(R, v)
BY DEF Opening

LEMMA ShortOpen ==
  ASSUME NEW R, NEW a, NEW b, NEW c
  PROVE  Opening(R, <<a>>) /\ Opening(R, <<a, b>>) /\ Opening(R, <<a, b, c>>)
BY DEF Opening, IsUrl

LEMMA MintedNoUrl == ASSUME NEW by, NEW space, NEW key PROVE ~IsUrl(Minted(by, space, key))
BY DEF IsUrl, Minted

\* The properties of a resource open with its record.
LEMMA PropertiesOpen ==
  ASSUME NEW R, NEW r, ~IsUrl(r.password), r.type \in Servers => Held(R, r.type, r.password)
  PROVE  /\ AllOpen(R, Properties(r)) /\ <<"url">> \in DOMAIN Properties(r)
         /\ \E d : ~IsUrl(d) /\ Properties(r)[<<"url">>] = <<"url", r.type, r.password, d>>
<1> DEFINE database == CASE r.type = "redis"  -> <<"db", 0>>
                         [] r.type = "sqlite" -> <<"file">>
                         [] OTHER -> <<"instance">>
           url  == <<"url", r.type, r.password, database>>
           rest == IF r.type = "sqlite" THEN Only(<<"path">>, database)
                   ELSE Only(<<"host">>, <<"localhost">>) ++ Only(<<"password">>, r.password)
<1>1. ~IsUrl(database) BY DEF IsUrl
<1>2. Opening(R, url)
  <2> HIDE DEF database
  <2>1. url[2] = r.type /\ url[3] = r.password OBVIOUS
  <2> QED BY <2>1 DEF Opening, IsUrl
<1>3. AllOpen(R, rest)
  <2>1. Opening(R, database) /\ Opening(R, r.password) /\ Opening(R, <<"localhost">>)
    BY <1>1, NoUrl, ShortOpen
  <2> HIDE DEF database
  <2> QED BY <2>1, OpenOnly, OpenOver
<1>4. DOMAIN rest \subseteq {<<"path">>, <<"host">>, <<"password">>} BY DEF Only, ++
<1> HIDE DEF database
<1>5. Properties(r) = Only(<<"url">>, url) ++ rest
  <2>1. CASE r.type = "sqlite" BY <2>1 DEF Properties, database
  <2>2. CASE r.type # "sqlite"
    <3>1. Properties(r) = Only(<<"url">>, url) ++ Only(<<"host">>, <<"localhost">>) ++ Only(<<"password">>, r.password)
      BY <2>2 DEF Properties, database
    <3>2. \A f, g, h : f ++ g ++ h = f ++ (g ++ h) BY DEF ++
    <3> QED BY <2>2, <3>1, <3>2
  <2> QED BY <2>1, <2>2
<1> HIDE DEF url, rest
<1>6. AllOpen(R, Properties(r)) BY <1>2, <1>3, <1>5, OpenOnly, OpenOver
<1>7. <<"url">> \in DOMAIN Properties(r) /\ Properties(r)[<<"url">>] = url
  BY <1>5 DEF Only, ++
<1> QED BY <1>1, <1>6, <1>7 DEF url

\* What a dry run registers is no role's.
LEMMA PlaceholderOpen ==
  ASSUME NEW R
  PROVE  /\ AllOpen(R, Placeholder) /\ <<"url">> \in DOMAIN Placeholder
         /\ \E d : ~IsUrl(d) /\ Placeholder[<<"url">>] = <<"url", "none", Empty, d>>
<1> DEFINE url == <<"url", "none", Empty, <<"none">>>>
<1>1. Opening(R, url) BY DEF Opening, IsUrl, Servers, Server, SqlTypes
<1>2. Opening(R, <<"localhost">>) BY ShortOpen
<1>3. ~IsUrl(<<"none">>) BY DEF IsUrl
<1> HIDE DEF url
<1>4. Placeholder = Only(<<"url">>, url) ++ Only(<<"host">>, <<"localhost">>)
  BY DEF Placeholder, url
<1>5. AllOpen(R, Placeholder) BY <1>1, <1>2, <1>4, OpenOnly, OpenOver
<1>6. <<"url">> \in DOMAIN Placeholder /\ Placeholder[<<"url">>] = url BY <1>4 DEF Only, ++
<1> QED BY <1>3, <1>5, <1>6 DEF url

\* A use has the url of its resource, with another database.
LEMMA CoverOpen ==
  ASSUME NEW R, NEW base, NEW indexes, NEW use, NEW type, NEW password, NEW d,
         base[<<"url">>] = <<"url", type, password, d>>, ~IsUrl(d), Opening(R, base[<<"url">>])
  PROVE  AllOpen(R, coverUse(use, base, indexes))
<1> DEFINE url(database) == [base[<<"url">>] EXCEPT ![4] = database]
<1>1. ASSUME NEW e PROVE Opening(R, url(e))
  <2>1. url(e) = <<"url", type, password, e>> OBVIOUS
  <2> HIDE DEF url
  <2>2. /\ Len(url(e)) = 4 /\ url(e)[1] = "url" /\ url(e)[2] = type /\ url(e)[3] = password
        /\ Len(base[<<"url">>]) = 4 /\ base[<<"url">>][1] = "url" /\ base[<<"url">>][2] = type
        /\ base[<<"url">>][3] = password
    BY <2>1
  <2> QED BY <2>2 DEF Opening, IsUrl
<1>2. base[<<"url">>][4] = d OBVIOUS
<1>3. Opening(R, base[<<"url">>][4]) BY <1>2, NoUrl
<1>4. \A i : Opening(R, <<"db", i>>) /\ Opening(R, <<"database", i>>) BY ShortOpen
<1>5. AllOpen(R, <<>>) BY DEF AllOpen
<1> HIDE DEF url
<1>7. CASE use[1] = "db"
  <2> DEFINE f == Only(use \o <<"url">>, url(<<"db", indexes[use]>>))
             g == Only(use \o <<"index">>, <<"db", indexes[use]>>)
  <2>1. AllOpen(R, f) /\ AllOpen(R, g) BY <1>1, <1>4, OpenOnly
  <2> HIDE DEF f, g
  <2>2. AllOpen(R, f ++ g) BY <2>1, OpenOver
  <2>3. coverUse(use, base, indexes) = f ++ g BY <1>7 DEF f, g, coverUse, url
  <2> QED BY <2>2, <2>3
<1>8. CASE use[1] = "database" /\ use[2] = ""
  <2> DEFINE f == Only(use \o <<"url">>, base[<<"url">>])
             g == Only(use \o <<"name">>, base[<<"url">>][4])
  <2>1. AllOpen(R, f) /\ AllOpen(R, g) BY <1>3, OpenOnly
  <2> HIDE DEF f, g
  <2>2. AllOpen(R, f ++ g) BY <2>1, OpenOver
  <2>3. coverUse(use, base, indexes) = f ++ g BY <1>8 DEF f, g, coverUse
  <2> QED BY <2>2, <2>3
<1>9. CASE use[1] = "database" /\ use[2] # ""
  <2> DEFINE f == Only(use \o <<"url">>, url(<<"database", use[2]>>))
             g == Only(use \o <<"name">>, <<"database", use[2]>>)
  <2>1. AllOpen(R, f) /\ AllOpen(R, g) BY <1>1, <1>4, OpenOnly
  <2> HIDE DEF f, g
  <2>2. AllOpen(R, f ++ g) BY <2>1, OpenOver
  <2>3. coverUse(use, base, indexes) = f ++ g BY <1>9 DEF f, g, coverUse, url
  <2> QED BY <2>2, <2>3
<1>10. CASE use[1] \notin {"db", "database"} BY <1>5, <1>10 DEF coverUse
<1> QED BY <1>7, <1>8, <1>9, <1>10

\* What is registered of a resource opens what its record opens.
LEMMA RegisteredOpen ==
  ASSUME NEW R, NEW base, NEW indexes, NEW uses, NEW rtype, NEW key, NEW type, NEW password, NEW d,
         base[<<"url">>] = <<"url", type, password, d>>, ~IsUrl(d), AllOpen(R, base),
         <<"url">> \in DOMAIN base
  PROVE  AllOpen(R, registerResource(rtype, key, uses, base, indexes))
<1>1. Opening(R, base[<<"url">>]) BY DEF AllOpen
<1>2. ASSUME NEW use PROVE AllOpen(R, coverUse(use, base, indexes)) BY <1>1, CoverOpen
<1>3. ASSUME NEW some PROVE AllOpen(R, withCoveredUses(some, base, indexes))
  <2> DEFINE covers(u) == coverUse(u, base, indexes)
             f == [p \in UNION {DOMAIN covers(u) : u \in some} |->
                     covers(CHOOSE u \in some : p \in DOMAIN covers(u))[p]]
  <2>1. ASSUME NEW p \in DOMAIN f PROVE Opening(R, f[p])
    <3> DEFINE u0 == CHOOSE u \in some : p \in DOMAIN covers(u)
    <3>1. \E u \in some : p \in DOMAIN covers(u) OBVIOUS
    <3>2. p \in DOMAIN covers(u0) BY <3>1
    <3>3. f[p] = covers(u0)[p] OBVIOUS
    <3> HIDE DEF f, u0
    <3> QED BY <1>2, <3>2, <3>3 DEF AllOpen
  <2>2. withCoveredUses(some, base, indexes) = f ++ base BY DEF withCoveredUses
  <2> HIDE DEF f
  <2>3. AllOpen(R, f) BY <2>1 DEF AllOpen
  <2> QED BY <2>2, <2>3, OpenOver
<1> QED BY <1>3 DEF registerResource

-----------------------------------------------------------------------------
(* What a component's variables resolve to. *)

\* Of finitely many numbers the greatest is one.
LEMMA Greatest ==
  ASSUME NEW n \in Nat, NEW S \in SUBSET (1..n), S # {} PROVE Max(S) \in S
<1> DEFINE T == {n - i : i \in S}
<1>1. T \in SUBSET Nat /\ T # {}
  <2>1. ASSUME NEW i \in S PROVE n - i \in Nat
    <3>1. i \in 1..n OBVIOUS
    <3> QED BY <3>1
  <2> QED BY <2>1
<1>2. PICK x \in T : \A y \in T : x <= y BY <1>1, Least
<1>3. PICK m \in S : x = n - m BY <1>2
<1>4. \A i \in S : m >= i
  <2> SUFFICES ASSUME NEW i \in S PROVE m >= i OBVIOUS
  <2>1. n - m <= n - i BY <1>2, <1>3
  <2> QED BY <2>1
<1> QED BY <1>4 DEF Max

OpenContext(R, ctx) ==
  /\ ctx = [resources |-> ctx.resources, resource |-> ctx.resource, storage |-> ctx.storage,
            components |-> ctx.components, secrets |-> ctx.secrets, app |-> ctx.app,
            appEndpoints |-> ctx.appEndpoints, uses |-> ctx.uses]
  /\ AllOpen(R, ctx.app) /\ AllOpen(R, ctx.appEndpoints) /\ AllOpen(R, ctx.secrets)
  /\ AllOpen(R, ctx.storage) /\ AllOpen(R, ctx.resource)
  /\ \A c \in DOMAIN ctx.components : AllOpen(R, ctx.components[c])
  /\ \A k \in DOMAIN ctx.resources : AllOpen(R, ctx.resources[k])

\* A reference resolves to something that opens, or to no url.
LEMMA ResolveOpen ==
  ASSUME NEW R, NEW ctx, OpenContext(R, ctx), NEW path
  PROVE  Opening(R, resolveExpression(path, ctx))
<1>1. Opening(R, Undefined) /\ Opening(R, Unresolved) /\ Opening(R, Empty)
  BY ShortOpen DEF Undefined, Unresolved, Empty
<1>2. Opening(R, resolveUse(path, ctx))
  <2> SUFFICES ASSUME NEW property, path[1] \in DOMAIN ctx.resources
               PROVE  Opening(R, Get(Get(ctx.resources, path[1]), property))
    BY <1>1 DEF resolveUse
  <2>1. AllOpen(R, Get(ctx.resources, path[1])) BY DEF Get, OpenContext
  <2> QED BY <2>1, OpenGet
<1> DEFINE first == path[1]
           scoped(key) == IF key \in DOMAIN ctx.resource THEN ctx.resource[key] ELSE Undefined
           general ==
             IF Len(path) >= 2 /\ first \in DOMAIN ctx.resources
                  /\ Tail(path) \in DOMAIN ctx.resources[first]
             THEN ctx.resources[first][Tail(path)] ELSE scoped(path)
           v1 == Get(ctx.app, path[2])
           v2 == IF Len(path) = 4 THEN Get(ctx.appEndpoints, path[3]) ELSE Undefined
           v3 == ctx.secrets[path[2]]
           v4 == IF path[2] \in DOMAIN ctx.components
                 THEN Get(ctx.components[path[2]], SubSeq(path, 3, Len(path))) ELSE Undefined
           v5 == IF path[3] = "path" THEN Get(ctx.storage, path[2]) ELSE Undefined
<1>3. Opening(R, general) BY <1>1 DEF OpenContext, AllOpen
<1>4. Opening(R, v1) /\ Opening(R, v2) /\ Opening(R, v5)
  BY <1>1, OpenGet DEF OpenContext
<1>5. path[2] \in DOMAIN ctx.secrets => Opening(R, v3) BY DEF OpenContext, AllOpen
<1>6. Opening(R, v4) BY <1>1, OpenGet DEF OpenContext
<1>7. Opening(R, resolvePath(path, ctx))
  <2> DEFINE use == resolveUse(path, ctx)
  <2>1. resolvePath(path, ctx) =
         CASE first = "app" /\ Len(path) = 2 -> v1
           [] first = "app" /\ Len(path) > 2 /\ path[2] = "endpoints" -> v2
           [] first = "secrets" /\ Len(path) = 2 /\ path[2] \in DOMAIN ctx.secrets -> v3
           [] first = "components" /\ Len(path) >= 3 -> v4
           [] first = "storage" /\ Len(path) = 3 -> v5
           [] Len(path) >= 3 /\ first \in DOMAIN ctx.uses -> use
           [] OTHER -> general
    BY DEF resolvePath
  <2> HIDE DEF v1, v2, v3, v4, v5, use, general, first
  <2>2. Opening(R, use) BY <1>2 DEF use
  <2> QED BY <2>1, <2>2, <1>3, <1>4, <1>5, <1>6
<1> QED BY <1>1, <1>7 DEF resolveExpression

\* So does what an entry sets, and with it all a component has.
LEMMA InjectedOpen ==
  ASSUME NEW R, NEW ctx, OpenContext(R, ctx), NEW e, e.key \in DOMAIN ctx.resources
  PROVE  AllOpen(R, Injected(e, ctx)) /\ DOMAIN Injected(e, ctx) = DOMAIN e.env
<1> DEFINE scope == [ctx EXCEPT !.resource = ctx.resources[e.key]]
<1>1. OpenContext(R, scope) BY DEF OpenContext
<1> HIDE DEF scope
<1>2. Injected(e, ctx) = [v \in DOMAIN e.env |-> resolveExpression(e.env[v], scope)]
  BY DEF Injected, scope
<1> QED BY <1>1, <1>2, ResolveOpen DEF AllOpen

LEMMA ComponentEnvOpen ==
  ASSUME NEW R, NEW ctx, OpenContext(R, ctx), NEW storage, AllOpen(R, storage),
         NEW comp, Entries(comp) \in Seq(ToSet(Entries(comp)))
  PROVE  AllOpen(R, resolveComponentEnv(comp, ctx, storage))
<1> DEFINE scope == [ctx EXCEPT !.storage = storage]
           entry == Entries(comp)
           wired == {i \in DOMAIN entry : ~entry[i].host /\ entry[i].key \in DOMAIN ctx.resources}
           having(v) == {i \in wired : v \in DOMAIN entry[i].env}
           last(v) == Max(having(v))
           bound == [v \in UNION {DOMAIN entry[i].env : i \in wired} |->
                       Injected(entry[last(v)], scope)[v]]
           given == [v \in {d \in DOMAIN comp.env : comp.env[d].kind = "default"} |->
                       resolveExpression(comp.env[v].ref, scope)]
<1>1. OpenContext(R, scope) /\ scope.resources = ctx.resources BY DEF OpenContext
<1>2. resolveComponentEnv(comp, ctx, storage) = bound ++ given BY DEF resolveComponentEnv
<1> HIDE DEF scope
<1>3. AllOpen(R, given) BY <1>1, ResolveOpen DEF AllOpen
<1>4. ASSUME NEW v \in DOMAIN bound PROVE Opening(R, bound[v])
  <2>1. having(v) # {} OBVIOUS
  <2>2. wired \in SUBSET (1..Len(entry)) /\ Len(entry) \in Nat
    <3> HIDE DEF entry
    <3>1. entry \in Seq(ToSet(entry)) BY DEF entry
    <3> QED BY <3>1
  <2>3. having(v) \in SUBSET (1..Len(entry)) BY <2>2
  <2>4. last(v) \in having(v)
    <3> HIDE DEF having
    <3> QED BY <2>1, <2>2, <2>3, Greatest
  <2>5. bound[v] = Injected(entry[last(v)], scope)[v] OBVIOUS
  <2> HIDE DEF last, entry, bound
  <2>6. entry[last(v)].key \in DOMAIN scope.resources /\ v \in DOMAIN entry[last(v)].env
    BY <1>1, <2>4
  <2> QED BY <1>1, <2>5, <2>6, InjectedOpen DEF AllOpen
<1>5. AllOpen(R, bound)
  <2> HIDE DEF bound
  <2> QED BY <1>4 DEF AllOpen
<1> HIDE DEF bound, given
<1> QED BY <1>2, <1>3, <1>5, OpenOver

LEMMA StorageOpen ==
  ASSUME NEW R, NEW comp, NEW c, NEW paths PROVE AllOpen(R, storagePaths(comp, c, paths))
<1>1. \A v : Opening(R, <<"operator", paths[<<c, v>>]>>) /\ Opening(R, <<"own", c, v>>)
  BY ShortOpen
<1> QED BY <1>1 DEF AllOpen, storagePaths

\* No url is among what is generated.
NoUrls(f) == \A k \in DOMAIN f : ~IsUrl(f[k])

LEMMA NoUrlsOpen == ASSUME NEW R, NEW f, NoUrls(f) PROVE AllOpen(R, f)
BY NoUrl DEF NoUrls, AllOpen

\* What is generated is no url.
LEMMA GeneratorsOpen ==
  ASSUME NEW R, NEW comp, NEW c, NEW env, AllOpen(R, env), NEW generated, NoUrls(generated), NEW by
  PROVE  LET answer == resolveGenerators(comp, c, env, generated, by)
         IN  /\ AllOpen(R, answer.env) /\ NoUrls(answer.generated)
             /\ answer = [generated |-> answer.generated, env |-> answer.env]
<1> DEFINE names == OfKind(comp, {"secret", "uuid"}) \ DOMAIN env
           held == generated ++ Generated(c, names, by)
           kept == [v \in names |-> held[<<c, v>>]]
           ports == [v \in OfKind(comp, {"port"}) |-> Minted(by, "port", <<c, v>>)]
<1>1. NoUrls(held)
  <2>1. NoUrls(Generated(c, names, by)) BY MintedNoUrl DEF NoUrls, Generated
  <2> HIDE DEF names
  <2> QED BY <2>1 DEF NoUrls, ++
<1>2. \A v \in names : <<c, v>> \in DOMAIN held BY DEF Generated, ++
<1> HIDE DEF held
<1>3. AllOpen(R, kept) BY <1>1, <1>2, NoUrl DEF AllOpen, NoUrls
<1>4. AllOpen(R, ports) BY MintedNoUrl, NoUrl DEF AllOpen
<1>5. resolveGenerators(comp, c, env, generated, by) =
        [generated |-> held, env |-> env ++ kept ++ ports]
  BY DEF resolveGenerators, WithGenerated, held
<1> HIDE DEF kept, ports
<1>6. AllOpen(R, env ++ kept ++ ports) BY <1>3, <1>4, OpenOver
<1> DEFINE whole == env ++ kept ++ ports
<1> HIDE DEF whole
<1>7. resolveGenerators(comp, c, env, generated, by) = [generated |-> held, env |-> whole]
      /\ AllOpen(R, whole)
  BY <1>5, <1>6 DEF whole
<1> QED BY <1>1, <1>7

\* What a component is started with opens.
LEMMA StartedOpen ==
  ASSUME NEW R, NEW ctx, OpenContext(R, ctx), NEW comp,
         Entries(comp) \in Seq(ToSet(Entries(comp))),
         NEW c, NEW state, NoUrls(state.generated), NEW by
  PROVE  LET started == StartedEnv(comp, c, ctx, state, by)
         IN  AllOpen(R, started.env) /\ NoUrls(started.generated)
<1> DEFINE env == resolveComponentEnv(comp, ctx, storagePaths(comp, c, state.bound))
           resolved == resolveGenerators(comp, c, env, state.generated, by)
           supplied == Supplied(OperatorEnv(comp))
<1>1. AllOpen(R, env) BY StorageOpen, ComponentEnvOpen
<1>2. /\ AllOpen(R, resolved.env) /\ NoUrls(resolved.generated)
      /\ resolved = [generated |-> resolved.generated, env |-> resolved.env]
  <2> HIDE DEF env
  <2> QED BY <1>1, GeneratorsOpen
<1>3. AllOpen(R, supplied) BY ShortOpen DEF Supplied, AllOpen
<1>4. StartedEnv(comp, c, ctx, state, by) =
        [resolved EXCEPT !.env = WithPort(supplied ++ @, c, state.ports)]
  BY DEF StartedEnv
<1> HIDE DEF env, resolved, supplied
<1> DEFINE whole == supplied ++ resolved.env
<1>5. AllOpen(R, whole) BY <1>2, <1>3, OpenOver
<1> HIDE DEF whole
<1>6. AllOpen(R, WithPort(whole, c, state.ports))
  <2>1. AllOpen(R, Only("PORT", <<"port", state.ports[c]>>)) BY ShortOpen, OpenOnly
  <2> QED BY <1>5, <2>1, OpenOver DEF WithPort
<1>7. StartedEnv(comp, c, ctx, state, by) =
        [resolved EXCEPT !.env = WithPort(whole, c, state.ports)]
  BY <1>4 DEF whole
<1> DEFINE answer == WithPort(whole, c, state.ports)
<1> HIDE DEF answer
<1>8. StartedEnv(comp, c, ctx, state, by) = [generated |-> resolved.generated, env |-> answer]
  BY <1>2, <1>7 DEF answer
<1>9. AllOpen(R, answer) BY <1>6 DEF answer
<1> QED BY <1>2, <1>8, <1>9

\* The context of an `up` is made of what opens.
LEMMA ContextOpen ==
  ASSUME NEW R, NEW launch, NEW resources, \A k \in DOMAIN resources : AllOpen(R, resources[k]),
         NEW state, NoUrls(state.secrets), NEW primary
  PROVE  OpenContext(R, resolverContextFor(launch, resources, state, primary))
<1> DEFINE wired == wireHttpsOrigins(launch, resources, state.appUrl)
           app == computeAppProperties(launch, state.ports, state.appUrl, primary)
           ctx == buildResolverContext(launch, wired, state, app)
<1>1. \A k \in DOMAIN wired : AllOpen(R, wired[k])
  <2>1. AllOpen(R, Only(<<"url">>, <<"supplied", state.appUrl>>)) BY ShortOpen, OpenOnly
  <2> QED BY <2>1 DEF wireHttpsOrigins, ++
<1>2. AllOpen(R, app)
  <2>1. Opening(R, <<"name">>) /\ Opening(R, <<"supplied", state.appUrl>>) /\ Opening(R, Empty)
        /\ \A a, b : Opening(R, <<"local", a, b>>)
    BY ShortOpen DEF Empty
  <2> DEFINE c == primaryComponent(launch, state.ports, primary)
             url == CASE primary.refused  -> Empty
                      [] ~primary.refused /\ state.appUrl # "none" -> <<"supplied", state.appUrl>>
                      [] ~primary.refused /\ state.appUrl = "none" ->
                           IF c = "" THEN Empty ELSE <<"local", c, state.ports[c]>>
  <2> HIDE DEF c
  <2>2. Opening(R, url)
    <3>1. url = Empty \/ url = <<"supplied", state.appUrl>> \/ url = <<"local", c, state.ports[c]>>
      OBVIOUS
    <3> HIDE DEF url
    <3> QED BY <2>1, <3>1
  <2>3. app = [name |-> <<"name">>, url |-> url] BY DEF computeAppProperties, c
  <2> HIDE DEF app, url
  <2> QED BY <2>1, <2>2, <2>3 DEF AllOpen
<1>3. /\ ctx = [resources |-> wired, resource |-> <<>>, storage |-> <<>>,
                components |-> ctx.components, secrets |-> state.secrets, app |-> app,
                appEndpoints |-> ctx.appEndpoints, uses |-> ctx.uses]
      /\ ctx.appEndpoints = computeAppEndpoints(launch)
  BY DEF buildResolverContext
<1>4. AllOpen(R, computeAppEndpoints(launch)) BY ShortOpen DEF computeAppEndpoints, AllOpen, Empty
<1>5. ASSUME NEW c \in DOMAIN ctx.components PROVE AllOpen(R, ctx.components[c])
  <2> DEFINE port == state.ports[c]
             urls == [p \in {<<n, "url">> : n \in allocatedEndpoints(launch, c, port)} |->
                        <<"endpoint", c, p[1]>>]
             own == Only(<<"url">>, <<"local", c, port>>)
  <2>1. AllOpen(R, urls) BY ShortOpen DEF AllOpen
  <2>2. AllOpen(R, own) BY ShortOpen, OpenOnly
  <2>3. ctx.components[c] = own ++ urls BY DEF buildResolverContext
  <2> HIDE DEF urls, own
  <2> QED BY <2>1, <2>2, <2>3, OpenOver
<1>6. resolverContextFor(launch, resources, state, primary) = ctx BY DEF resolverContextFor
<1> HIDE DEF wired, app, ctx
<1>7. AllOpen(R, state.secrets) /\ AllOpen(R, <<>>)
  BY NoUrlsOpen DEF AllOpen
<1>8. /\ ctx.resources = wired /\ ctx.resource = <<>> /\ ctx.storage = <<>>
      /\ ctx.secrets = state.secrets /\ ctx.app = app
  BY <1>3
<1> QED BY <1>1, <1>2, <1>3, <1>4, <1>5, <1>6, <1>7, <1>8 DEF OpenContext

-----------------------------------------------------------------------------
(* What stands of an `up`: what it mints, whom it has variables for, and that
   it is later than every process there is. *)

NoUrlsIn(state) ==
  /\ NoUrls(state.secrets) /\ NoUrls(state.generated)
  /\ \A k \in DOMAIN state.resources : ~IsUrl(state.resources[k].password)

IStanding ==
  /\ IOnRecord
  /\ round \in Nat
  /\ \A p \in alive : p.round \in Nat /\ p.round <= round /\ (up.at \in Busy => p.round # round)
  /\ disk # Absent => NoUrlsIn(disk)
  /\ up.at # "idle" => NoUrlsIn(up.state)
  /\ up.at = "env" => ToSet(up.order) \subseteq DOMAIN up.envs \cup ToSet(up.todo)
  /\ up.at \in Wired => ToSet(up.order) \subseteq DOMAIN up.envs

\* What a step that writes an environment changes.
LEMMA WriteEnvFields ==
  ASSUME Shapes, NEW c, WriteEnv(c)
  PROVE  LET started == StartedEnv(Comp(c), c, Context, up.state, By)
         IN  /\ up.at = "env" /\ up'.at = "env" /\ up.todo # <<>> /\ c = Head(up.todo)
             /\ up'.todo = Tail(up.todo) /\ up'.order = up.order
             /\ up'.state.generated = started.generated
             /\ up'.envs = Only(c, started.env) ++ up.envs
             /\ envFiles' \in {envFiles, Only(c, started.env) ++ envFiles}
<1> DEFINE started == StartedEnv(Comp(c), c, Context, up.state, By)
           e == Only(c, started.env) ++ up.envs
           g == started.generated
<1>1. UpShape(up) /\ up.at = "env" BY AnyUp DEF WriteEnv
<1>2. /\ up' = [up EXCEPT !.todo = Tail(@), !.state.generated = g, !.envs = e]
      /\ envFiles' \in {envFiles, Only(c, started.env) ++ envFiles}
      /\ up.todo # <<>> /\ c = Head(up.todo)
  BY DEF WriteEnv
<1> HIDE DEF started, e, g
<1>3. /\ up'.at = "env" /\ up'.todo = Tail(up.todo) /\ up'.order = up.order
      /\ up'.state.generated = g /\ up'.envs = e
  BY <1>1, <1>2 DEF UpShape, StateShape
<1> QED BY <1>1, <1>2, <1>3 DEF e, g, started

\* No url is minted, as a variable or a password.
LEMMA StartedGenerated ==
  ASSUME NEW comp, NEW c, NEW ctx, NEW state, NoUrls(state.generated), NEW by
  PROVE  NoUrls(StartedEnv(comp, c, ctx, state, by).generated)
<1>1. PICK names : StartedEnv(comp, c, ctx, state, by).generated
                     = state.generated ++ Generated(c, names, by)
  BY DEF StartedEnv, resolveGenerators, WithGenerated
<1>2. NoUrls(Generated(c, names, by)) BY MintedNoUrl DEF NoUrls, Generated
<1> QED BY <1>1, <1>2 DEF NoUrls, ++

LEMMA RecordNoUrl ==
  ASSUME NoUrlsIn(up.state) PROVE ~IsUrl(Record.password)
<1>1. ~IsUrl(Empty) BY DEF IsUrl, Empty
<1>2. ~IsUrl(Existing.password)
  <2>1. Entry.key \notin DOMAIN up.state.resources => Existing = NoRecord
    BY DEF Existing, Get, Only, ++
  <2>2. Entry.key \in DOMAIN up.state.resources => Existing = up.state.resources[Entry.key]
    BY DEF Existing, Get, Only, ++
  <2> QED BY <1>1, <2>1, <2>2 DEF NoUrlsIn, NoRecord
<1>3. Record.password \in {Existing.password, Empty}
      \/ \E by, space, key : Record.password = Minted(by, space, key)
  BY DEF Record, ResourceState, reusedPassword, NoRecord
<1> QED BY <1>1, <1>2, <1>3, MintedNoUrl

LEMMA LabourNoUrls ==
  ASSUME IDeclared, Labours, Continues, NoUrlsIn(up.state) PROVE NoUrlsIn(up'.state)
<1>0. Shapes BY DEF IDeclared
<1>1. NoUrls(up'.state.secrets) BY DEF Continues, NoUrlsIn
<1>2. NoUrls(up'.state.generated)
  <2>1. ASSUME NEW c, WriteEnv(c) PROVE NoUrls(up'.state.generated)
    BY <1>0, <2>1, WriteEnvFields, StartedGenerated DEF NoUrlsIn
  <2> QED BY <2>1 DEF Continues, NoUrlsIn
<1>3. \A k \in DOMAIN up'.state.resources : ~IsUrl(up'.state.resources[k].password)
  <2> DEFINE old == up.state.resources
             new == up'.state.resources
  <2>1. CASE new = old BY <2>1 DEF NoUrlsIn
  <2>2. CASE new = Only(Entry.key, Record) ++ old
    BY <2>2, RecordNoUrl DEF NoUrlsIn, Only, ++
  <2>3. CASE up.at = "create" /\ new = Only(Entry.key, old[Entry.key]) ++ old
    <3>1. Entry.key \in DOMAIN old BY <2>3 DEF IDeclared
    <3> QED BY <2>3, <3>1 DEF NoUrlsIn, Only, ++
  <2> QED BY <2>1, <2>2, <2>3 DEF Continues, Records
<1> QED BY <1>1, <1>2, <1>3 DEF NoUrlsIn

LEMMA TailHas ==
  ASSUME NEW E, NEW s \in Seq(E), s # <<>> PROVE ToSet(s) \subseteq {Head(s)} \cup ToSet(Tail(s))
<1> SUFFICES ASSUME NEW i \in 1..Len(s) PROVE s[i] \in {Head(s)} \cup ToSet(Tail(s))
  BY DEF ToSet
<1>1. CASE i = 1 BY <1>1
<1>2. CASE i # 1
  <2>1. i - 1 \in DOMAIN Tail(s) /\ Tail(s)[i - 1] = s[i] BY <1>2
  <2> QED BY <2>1 DEF ToSet
<1> QED BY <1>1, <1>2

\* The components are given their variables one after another, all of them.
LEMMA LabourNames ==
  ASSUME IDeclared, Labours, Continues,
         up.at = "env" => ToSet(up.order) \subseteq DOMAIN up.envs \cup ToSet(up.todo),
         up.at \in Wired => ToSet(up.order) \subseteq DOMAIN up.envs
  PROVE  /\ up'.at = "env" => ToSet(up'.order) \subseteq DOMAIN up'.envs \cup ToSet(up'.todo)
         /\ up'.at \in Wired => ToSet(up'.order) \subseteq DOMAIN up'.envs
<1>0. Shapes BY DEF IDeclared
<1>1. up'.order = up.order BY DEF Continues
<1>2. ASSUME NEW c, WriteEnv(c)
      PROVE  /\ up'.at = "env"
             /\ ToSet(up'.order) \subseteq DOMAIN up'.envs \cup ToSet(up'.todo)
  <2> DEFINE names == Names(Launches[up.launch])
  <2>1. /\ up.at = "env" /\ up'.at = "env" /\ up.todo # <<>> /\ c = Head(up.todo)
        /\ up'.todo = Tail(up.todo)
        /\ \E v : up'.envs = Only(c, v) ++ up.envs
    BY <1>0, <1>2, WriteEnvFields
  <2>2. DOMAIN up'.envs = {c} \cup DOMAIN up.envs BY <2>1 DEF Only, ++
  <2>3. up.todo \in Seq(names) BY <2>1 DEF IDeclared, Visits
  <2> HIDE DEF names
  <2>4. ToSet(up.todo) \subseteq {c} \cup ToSet(Tail(up.todo)) BY <2>1, <2>3, TailHas
  <2> QED BY <1>1, <2>1, <2>2, <2>4
<1>3. ASSUME up'.at = "env"
      PROVE  ToSet(up'.order) \subseteq DOMAIN up'.envs \cup ToSet(up'.todo)
  BY <1>1, <1>2, <1>3 DEF Continues, Advances
<1>4. ASSUME up'.at \in Wired PROVE ToSet(up'.order) \subseteq DOMAIN up'.envs
  <2>1. up'.envs = up.envs BY <1>2, <1>4 DEF Continues, Wired
  <2>2. up.at \in Wired \/ (up.at = "env" /\ up.todo = <<>>) BY <1>4 DEF Continues, Advances
  <2>3. ToSet(<<>>) = {} BY DEF ToSet
  <2> QED BY <1>1, <2>1, <2>2, <2>3
<1> QED BY <1>3, <1>4

\* All of this stays so.
LEMMA StandingKept ==
  ASSUME KeysKeepServer, IStanding, [Next]_vars PROVE IStanding'
<1>1. IOnRecord' /\ IDeclared /\ Shapes
  BY OnRecordKept DEF IStanding, IOnRecord, IDeclared
<1>2. CASE Begins
  <2>1. NoUrlsIn(up'.state)
    <3> DEFINE s == IF disk = Absent THEN initState ELSE loadState
               held == IF disk = Absent THEN <<>> ELSE disk.secrets
    <3>1. NoUrls(s.generated) /\ \A k \in DOMAIN s.resources : ~IsUrl(s.resources[k].password)
      <4>1. CASE disk = Absent BY <4>1 DEF initState, NoUrls
      <4>2. CASE disk # Absent
        <5>1. loadState.resources = validResources(disk.resources)
              /\ loadState.generated = disk.generated
          BY <1>1, <4>2 DEF Shapes, StateShape, loadState
        <5> QED BY <4>2, <5>1 DEF IStanding, NoUrlsIn, validResources, Restrict
      <4> QED BY <4>1, <4>2
    <3>2. NoUrls(held) BY DEF IStanding, NoUrlsIn, NoUrls
    <3>3. PICK names : up'.state.secrets = generateSecrets(names, held, <<"up", round + 1>>)
      BY <1>2 DEF Begins
    <3> HIDE DEF held
    <3>4. NoUrls(up'.state.secrets)
      BY <3>2, <3>3, MintedNoUrl DEF generateSecrets, NoUrls, ++
    <3>5. up'.state.resources = s.resources /\ up'.state.generated = s.generated
      BY <1>2 DEF Begins, Loads
    <3> QED BY <3>1, <3>4, <3>5 DEF NoUrlsIn
  <2>2. disk' = disk /\ alive' = alive /\ round' = round + 1 /\ up'.at = "entry" BY <1>2 DEF Begins
  <2> QED BY <1>1, <2>1, <2>2 DEF IStanding, Wired
<1>3. CASE Labour
  <2>1. Labours /\ UpShape(up) /\ up.at # "idle" BY <1>1, <1>3, Labouring, BusyUp DEF Labours, Busy
  <2>2. Continues => NoUrlsIn(up'.state) BY <1>1, <2>1, LabourNoUrls DEF IStanding
  <2>3. up' = NoUp => up'.at = "idle" BY DEF NoUp
  <2>4. disk' # Absent => NoUrlsIn(disk')
    BY <2>1, <2>2 DEF Labours, Persists, IStanding
  <2>5. Continues =>
          /\ up'.at = "env" => ToSet(up'.order) \subseteq DOMAIN up'.envs \cup ToSet(up'.todo)
          /\ up'.at \in Wired => ToSet(up'.order) \subseteq DOMAIN up'.envs
    BY <1>1, <2>1, LabourNames DEF IStanding
  <2>6. alive' = alive /\ round' = round BY <2>1 DEF Labours
  <2>7. CASE up' = NoUp
    BY <1>1, <2>3, <2>4, <2>6, <2>7 DEF IStanding, Busy, Wired
  <2>8. CASE Continues
    BY <1>1, <2>1, <2>2, <2>4, <2>5, <2>6, <2>8 DEF IStanding, Labours
  <2> QED BY <2>1, <2>7, <2>8 DEF Labours
<1>4. CASE Starts
  <2>1. PICK started : alive' = alive \cup {Process(c, FALSE) : c \in started} BY <1>4 DEF Starts
  <2>2. /\ up.at = "start" /\ up'.at \in {"started", "failed"} /\ up'.state = up.state
        /\ disk' = disk /\ round' = round
    BY <1>4 DEF Starts
  <2>3. \A p \in alive' : p.round \in Nat /\ p.round <= round'
    BY <2>1, <2>2 DEF IStanding, Process
  <2> QED BY <1>1, <2>2, <2>3 DEF IStanding, Busy, Wired
<1>5. CASE Finishes
  <2>1. Concludes BY <1>1, <1>5, Concluding
  <2>2. \A p \in alive' : p \in alive \/ p.round = round
    BY <1>5 DEF Finishes, RecordProcesses, Interrupt, Spawning, Earlier, Process
  <2>3. up.at # "idle" /\ up'.at \in {"idle", "session"} BY <2>1 DEF Concludes, NoUp
  <2>4. NoUrlsIn(disk') BY <2>1, <2>3 DEF Concludes, IStanding, NoUrlsIn
  <2>5. up'.at # "idle" => up'.state = disk' BY <2>1 DEF Concludes, NoUp
  <2>6. round' = round BY <2>1 DEF Concludes
  <2> QED BY <1>1, <2>2, <2>3, <2>4, <2>5, <2>6 DEF IStanding, Busy, Wired
<1>6. CASE Breaks
  <2>1. up'.at = "idle" /\ alive' = alive /\ round' = round /\ disk' \in {disk, Absent}
    BY <1>6 DEF Breaks, NoUp
  <2> QED BY <1>1, <2>1 DEF IStanding, Busy, Wired
<1>7. CASE Besides
  <2>1. up' = up /\ round' = round /\ alive' \subseteq alive BY <1>7 DEF Besides
  <2>2. disk' # Absent => NoUrlsIn(disk')
    <3>1. CASE disk' = disk BY <3>1 DEF IStanding
    <3>2. CASE /\ disk'.resources = validResources(disk.resources)
               /\ disk'.secrets = disk.secrets /\ KeptIn(disk.generated, disk'.generated)
               /\ MintedSince(disk.generated, disk'.generated)
      <4>1. NoUrlsIn(disk) BY <1>7 DEF IStanding, Besides, Quiet
      <4>2. NoUrls(disk'.generated)
        BY <3>2, <4>1, MintedNoUrl DEF NoUrls, NoUrlsIn, KeptIn, MintedSince
      <4> QED BY <3>2, <4>1, <4>2 DEF NoUrlsIn, validResources, Restrict
    <3> QED BY <1>7, <3>1, <3>2 DEF Besides
  <2> QED BY <1>1, <2>1, <2>2 DEF IStanding
<1>8. CASE Rests BY <1>1, <1>8 DEF Rests, IStanding
<1> QED
  BY <1>1, <1>2, <1>3, <1>4, <1>5, <1>6, <1>7, <1>8, Kinds, Besiding

-----------------------------------------------------------------------------
(* The urls in use have passwords that are on record. *)

OnDisk == IF disk = Absent THEN <<>> ELSE disk.resources

Orderly == odd \cap {"torn", "drop", "overlap"} = {}

RunOpen(resources, processes) ==
  \A p \in alive : IsRecorded(p, processes) => AllOpen(resources, p.env)

Opened ==
  /\ \A s \in Servers :
       server[s].password # Empty => Held(OnDisk, s, server[s].password)
  /\ \A c \in DOMAIN envFiles : AllOpen(OnDisk, envFiles[c])
  /\ disk # Absent => RunOpen(OnDisk, disk.processes)
  /\ up.at \in Busy =>
       /\ \A k \in DOMAIN up.map : AllOpen(OnDisk, up.map[k])
       /\ \A c \in DOMAIN up.envs : AllOpen(OnDisk, up.envs[c])
       /\ RunOpen(OnDisk, up.state.processes)
  /\ up.at \in {"started", "failed"} => RunOpen(OnDisk, up.procs)

IRolesOpen == IStanding /\ (Orderly => Opened)

\* While the roles on record are carried, what opened opens.
LEMMA Grows ==
  ASSUME Shapes, disk # Absent => Carries(disk.resources, disk'.resources),
         disk # Absent => disk' # Absent
  PROVE  Carries(OnDisk, OnDisk')
<1>1. CASE disk = Absent BY <1>1 DEF OnDisk, Carries
<1>2. CASE disk # Absent BY <1>2 DEF OnDisk
<1> QED BY <1>1, <1>2

LEMMA Stays == ASSUME disk' = disk PROVE OnDisk' = OnDisk /\ Carries(OnDisk, OnDisk')
BY CarriesItself DEF OnDisk

\* Within an `up` one step alone writes a file.
LEMMA LabourFiles ==
  ASSUME Labour PROVE envFiles' = envFiles \/ \E c : WriteEnv(c)
BY DEF Labour, SkipEntry, ProvisionDry, ProvisionRedis, ProvisionSqlite, RefuseSqlite,
  SkipOptional, PersistRecord, CreateNothing, Create, Wire, SaveUp, SkipPrepare,
  BeginPrepare, EndPrepare, RunReleases

\* What an `up` registers opens with what is on record.
LEMMA RegistersOpen ==
  ASSUME IStanding, Registers, \A k \in DOMAIN up.map : AllOpen(OnDisk, up.map[k]),
         up.at \in Busy
  PROVE  \A k \in DOMAIN up'.map : AllOpen(OnDisk, up'.map[k])
<1>0. Shapes /\ UpShape(up) /\ NoUrlsIn(up.state)
  BY BusyUp DEF IStanding, IOnRecord, IDeclared, Busy
<1>1. PICK base :
    /\ up'.map = Only(Entry.key, registerResource(Entry.type, Entry.key, declaredUses(Launch),
                                                  base, Indexes(Entry.key))) ++ up.map
    /\ \/ base = Placeholder
       \/ Entry.type \in Provisioners \ SqlTypes /\ base = Properties(Record)
       \/ up.at = "create" /\ base = Properties(up.state.resources[Entry.key])
  BY DEF Registers
<1> DEFINE registered == registerResource(Entry.type, Entry.key, declaredUses(Launch),
                                          base, Indexes(Entry.key))
<1>2. AllOpen(OnDisk, registered)
  <2>1. CASE base = Placeholder
    <3>1. /\ AllOpen(OnDisk, base) /\ <<"url">> \in DOMAIN base
          /\ \E d : ~IsUrl(d) /\ base[<<"url">>] = <<"url", "none", Empty, d>>
      BY <2>1, PlaceholderOpen
    <3> QED BY <3>1, RegisteredOpen
  <2>2. CASE Entry.type \in Provisioners \ SqlTypes /\ base = Properties(Record)
    <3>1. Record.type \notin Servers BY <2>2, OtherRecord DEF Record
    <3>2. ~IsUrl(Record.password) BY <1>0, RecordNoUrl
    <3> DEFINE r == Record
    <3>3. r.type \notin Servers /\ ~IsUrl(r.password) /\ base = Properties(r)
      BY <2>2, <3>1, <3>2
    <3> HIDE DEF r
    <3>4. /\ AllOpen(OnDisk, base) /\ <<"url">> \in DOMAIN base
          /\ \E d : ~IsUrl(d) /\ base[<<"url">>] = <<"url", r.type, r.password, d>>
      BY <3>3, PropertiesOpen
    <3> QED BY <3>4, RegisteredOpen
  <2>3. CASE up.at = "create" /\ base = Properties(up.state.resources[Entry.key])
    <3> DEFINE r == up.state.resources[Entry.key]
    <3>1. disk = up.state /\ Entry.key \in DOMAIN up.state.resources
      BY <2>3 DEF IStanding, IOnRecord, IDeclared
    <3>2. OnDisk = up.state.resources
      BY <1>0, <3>1, StateApart DEF OnDisk, UpShape
    <3>3. Held(OnDisk, r.type, r.password) BY <3>1, <3>2 DEF Held
    <3>4. ~IsUrl(r.password) BY <1>0, <3>1 DEF NoUrlsIn
    <3>5. base = Properties(r) BY <2>3
    <3> HIDE DEF r
    <3>6. /\ AllOpen(OnDisk, base) /\ <<"url">> \in DOMAIN base
          /\ \E d : ~IsUrl(d) /\ base[<<"url">>] = <<"url", r.type, r.password, d>>
      BY <3>3, <3>4, <3>5, PropertiesOpen
    <3> QED BY <3>6, RegisteredOpen
  <2> QED BY <1>1, <2>1, <2>2, <2>3
<1> HIDE DEF registered
<1>3. up'.map = Only(Entry.key, registered) ++ up.map BY <1>1 DEF registered
<1> QED BY <1>2, <1>3 DEF Only, ++

\* What a component is given opens with what is on record.
LEMMA WrittenOpen ==
  ASSUME IStanding, NEW c, WriteEnv(c), \A k \in DOMAIN up.map : AllOpen(OnDisk, up.map[k])
  PROVE  AllOpen(OnDisk, StartedEnv(Comp(c), c, Context, up.state, By).env)
<1>1. UpShape(up) /\ NoUrlsIn(up.state) /\ up.launch \in DOMAIN Launches /\ IDeclared
      /\ up.at = "env" /\ up.todo # <<>> /\ c = Head(up.todo) /\ Shapes
  BY AnyUp, WriteEnvFields DEF IStanding, IOnRecord, IDeclared
<1>2. c \in Names(Launches[up.launch]) BY <1>1, Taken DEF IDeclared, Visits
<1>3. Comp(c) = Launches[up.launch].comp[c]
  BY <1>1, LaunchesAssumption DEF Comp, Launch
<1>4. Entries(Comp(c)) \in Seq(ToSet(Entries(Comp(c))))
  <2> DEFINE e == Entries(Launches[up.launch].comp[c])
  <2>1. e \in Seq(Declared(up.launch))
    BY <1>1, <1>2, EntriesDeclared DEF Entries
  <2> HIDE DEF e
  <2>2. e \in Seq(ToSet(e)) BY <2>1 DEF ToSet
  <2> QED BY <1>3, <2>2 DEF e
<1>5. OpenContext(OnDisk, Context)
  BY <1>1, ContextOpen DEF Context, NoUrlsIn
<1> QED BY <1>1, <1>4, <1>5, StartedOpen DEF NoUrlsIn

\* A step within an `up` hands out what opens, and makes a role with the password
\* it has on record.
LEMMA LabourOpened ==
  ASSUME KeysKeepServer, IStanding, IDeclared', Labour, Opened, Carries(OnDisk, OnDisk')
  PROVE  Opened'
<1>1. Labours /\ UpShape(up) /\ Shapes /\ IDeclared /\ IOnRecord /\ up.at \in Busy
  BY Labouring, BusyUp DEF IStanding, IOnRecord, IDeclared, Labours
<1> DEFINE R == OnDisk
           Q == OnDisk'
<1>2. Carries(R, Q) OBVIOUS
<1>3. /\ \A k \in DOMAIN up.map : AllOpen(R, up.map[k])
      /\ \A c \in DOMAIN up.envs : AllOpen(R, up.envs[c])
      /\ RunOpen(R, up.state.processes)
  BY <1>1 DEF Opened
<1>4. alive' = alive BY <1>1 DEF Labours
<1>5. ASSUME NEW c, WriteEnv(c)
      PROVE  AllOpen(R, StartedEnv(Comp(c), c, Context, up.state, By).env)
  BY <1>3, <1>5, WrittenOpen
<1>6. \A s \in Servers : server'[s].password # Empty => Held(Q, s, server'[s].password)
  <2> SUFFICES ASSUME NEW s \in Servers, server'[s].password # Empty
               PROVE  Held(Q, s, server'[s].password)
    OBVIOUS
  <2>1. server[s].password # Empty => Held(R, s, server[s].password) BY DEF Opened
  <2>2. CASE server'[s].password = server[s].password BY <1>2, <2>1, <2>2, HeldCarried
  <2>3. ASSUME NEW made, Create(made), server'[s].password # server[s].password
        PROVE  Held(Q, s, server'[s].password)
    <3> DEFINE r == up.state.resources[Entry.key]
               b == {""} \cup made
    <3>1. /\ up.at = "create"
          /\ server' = [server EXCEPT ![r.type] = Created(@, r.password, b)]
      BY <2>3 DEF Create
    <3>2. disk = up.state /\ Entry.key \in DOMAIN up.state.resources /\ DOMAIN server = Servers
      BY <1>1, <3>1 DEF IOnRecord, IDeclared
    <3>3. OnDisk = up.state.resources BY <1>1, <3>2, StateApart DEF OnDisk, UpShape
    <3>4. Held(R, r.type, r.password) BY <3>2, <3>3 DEF Held
    <3> HIDE DEF r, b
    <3>5. s = r.type BY <2>3, <3>1, <3>2
    <3>6. server'[s] = Created(server[s], r.password, b) BY <3>1, <3>2, <3>5
    <3>7. server'[s].password = r.password BY <2>3, <3>6, CreatedFields
    <3> QED BY <1>2, <3>4, <3>5, <3>7, HeldCarried
  <2>4. server' = server \/ \E made : Create(made) BY LabourServer
  <2> QED BY <2>2, <2>3, <2>4
<1>7. \A c \in DOMAIN envFiles' : AllOpen(Q, envFiles'[c])
  <2>1. \A c \in DOMAIN envFiles : AllOpen(R, envFiles[c]) BY DEF Opened
  <2>2. \A c \in DOMAIN envFiles' : AllOpen(R, envFiles'[c])
    <3>1. CASE envFiles' = envFiles BY <2>1, <3>1
    <3>2. ASSUME NEW c, WriteEnv(c) PROVE \A d \in DOMAIN envFiles' : AllOpen(R, envFiles'[d])
      <4> DEFINE e == StartedEnv(Comp(c), c, Context, up.state, By).env
      <4>1. envFiles' \in {envFiles, Only(c, e) ++ envFiles} BY <1>1, <3>2, WriteEnvFields
      <4>2. AllOpen(R, e) BY <1>5, <3>2
      <4> HIDE DEF e
      <4> QED BY <2>1, <4>1, <4>2 DEF Only, ++
    <3> QED BY <3>1, <3>2, LabourFiles
  <2> QED BY <1>2, <2>2, OpenCarried
<1>8. ASSUME Continues
      PROVE  /\ \A k \in DOMAIN up'.map : AllOpen(Q, up'.map[k])
             /\ \A c \in DOMAIN up'.envs : AllOpen(Q, up'.envs[c])
             /\ RunOpen(OnDisk, up.state.processes)'
  <2>1. \A k \in DOMAIN up'.map : AllOpen(R, up'.map[k])
    BY <1>1, <1>3, <1>8, RegistersOpen DEF Continues
  <2>2. \A c \in DOMAIN up'.envs : AllOpen(R, up'.envs[c])
    <3>1. CASE up'.envs = up.envs BY <1>3, <3>1
    <3>2. ASSUME NEW c, WriteEnv(c) PROVE \A d \in DOMAIN up'.envs : AllOpen(R, up'.envs[d])
      <4> DEFINE e == StartedEnv(Comp(c), c, Context, up.state, By).env
      <4>1. up'.envs = Only(c, e) ++ up.envs BY <1>1, <3>2, WriteEnvFields
      <4>2. AllOpen(R, e) BY <1>5, <3>2
      <4> HIDE DEF e
      <4> QED BY <1>3, <4>1, <4>2 DEF Only, ++
    <3> QED BY <1>8, <3>1, <3>2 DEF Continues
  <2>3. up'.state.processes = up.state.processes BY <1>8 DEF Continues
  <2>4. RunOpen(OnDisk, up.state.processes)'
    BY <1>2, <1>3, <1>4, <2>3, OpenCarried DEF RunOpen, IsRecorded
  <2> QED BY <1>2, <2>1, <2>2, <2>4, OpenCarried
<1>9. disk' # Absent => RunOpen(OnDisk, disk.processes)'
  <2>1. CASE disk' = disk
    <3>1. disk # Absent => RunOpen(R, disk.processes) BY DEF Opened
    <3> QED BY <1>2, <1>4, <2>1, <3>1, OpenCarried DEF RunOpen, IsRecorded
  <2>2. CASE disk'.processes = up.state.processes
    BY <1>2, <1>3, <1>4, <2>2, OpenCarried DEF RunOpen, IsRecorded
  <2> QED BY <1>1, <2>1, <2>2 DEF Labours, Persists, Continues
<1>10. up' = NoUp => up'.at = "idle" BY DEF NoUp
<1>11. up'.at \notin {"started", "failed"} BY <1>1, <1>10 DEF Labours, Continues, Busy
<1>12. up'.at \in Busy => Continues BY <1>1, <1>10 DEF Labours, Busy
<1> QED BY <1>6, <1>7, <1>8, <1>9, <1>11, <1>12 DEF Opened

\* Where no server, file or `up` changes it is enough that the record grows.
LEMMA OpenedStays ==
  ASSUME Opened, Carries(OnDisk, OnDisk'), server' = server, envFiles' = envFiles,
         disk' # Absent => RunOpen(OnDisk, disk.processes)',
         up'.at \in Busy =>
           /\ \A k \in DOMAIN up'.map : AllOpen(OnDisk, up'.map[k])
           /\ \A c \in DOMAIN up'.envs : AllOpen(OnDisk, up'.envs[c])
           /\ RunOpen(OnDisk, up.state.processes)',
         up'.at \in {"started", "failed"} => RunOpen(OnDisk, up.procs)'
  PROVE  Opened'
<1>1. \A s \in Servers : server'[s].password # Empty => Held(OnDisk', s, server'[s].password)
  BY HeldCarried DEF Opened
<1>2. \A c \in DOMAIN envFiles' : AllOpen(OnDisk', envFiles'[c]) BY OpenCarried DEF Opened
<1>3. up'.at \in Busy =>
        /\ \A k \in DOMAIN up'.map : AllOpen(OnDisk', up'.map[k])
        /\ \A c \in DOMAIN up'.envs : AllOpen(OnDisk', up'.envs[c])
  BY OpenCarried
<1> QED BY <1>1, <1>2, <1>3 DEF Opened

\* An `up` begins with what is on record.
LEMMA BeginsOpened == ASSUME Shapes, Begins, Opened PROVE Opened'
<1>1. disk' = disk /\ server' = server /\ envFiles' = envFiles /\ alive' = alive
      /\ up'.at = "entry" /\ up'.map = <<>> /\ up'.envs = <<>>
  BY DEF Begins
<1>2. OnDisk' = OnDisk /\ Carries(OnDisk, OnDisk') BY <1>1, Stays
<1>3. disk # Absent => RunOpen(OnDisk, disk.processes) BY DEF Opened
<1>4. disk' # Absent => RunOpen(OnDisk, disk.processes)'
  BY <1>1, <1>2, <1>3 DEF RunOpen, IsRecorded
<1>5. RunOpen(OnDisk, up.state.processes)'
  <2>1. CASE disk = Absent
    <3>1. up'.state.processes = <<>> BY <2>1 DEF Begins, Loads, initState
    <3> QED BY <3>1 DEF RunOpen, IsRecorded
  <2>2. CASE disk # Absent
    <3>1. up'.state.processes = disk.processes
      BY <2>2 DEF Begins, Loads, Shapes, StateShape, loadState
    <3> QED BY <2>2, <3>1, <1>1, <1>2, <1>3 DEF RunOpen, IsRecorded
  <2> QED BY <2>1, <2>2
<1> QED BY <1>1, <1>2, <1>4, <1>5, OpenedStays

\* What is started has what its component was given.
LEMMA StartsOpened == ASSUME IStanding, Starts, Opened PROVE Opened'
<1>1. disk' = disk /\ server' = server /\ envFiles' = envFiles /\ round' = round
      /\ up.at = "start" /\ up'.at \in {"started", "failed"}
  BY DEF Starts
<1>2. OnDisk' = OnDisk /\ Carries(OnDisk, OnDisk') BY <1>1, Stays
<1>3. PICK started \in SUBSET Runnable :
        alive' = alive \cup {Process(c, FALSE) : c \in started} /\ up'.procs = [c \in started |-> round]
  BY DEF Starts
<1>4. ASSUME NEW c \in started
      PROVE  /\ AllOpen(OnDisk, Process(c, FALSE).env)
             /\ Process(c, FALSE).component = c /\ Process(c, FALSE).round = round
  <2>1. UpShape(up) /\ up.launch \in DOMAIN Launches
    BY <1>1, AnyUp DEF IStanding, IOnRecord, IDeclared
  <2>2. c \in ToSet(up.order)
    BY <2>1, LaunchesAssumption DEF Runnable, Names, Launch
  <2>3. c \in DOMAIN up.envs BY <1>1, <2>2 DEF IStanding, Wired
  <2> QED BY <1>1, <2>3 DEF Process, Opened, Busy
<1>5. disk' # Absent => RunOpen(OnDisk, disk.processes)'
  <2>1. disk # Absent => RunOpen(OnDisk, disk.processes) BY DEF Opened
  <2> QED BY <1>1, <1>2, <1>3, <1>4, <2>1 DEF RunOpen, IsRecorded
<1>6. RunOpen(OnDisk, up.procs)'
  <2> SUFFICES ASSUME NEW p \in alive', IsRecorded(p, up'.procs) PROVE AllOpen(OnDisk, p.env)
    BY <1>2 DEF RunOpen, IsRecorded
  <2>1. p.round = round BY <1>3 DEF IsRecorded
  <2>2. p \notin alive BY <1>1, <2>1 DEF IStanding, Busy
  <2> QED BY <1>3, <1>4, <2>2
<1> QED BY <1>1, <1>2, <1>5, <1>6, OpenedStays DEF Busy

\* What is recorded of the processes is what was started.
LEMMA ConcludesOpened ==
  ASSUME IStanding, Finishes, Opened PROVE Opened'
<1>1. Shapes /\ Concludes /\ IOnRecord /\ UpShape(up)
  BY Concluding, AnyUp DEF IStanding, IOnRecord, IDeclared, Concludes
<1>2. server' = server /\ envFiles' = envFiles
  BY DEF Finishes, RecordProcesses, Interrupt
<1>3. disk' # Absent /\ disk'.resources = up.state.resources /\ up.at # "idle"
      /\ up'.at \in {"idle", "session"}
  BY <1>1, StateApart DEF Concludes, NoUp
<1>4. Carries(OnDisk, OnDisk') BY <1>1, <1>3, Grows DEF IOnRecord
<1>5. RunOpen(OnDisk, disk.processes)'
  <2>1. ASSUME NEW late, RecordProcesses(late) PROVE RunOpen(OnDisk, disk.processes)'
    <3>0. \A p \in alive' : p \in alive \/ p.component \notin DOMAIN up.procs
      BY <2>1 DEF RecordProcesses, Spawning, Unspawned, Process
    <3>1. disk' = [up.state EXCEPT !.processes = up.procs] /\ up.at \in {"started", "failed"}
      BY <2>1 DEF RecordProcesses, saveState, written
    <3>2. disk'.processes = up.procs BY <1>1, <3>1 DEF UpShape, StateShape
    <3>3. RunOpen(OnDisk, up.procs) BY <3>1 DEF Opened
    <3> QED BY <1>4, <3>0, <3>2, <3>3, OpenCarried DEF RunOpen, IsRecorded
  <2>2. ASSUME NEW late, Interrupt(late) PROVE RunOpen(OnDisk, disk.processes)'
    <3>1. disk' = [up.state EXCEPT !.processes = <<>>]
      BY <2>2 DEF Interrupt, written
    <3>2. disk'.processes = <<>> BY <1>1, <3>1 DEF UpShape, StateShape
    <3> QED BY <3>2 DEF RunOpen, IsRecorded
  <2> QED BY <2>1, <2>2 DEF Finishes
<1> QED BY <1>2, <1>3, <1>4, <1>5, OpenedStays DEF Busy

\* `env` and `bootstrap` make a role with the password on record.
LEMMA AnswerOpened ==
  ASSUME Shapes, Quiet, NEW launch, NEW state, Answer(launch, state), Carries(OnDisk, OnDisk'),
         NEW s \in Servers, server'[s].password # Empty,
         server[s].password # Empty => Held(OnDisk, s, server[s].password)
  PROVE  Held(OnDisk', s, server'[s].password)
<1> DEFINE held == {k \in DOMAIN loadState.resources : loadState.resources[k].type = s}
           k0 == CHOOSE k \in held : TRUE
           bases == {""} \cup UNION {NamedBases(launch, k) : k \in held}
<1>1. server'[s] = Ensured(launch, s) BY DEF Answer
<1>2. loadState.resources = validResources(disk.resources) /\ OnDisk = disk.resources
  BY Loaded DEF OnDisk, Quiet
<1>3. CASE server'[s].password = server[s].password BY <1>3, HeldCarried
<1>4. CASE held # {} /\ server'[s].password # server[s].password
  <2>1. k0 \in held BY <1>4
  <2> DEFINE p == loadState.resources[k0].password
  <2>2. server'[s] = Created(server[s], p, bases) BY <1>1, <1>4 DEF Ensured
  <2>3. Held(OnDisk, s, p) BY <1>2, <2>1 DEF Held, validResources, Restrict
  <2> HIDE DEF p, bases, k0
  <2>4. server'[s].password = p BY <1>4, <2>2, CreatedFields
  <2> QED BY <2>3, <2>4, HeldCarried
<1> QED BY <1>1, <1>3, <1>4 DEF Ensured

\* What comes beside an `up` makes no role but with the password on record, and
\* drops none it leaves on record.
LEMMA BesideOpened ==
  ASSUME IStanding, Beside, Opened, Orderly' PROVE Opened'
<1>1. Shapes /\ IOnRecord /\ Besides /\ Quiet /\ up' = up /\ alive' \subseteq alive
      /\ up'.at \notin Busy \ {"preparing"} /\ up'.at \notin {"started", "failed"}
  BY Besiding DEF IStanding, IOnRecord, IDeclared, Besides, Quiet, Busy
<1>2. ASSUME NEW dropped, Destroy(dropped) PROVE Opened'
  <2>1. up.at = "idle" /\ server' = [s \in Servers |-> NoRole]
    BY <1>2 DEF Destroy, Orderly
  <2>2. disk' = Absent /\ envFiles' = <<>> BY <1>2 DEF Destroy
  <2> QED BY <1>1, <2>1, <2>2 DEF Opened, Busy, NoRole
<1>3. ASSUME disk' # Absent PROVE Opened'
  <2>1. Carries(disk.resources, disk'.resources)
    BY <1>1, <1>3, CarriesItself, CarriesLoaded DEF Besides
  <2>2. Carries(OnDisk, OnDisk') BY <1>1, <1>3, <2>1, Grows
  <2>3. disk'.processes \in {<<>>, disk.processes} BY <1>1, <1>3 DEF Besides
  <2>4. RunOpen(OnDisk, disk.processes) BY <1>1 DEF Opened, Quiet
  <2>5. RunOpen(OnDisk, disk.processes)'
    BY <1>1, <2>2, <2>3, <2>4, OpenCarried DEF RunOpen, IsRecorded
  <2>6. up'.at \in Busy =>
          /\ \A k \in DOMAIN up'.map : AllOpen(OnDisk', up'.map[k])
          /\ \A c \in DOMAIN up'.envs : AllOpen(OnDisk', up'.envs[c])
          /\ RunOpen(OnDisk, up.state.processes)'
    <3> SUFFICES ASSUME up.at \in Busy
                 PROVE  /\ \A k \in DOMAIN up.map : AllOpen(OnDisk', up.map[k])
                        /\ \A c \in DOMAIN up.envs : AllOpen(OnDisk', up.envs[c])
                        /\ RunOpen(OnDisk, up.state.processes)'
      BY <1>1
    <3>1. RunOpen(OnDisk, up.state.processes) BY DEF Opened
    <3>2. RunOpen(OnDisk, up.state.processes)'
      BY <1>1, <2>2, <3>1, OpenCarried DEF RunOpen, IsRecorded
    <3> QED BY <2>2, <3>2, OpenCarried DEF Opened
  <2>7. CASE Down \/ \E dropped : Destroy(dropped)
    <3>1. CASE Down
      <4>1. server' = server /\ envFiles' = envFiles BY <3>1 DEF Down
      <4>2. \A s \in Servers :
              server'[s].password # Empty => Held(OnDisk', s, server'[s].password)
        BY <2>2, <4>1, HeldCarried DEF Opened
      <4>3. \A c \in DOMAIN envFiles' : AllOpen(OnDisk', envFiles'[c])
        BY <2>2, <4>1, OpenCarried DEF Opened
      <4> QED BY <1>1, <2>5, <2>6, <4>2, <4>3 DEF Opened
    <3> QED BY <1>2, <2>7, <3>1
  <2>8. ASSUME NEW launch, NEW g, Answer(launch, [loadState EXCEPT !.generated = g])
        PROVE  Opened'
    <3> DEFINE state == [loadState EXCEPT !.generated = g]
    <3>1. Answer(launch, state) BY <2>8
    <3> HIDE DEF state
    <3>2. \A s \in Servers :
            server'[s].password # Empty => Held(OnDisk', s, server'[s].password)
      BY <1>1, <2>2, <3>1, AnswerOpened DEF Opened
    <3>3. envFiles' = envFiles BY <3>1 DEF Answer
    <3>4. \A c \in DOMAIN envFiles' : AllOpen(OnDisk', envFiles'[c])
      BY <2>2, <3>3, OpenCarried DEF Opened
    <3> QED BY <1>1, <2>5, <2>6, <3>2, <3>4 DEF Opened
  <2> QED BY <2>7, <2>8, BesideKinds
<1>4. ASSUME NEW launch, NEW g, Answer(launch, [loadState EXCEPT !.generated = g])
      PROVE  disk' # Absent
  <2> DEFINE state == [loadState EXCEPT !.generated = g]
  <2>1. StateShape(state) BY <1>1, Loaded DEF StateShape
  <2> HIDE DEF state
  <2>2. Answer(launch, state) BY <1>4 DEF state
  <2> QED BY <1>1, <2>1, <2>2, StateApart DEF Answer, Quiet
<1>5. Down => disk' # Absent
  BY <1>1, Loaded DEF Down, saveState, written, StateShape, Absent
<1> QED BY <1>2, <1>3, <1>4, <1>5, BesideKinds

\* No step hands out what does not open, or changes what it opens with.
LEMMA RolesKept ==
  ASSUME KeysKeepServer, IRolesOpen, [Next]_vars PROVE IRolesOpen'
<1>1. IStanding /\ IStanding' /\ Shapes /\ IOnRecord /\ IDeclared /\ IDeclared'
  BY StandingKept DEF IRolesOpen, IStanding, IOnRecord, IDeclared
<1> SUFFICES ASSUME Orderly' PROVE Opened' BY <1>1 DEF IRolesOpen
<1>2. Opened BY OddGrows DEF IRolesOpen, Orderly
<1>3. CASE Labour
  <2>1. Labours /\ UpShape(up) /\ up.at # "idle" BY <1>1, <1>3, Labouring, BusyUp DEF Labours, Busy
  <2>2. Continues => Carries(up.state.resources, up'.state.resources)
    BY <1>1, <2>1, LabourCarries
  <2>3. disk # Absent => disk' # Absent /\ Carries(disk.resources, disk'.resources)
    <3>0. disk # Absent => Carries(disk.resources, up.state.resources)
      BY <1>1, <2>1 DEF IOnRecord
    <3>1. CASE disk' = disk BY <3>1, CarriesItself
    <3>2. CASE disk' = up.state BY <2>1, <3>0, <3>2, StateApart DEF UpShape
    <3>3. CASE up' # NoUp /\ disk' = up'.state
      BY <2>1, <2>2, <3>0, <3>3, StateApart, CarriesTransitive DEF Labours, Continues, UpShape
    <3> QED BY <2>1, <3>1, <3>2, <3>3 DEF Labours, Persists
  <2>4. Carries(OnDisk, OnDisk') BY <1>1, <2>3, Grows
  <2> QED BY <1>1, <1>2, <1>3, <2>4, LabourOpened
<1>4. CASE Breaks
  <2>1. disk' = disk /\ server' = server /\ envFiles' = envFiles /\ alive' = alive
        /\ up'.at = "idle"
    BY <1>4 DEF Breaks, NoUp, Orderly
  <2>2. OnDisk' = OnDisk /\ Carries(OnDisk, OnDisk') BY <2>1, Stays
  <2>3. disk # Absent => RunOpen(OnDisk, disk.processes) BY <1>2 DEF Opened
  <2>4. disk' # Absent => RunOpen(OnDisk, disk.processes)'
    BY <2>1, <2>2, <2>3 DEF RunOpen, IsRecorded
  <2> QED BY <1>2, <2>1, <2>2, <2>4, OpenedStays DEF Busy
<1>5. CASE Rests
  BY <1>2, <1>5 DEF Rests, Opened, RunOpen, IsRecorded, OnDisk
<1> QED
  BY <1>1, <1>2, <1>3, <1>4, <1>5, Kinds, BeginsOpened, StartsOpened, ConcludesOpened,
     BesideOpened

\* One role per product and one password per role.
Single(resources) ==
  \A k \in DOMAIN resources, l \in DOMAIN resources :
    resources[k].type \in Servers /\ resources[l].type = resources[k].type => k = l

ISingle ==
  /\ IDeclared
  /\ "twins" \notin odd =>
       /\ up.at # "idle" => Single(up.state.resources)
       /\ disk # Absent => Single(disk.resources)

LEMMA SingleLoaded ==
  ASSUME NEW resources, Single(resources) PROVE Single(validResources(resources))
BY DEF Single, validResources, Restrict

\* A second resource of a product is recorded as a twin only.
LEMMA SingleKept == ASSUME ISingle, [Next]_vars PROVE ISingle'
<1>1. IDeclared /\ IDeclared' /\ Shapes BY DeclaredKept DEF ISingle, IDeclared
<1> SUFFICES ASSUME "twins" \notin odd'
             PROVE  /\ up'.at # "idle" => Single(up.state.resources)'
                    /\ disk' # Absent => Single(disk.resources)'
  BY <1>1 DEF ISingle
<1>2. /\ up.at # "idle" => Single(up.state.resources)
      /\ disk # Absent => Single(disk.resources)
  BY OddGrows DEF ISingle
<1>3. CASE Begins
  <2>1. Single(up'.state.resources)
    BY <1>1, <1>2, <1>3, SingleLoaded
       DEF Begins, Loads, Shapes, StateShape, loadState, initState, Single
  <2> QED BY <1>2, <1>3, <2>1 DEF Begins, Single
<1>4. CASE Labour
  <2>1. Labours /\ UpShape(up) /\ up.at # "idle" BY <1>1, <1>4, Labouring, BusyUp DEF Labours, Busy
  <2>2. ASSUME Continues PROVE Single(up'.state.resources)
    <3>1. CASE up'.state.resources = up.state.resources BY <1>2, <2>1, <3>1
    <3>2. CASE /\ Entry.type \in Provisioners
               /\ up'.state.resources = Only(Entry.key, Record) ++ up.state.resources
               /\ Entry.type \in SqlTypes => PersistRecord
      <4>1. Entry.type \notin SqlTypes => Record.type \notin Servers
        BY <3>2, OtherRecord DEF Record
      <4>2. Entry.type \in SqlTypes => ~HasTwin(up.state.resources)
        BY <3>2 DEF PersistRecord, When
      <4> QED BY <1>2, <2>1, <3>2, <4>1, <4>2 DEF Single, HasTwin, Only, ++
    <3>3. CASE /\ up.at = "create"
               /\ up'.state.resources = Only(Entry.key, up.state.resources[Entry.key])
                                          ++ up.state.resources
      <4>1. Entry.key \in DOMAIN up.state.resources BY <1>1, <3>3 DEF IDeclared
      <4> QED BY <1>2, <2>1, <3>3, <4>1 DEF Single, Only, ++
    <3> QED BY <2>2, <3>1, <3>2, <3>3 DEF Continues, Records
  <2>3. disk' # Absent => Single(disk'.resources)
    <3>1. CASE disk' = disk BY <1>2, <3>1
    <3>2. CASE disk' = up.state BY <1>2, <2>1, <3>2
    <3>3. CASE up' # NoUp /\ disk' = up'.state BY <2>1, <2>2, <3>3 DEF Labours
    <3> QED BY <2>1, <3>1, <3>2, <3>3 DEF Labours, Persists
  <2> QED BY <2>1, <2>2, <2>3 DEF Labours, Single, NoUp
<1>5. CASE Starts BY <1>2, <1>5 DEF Starts, Single
<1>6. CASE Concludes BY <1>2, <1>6 DEF Concludes, Single, NoUp
<1>7. CASE Breaks BY <1>2, <1>7 DEF Breaks, Single, NoUp
<1>8. CASE Besides BY <1>2, <1>8, SingleLoaded DEF Besides, Quiet, Single
<1>9. CASE Rests BY <1>2, <1>9 DEF Rests, Single
<1> QED
  BY <1>1, <1>3, <1>4, <1>5, <1>6, <1>7, <1>8, <1>9, Kinds, Concluding, Besiding

\* What a url names and what is on the server are both on record.
LEMMA OneRole ==
  ASSUME NEW R, Single(R), NEW s \in Servers, NEW w, NEW x, Held(R, s, w), Held(R, s, x)
  PROVE  w = x
BY DEF Held, Single

\* A url that was handed out opens its server (RolesOpen of NativeUp).
THEOREM RolesOpenAlways == ASSUME KeysKeepServer PROVE Spec => []RolesOpen
<1>1. Init => IRolesOpen /\ ISingle
  BY InitShapes
     DEF Init, IRolesOpen, IStanding, IOnRecord, IDeclared, NoUp, NoRole, Provisions, Visits,
         Wired, Busy, Opened, ISingle
<1>2. IRolesOpen /\ ISingle /\ [Next]_vars => IRolesOpen' /\ ISingle' BY RolesKept, SingleKept
<1>3. IRolesOpen /\ ISingle => RolesOpen
  <2> SUFFICES ASSUME Opened, Single(OnDisk), NEW env \in HandedOut, NEW v \in DOMAIN env
               PROVE  Opens(env[v])
    <3>1. ISingle /\ "twins" \notin odd => Single(OnDisk) BY DEF ISingle, OnDisk, Single
    <3> QED BY <3>1 DEF IRolesOpen, RolesOpen, Orderly
  <2>1. AllOpen(OnDisk, env)
    BY DEF HandedOut, Range, Opened, RunOpen
  <2> SUFFICES ASSUME IsUrl(env[v]), server[env[v][2]].password # Empty
               PROVE  env[v][3] = server[env[v][2]].password
    BY DEF Opens, IsUrl
  <2>3. Held(OnDisk, env[v][2], env[v][3]) /\ env[v][2] \in Servers
    BY <2>1 DEF AllOpen, Opening, IsUrl
  <2>4. Held(OnDisk, env[v][2], server[env[v][2]].password) BY <2>3 DEF Opened
  <2> QED BY <2>3, <2>4, OneRole
<1> QED BY <1>1, <1>2, <1>3, PTL DEF Spec

-----------------------------------------------------------------------------
(* What `up` and `env` make of the same component. *)

ContextShape(ctx) ==
  ctx = [resources |-> ctx.resources, resource |-> ctx.resource, storage |-> ctx.storage,
         components |-> ctx.components, secrets |-> ctx.secrets, app |-> ctx.app,
         appEndpoints |-> ctx.appEndpoints, uses |-> ctx.uses]

\* Two contexts that differ in their resources at most, and not in those named.
Matching(keys, R, S) ==
  \A k \in keys : (k \in DOMAIN R <=> k \in DOMAIN S) /\ (k \in DOMAIN R => R[k] = S[k])

Alike(keys, x, y) ==
  /\ ContextShape(x) /\ ContextShape(y) /\ Matching(keys, x.resources, y.resources)
  /\ x.resource = y.resource /\ x.storage = y.storage /\ x.components = y.components
  /\ x.secrets = y.secrets /\ x.app = y.app /\ x.appEndpoints = y.appEndpoints
  /\ x.uses = y.uses

LEMMA ReadsHas ==
  ASSUME NEW comp
  PROVE  /\ \A e \in Resources(comp) :
              e.key \in Reads(comp) /\ \A v \in DOMAIN e.env : e.env[v][1] \in Reads(comp)
         /\ \A v \in OfKind(comp, {"default"}) : comp.env[v].ref[1] \in Reads(comp)
<1> DEFINE set == UNION {Range(e.env) : e \in Resources(comp)}
           given == {comp.env[v].ref : v \in OfKind(comp, {"default"})}
           refs == given \cup set
<1>1. Reads(comp) = {e.key : e \in Resources(comp)} \cup {ref[1] : ref \in refs} BY DEF Reads
<1>2. \A e \in Resources(comp) : \A v \in DOMAIN e.env : e.env[v] \in set BY DEF Range
<1>3. \A v \in OfKind(comp, {"default"}) : comp.env[v].ref \in given OBVIOUS
<1> HIDE DEF set, given
<1>4. \A ref \in set \cup given : ref[1] \in Reads(comp) BY <1>1
<1> QED BY <1>1, <1>2, <1>3, <1>4

\* A reference reads no resource but the one it begins with,
LEMMA ResolveAlike ==
  ASSUME NEW keys, NEW x, NEW y, Alike(keys, x, y), NEW path, path[1] \in keys
  PROVE  resolveExpression(path, x) = resolveExpression(path, y)
<1> DEFINE first == path[1]
           scoped(ctx, key) == IF key \in DOMAIN ctx.resource THEN ctx.resource[key] ELSE Undefined
           general(ctx) ==
             IF Len(path) >= 2 /\ first \in DOMAIN ctx.resources
                  /\ Tail(path) \in DOMAIN ctx.resources[first]
             THEN ctx.resources[first][Tail(path)] ELSE scoped(ctx, path)
<1>1. (first \in DOMAIN x.resources <=> first \in DOMAIN y.resources)
      /\ (first \in DOMAIN x.resources => x.resources[first] = y.resources[first])
  BY DEF Alike, Matching
<1>2. general(x) = general(y) BY <1>1 DEF Alike
<1>3. resolveUse(path, x) = resolveUse(path, y)
  <2> DEFINE declared == x.uses[first]
             named    == /\ Len(path) >= 4
                         /\ \E u \in declared : u[1] = path[2] /\ u[2] # ""
             use      == <<path[2], IF named THEN path[3] ELSE "">>
             property == use \o SubSeq(path, IF named THEN 4 ELSE 3, Len(path))
             value(ctx) == Get(Get(ctx.resources, first), property)
             answer(ctx) == IF use \in declared /\ first \in DOMAIN ctx.resources
                               /\ value(ctx) # Undefined
                            THEN value(ctx) ELSE Unresolved
  <2>1. resolveUse(path, x) = answer(x) BY DEF resolveUse
  <2>2. resolveUse(path, y) = answer(y) BY DEF resolveUse, Alike
  <2> HIDE DEF use, declared, property
  <2>3. Get(x.resources, first) = Get(y.resources, first) BY <1>1 DEF Get
  <2> QED BY <1>1, <2>1, <2>2, <2>3
<1>4. resolvePath(path, x) = resolvePath(path, y)
  <2> DEFINE v1 == Get(x.app, path[2])
             v2 == IF Len(path) = 4 THEN Get(x.appEndpoints, path[3]) ELSE Undefined
             v3 == x.secrets[path[2]]
             v4 == IF path[2] \in DOMAIN x.components
                   THEN Get(x.components[path[2]], SubSeq(path, 3, Len(path))) ELSE Undefined
             v5 == IF path[3] = "path" THEN Get(x.storage, path[2]) ELSE Undefined
             answer(use, other) ==
               CASE first = "app" /\ Len(path) = 2 -> v1
                 [] first = "app" /\ Len(path) > 2 /\ path[2] = "endpoints" -> v2
                 [] first = "secrets" /\ Len(path) = 2 /\ path[2] \in DOMAIN x.secrets -> v3
                 [] first = "components" /\ Len(path) >= 3 -> v4
                 [] first = "storage" /\ Len(path) = 3 -> v5
                 [] Len(path) >= 3 /\ first \in DOMAIN x.uses -> use
                 [] OTHER -> other
  <2>1. resolvePath(path, x) = answer(resolveUse(path, x), general(x)) BY DEF resolvePath
  <2>2. resolvePath(path, y) = answer(resolveUse(path, y), general(y)) BY DEF resolvePath, Alike
  <2> HIDE DEF answer, general
  <2> QED BY <1>2, <1>3, <2>1, <2>2
<1> QED BY <1>4 DEF resolveExpression

\* and a component's variables none that the component does not.
LEMMA InjectedAlike ==
  ASSUME NEW keys, NEW x, NEW y, Alike(keys, x, y), NEW e, e.key \in keys,
         e.key \in DOMAIN x.resources, \A v \in DOMAIN e.env : e.env[v][1] \in keys
  PROVE  Injected(e, x) = Injected(e, y)
<1> DEFINE own(ctx) == [ctx EXCEPT !.resource = ctx.resources[e.key]]
<1>1. Alike(keys, own(x), own(y)) BY DEF Alike, Matching, ContextShape
<1>2. Injected(e, x) = [v \in DOMAIN e.env |-> resolveExpression(e.env[v], own(x))]
      /\ Injected(e, y) = [v \in DOMAIN e.env |-> resolveExpression(e.env[v], own(y))]
  BY DEF Injected
<1> HIDE DEF own
<1>3. ASSUME NEW v \in DOMAIN e.env
      PROVE  resolveExpression(e.env[v], own(x)) = resolveExpression(e.env[v], own(y))
  <2>1. e.env[v][1] \in keys OBVIOUS
  <2> QED BY <1>1, <2>1, ResolveAlike
<1> QED BY <1>2, <1>3

LEMMA ComponentEnvAlike ==
  ASSUME NEW comp, Entries(comp) \in Seq(ToSet(Entries(comp))), NEW x, NEW y,
         Alike(Reads(comp), x, y), NEW storage
  PROVE  resolveComponentEnv(comp, x, storage) = resolveComponentEnv(comp, y, storage)
<1> DEFINE keys == Reads(comp)
           scope(ctx) == [ctx EXCEPT !.storage = storage]
           entry == Entries(comp)
           wired(ctx) == {i \in DOMAIN entry : ~entry[i].host /\ entry[i].key \in DOMAIN ctx.resources}
           having(ctx, v) == {i \in wired(ctx) : v \in DOMAIN entry[i].env}
           bound(ctx) == [v \in UNION {DOMAIN entry[i].env : i \in wired(ctx)} |->
                            Injected(entry[Max(having(ctx, v))], scope(ctx))[v]]
           given(ctx) == [v \in {d \in DOMAIN comp.env : comp.env[d].kind = "default"} |->
                            resolveExpression(comp.env[v].ref, scope(ctx))]
<1>1. Alike(keys, scope(x), scope(y)) /\ scope(x).resources = x.resources
      /\ scope(y).resources = y.resources
  BY DEF Alike, Matching, ContextShape
<1>2. resolveComponentEnv(comp, x, storage) = bound(x) ++ given(x)
      /\ resolveComponentEnv(comp, y, storage) = bound(y) ++ given(y)
  BY DEF resolveComponentEnv
<1> HIDE DEF scope
<1>3. given(x) = given(y)
  <2>1. ASSUME NEW v \in {d \in DOMAIN comp.env : comp.env[d].kind = "default"}
        PROVE  resolveExpression(comp.env[v].ref, scope(x)) = resolveExpression(comp.env[v].ref, scope(y))
    <3>1. comp.env[v].ref[1] \in keys BY ReadsHas DEF OfKind
    <3> HIDE DEF keys
    <3> QED BY <1>1, <3>1, ResolveAlike
  <2> QED BY <2>1
<1>4. ASSUME NEW i \in DOMAIN entry, ~entry[i].host
      PROVE  entry[i].key \in keys /\ \A v \in DOMAIN entry[i].env : entry[i].env[v][1] \in keys
  <2>1. entry[i] \in Resources(comp) BY <1>4 DEF Resources, ToSet
  <2> HIDE DEF entry
  <2> QED BY <2>1, ReadsHas
<1>5. wired(x) = wired(y)
  <2> HIDE DEF keys, entry
  <2>1. \A k \in keys : k \in DOMAIN x.resources <=> k \in DOMAIN y.resources
    BY DEF Alike, Matching, keys
  <2> QED BY <1>4, <2>1
<1>6. \A v : having(x, v) = having(y, v) BY <1>5
<1>7. ASSUME NEW v \in UNION {DOMAIN entry[i].env : i \in wired(x)}
      PROVE  Injected(entry[Max(having(x, v))], scope(x))[v] = Injected(entry[Max(having(x, v))], scope(y))[v]
  <2>1. having(x, v) # {} OBVIOUS
  <2>2. wired(x) \in SUBSET (1..Len(entry)) /\ Len(entry) \in Nat
    <3> HIDE DEF entry
    <3>1. entry \in Seq(ToSet(entry)) BY DEF entry
    <3> QED BY <3>1
  <2>3. having(x, v) \in SUBSET (1..Len(entry)) BY <2>2
  <2> DEFINE last == Max(having(x, v))
  <2>4. last \in having(x, v)
    <3> HIDE DEF having
    <3> QED BY <2>1, <2>2, <2>3, Greatest
  <2>5. last \in DOMAIN entry /\ ~entry[last].host /\ entry[last].key \in DOMAIN x.resources BY <2>4
  <2> HIDE DEF last, entry, keys
  <2>6. Injected(entry[last], scope(x)) = Injected(entry[last], scope(y))
    BY <1>1, <1>4, <2>5, InjectedAlike
  <2> QED BY <2>6 DEF last
<1>8. bound(x) = bound(y)
  <2> HIDE DEF entry, wired, having
  <2> QED BY <1>5, <1>6, <1>7
<1> HIDE DEF bound, given
<1> QED BY <1>2, <1>3, <1>8

\* A component's variables, from what is resolved and what is held of the generated.
Draws(comp, base) == OfKind(comp, {"secret", "uuid"}) \ DOMAIN base

Filled(comp, c, base, held, by) ==
  base ++ [v \in Draws(comp, base) |-> held[<<c, v>>]]
       ++ [v \in OfKind(comp, {"port"}) |-> Minted(by, "port", <<c, v>>)]

HeldBy(comp, c, base, generated, by) == generated ++ Generated(c, Draws(comp, base), by)

Based(comp, c, ctx, state) == resolveComponentEnv(comp, ctx, storagePaths(comp, c, state.bound))

LEMMA StartedIs ==
  ASSUME NEW comp, NEW c, NEW ctx, NEW state, NEW by
  PROVE  LET base == Based(comp, c, ctx, state)
             held == HeldBy(comp, c, base, state.generated, by)
         IN  /\ StartedEnv(comp, c, ctx, state, by).generated = held
             /\ StartedEnv(comp, c, ctx, state, by).env =
                  WithPort(Supplied(OperatorEnv(comp)) ++ Filled(comp, c, base, held, by), c, state.ports)
<1> DEFINE base == Based(comp, c, ctx, state)
           held == HeldBy(comp, c, base, state.generated, by)
           env == Filled(comp, c, base, held, by)
           resolved == resolveGenerators(comp, c, base, state.generated, by)
<1>1. resolved = [generated |-> held, env |-> env]
  <2> HIDE DEF base
  <2> QED BY DEF resolveGenerators, WithGenerated, Filled, Draws, HeldBy
<1>2. StartedEnv(comp, c, ctx, state, by) =
        [resolved EXCEPT !.env = WithPort(Supplied(OperatorEnv(comp)) ++ @, c, state.ports)]
  BY DEF StartedEnv, Based
<1> HIDE DEF base, held, env, resolved
<1>3. resolved.env = env BY <1>1
<1> DEFINE whole == WithPort(Supplied(OperatorEnv(comp)) ++ env, c, state.ports)
<1>4. StartedEnv(comp, c, ctx, state, by) = [resolved EXCEPT !.env = whole] BY <1>2, <1>3
<1> HIDE DEF whole
<1>5. StartedEnv(comp, c, ctx, state, by) = [generated |-> held, env |-> whole] BY <1>1, <1>4
<1> QED BY <1>5 DEF whole, env, held, base

LEMMA AnsweredIs ==
  ASSUME NEW comp, NEW c, NEW ctx, NEW state, NEW storage, NEW given, NEW by
  PROVE  LET base == resolveComponentEnv(comp, ctx, storage)
             held == HeldBy(comp, c, base, state.generated, by)
             env == Filled(comp, c, base, held, by)
         IN  AnsweredEnv(comp, c, ctx, state, storage, given, by).env =
               WithPort(env ++ Supplied(unsuppliedRequiredEnv(comp, DOMAIN env) \cap given), c, state.ports)
<1> DEFINE base == resolveComponentEnv(comp, ctx, storage)
           held == HeldBy(comp, c, base, state.generated, by)
           env == Filled(comp, c, base, held, by)
           resolved == resolveGenerators(comp, c, base, state.generated, by)
           asked == unsuppliedRequiredEnv(comp, DOMAIN resolved.env) \cap given
<1>1. resolved = [generated |-> held, env |-> env]
  <2> HIDE DEF base
  <2> QED BY DEF resolveGenerators, WithGenerated, Filled, Draws, HeldBy
<1>2. AnsweredEnv(comp, c, ctx, state, storage, given, by) =
        [resolved EXCEPT !.env = WithPort(@ ++ Supplied(asked), c, state.ports)]
  BY DEF AnsweredEnv
<1> HIDE DEF base, held, env, resolved
<1>3. resolved.env = env BY <1>1
<1> DEFINE whole == WithPort(env ++ Supplied(unsuppliedRequiredEnv(comp, DOMAIN env) \cap given), c, state.ports)
<1>4. AnsweredEnv(comp, c, ctx, state, storage, given, by) = [resolved EXCEPT !.env = whole]
  BY <1>2, <1>3
<1> HIDE DEF whole, asked
<1>5. AnsweredEnv(comp, c, ctx, state, storage, given, by).env = whole BY <1>1, <1>4
<1> QED BY <1>5 DEF whole, env, held, base

LEMMA FilledSame ==
  ASSUME NEW comp, NEW c, NEW base, NEW held, NEW kept, NEW by,
         \A v \in Draws(comp, base) : held[<<c, v>>] = kept[<<c, v>>]
  PROVE  Filled(comp, c, base, held, by) = Filled(comp, c, base, kept, by)
<1>1. [v \in Draws(comp, base) |-> held[<<c, v>>]] = [v \in Draws(comp, base) |-> kept[<<c, v>>]]
  OBVIOUS
<1> QED BY <1>1 DEF Filled

\* Whom nothing is drawn for any more has the same variables, whatever else is generated.
Drawn(comp, c, base, generated) == \A v \in Draws(comp, base) : <<c, v>> \in DOMAIN generated

LEMMA HeldFor ==
  ASSUME NEW comp, NEW c, NEW base, NEW generated, NEW by
  PROVE  LET held == HeldBy(comp, c, base, generated, by)
         IN  /\ Drawn(comp, c, base, held) /\ KeptIn(generated, held)
             /\ Drawn(comp, c, base, generated) =>
                  \A v \in Draws(comp, base) : held[<<c, v>>] = generated[<<c, v>>]
BY DEF HeldBy, Drawn, KeptIn, Generated, ++

LEMMA StartedStays ==
  ASSUME NEW comp, NEW c, NEW ctx, NEW state, NEW later, NEW by,
         later.bound = state.bound, later.ports = state.ports,
         Drawn(comp, c, Based(comp, c, ctx, state), state.generated),
         KeptIn(state.generated, later.generated)
  PROVE  /\ Drawn(comp, c, Based(comp, c, ctx, later), later.generated)
         /\ StartedEnv(comp, c, ctx, later, by).env = StartedEnv(comp, c, ctx, state, by).env
<1> DEFINE base == Based(comp, c, ctx, state)
           held == HeldBy(comp, c, base, state.generated, by)
           kept == HeldBy(comp, c, base, later.generated, by)
<1>1. Based(comp, c, ctx, later) = base BY DEF Based
<1> HIDE DEF base
<1>2. Drawn(comp, c, base, later.generated) BY DEF Drawn, KeptIn, base
<1>3. \A v \in Draws(comp, base) : held[<<c, v>>] = kept[<<c, v>>]
  <2>1. \A v \in Draws(comp, base) : held[<<c, v>>] = state.generated[<<c, v>>] BY HeldFor DEF base
  <2>2. \A v \in Draws(comp, base) : kept[<<c, v>>] = later.generated[<<c, v>>] BY <1>2, HeldFor
  <2> HIDE DEF held, kept
  <2> QED BY <2>1, <2>2 DEF Drawn, KeptIn, base
<1> HIDE DEF held, kept
<1>4. Filled(comp, c, base, held, by) = Filled(comp, c, base, kept, by) BY <1>3, FilledSame
<1>5. StartedEnv(comp, c, ctx, state, by).env =
        WithPort(Supplied(OperatorEnv(comp)) ++ Filled(comp, c, base, held, by), c, state.ports)
  BY StartedIs DEF base, held
<1>6. StartedEnv(comp, c, ctx, later, by).env =
        WithPort(Supplied(OperatorEnv(comp)) ++ Filled(comp, c, base, kept, by), c, state.ports)
  BY <1>1, StartedIs DEF kept
<1> QED BY <1>1, <1>2, <1>4, <1>5, <1>6

\* So has the component that was just drawn for.
LEMMA StartedAgain ==
  ASSUME NEW comp, NEW c, NEW ctx, NEW state, NEW later, NEW by,
         later.bound = state.bound, later.ports = state.ports,
         later.generated = StartedEnv(comp, c, ctx, state, by).generated
  PROVE  /\ Drawn(comp, c, Based(comp, c, ctx, later), later.generated)
         /\ StartedEnv(comp, c, ctx, later, by).env = StartedEnv(comp, c, ctx, state, by).env
         /\ KeptIn(state.generated, later.generated)
<1> DEFINE base == Based(comp, c, ctx, state)
           held == HeldBy(comp, c, base, state.generated, by)
           kept == HeldBy(comp, c, base, held, by)
<1>1. Based(comp, c, ctx, later) = base BY DEF Based
<1>2. later.generated = held BY StartedIs
<1>3. StartedEnv(comp, c, ctx, state, by).env =
        WithPort(Supplied(OperatorEnv(comp)) ++ Filled(comp, c, base, held, by), c, state.ports)
  BY StartedIs
<1> HIDE DEF base
<1>4. Drawn(comp, c, base, held) /\ KeptIn(state.generated, held) BY HeldFor
<1>5. \A v \in Draws(comp, base) : kept[<<c, v>>] = held[<<c, v>>] BY <1>4, HeldFor
<1> HIDE DEF held
<1>6. Filled(comp, c, base, kept, by) = Filled(comp, c, base, held, by)
  <2> HIDE DEF kept
  <2> QED BY <1>5, FilledSame
<1>7. StartedEnv(comp, c, ctx, later, by).env =
        WithPort(Supplied(OperatorEnv(comp)) ++ Filled(comp, c, base, kept, by), c, state.ports)
  BY <1>1, <1>2, StartedIs
<1> QED BY <1>1, <1>2, <1>3, <1>4, <1>6, <1>7

LEMMA ToSetConcat ==
  ASSUME NEW E, NEW r \in Seq(E), NEW s \in Seq(E), NEW x \in ToSet(r)
  PROVE  x \in ToSet(r \o s)
<1>1. PICK i \in DOMAIN r : r[i] = x BY DEF ToSet
<1>2. i \in DOMAIN (r \o s) /\ (r \o s)[i] = r[i] OBVIOUS
<1> QED BY <1>1, <1>2 DEF ToSet

\* What the operator is asked for nothing else sets, but a resource.
LEMMA AskedFor ==
  ASSUME NEW comp, NEW E, comp.requires \in Seq(E), comp.supports \in Seq(E),
         NEW ctx, NEW storage, NEW c, NEW held, NEW by,
         \A e \in ToSet(comp.requires) :
           ~e.host /\ e.type \in Provisioners => e.key \in DOMAIN ctx.resources
  PROVE  LET base == resolveComponentEnv(comp, ctx, storage)
             set  == DOMAIN Filled(comp, c, base, held, by)
         IN  /\ unsuppliedRequiredEnv(comp, set) = OperatorEnv(comp) \ set
             /\ OperatorEnv(comp) \cap set \subseteq Contested(comp)
<1> DEFINE base == resolveComponentEnv(comp, ctx, storage)
           entry == Entries(comp)
           wired == {i \in DOMAIN entry : ~entry[i].host /\ entry[i].key \in DOMAIN ctx.resources}
           set == UNION {DOMAIN entry[i].env : i \in wired}
           defaults == {d \in DOMAIN comp.env : comp.env[d].kind = "default"}
           required == {v \in DOMAIN comp.env : comp.env[v].kind = "required"}
           binding == {e \in ToSet(comp.requires) : ~e.host /\ e.type \in Provisioners}
           bound == UNION {DOMAIN e.env : e \in binding}
<1>1. DOMAIN base = set \cup defaults BY DEF resolveComponentEnv, ++
<1> HIDE DEF base
<1>2. DOMAIN Filled(comp, c, base, held, by)
        = DOMAIN base \cup OfKind(comp, {"secret", "uuid"}) \cup OfKind(comp, {"port"})
  BY DEF Filled, Draws, ++
<1>3. OperatorEnv(comp) = required \ bound BY DEF OperatorEnv, unsuppliedRequiredEnv
<1>4. unsuppliedRequiredEnv(comp, DOMAIN Filled(comp, c, base, held, by))
        = required \ DOMAIN Filled(comp, c, base, held, by)
  BY DEF unsuppliedRequiredEnv
<1>5. ASSUME NEW v \in required, v \notin bound, v \in DOMAIN Filled(comp, c, base, held, by)
      PROVE  v \in Contested(comp)
  <2>1. v \notin defaults \cup OfKind(comp, {"secret", "uuid"}) \cup OfKind(comp, {"port"})
    BY DEF OfKind
  <2>2. v \in set
    <3> HIDE DEF set, defaults
    <3> QED BY <1>1, <1>2, <1>5, <2>1
  <2>3. PICK i \in wired : v \in DOMAIN entry[i].env BY <2>2
  <2>4. entry[i] \in Resources(comp) BY <2>3 DEF Resources, ToSet
  <2>5. v \in OperatorEnv(comp) BY <1>3, <1>5
  <2> HIDE DEF entry
  <2> QED BY <2>3, <2>4, <2>5 DEF Contested
<1>6. ASSUME NEW v \in bound PROVE v \in DOMAIN Filled(comp, c, base, held, by)
  <2>1. PICK e \in binding : v \in DOMAIN e.env OBVIOUS
  <2>2. e \in ToSet(entry) BY <2>1, ToSetConcat DEF Entries
  <2>3. PICK i \in DOMAIN entry : entry[i] = e
    <3> HIDE DEF entry
    <3> QED BY <2>2 DEF ToSet
  <2>4. e.key \in DOMAIN ctx.resources BY <2>1
  <2>5. i \in wired
    <3> HIDE DEF entry
    <3> QED BY <2>1, <2>3, <2>4
  <2>6. v \in set
    <3> HIDE DEF entry, wired
    <3> QED BY <2>1, <2>3, <2>5
  <2> HIDE DEF set, defaults
  <2> QED BY <1>1, <1>2, <2>6
<1> HIDE DEF required, bound
<1>7. /\ unsuppliedRequiredEnv(comp, DOMAIN Filled(comp, c, base, held, by))
           = OperatorEnv(comp) \ DOMAIN Filled(comp, c, base, held, by)
      /\ OperatorEnv(comp) \cap DOMAIN Filled(comp, c, base, held, by) \subseteq Contested(comp)
  BY <1>3, <1>4, <1>5, <1>6
<1> QED BY <1>7 DEF base

\* Every resource under `requires` is to be had, and the operator has answered for
\* what none of them sets.
Answered(comp, ctx, given) ==
  /\ \E E : comp.requires \in Seq(E) /\ comp.supports \in Seq(E)
  /\ OperatorEnv(comp) \subseteq given
  /\ \A e \in ToSet(comp.requires) :
       ~e.host /\ e.type \in Provisioners => e.key \in DOMAIN ctx.resources

AnswersAlike(comp, c, x, state, by, y, later, given, again) ==
  LET but     == OfKind(comp, {"port"}) \cup Contested(comp)
      started == StartedEnv(comp, c, x, state, by).env
      answer  == AnsweredEnv(comp, c, y, later, storagePaths(comp, c, state.bound), given, again).env
  IN  Restrict(answer, DOMAIN answer \ but) = Restrict(started, DOMAIN started \ but)

\* `env` answers as the component was started.
LEMMA AnsweredAsStarted ==
  ASSUME NEW comp, NEW x, NEW y, Alike(Reads(comp), x, y), NEW c, NEW given,
         Answered(comp, x, given),
         NEW state, NEW later, later.ports = state.ports, later.generated = state.generated,
         Drawn(comp, c, Based(comp, c, x, state), state.generated), NEW by, NEW again
  PROVE  AnswersAlike(comp, c, x, state, by, y, later, given, again)
<1> DEFINE storage == storagePaths(comp, c, state.bound)
           base == resolveComponentEnv(comp, x, storage)
           held == HeldBy(comp, c, base, state.generated, by)
           kept == HeldBy(comp, c, base, state.generated, again)
           ports == OfKind(comp, {"port"})
           f == Filled(comp, c, base, held, by)
           g == Filled(comp, c, base, kept, again)
           op == OperatorEnv(comp)
           but == ports \cup Contested(comp)
<1>0. PICK E : comp.requires \in Seq(E) /\ comp.supports \in Seq(E) BY DEF Answered
<1>1. resolveComponentEnv(comp, y, storage) = base
  <2>1. Entries(comp) \in Seq(ToSet(Entries(comp)))
    <3>1. Entries(comp) \in Seq(E) BY <1>0 DEF Entries
    <3> QED BY <3>1 DEF ToSet
  <2> QED BY <2>1, ComponentEnvAlike
<1>2. unsuppliedRequiredEnv(comp, DOMAIN f) = op \ DOMAIN f /\ op \cap DOMAIN f \subseteq Contested(comp)
  <2>1. \A e \in ToSet(comp.requires) :
          ~e.host /\ e.type \in Provisioners => e.key \in DOMAIN x.resources
    BY DEF Answered
  <2> HIDE DEF held, op
  <2> QED BY <1>0, <2>1, AskedFor DEF op
<1>3. DOMAIN f = DOMAIN g /\ \A v \in DOMAIN f \ ports : f[v] = g[v]
  <2> HIDE DEF base
  <2>1. Drawn(comp, c, base, state.generated) BY DEF Based, base
  <2>2. \A v \in Draws(comp, base) : held[<<c, v>>] = state.generated[<<c, v>>] BY <2>1, HeldFor
  <2>3. \A v \in Draws(comp, base) : kept[<<c, v>>] = state.generated[<<c, v>>] BY <2>1, HeldFor
  <2> HIDE DEF held, kept
  <2> QED BY <2>2, <2>3 DEF Filled, ++
<1>4. (op \ DOMAIN f) \cap given = op \ DOMAIN f
  BY DEF Answered
<1>5. StartedEnv(comp, c, x, state, by).env = WithPort(Supplied(op) ++ f, c, state.ports)
  BY StartedIs DEF Based
<1>6. AnsweredEnv(comp, c, y, later, storage, given, again).env
        = WithPort(g ++ Supplied((op \ DOMAIN f) \cap given), c, state.ports)
  <2> DEFINE z == resolveComponentEnv(comp, y, storage)
             zheld == HeldBy(comp, c, z, later.generated, again)
             zenv == Filled(comp, c, z, zheld, again)
  <2>1. AnsweredEnv(comp, c, y, later, storage, given, again).env =
          WithPort(zenv ++ Supplied(unsuppliedRequiredEnv(comp, DOMAIN zenv) \cap given), c, later.ports)
    BY AnsweredIs
  <2>2. zenv = g BY <1>1
  <2> HIDE DEF zenv, g, f, storage
  <2> QED BY <2>1, <2>2, <1>2, <1>3
<1> DEFINE s == Supplied(op) ++ f
           a == g ++ Supplied(op \ DOMAIN f)
<1>7. DOMAIN s = DOMAIN a /\ \A v \in DOMAIN s \ but : s[v] = a[v]
  <2>1. /\ DOMAIN Supplied(op) = op /\ DOMAIN Supplied(op \ DOMAIN f) = op \ DOMAIN f
        /\ \A v \in op \ DOMAIN f : Supplied(op)[v] = Supplied(op \ DOMAIN f)[v]
    BY DEF Supplied
  <2>2. \A v \in DOMAIN f \ but : v \notin op /\ v \notin ports BY <1>2
  <2> HIDE DEF f, g, ports, op, but
  <2> QED BY <1>3, <2>1, <2>2 DEF ++
<1> HIDE DEF s, a
<1>8. DOMAIN WithPort(s, c, state.ports) = DOMAIN WithPort(a, c, state.ports)
      /\ \A v \in DOMAIN WithPort(s, c, state.ports) \ but :
           WithPort(s, c, state.ports)[v] = WithPort(a, c, state.ports)[v]
  <2> HIDE DEF but
  <2>1. CASE c \in DOMAIN state.ports
    <3> DEFINE p == Only("PORT", <<"port", state.ports[c]>>)
    <3>1. WithPort(s, c, state.ports) = s ++ p /\ WithPort(a, c, state.ports) = a ++ p
      BY <2>1 DEF WithPort
    <3> HIDE DEF p
    <3> QED BY <1>7, <3>1 DEF ++
  <2>2. CASE c \notin DOMAIN state.ports BY <1>7, <2>2 DEF WithPort
  <2> QED BY <2>1, <2>2
<1> DEFINE ws == WithPort(s, c, state.ports)
           wa == WithPort(a, c, state.ports)
<1>9. Restrict(wa, DOMAIN wa \ but) = Restrict(ws, DOMAIN ws \ but)
  <2> HIDE DEF but, ws, wa
  <2>1. DOMAIN ws = DOMAIN wa /\ \A v \in DOMAIN ws \ but : ws[v] = wa[v] BY <1>8 DEF ws, wa
  <2> QED BY <2>1 DEF Restrict
<1>10. StartedEnv(comp, c, x, state, by).env = ws BY <1>5 DEF s
<1>11. AnsweredEnv(comp, c, y, later, storage, given, again).env = wa BY <1>4, <1>6 DEF a
<1> HIDE DEF ws, wa
<1> QED BY <1>9, <1>10, <1>11 DEF AnswersAlike

\* The context depends on the resources, and on the ports, the secrets and the
\* publication URL of the state alone.
LEMMA ContextAlike ==
  ASSUME NEW launch, NEW keys, NEW R, NEW S, Matching(keys, R, S), NEW primary, NEW state, NEW later,
         later.appUrl = state.appUrl, later.ports = state.ports, later.secrets = state.secrets
  PROVE  Alike(keys, resolverContextFor(launch, R, state, primary),
                     resolverContextFor(launch, S, later, primary))
<1> DEFINE wired(M) == wireHttpsOrigins(launch, M, state.appUrl)
           app == computeAppProperties(launch, state.ports, state.appUrl, primary)
           x == buildResolverContext(launch, wired(R), state, app)
           y == buildResolverContext(launch, wired(S), later, app)
<1>1. resolverContextFor(launch, R, state, primary) = x
      /\ resolverContextFor(launch, S, later, primary) = y
  BY DEF resolverContextFor
<1>2. Matching(keys, wired(R), wired(S)) BY DEF Matching, wireHttpsOrigins, ++
<1> HIDE DEF wired, app
<1>3. /\ ContextShape(x) /\ ContextShape(y)
      /\ x.resources = wired(R) /\ y.resources = wired(S)
      /\ x.resource = y.resource /\ x.storage = y.storage /\ x.components = y.components
      /\ x.secrets = y.secrets /\ x.app = y.app /\ x.appEndpoints = y.appEndpoints
      /\ x.uses = y.uses
  BY DEF buildResolverContext, ContextShape
<1> HIDE DEF x, y
<1> QED BY <1>1, <1>2, <1>3 DEF Alike

\* MariaDB is recorded as MySQL, and covers what it covered.
LEMMA ServerCovers ==
  ASSUME NEW type, NEW key, NEW uses, NEW base, NEW indexes
  PROVE  registerResource(Server(type), key, uses, base, indexes)
           = registerResource(type, key, uses, base, indexes)
<1>1. Coverage(Server(type)) = Coverage(type) BY DEF Coverage, Server, SqlTypes
<1>2. \A u : coverageOf(Server(type), u) <=> coverageOf(type, u) BY <1>1 DEF coverageOf
<1>3. \A us : coveredUses(Server(type), us) = coveredUses(type, us) BY <1>2 DEF coveredUses
<1> QED BY <1>3 DEF registerResource

\* What the components that are left cannot do without.
Wanting(launch) ==
  UNION {{e \in ToSet(launch.comp[c].requires) : ~e.host /\ e.type \in Provisioners} :
           c \in Names(launch)}

LEMMA WantingProvisioned ==
  ASSUME NEW n \in DOMAIN Launches, NEW order \in Seq(Names(Launches[n])), NEW optional,
         NEW e \in Wanting([Launches[n] EXCEPT !.order = order])
  PROVE  e \in ToSet(Provisioned([Launches[n] EXCEPT !.order = order], optional))
<1> DEFINE launch == [Launches[n] EXCEPT !.order = order]
           entries(c) == launch.comp[c].requires \o
                           (IF optional THEN launch.comp[c].supports ELSE <<>>)
           seqs == [i \in DOMAIN launch.order |-> entries(launch.order[i])]
           all == FlattenSeq(seqs)
           wanted == {f \in ToSet(all) : ~f.host /\ f.type # HttpsOrigin}
<1>1. launch.order = order /\ launch.comp = Launches[n].comp BY LaunchesAssumption
<1>2. Provisioned(launch, optional) = Among(all, wanted) BY DEF Provisioned
<1>3. PICK c \in Names(launch) :
         e \in ToSet(launch.comp[c].requires) /\ ~e.host /\ e.type \in Provisioners
  BY DEF Wanting
<1> HIDE DEF launch
<1>4. PICK k \in DOMAIN order : order[k] = c BY <1>1, <1>3 DEF Names, ToSet
<1>5. \A d \in Names(Launches[n]) : entries(d) \in Seq(Declared(n))
  BY <1>1, EntriesDeclared
<1>6. seqs \in Seq(Seq(Declared(n)))
  <2>1. ASSUME NEW i \in DOMAIN order PROVE entries(order[i]) \in Seq(Declared(n))
    <3>1. order[i] \in Names(Launches[n]) OBVIOUS
    <3> HIDE DEF entries
    <3> QED BY <1>5, <3>1
  <2> HIDE DEF entries
  <2> QED BY <1>1, <2>1
<1>7. e \in ToSet(seqs[k])
  <2>1. c \in Names(Launches[n]) BY <1>4
  <2>2. launch.comp[c].requires \in Seq(Declared(n))
        /\ (IF optional THEN launch.comp[c].supports ELSE <<>>) \in Seq(Declared(n))
    BY <1>1, <2>1, EntriesDeclared
  <2>3. e \in ToSet(entries(c)) BY <1>3, <2>2, ToSetConcat
  <2> HIDE DEF entries
  <2> QED BY <1>1, <1>4, <2>3
<1>8. k \in DOMAIN seqs BY <1>1, <1>4
<1>9. e \in ToSet(all)
  <2> HIDE DEF seqs
  <2> QED BY <1>6, <1>7, <1>8, FlattenHas
<1>10. all \in Seq(Declared(n))
  <2> HIDE DEF seqs
  <2> QED BY <1>6, FlattenType
<1>11. e \in wanted
  <2>1. e.type # HttpsOrigin BY <1>3 DEF Provisioners, SqlTypes, HttpsOrigin
  <2> HIDE DEF all
  <2> QED BY <1>3, <1>9, <2>1
<1>12. e \in ToSet(Among(all, wanted))
  <2> HIDE DEF all, wanted
  <2> QED BY <1>9, <1>10, <1>11, AmongHas
<1> QED BY <1>2, <1>12 DEF launch

\* It is under `requires`.
LEMMA WantingRequired ==
  ASSUME NEW n \in DOMAIN Launches, NEW order \in Seq(Names(Launches[n])),
         NEW e \in Wanting([Launches[n] EXCEPT !.order = order])
  PROVE  e.required
<1> DEFINE launch == [Launches[n] EXCEPT !.order = order]
<1>1. launch.order = order /\ launch.comp = Launches[n].comp BY LaunchesAssumption
<1>2. PICK c \in Names(launch) : e \in ToSet(launch.comp[c].requires) /\ ~e.host
  BY DEF Wanting
<1> HIDE DEF launch
<1>3. c \in Names(Launches[n]) BY <1>1, <1>2 DEF Names, ToSet
<1>4. c \in DOMAIN Launches[n].comp BY <1>3, LaunchesAssumption DEF Names, ToSet
<1> QED BY <1>1, <1>2, <1>4, LaunchesAssumption

\* An `up` of the whole Launchfile selected the whole of it.
LEMMA WholeSelected ==
  ASSUME NEW n \in DOMAIN Launches, NEW requested, NEW appUrl, NEW optional,
         Narrowed(Launches[n], requested, appUrl, optional) = Launches[n].order
  PROVE  Among(Launches[n].order, selectionClosure(Launches[n], requested)) = Launches[n].order
<1> DEFINE launch == Launches[n]
           start == selectionClosure(launch, requested)
           left == {c \in start : ~Refused(launch.comp[c], appUrl, optional)}
<1>1. launch.order \in Seq(Names(launch)) BY OrderNames
<1> HIDE DEF launch, left
<1>2. Among(launch.order, left) = launch.order BY DEF Narrowed, launch, left
<1>3. launch.order \in Seq(Names(launch) \cap left) BY <1>1, <1>2, AmongIn
<1>4. Names(launch) \cap left \subseteq start BY DEF left
<1>5. Among(launch.order, start) = launch.order
  <2> HIDE DEF start
  <2> QED BY <1>3, <1>4, AmongAll
<1> QED BY <1>5 DEF launch

-----------------------------------------------------------------------------
(* `env` reports what the running app has. *)

After == {"env", "prepare", "preparing", "release", "start", "started", "failed", "session"}

\* Read off what an `up` holds in memory, u: its Launchfile and what it resolves against,
LaunchOf(u)  == [Launches[u.launch] EXCEPT !.order = u.order]
ContextOf(u) == resolverContextFor(LaunchOf(u), u.map, u.state, u.primary)

\* what it refused to go on without,
Asked(u) ==
  /\ AllSupplied(LaunchOf(u), u.request.env)
  /\ u.order = Launches[u.launch].order => u.primary = declaredPrimary(LaunchOf(u), u.state.appUrl)

\* what it registered, which is what `env` registers off the record,
Mapped(u) ==
  ~u.request.dry =>
    \A k \in DOMAIN u.map :
      /\ k \in DOMAIN u.state.resources
      /\ u.map[k] = registerResource(u.state.resources[k].type, k, declaredUses(LaunchOf(u)),
                                     Properties(u.state.resources[k]), u.state.resources[k].indexes)

\* the required resources it still has to provision, or has provisioned,
Provides(u) ==
  /\ u.envs = <<>>
  /\ \A e \in Wanting(LaunchOf(u)) : e \in ToSet(u.todo) \/ e.key \in DOMAIN u.map \cup u.required

Provided(u) == \A e \in Wanting(LaunchOf(u)) : e.key \in DOMAIN u.map

\* and the variables it gave a component, which it would give it again.
Given(u, c, by) ==
  LET comp == Launches[u.launch].comp[c]
  IN  /\ Drawn(comp, c, Based(comp, c, ContextOf(u), u.state), u.state.generated)
      /\ u.envs[c] = StartedEnv(comp, c, ContextOf(u), u.state, by).env

IEnv ==
  /\ IDeclared
  /\ up.at # "idle" => Asked(up) /\ Mapped(up)
  /\ up.at \in Provisions => Provides(up)
  /\ up.at = "create" =>
       ~up.request.dry /\ up.state.resources[Entry.key].indexes = Indexes(Entry.key)
  /\ up.at \in After => Provided(up) /\ \A c \in DOMAIN up.envs : Given(up, c, By)
  /\ up.at = "env" => ToSet(up.order) \subseteq DOMAIN up.envs \cup ToSet(up.todo)
  /\ up.at \in After \ {"env"} => ToSet(up.order) \subseteq DOMAIN up.envs /\ ~up.request.dry
  /\ up.at = "session" => "up" \in stale \/ disk = up.state

LEMMA LaunchNow ==
  ASSUME IDeclared, up.at # "idle"
  PROVE  /\ Launch = LaunchOf(up) /\ Context = ContextOf(up)
         /\ \A c : Comp(c) = Launches[up.launch].comp[c]
         /\ Launch.order = up.order /\ Launch.comp = Launches[up.launch].comp
         /\ Names(Launch) = ToSet(up.order)
<1>1. up.launch \in DOMAIN Launches BY DEF IDeclared
<1>2. Launch.order = up.order /\ Launch.comp = Launches[up.launch].comp
  BY <1>1, LaunchesAssumption DEF Launch
<1>3. Launch = LaunchOf(up) /\ Context = ContextOf(up) BY DEF Launch, LaunchOf, Context, ContextOf
<1> QED BY <1>2, <1>3 DEF Comp, Names

\* The context is made of no more than this.
LEMMA ContextSame ==
  ASSUME NEW launch, NEW R, NEW primary, NEW state, NEW later,
         later.appUrl = state.appUrl, later.ports = state.ports, later.secrets = state.secrets
  PROVE  resolverContextFor(launch, R, later, primary) = resolverContextFor(launch, R, state, primary)
BY DEF resolverContextFor, buildResolverContext

\* What stays while an `up` has the same before it.
SameRun(u, v) ==
  /\ v.launch = u.launch /\ v.order = u.order /\ v.request = u.request /\ v.primary = u.primary
  /\ v.state.appUrl = u.state.appUrl

SameWired(u, v) ==
  /\ SameRun(u, v) /\ v.map = u.map /\ v.state.resources = u.state.resources
  /\ v.state.secrets = u.state.secrets /\ v.state.ports = u.state.ports
  /\ v.state.bound = u.state.bound

LEMMA AskedStays == ASSUME NEW u, NEW v, SameRun(u, v), Asked(u) PROVE Asked(v)
BY DEF SameRun, Asked, LaunchOf

LEMMA WiredStays ==
  ASSUME NEW u, NEW v, SameWired(u, v)
  PROVE  /\ Asked(u) => Asked(v)
         /\ Mapped(u) => Mapped(v)
         /\ Provided(u) => Provided(v)
         /\ ContextOf(v) = ContextOf(u)
<1>1. LaunchOf(v) = LaunchOf(u) BY DEF SameWired, SameRun, LaunchOf
<1>2. Mapped(u) => Mapped(v) BY <1>1 DEF SameWired, SameRun, Mapped
<1>3. Provided(u) => Provided(v) BY <1>1 DEF SameWired, Provided
<1>4. ContextOf(v) = ContextOf(u) BY <1>1, ContextSame DEF SameWired, SameRun, ContextOf
<1> QED BY <1>2, <1>3, <1>4, AskedStays DEF SameWired

LEMMA GivenStays ==
  ASSUME NEW u, NEW v, SameWired(u, v), KeptIn(u.state.generated, v.state.generated),
         NEW c, v.envs[c] = u.envs[c], NEW by, Given(u, c, by)
  PROVE  Given(v, c, by)
<1>1. ContextOf(v) = ContextOf(u) BY WiredStays
<1> DEFINE comp == Launches[u.launch].comp[c]
<1>2. Launches[v.launch].comp[c] = comp BY DEF SameWired, SameRun
<1>3. /\ Drawn(comp, c, Based(comp, c, ContextOf(u), u.state), u.state.generated)
      /\ u.envs[c] = StartedEnv(comp, c, ContextOf(u), u.state, by).env
  BY DEF Given
<1>4. v.state.bound = u.state.bound /\ v.state.ports = u.state.ports BY DEF SameWired
<1> HIDE DEF comp
<1>5. /\ Drawn(comp, c, Based(comp, c, ContextOf(u), v.state), v.state.generated)
      /\ StartedEnv(comp, c, ContextOf(u), v.state, by).env
           = StartedEnv(comp, c, ContextOf(u), u.state, by).env
  BY <1>3, <1>4, StartedStays
<1> QED BY <1>1, <1>2, <1>3, <1>5 DEF Given

LEMMA BeginsAsked ==
  ASSUME Shapes, Begins PROVE Asked(up') /\ Mapped(up') /\ Provides(up')
<1>0. PICK name \in DOMAIN Launches : \E request : Up(name, request) BY DEF Begins
<1>1. PICK request : Up(name, request) BY <1>0
<1> DEFINE launch == Launches[name]
           s0 == IF disk = Absent THEN initState ELSE loadState
           appUrl == IF request.appUrl # "none" THEN request.appUrl ELSE s0.appUrl
           start == selectionClosure(launch, request.components)
           narrowed == Narrowed(launch, request.components, appUrl, request.optional)
           left == [launch EXCEPT !.order = narrowed]
           whole == [launch EXCEPT !.order = Among(@, start)]
           secrets == generateSecrets(launch.secrets, s0.secrets, <<"up", round + 1>>)
           state == [s0 EXCEPT !.appUrl = appUrl, !.secrets = secrets]
<1>2. /\ AllSupplied(left, request.env)
      /\ up'.launch = name /\ up'.order = left.order /\ up'.request = request
      /\ up'.state = state /\ up'.map = <<>> /\ up'.envs = <<>>
      /\ up'.todo = Provisioned(left, request.optional)
      /\ up'.primary = declaredPrimary(whole, appUrl)
  BY <1>1 DEF Up
<1>3. StateShape(s0) BY LoadShape DEF Shapes, StateShape, initState
<1>4. state.appUrl = appUrl
  <2> HIDE DEF s0, appUrl, secrets
  <2> QED BY <1>3 DEF StateShape
<1>5. launch = [order |-> launch.order, secrets |-> launch.secrets, comp |-> launch.comp]
  BY LaunchesAssumption
<1> HIDE DEF launch, s0, appUrl, secrets, state
<1>6. left.order = narrowed
  <2> HIDE DEF narrowed
  <2> QED BY <1>5
<1>7. LaunchOf(up') = left
  <2> HIDE DEF narrowed
  <2> QED BY <1>2, <1>6 DEF LaunchOf, launch
<1>8. ASSUME narrowed = launch.order PROVE whole = left
  <2>1. Among(launch.order, start) = launch.order BY <1>8, WholeSelected DEF launch
  <2> HIDE DEF narrowed, start
  <2> QED BY <1>8, <2>1
<1>9. Asked(up')
  <2> HIDE DEF left, whole, narrowed
  <2>1. up'.order = narrowed BY <1>2, <1>6
  <2> QED BY <1>2, <1>4, <1>7, <1>8, <2>1 DEF Asked, launch
<1>10. \A e \in Wanting(left) : e \in ToSet(up'.todo)
  <2>1. narrowed \in Seq(Names(launch))
    <3> HIDE DEF narrowed, left
    <3>1. left.order \in Seq(Names(launch)) BY <1>2 DEF Begins, launch
    <3> QED BY <1>6, <3>1
  <2> HIDE DEF narrowed
  <2> QED BY <1>2, <2>1, WantingProvisioned DEF launch
<1> HIDE DEF left, whole, narrowed
<1> QED BY <1>2, <1>7, <1>9, <1>10 DEF Mapped, Provides

\* The next entry is dealt with: it is to be had, or it is not needed.
LEMMA ProvidesOn ==
  ASSUME IDeclared, up.at \in Provisions, up.todo # <<>>, Provides(up),
         up'.launch = up.launch, up'.order = up.order, up'.todo = Tail(up.todo),
         up'.envs = up.envs, DOMAIN up.map \subseteq DOMAIN up'.map, up.required \subseteq up'.required,
         Entry.required => Entry.key \in DOMAIN up'.map \cup up'.required
  PROVE  Provides(up')
<1>1. LaunchOf(up') = LaunchOf(up) BY DEF LaunchOf
<1>2. up.at # "idle" /\ up.todo \in Seq(Provisionable(up.launch)) BY DEF IDeclared, Provisions
<1>3. ToSet(up.todo) \subseteq {Entry} \cup ToSet(up'.todo) BY <1>2, TailHas DEF Entry
<1>4. ASSUME NEW e \in Wanting(LaunchOf(up)) PROVE e.required
  <2>1. up.launch \in DOMAIN Launches /\ up.order \in Seq(Names(Launches[up.launch]))
    BY <1>2 DEF IDeclared
  <2> QED BY <2>1, WantingRequired DEF LaunchOf
<1> QED BY <1>1, <1>3, <1>4 DEF Provides

LEMMA SkippingProvides ==
  ASSUME IDeclared, up.at \in Provisions => Provides(up),
         \/ SkipEntry \/ RefuseSqlite \/ SkipOptional
         \/ /\ up.at = "create" /\ ~Entry.required
            /\ up' = [up EXCEPT !.at = "entry", !.todo = Tail(@)]
  PROVE  up'.at = "entry" /\ up'.map = up.map /\ Provides(up')
<1>0. Shapes BY DEF IDeclared
<1>1. UpShape(up) /\ up.at \in Provisions /\ up.todo # <<>>
  BY <1>0, AnyUp DEF IDeclared, SkipEntry, RefuseSqlite, SkipOptional, Provisioning, AtEntry, Provisions
<1>2. PICK r, q : /\ up' = [up EXCEPT !.at = "entry", !.todo = Tail(@), !.refused = q, !.required = r]
                  /\ up.required \subseteq r
                  /\ Entry.required => Entry.key \in DOMAIN up.map \cup r
  <2>1. CASE SkipEntry
    <3> DEFINE r == IF Entry.required /\ Entry.key \in up.refused
                    THEN up.required \cup {Entry.key} ELSE up.required
    <3>1. up' = [up EXCEPT !.todo = Tail(@), !.required = r] BY <2>1 DEF SkipEntry
    <3>2. Settled(Entry) /\ up.at = "entry" BY <2>1 DEF SkipEntry, AtEntry
    <3>3. Entry.required => Entry.key \in DOMAIN up.map \cup r BY <3>2 DEF Settled, Unsatisfied
    <3>4. up.required \subseteq r OBVIOUS
    <3> HIDE DEF r
    <3>5. up' = [up EXCEPT !.at = "entry", !.todo = Tail(@), !.refused = up.refused, !.required = r]
      BY <1>1, <3>1, <3>2 DEF UpShape
    <3> QED BY <3>3, <3>4, <3>5
  <2>2. CASE RefuseSqlite
    <3> DEFINE r == IF Entry.required THEN up.required \cup {Entry.key} ELSE up.required
               q == up.refused \cup {Entry.key}
    <3>1. up' = [up EXCEPT !.todo = Tail(@), !.refused = q, !.required = r] /\ up.at = "entry"
      BY <2>2 DEF RefuseSqlite, Provisioning, AtEntry
    <3>2. up.required \subseteq r /\ (Entry.required => Entry.key \in r) OBVIOUS
    <3> HIDE DEF r, q
    <3>3. up' = [up EXCEPT !.at = "entry", !.todo = Tail(@), !.refused = q, !.required = r]
      BY <1>1, <3>1 DEF UpShape
    <3> QED BY <3>2, <3>3
  <2>3. CASE SkipOptional
    <3>1. up' = [up EXCEPT !.todo = Tail(@)] /\ up.at = "entry" /\ ~Entry.required
      BY <2>3 DEF SkipOptional, Provisioning, AtEntry
    <3>2. up' = [up EXCEPT !.at = "entry", !.todo = Tail(@), !.refused = up.refused,
                           !.required = up.required]
      BY <1>1, <3>1 DEF UpShape
    <3> QED BY <3>1, <3>2
  <2>4. CASE ~Entry.required /\ up' = [up EXCEPT !.at = "entry", !.todo = Tail(@)]
    <3>1. up' = [up EXCEPT !.at = "entry", !.todo = Tail(@), !.refused = up.refused,
                           !.required = up.required]
      BY <1>1, <2>4 DEF UpShape
    <3> QED BY <2>4, <3>1
  <2> QED BY <2>1, <2>2, <2>3, <2>4
<1>3. /\ up'.at = "entry" /\ up'.launch = up.launch /\ up'.order = up.order
      /\ up'.todo = Tail(up.todo) /\ up'.envs = up.envs /\ up'.map = up.map /\ up'.required = r
  BY <1>1, <1>2 DEF UpShape
<1> QED BY <1>1, <1>2, <1>3, ProvidesOn

\* What is registered is what is on record.
LEMMA RegisteredMapped ==
  ASSUME IDeclared, up.at \in Provisions, up.todo # <<>>, Mapped(up), Provides(up),
         NEW record, NEW base, Registered(record, base),
         up.request.dry \/ /\ record # NoRecord /\ base = Properties(record)
                           /\ record.type \in {Entry.type, Server(Entry.type)}
                           /\ record.indexes = Indexes(Entry.key)
  PROVE  up'.at = "entry" /\ Mapped(up') /\ Provides(up')
<1>0. Shapes BY DEF IDeclared
<1> DEFINE key == Entry.key
           uses == declaredUses(Launch)
           value == registerResource(Entry.type, key, uses, base, Indexes(key))
<1>1. /\ up'.at = "entry" /\ up'.launch = up.launch /\ up'.order = up.order
      /\ up'.request = up.request /\ up'.todo = Tail(up.todo) /\ up'.envs = up.envs
      /\ up'.required = up.required /\ up'.map = Only(key, value) ++ up.map
      /\ up'.state.resources = IF record = NoRecord THEN up.state.resources
                               ELSE Only(key, record) ++ up.state.resources
  BY <1>0, Registering DEF Provisions
<1>2. LaunchOf(up') = LaunchOf(up) /\ LaunchOf(up) = Launch BY <1>1 DEF LaunchOf, Launch
<1>3. DOMAIN up'.map = {key} \cup DOMAIN up.map /\ up'.map[key] = value
      /\ \A k \in DOMAIN up.map \ {key} : up'.map[k] = up.map[k]
  <2> HIDE DEF key, value
  <2> QED BY <1>1 DEF Only, ++
<1>4. Provides(up') BY <1>1, <1>3, ProvidesOn
<1>5. ASSUME ~up.request.dry
      PROVE  \A k \in DOMAIN up'.map :
               LET new == up'.state.resources
               IN  /\ k \in DOMAIN new
                   /\ up'.map[k] = registerResource(new[k].type, k, uses, Properties(new[k]), new[k].indexes)
  <2> DEFINE old == up.state.resources
             new == up'.state.resources
  <2>1. new = Only(key, record) ++ old BY <1>1, <1>5
  <2>2. DOMAIN new = {key} \cup DOMAIN old /\ new[key] = record
        /\ \A k \in DOMAIN old \ {key} : new[k] = old[k]
    <3> HIDE DEF new, old, key
    <3> QED BY <2>1 DEF Only, ++
  <2>3. value = registerResource(record.type, key, uses, Properties(record), record.indexes)
    <3> HIDE DEF uses
    <3>1. registerResource(record.type, key, uses, base, Indexes(key)) = value
      BY <1>5, ServerCovers
    <3> HIDE DEF value
    <3> QED BY <1>5, <3>1
  <2>4. \A k \in DOMAIN up.map :
          k \in DOMAIN old
          /\ up.map[k] = registerResource(old[k].type, k, uses, Properties(old[k]), old[k].indexes)
    BY <1>2, <1>5 DEF Mapped
  <2> HIDE DEF uses, value, key
  <2> QED BY <1>3, <2>2, <2>3, <2>4
<1>6. Mapped(up')
  <2>1. up'.request.dry = up.request.dry BY <1>1
  <2> QED BY <1>2, <1>5, <2>1 DEF Mapped
<1> QED BY <1>1, <1>4, <1>6

LEMMA PersistMapped ==
  ASSUME IDeclared, Mapped(up), Provides(up), PersistRecord
  PROVE  /\ up'.at = "create" /\ Mapped(up') /\ Provides(up') /\ ~up'.request.dry
         /\ (up.state.resources[Entry.key].indexes = Indexes(Entry.key))'
<1>0. Shapes BY DEF IDeclared
<1>1. /\ UpShape(up) /\ up.at = "entry" /\ up.todo # <<>> /\ ~Settled(Entry)
      /\ ~up.request.dry /\ Entry.type \in SqlTypes
  BY <1>0, AnyUp DEF PersistRecord, Provisioning, AtEntry
<1> DEFINE new == Only(Entry.key, Record) ++ up.state.resources
<1>2. up' = [up EXCEPT !.at = "create", !.state.resources = new] BY DEF PersistRecord
<1> HIDE DEF new
<1>3. /\ up'.at = "create" /\ up'.launch = up.launch /\ up'.order = up.order
      /\ up'.request = up.request /\ up'.todo = up.todo /\ up'.map = up.map
      /\ up'.envs = up.envs /\ up'.required = up.required /\ up'.state.resources = new
  BY <1>1, <1>2 DEF UpShape, StateShape
<1>4. LaunchOf(up') = LaunchOf(up) /\ Launch' = Launch /\ Entry' = Entry
  BY <1>3 DEF LaunchOf, Launch, Entry
<1>5. /\ \A k \in DOMAIN up.state.resources \ {Entry.key} : new[k] = up.state.resources[k]
      /\ DOMAIN up.state.resources \subseteq DOMAIN new /\ new[Entry.key] = Record
  BY DEF new, Only, ++
<1>6. Entry.key \notin DOMAIN up.map BY <1>1 DEF Settled
<1>7. Mapped(up')
  <2> DEFINE old == up.state.resources
             uses == declaredUses(LaunchOf(up))
  <2>1. ASSUME NEW k \in DOMAIN up.map
        PROVE  k \in DOMAIN old /\ up.map[k] = registerResource(old[k].type, k, uses, Properties(old[k]), old[k].indexes)
    BY <1>1 DEF Mapped
  <2>2. ASSUME NEW k \in DOMAIN up.map
        PROVE  k \in DOMAIN new /\ up.map[k] = registerResource(new[k].type, k, uses, Properties(new[k]), new[k].indexes)
    <3>1. k \in DOMAIN new /\ new[k] = old[k] BY <1>5, <1>6, <2>1
    <3> HIDE DEF uses
    <3> QED BY <2>1, <3>1
  <2> QED BY <1>3, <1>4, <2>2 DEF Mapped
<1>8. Provides(up') BY <1>3, <1>4 DEF Provides
<1>9. Record.indexes = Indexes(Entry.key) BY <1>1 DEF Record, ResourceState
<1>10. (Indexes(Entry.key))' = Indexes(Entry.key) BY <1>4 DEF Indexes
<1> QED BY <1>1, <1>3, <1>4, <1>5, <1>7, <1>8, <1>9, <1>10

LEMMA WireGives ==
  ASSUME IDeclared, Asked(up), Mapped(up), Provides(up), Wire
  PROVE  /\ up'.at = "env" /\ Asked(up') /\ Mapped(up') /\ Provided(up')
         /\ up'.envs = <<>> /\ up'.todo = up'.order
<1>0. Shapes BY DEF IDeclared
<1>1. UpShape(up) /\ up.at = "entry" /\ up.todo = <<>> /\ up.required = {}
  BY <1>0, AnyUp DEF Wire
<1>2. PICK a, b, d : up' = [up EXCEPT !.at = "env", !.todo = up.order, !.state.ports = a,
                              !.state.primaryEndpoint = b, !.state.bound = d]
  BY DEF Wire
<1>3. /\ SameRun(up, up') /\ up'.at = "env" /\ up'.todo = up.order /\ up'.map = up.map
      /\ up'.envs = up.envs /\ up'.state.resources = up.state.resources
  BY <1>1, <1>2 DEF UpShape, StateShape, SameRun
<1>4. LaunchOf(up') = LaunchOf(up) /\ up'.order = up.order BY <1>3 DEF SameRun, LaunchOf
<1>5. Asked(up') BY <1>3, AskedStays
<1>6. Mapped(up') BY <1>3, <1>4 DEF Mapped, SameRun
<1>7. ToSet(up.todo) = {} BY <1>1 DEF ToSet
<1>8. Provided(up') BY <1>1, <1>3, <1>4, <1>7 DEF Provides, Provided
<1> QED BY <1>3, <1>4, <1>5, <1>6, <1>8 DEF Provides

LEMMA WriteGives ==
  ASSUME IDeclared, Asked(up), Mapped(up), Provided(up), \A d \in DOMAIN up.envs : Given(up, d, By),
         NEW c, WriteEnv(c)
  PROVE  /\ up'.at = "env" /\ Asked(up') /\ Mapped(up') /\ Provided(up')
         /\ \A d \in DOMAIN up'.envs : Given(up', d, By)
<1>0. Shapes BY DEF IDeclared
<1> DEFINE started == StartedEnv(Comp(c), c, Context, up.state, By)
           comp == Launches[up.launch].comp[c]
<1>1. /\ up.at = "env" /\ up'.at = "env" /\ up'.state.generated = started.generated
      /\ up'.envs = Only(c, started.env) ++ up.envs
  BY <1>0, WriteEnvFields
<1>2. SameWired(up, up')
  <2>1. UpShape(up) BY <1>0, <1>1, AnyUp
  <2>2. PICK g, e : up' = [up EXCEPT !.todo = Tail(@), !.state.generated = g, !.envs = e]
    BY DEF WriteEnv
  <2> QED BY <2>1, <2>2 DEF UpShape, StateShape, SameWired, SameRun
<1>3. started = StartedEnv(comp, c, ContextOf(up), up.state, By)
  BY <1>1, LaunchNow
<1>4. Launches[up'.launch].comp[c] = comp BY <1>2 DEF SameWired, SameRun
<1>5. ContextOf(up') = ContextOf(up) BY <1>2, WiredStays
<1> HIDE DEF started
<1>6. DOMAIN up'.envs = {c} \cup DOMAIN up.envs /\ up'.envs[c] = started.env
      /\ \A d \in DOMAIN up.envs \ {c} : up'.envs[d] = up.envs[d]
  BY <1>1 DEF Only, ++
<1>7. Given(up', c, By)
  <2> HIDE DEF comp
  <2>1. up'.state.bound = up.state.bound /\ up'.state.ports = up.state.ports
        /\ up'.state.generated = StartedEnv(comp, c, ContextOf(up), up.state, By).generated
    BY <1>1, <1>2, <1>3 DEF SameWired
  <2>2. /\ Drawn(comp, c, Based(comp, c, ContextOf(up), up'.state), up'.state.generated)
        /\ StartedEnv(comp, c, ContextOf(up), up'.state, By).env
             = StartedEnv(comp, c, ContextOf(up), up.state, By).env
    BY <2>1, StartedAgain
  <2> QED BY <1>3, <1>4, <1>5, <1>6, <2>2 DEF Given
<1>8. KeptIn(up.state.generated, up'.state.generated)
  <2>1. started.generated = HeldBy(comp, c, Based(comp, c, ContextOf(up), up.state), up.state.generated, By)
    BY <1>3, StartedIs
  <2> QED BY <1>1, <2>1, HeldFor
<1>9. ASSUME NEW d \in DOMAIN up.envs \ {c} PROVE Given(up', d, By)
  BY <1>2, <1>6, <1>8, GivenStays
<1> QED BY <1>1, <1>2, <1>6, <1>7, <1>9, WiredStays

\* All that comes after leaves it as it is.
LEMMA StaysGiven ==
  ASSUME Asked(up), Mapped(up), Provided(up), \A d \in DOMAIN up.envs : Given(up, d, By),
         SameWired(up, up'), up'.state.generated = up.state.generated, up'.envs = up.envs
  PROVE  /\ Asked(up') /\ Mapped(up') /\ Provided(up')
         /\ \A d \in DOMAIN up'.envs : Given(up', d, By)
<1>1. KeptIn(up.state.generated, up'.state.generated) BY DEF KeptIn
<1>2. ASSUME NEW d \in DOMAIN up.envs PROVE Given(up', d, By) BY <1>1, GivenStays
<1> QED BY <1>2, WiredStays

LEMMA LabourEnv ==
  ASSUME IEnv, Labour, Continues
  PROVE  /\ Asked(up') /\ Mapped(up')
         /\ up'.at \in Provisions => Provides(up')
         /\ up'.at = "create" =>
              ~up'.request.dry /\ (up.state.resources[Entry.key].indexes = Indexes(Entry.key))'
         /\ up'.at \in After =>
              /\ Provided(up') /\ \A c \in DOMAIN up'.envs : Given(up', c, By)
              /\ up'.at # "env" => ~up'.request.dry
<1>0. IDeclared /\ Shapes BY DEF IEnv, IDeclared
<1>1. up.at \in Busy /\ up.at # "idle" BY <1>0, Labouring DEF Labours, Busy
<1>2. Asked(up) /\ Mapped(up) /\ (up.at \in Provisions => Provides(up)) BY <1>1 DEF IEnv
<1>3. /\ up'.launch = up.launch /\ up'.order = up.order /\ up'.request = up.request
      /\ up'.primary = up.primary /\ up'.state.appUrl = up.state.appUrl
      /\ up'.state.secrets = up.state.secrets
  BY DEF Continues
<1>4. SameRun(up, up') /\ LaunchOf(up') = LaunchOf(up) BY <1>3 DEF SameRun, LaunchOf
<1>5. Asked(up') BY <1>2, <1>4, AskedStays
<1>6. CASE \/ SkipEntry \/ RefuseSqlite \/ SkipOptional
           \/ /\ up.at = "create" /\ ~Entry.required
              /\ up' = [up EXCEPT !.at = "entry", !.todo = Tail(@)]
  <2>1. up'.at = "entry" /\ up'.map = up.map /\ Provides(up') BY <1>0, <1>2, <1>6, SkippingProvides
  <2>2. up'.state.resources = up.state.resources
    <3>1. UpShape(up) BY <1>0, <1>1, BusyUp
    <3>2. PICK a, r, q : \/ up' = [up EXCEPT !.todo = Tail(@), !.refused = q, !.required = r]
                         \/ up' = [up EXCEPT !.todo = Tail(@), !.required = r]
                         \/ up' = [up EXCEPT !.todo = Tail(@)]
                         \/ up' = [up EXCEPT !.at = a, !.todo = Tail(@)]
      BY <1>6 DEF SkipEntry, RefuseSqlite, SkipOptional
    <3> QED BY <3>1, <3>2 DEF UpShape
  <2>3. Mapped(up') BY <1>2, <1>3, <1>4, <2>1, <2>2 DEF Mapped
  <2> QED BY <1>5, <2>1, <2>3 DEF After
<1>7. ASSUME NEW record, NEW base, Registered(record, base), up.at \in Provisions, up.todo # <<>>,
             up.request.dry \/ /\ record # NoRecord /\ base = Properties(record)
                               /\ record.type \in {Entry.type, Server(Entry.type)}
                               /\ record.indexes = Indexes(Entry.key)
      PROVE  up'.at = "entry" /\ Mapped(up') /\ Provides(up')
  BY <1>0, <1>2, <1>7, RegisteredMapped
<1>8. CASE ProvisionDry
  <2>1. /\ Registered(NoRecord, Placeholder) /\ up.at = "entry" /\ up.todo # <<>> /\ up.request.dry
    BY <1>8 DEF ProvisionDry, AtEntry
  <2> QED BY <1>5, <1>7, <2>1 DEF Provisions, After
<1>9. CASE ProvisionRedis \/ ProvisionSqlite
  <2>1. /\ Registered(Record, Properties(Record)) /\ up.at = "entry" /\ up.todo # <<>>
        /\ Entry.type \in {"redis", "sqlite"}
    BY <1>9 DEF ProvisionRedis, ProvisionSqlite, Provisioning, AtEntry
  <2>2. Record # NoRecord /\ Record.type = Entry.type /\ Record.indexes = Indexes(Entry.key)
    BY <2>1 DEF Record, ResourceState, NoRecord, SqlTypes
  <2> QED BY <1>5, <1>7, <2>1, <2>2 DEF Provisions, After
<1>10. CASE CreateNothing \/ \E made : Create(made)
  <2> DEFINE record == up.state.resources[Entry.key]
  <2>1. /\ up.at = "create"
        /\ \/ Registered(record, Properties(record))
           \/ up' = NoUp
           \/ ~Entry.required /\ up' = [up EXCEPT !.at = "entry", !.todo = Tail(@)]
    BY <1>10 DEF CreateNothing, Create, End
  <2>2. up' # NoUp BY DEF Continues, NoUp, Busy
  <2>3. CASE Registered(record, Properties(record))
    <3>1. /\ up.todo # <<>> /\ record.type = Server(Entry.type) /\ Entry.type \in SqlTypes
          /\ record.indexes = Indexes(Entry.key)
      BY <1>0, <2>1 DEF IDeclared, IEnv
    <3>2. record # NoRecord BY <3>1 DEF NoRecord, Server, SqlTypes
    <3> HIDE DEF record
    <3> QED BY <1>5, <1>7, <2>1, <2>3, <3>1, <3>2 DEF Provisions, After
  <2> QED BY <1>6, <2>1, <2>2, <2>3
<1>11. CASE PersistRecord
  <2>1. up.at = "entry" BY <1>11 DEF PersistRecord, Provisioning, AtEntry
  <2> QED BY <1>0, <1>2, <1>5, <1>11, <2>1, PersistMapped DEF Provisions, After
<1>12. CASE Wire
  <2>1. up.at = "entry" BY <1>12 DEF Wire
  <2>2. up'.at = "env" /\ Mapped(up') /\ Provided(up') /\ up'.envs = <<>>
    BY <1>0, <1>2, <1>12, <2>1, WireGives DEF Provisions
  <2> QED BY <1>5, <2>2 DEF Provisions
<1>13. ASSUME NEW c, WriteEnv(c) PROVE
         /\ up'.at = "env" /\ Mapped(up') /\ Provided(up')
         /\ \A d \in DOMAIN up'.envs : Given(up', d, By)
  <2>1. up.at \in After BY <1>13 DEF WriteEnv, After
  <2>2. Provided(up) /\ \A d \in DOMAIN up.envs : Given(up, d, By) BY <2>1 DEF IEnv
  <2> QED BY <1>0, <1>2, <1>13, <2>2, WriteGives
<1>14. CASE SaveUp \/ SkipPrepare \/ BeginPrepare \/ EndPrepare \/ RunReleases
  <2>1. up.at \in After /\ up.at \notin Provisions /\ up'.at \in After \ {"env"}
        /\ up'.at \notin Provisions
    <3>1. up.at \in {"env", "prepare", "preparing", "release"}
      BY <1>14 DEF SaveUp, SkipPrepare, AtPrepare, BeginPrepare, EndPrepare, RunReleases
    <3>2. UpShape(up) /\ up' # NoUp BY <1>0, <1>1, BusyUp DEF Continues, NoUp, Busy
    <3>3. up'.at \in {"prepare", "preparing", "release", "start"}
      <4>1. CASE SaveUp
        <5>1. up' = [up EXCEPT !.at = IF up.request.noBuild THEN "release" ELSE "prepare",
                               !.todo = up.order]
          BY <3>2, <4>1 DEF SaveUp
        <5> QED BY <3>2, <5>1 DEF UpShape
      <4>2. CASE SkipPrepare BY <3>2, <4>2 DEF SkipPrepare, AtPrepare, UpShape
      <4>3. CASE BeginPrepare BY <3>2, <4>3 DEF BeginPrepare, UpShape
      <4>4. CASE EndPrepare BY <3>2, <4>4 DEF EndPrepare, UpShape
      <4>5. CASE RunReleases BY <3>2, <4>5 DEF RunReleases, UpShape
      <4> QED BY <1>14, <4>1, <4>2, <4>3, <4>4, <4>5
    <3> QED BY <3>1, <3>3 DEF After, Provisions
  <2>2. ~Wire /\ \A c : ~WriteEnv(c)
    BY <1>13, <2>1 DEF Wire, Provisions
  <2>3. ~Records BY <2>1 DEF Records, Provisions
  <2>4. SameWired(up, up') /\ up'.state.generated = up.state.generated /\ up'.envs = up.envs
    BY <1>4, <2>1, <2>2, <2>3 DEF Continues, SameWired, Provisions
  <2>5. Provided(up) /\ \A d \in DOMAIN up.envs : Given(up, d, By) BY <2>1 DEF IEnv
  <2>6. ~up.request.dry
    <3>1. CASE up.at # "env" BY <2>1, <3>1 DEF IEnv
    <3>2. CASE up.at = "env"
      <4>1. SaveUp
        BY <1>14, <3>2 DEF SkipPrepare, AtPrepare, BeginPrepare, EndPrepare, RunReleases
      <4> QED BY <4>1 DEF SaveUp, Continues, NoUp, Busy
    <3> QED BY <3>1, <3>2
  <2>7. /\ Asked(up') /\ Mapped(up') /\ Provided(up')
        /\ \A d \in DOMAIN up'.envs : Given(up', d, By)
    BY <1>2, <2>4, <2>5, StaysGiven
  <2>8. up'.at # "create" BY <2>1 DEF Provisions
  <2> QED BY <1>3, <2>1, <2>6, <2>7, <2>8
<1> QED
  BY <1>5, <1>6, <1>8, <1>9, <1>10, <1>11, <1>12, <1>13, <1>14 DEF Labour, Provisions

\* All of this stays so, whatever comes beside the `up` and however it ends.
LEMMA EnvKept == ASSUME IEnv, [Next]_vars PROVE IEnv'
<1>1. IDeclared /\ IDeclared' /\ Shapes BY DeclaredKept DEF IEnv, IDeclared
<1>2. CASE Begins
  <2>1. Asked(up') /\ Mapped(up') /\ Provides(up') /\ up'.at = "entry"
    BY <1>1, <1>2, BeginsAsked DEF Begins
  <2> QED BY <1>1, <2>1 DEF IEnv, After
<1>3. CASE Labour
  <2>1. Labours BY <1>1, <1>3, Labouring
  <2>2. CASE up' = NoUp
    BY <1>1, <2>2 DEF IEnv, NoUp, Provisions, After
  <2>3. CASE Continues
    <3>1. round' = round /\ up'.at \in Busy BY <2>1, <2>3 DEF Labours, Continues
    <3>2. By' = By BY <3>1 DEF By
    <3>3. up.at \in Wired => ToSet(up.order) \subseteq DOMAIN up.envs BY DEF IEnv, After, Wired
    <3>4. up.at = "env" => ToSet(up.order) \subseteq DOMAIN up.envs \cup ToSet(up.todo) BY DEF IEnv
    <3>5. /\ up'.at = "env" => ToSet(up'.order) \subseteq DOMAIN up'.envs \cup ToSet(up'.todo)
          /\ up'.at \in Wired => ToSet(up'.order) \subseteq DOMAIN up'.envs
      BY <1>1, <2>1, <2>3, <3>3, <3>4, LabourNames
    <3>6. up'.at \in After \ {"env"} => up'.at \in Wired BY <3>1 DEF Busy, After, Wired
    <3>7. up'.at # "session" BY <3>1 DEF Busy
    <3>8. /\ Asked(up') /\ Mapped(up')
          /\ up'.at \in Provisions => Provides(up')
          /\ up'.at = "create" =>
               ~up'.request.dry /\ (up.state.resources[Entry.key].indexes = Indexes(Entry.key))'
          /\ up'.at \in After =>
               /\ Provided(up') /\ \A c \in DOMAIN up'.envs : Given(up', c, By)
               /\ up'.at # "env" => ~up'.request.dry
      BY <1>3, <2>3, LabourEnv
    <3> QED BY <1>1, <3>2, <3>5, <3>6, <3>7, <3>8 DEF IEnv
  <2> QED BY <2>1, <2>2, <2>3 DEF Labours
<1>4. ASSUME up.at \in After \ {"env"}, up'.at \in After \ {"env"}, up'.at \notin Provisions,
             SameWired(up, up'), up'.state.generated = up.state.generated, up'.envs = up.envs,
             round' = round, up'.at = "session" => "up" \in stale' \/ disk' = up'.state
      PROVE  IEnv'
  <2>1. By' = By BY <1>4 DEF By
  <2>2. Asked(up) /\ Mapped(up) /\ Provided(up) /\ \A c \in DOMAIN up.envs : Given(up, c, By)
    BY <1>4 DEF IEnv, After
  <2>3. /\ Asked(up') /\ Mapped(up') /\ Provided(up')
        /\ \A c \in DOMAIN up'.envs : Given(up', c, By)
    BY <1>4, <2>2, StaysGiven
  <2>4. ToSet(up'.order) \subseteq DOMAIN up'.envs /\ ~up'.request.dry
    BY <1>4 DEF IEnv, SameWired, SameRun
  <2>5. up'.at # "create" /\ up'.at # "env" BY <1>4 DEF Provisions
  <2> QED BY <1>1, <1>4, <2>1, <2>3, <2>4, <2>5 DEF IEnv
<1>5. CASE Starts
  <2>1. up.at \in After \ {"env"} /\ up'.at \in After \ {"env"} /\ up'.at \notin Provisions
        /\ up'.at # "session"
    BY <1>5 DEF Starts, After, Provisions
  <2>2. /\ SameWired(up, up') /\ up'.state.generated = up.state.generated /\ up'.envs = up.envs
        /\ round' = round
    BY <1>5 DEF Starts, SameWired, SameRun
  <2> QED BY <1>4, <2>1, <2>2
<1>6. CASE Concludes
  <2>1. CASE up' = NoUp BY <1>1, <2>1 DEF IEnv, NoUp, Provisions, After
  <2>2. CASE up' # NoUp
    <3>1. up.at \in After \ {"env"} /\ up'.at \in After \ {"env"} /\ up'.at \notin Provisions
          /\ disk' = up'.state /\ round' = round
      BY <1>6, <2>2 DEF Concludes, After, Provisions
    <3>2. SameWired(up, up') /\ up'.state.generated = up.state.generated /\ up'.envs = up.envs
      BY <1>6, <2>2 DEF Concludes, SameWired, SameRun
    <3> QED BY <1>4, <3>1, <3>2
  <2> QED BY <2>1, <2>2
<1>7. CASE Breaks BY <1>1, <1>7 DEF Breaks, IEnv, NoUp, Provisions, After
<1>8. CASE up' = up /\ round' = round /\ (up.at = "session" => "up" \in stale' \/ (disk' = disk /\ stale' = stale))
  <2>1. By' = By BY <1>8 DEF By
  <2>2. (up.state.resources[Entry.key].indexes = Indexes(Entry.key))'
          = (up.state.resources[Entry.key].indexes = Indexes(Entry.key))
    BY <1>8 DEF Entry, Indexes, Launch
  <2>3. up'.at = "session" => "up" \in stale' \/ disk' = up'.state BY <1>8 DEF IEnv
  <2> QED BY <1>1, <1>8, <2>1, <2>2, <2>3 DEF IEnv
<1>9. CASE Besides
  <2>1. up' = up /\ round' = round
        /\ (Holding \subseteq stale' \/ (disk' = disk /\ stale' = stale))
    BY <1>9 DEF Besides
  <2>2. up.at = "session" => "up" \in Holding BY DEF Holding
  <2> QED BY <1>8, <2>1, <2>2
<1>10. CASE Rests BY <1>8, <1>10 DEF Rests
<1> QED
  BY <1>1, <1>2, <1>3, <1>5, <1>6, <1>7, <1>9, <1>10, Kinds, Concluding, Besiding

LEMMA Agreed == ASSUME IEnv PROVE EnvAgrees
<1> SUFFICES ASSUME up.at = "session", "up" \notin stale, up.order = Launches[up.launch].order,
                    NEW c \in Names(Launch),
                    Reads(Comp(c)) \cap DOMAIN loadState.resources = Reads(Comp(c)) \cap DOMAIN up.map
             PROVE  LET but    == OfKind(Comp(c), {"port"}) \cup Contested(Comp(c))
                        answer == EnvOf(Launch, c, StateContext(Launch), up.request.env).env
                    IN  Restrict(answer, DOMAIN answer \ but) = Restrict(up.envs[c], DOMAIN up.envs[c] \ but)
  BY DEF EnvAgrees
<1> DEFINE n == up.launch
           comp == Launches[n].comp[c]
           x == ContextOf(up)
           y == StateContext(Launch)
           wired == resourceMapFromState(Launch, loadState.resources)
<1>1. IDeclared /\ Shapes /\ UpShape(up) /\ n \in DOMAIN Launches BY AnyUp DEF IEnv, IDeclared
<1>2. /\ Launch = LaunchOf(up) /\ Launch.comp = Launches[n].comp /\ Comp(c) = comp
      /\ Names(Launch) = Names(Launches[n]) /\ c \in ToSet(up.order)
  BY <1>1, LaunchNow DEF Names
<1>3. /\ Asked(up) /\ Mapped(up) /\ Provided(up) /\ c \in DOMAIN up.envs /\ ~up.request.dry
      /\ Given(up, c, By) /\ disk = up.state
  BY <1>2 DEF IEnv, After
<1>4. /\ loadState.resources = validResources(up.state.resources)
      /\ loadState.appUrl = up.state.appUrl /\ loadState.ports = up.state.ports
      /\ loadState.secrets = up.state.secrets /\ loadState.generated = up.state.generated
      /\ loadState.bound = up.state.bound
  BY <1>1, <1>3 DEF loadState, UpShape, StateShape
<1>5. Matching(Reads(comp), up.map, wired)
  <2>1. DOMAIN wired = DOMAIN loadState.resources BY DEF resourceMapFromState
  <2>2. \A k \in Reads(comp) : k \in DOMAIN up.map <=> k \in DOMAIN loadState.resources BY <1>2
  <2>3. ASSUME NEW k \in DOMAIN up.map, k \in DOMAIN loadState.resources
        PROVE  up.map[k] = wired[k]
    <3> DEFINE r == up.state.resources[k]
    <3>1. loadState.resources[k] = r BY <1>4, <2>3 DEF validResources, Restrict
    <3>2. up.map[k] = registerResource(r.type, k, declaredUses(Launch), Properties(r), r.indexes)
      BY <1>2, <1>3 DEF Mapped
    <3> HIDE DEF r
    <3>3. wired[k] = registerResource(r.type, k, declaredUses(Launch), Properties(r), r.indexes)
      BY <2>3, <3>1 DEF resourceMapFromState
    <3> QED BY <3>2, <3>3
  <2> HIDE DEF wired, comp
  <2> QED BY <2>1, <2>2, <2>3 DEF Matching
<1>6. Alike(Reads(comp), x, y)
  <2>1. up.primary = declaredPrimary(Launch, loadState.appUrl) BY <1>2, <1>3, <1>4 DEF Asked
  <2>2. x = resolverContextFor(Launch, up.map, up.state, up.primary) BY <1>2 DEF ContextOf
  <2>3. y = resolverContextFor(Launch, wired, loadState, up.primary) BY <2>1 DEF StateContext
  <2> HIDE DEF comp, x, y, wired
  <2> QED BY <1>4, <1>5, <2>2, <2>3, ContextAlike
<1>7. Answered(comp, x, up.request.env)
  <2>1. comp.requires \in Seq(Declared(n)) /\ comp.supports \in Seq(Declared(n))
    BY <1>1, <1>2, EntriesDeclared
  <2>2. OperatorEnv(comp) \subseteq up.request.env
    <3>1. OperatorEnv(Launch.comp[c]) \subseteq up.request.env BY <1>2, <1>3 DEF Asked, AllSupplied
    <3> QED BY <1>2, <3>1
  <2>4. \A e \in ToSet(comp.requires) :
          ~e.host /\ e.type \in Provisioners => e.key \in DOMAIN x.resources
    <3>1. DOMAIN up.map \subseteq DOMAIN x.resources
      BY DEF ContextOf, resolverContextFor, buildResolverContext, wireHttpsOrigins, ++
    <3>2. \A e \in ToSet(comp.requires) :
            ~e.host /\ e.type \in Provisioners => e \in Wanting(LaunchOf(up))
      BY <1>2 DEF Wanting
    <3> QED BY <1>3, <3>1, <3>2 DEF Provided
  <2> HIDE DEF comp, x
  <2> QED BY <2>1, <2>2, <2>4 DEF Answered
<1>8. Drawn(comp, c, Based(comp, c, x, up.state), up.state.generated)
       /\ up.envs[c] = StartedEnv(comp, c, x, up.state, By).env
  BY <1>3 DEF Given
<1> DEFINE again == <<"env", round>>
           answer == AnsweredEnv(comp, c, y, loadState, storagePaths(comp, c, up.state.bound),
                                 up.request.env, again).env
           started == StartedEnv(comp, c, x, up.state, By).env
           but == OfKind(comp, {"port"}) \cup Contested(comp)
<1>9. EnvOf(Launch, c, y, up.request.env).env = answer
  BY <1>2, <1>4 DEF EnvOf
<1>10. AnswersAlike(comp, c, x, up.state, By, y, loadState, up.request.env, again)
  <2> HIDE DEF comp, x, y, again
  <2> QED BY <1>4, <1>6, <1>7, <1>8, AnsweredAsStarted
<1>11. Restrict(answer, DOMAIN answer \ but) = Restrict(started, DOMAIN started \ but)
  BY <1>10 DEF AnswersAlike
<1> HIDE DEF answer, started, but, comp, x, y
<1> QED BY <1>2, <1>8, <1>9, <1>11 DEF but, y, started

\* `env` reports what the running app has (EnvAgrees of NativeUp).
THEOREM EnvAgreesAlways == Spec => []EnvAgrees
<1>1. Init => IEnv
  BY InitShapes DEF Init, IEnv, IDeclared, NoUp, Provisions, Visits, After, Absent
<1>2. IEnv /\ [Next]_vars => IEnv' BY EnvKept
<1>3. IEnv => EnvAgrees BY Agreed
<1> QED BY <1>1, <1>2, <1>3, PTL DEF Spec

-----------------------------------------------------------------------------
(* How the databases of redis are numbered: as for docker, with what an    *)
(* `up` is left with in the place of the Launchfile.                       *)

\* The Launchfiles, each narrowed to some of its components.
Narrowings ==
  UNION {{[Launches[n] EXCEPT !.order = order] : order \in Seq(Names(Launches[n]))} :
           n \in DOMAIN Launches}

UseShape == STRING \X ({""} \cup ToSet(UseNames))

LEMMA NarrowingIs ==
  ASSUME NEW launch \in Narrowings
  PROVE  \E n \in DOMAIN Launches :
           launch.comp = Launches[n].comp /\ launch.order \in Seq(Names(Launches[n]))
<1>1. PICK n \in DOMAIN Launches :
        \E order \in Seq(Names(Launches[n])) : launch = [Launches[n] EXCEPT !.order = order]
  BY DEF Narrowings
<1>2. ASSUME NEW order, launch = [Launches[n] EXCEPT !.order = order]
      PROVE  launch.comp = Launches[n].comp /\ launch.order = order
  BY <1>2, LaunchesAssumption
<1> QED BY <1>1, <1>2

LEMMA StandsDeclared ==
  ASSUME NEW launch \in Narrowings, NEW i \in DOMAIN launch.order
  PROVE  /\ i \in Nat
         /\ \E n \in DOMAIN Launches : \E c \in Names(Launches[n]) :
              /\ launch.comp[launch.order[i]] = Launches[n].comp[c]
              /\ Entries(launch.comp[launch.order[i]]) \in Seq(Declared(n))
<1>1. PICK n \in DOMAIN Launches :
        launch.comp = Launches[n].comp /\ launch.order \in Seq(Names(Launches[n]))
  BY NarrowingIs
<1>2. i \in Nat /\ launch.order[i] \in Names(Launches[n]) BY <1>1
<1>3. Entries(Launches[n].comp[launch.order[i]]) \in Seq(Declared(n))
  BY <1>2, EntriesDeclared DEF Entries
<1> QED BY <1>1, <1>2, <1>3

\* A place is two numbers, and what stands there uses what can be used.
LEMMA PlacesShaped ==
  ASSUME NEW launch \in Narrowings
  PROVE  /\ Places(launch) \subseteq Nat \X Nat
         /\ \A p \in Places(launch) : EntryAt(launch, p).uses \in Seq(UseShape)
<1> DEFINE entries(i) == Entries(launch.comp[launch.order[i]])
<1>1. ASSUME NEW p \in Places(launch)
      PROVE  p \in Nat \X Nat /\ EntryAt(launch, p).uses \in Seq(UseShape)
  <2>1. PICK i \in DOMAIN launch.order : p \in {i} \X DOMAIN entries(i) BY DEF Places
  <2>2. PICK m \in DOMAIN entries(i) : p = <<i, m>> BY <2>1
  <2>3. PICK n \in DOMAIN Launches : \E c \in Names(Launches[n]) :
          entries(i) = Entries(Launches[n].comp[c]) /\ entries(i) \in Seq(Declared(n))
    BY StandsDeclared
  <2>4. i \in Nat BY StandsDeclared
  <2>5. EntryAt(launch, p) = entries(i)[m] BY <2>2 DEF EntryAt
  <2> HIDE DEF entries
  <2>6. m \in Nat BY <2>3
  <2>7. \E c \in Names(Launches[n]) : entries(i)[m] \in ToSet(Entries(Launches[n].comp[c]))
    BY <2>2, <2>3 DEF ToSet
  <2>8. entries(i)[m].uses \in Seq(UseShape) BY <2>7, UsesAssumption DEF UseShape
  <2> QED BY <2>2, <2>4, <2>5, <2>6, <2>8
<1> QED BY <1>1

LEMMA DbUsesShaped ==
  ASSUME NEW launch \in Narrowings, NEW x \in DbUses(launch)
  PROVE  x = <<x[1], x[2]>> /\ x[2] \in UseShape /\ x[2][1] = "db"
<1>1. PICK p \in UsingDb(launch) : x \in {EntryAt(launch, p).key} \X dbKeys(EntryAt(launch, p))
  BY DEF DbUses
<1> DEFINE e == EntryAt(launch, p)
<1>2. e.uses \in Seq(UseShape) BY PlacesShaped DEF UsingDb
<1>3. x = <<x[1], x[2]>> /\ x[2] \in dbKeys(e) BY <1>1
<1> HIDE DEF e
<1>4. useKeys(e) \subseteq UseShape BY <1>2 DEF useKeys, ToSet
<1> QED BY <1>3, <1>4 DEF dbKeys

LEMMA FirstPlace ==
  ASSUME NEW T \in SUBSET (Nat \X Nat), T # {}
  PROVE  \E p \in T : \A q \in T : p = q \/ p \prec q
<1>1. PICK i \in {p[1] : p \in T} : \A j \in {p[1] : p \in T} : i <= j
  <2>1. {p[1] : p \in T} \in SUBSET Nat /\ {p[1] : p \in T} # {} OBVIOUS
  <2> QED BY <2>1, Least
<1> DEFINE Row == {p \in T : p[1] = i}
<1>2. PICK n \in {p[2] : p \in Row} : \A m \in {p[2] : p \in Row} : n <= m
  <2>1. {p[2] : p \in Row} \in SUBSET Nat /\ {p[2] : p \in Row} # {} BY <1>1
  <2> QED BY <2>1, Least
<1>3. PICK p \in Row : p[2] = n BY <1>2
<1>4. ASSUME NEW q \in T PROVE p = q \/ p \prec q
  <2>1. p \in Nat \X Nat /\ q \in Nat \X Nat BY <1>3
  <2>2. p[1] <= q[1] BY <1>1, <1>3
  <2>3. q[1] = i => p[2] <= q[2] BY <1>2, <1>3
  <2> QED BY <1>3, <2>1, <2>2, <2>3 DEF \prec
<1> QED BY <1>3, <1>4

LEMMA ImageFinite ==
  ASSUME NEW S, IsFiniteSet(S), NEW f, DOMAIN f = S PROVE IsFiniteSet({f[x] : x \in S})
<1> DEFINE T == {f[x] : x \in S}
           g == [x \in S |-> f[x]]
<1>1. g \in Surjection(S, T) BY DEF Surjection
<1> HIDE DEF T, g
<1> QED BY <1>1, FS_Surjection DEF T

LEMMA ElementsFinite ==
  ASSUME NEW S, NEW s \in Seq(S) PROVE IsFiniteSet(DOMAIN s) /\ IsFiniteSet(ToSet(s))
<1>1. DOMAIN s = 1..Len(s) /\ Len(s) \in Nat OBVIOUS
<1>2. IsFiniteSet(DOMAIN s) BY <1>1, FS_Interval
<1> QED BY <1>2, ImageFinite DEF ToSet

LEMMA DbUsesFinite ==
  ASSUME NEW launch \in Narrowings PROVE IsFiniteSet(DbUses(launch))
<1> DEFINE order == launch.order
           row == [i \in DOMAIN order |-> {i} \X DOMAIN Entries(launch.comp[order[i]])]
           pool == [p \in Places(launch) |->
                      {EntryAt(launch, p).key} \X useKeys(EntryAt(launch, p))]
<1>1. IsFiniteSet(DOMAIN order)
  <2>1. PICK n \in DOMAIN Launches : order \in Seq(Names(Launches[n])) BY NarrowingIs
  <2> QED BY <2>1, ElementsFinite
<1>2. ASSUME NEW i \in DOMAIN order PROVE IsFiniteSet(row[i])
  <2>1. PICK n \in DOMAIN Launches : Entries(launch.comp[order[i]]) \in Seq(Declared(n))
    BY StandsDeclared
  <2>2. IsFiniteSet(DOMAIN Entries(launch.comp[order[i]])) BY <2>1, ElementsFinite
  <2>3. IsFiniteSet({i}) BY FS_Singleton
  <2> QED BY <2>2, <2>3, FS_Product
<1>3. Places(launch) = UNION {row[i] : i \in DOMAIN order} BY DEF Places
<1>4. DOMAIN row = DOMAIN order OBVIOUS
<1> HIDE DEF row, order
<1>5. IsFiniteSet(Places(launch))
  <2>1. IsFiniteSet({row[i] : i \in DOMAIN order}) BY <1>1, <1>4, ImageFinite
  <2>2. \A T \in {row[i] : i \in DOMAIN order} : IsFiniteSet(T) BY <1>2
  <2> QED BY <1>3, <2>1, <2>2, FS_UNION
<1>6. ASSUME NEW p \in Places(launch) PROVE IsFiniteSet(pool[p])
  <2>1. EntryAt(launch, p).uses \in Seq(UseShape) BY PlacesShaped
  <2>2. IsFiniteSet(useKeys(EntryAt(launch, p))) BY <2>1, ElementsFinite DEF useKeys
  <2>3. IsFiniteSet({EntryAt(launch, p).key}) BY FS_Singleton
  <2> QED BY <2>2, <2>3, FS_Product
<1>7. DbUses(launch) \in SUBSET UNION {pool[p] : p \in Places(launch)}
  BY DEF DbUses, UsingDb, dbKeys
<1>8. DOMAIN pool = Places(launch) OBVIOUS
<1> HIDE DEF pool
<1>9. IsFiniteSet({pool[p] : p \in Places(launch)}) BY <1>5, <1>8, ImageFinite
<1>10. \A T \in {pool[p] : p \in Places(launch)} : IsFiniteSet(T) BY <1>6
<1>11. IsFiniteSet(UNION {pool[p] : p \in Places(launch)}) BY <1>9, <1>10, FS_UNION
<1> QED BY <1>7, <1>11, FS_Subset

LEMMA PlacesOfUse ==
  ASSUME NEW launch \in Narrowings, NEW x \in DbUses(launch)
  PROVE  /\ PlacesOf(launch, x[1]) # {} /\ PlacesOf(launch, x[1]) \in SUBSET (Nat \X Nat)
<1>1. PICK p \in UsingDb(launch) : x \in {EntryAt(launch, p).key} \X dbKeys(EntryAt(launch, p))
  BY DEF DbUses
<1>2. p \in PlacesOf(launch, x[1]) BY <1>1 DEF PlacesOf
<1>3. PlacesOf(launch, x[1]) \subseteq Places(launch) BY DEF PlacesOf, UsingDb
<1> QED BY <1>2, <1>3, PlacesShaped

LEMMA Ranks ==
  ASSUME NEW u \in UseShape
  PROVE  /\ Rank(u) \in Nat
         /\ \A v \in UseShape : Rank(u) = Rank(v) => u[2] = v[2]
<1>0. \A i \in DOMAIN UseNames : i \in Nat /\ i # 0
  <2>1. DOMAIN UseNames = 1..Len(UseNames) /\ Len(UseNames) \in Nat BY UseNamesAssumption
  <2> QED BY <2>1
<1>1. ASSUME NEW v \in UseShape
      PROVE  /\ Rank(v) \in Nat
             /\ v[2] = "" => Rank(v) = 0
             /\ v[2] # "" => Rank(v) \in DOMAIN UseNames /\ UseNames[Rank(v)] = v[2]
  <2>1. v[2] \in {""} \cup ToSet(UseNames) BY DEF UseShape
  <2>2. CASE v[2] = "" BY <2>2 DEF Rank
  <2>3. CASE v[2] # ""
    <3>1. \E i \in DOMAIN UseNames : UseNames[i] = v[2] BY <2>1, <2>3 DEF ToSet
    <3>2. Rank(v) \in DOMAIN UseNames /\ UseNames[Rank(v)] = v[2] BY <2>3, <3>1 DEF Rank
    <3> QED BY <1>0, <2>3, <3>2
  <2> QED BY <2>2, <2>3
<1>2. ASSUME NEW v \in UseShape, Rank(u) = Rank(v) PROVE u[2] = v[2]
  <2>1. CASE u[2] = "" BY <1>0, <1>1, <1>2, <2>1
  <2>2. CASE u[2] # "" BY <1>0, <1>1, <1>2, <2>2
  <2> QED BY <2>1, <2>2
<1> QED BY <1>1, <1>2

\* The numbering follows a strict total order of the uses.
LEMMA BeforeOrders ==
  ASSUME NEW launch \in Narrowings, NEW x \in DbUses(launch), NEW y \in DbUses(launch),
         NEW z \in DbUses(launch)
  PROVE  /\ ~Before(launch, x, x)
         /\ x # y => Before(launch, x, y) \/ Before(launch, y, x)
         /\ Before(launch, x, y) /\ Before(launch, y, z) => Before(launch, x, z)
<1> DEFINE places(k) == PlacesOf(launch, k)
           first(j, k) == \E p \in places(j) : \A q \in places(k) : p \prec q
<1>1. ASSUME NEW t \in DbUses(launch)
      PROVE  t = <<t[1], t[2]>> /\ t[2] = <<t[2][1], t[2][2]>> /\ t[2] \in UseShape /\ t[2][1] = "db"
  <2>1. t = <<t[1], t[2]>> /\ t[2] \in UseShape /\ t[2][1] = "db" BY DbUsesShaped
  <2>2. \A S, T, u : u \in S \X T => u = <<u[1], u[2]>> OBVIOUS
  <2>3. t[2] = <<t[2][1], t[2][2]>> BY <2>1, <2>2, Zenon DEF UseShape
  <2> QED BY <2>1, <2>3
<1>2. ASSUME NEW t \in DbUses(launch) PROVE places(t[1]) # {} /\ places(t[1]) \in SUBSET (Nat \X Nat)
  BY PlacesOfUse
<1>3. \A s, t : Before(launch, s, t) <=>
        IF s[1] = t[1] THEN Rank(s[2]) < Rank(t[2]) ELSE first(s[1], t[1])
  BY DEF Before
<1>4. Rank(x[2]) \in Nat /\ Rank(y[2]) \in Nat /\ Rank(z[2]) \in Nat BY <1>1, Ranks
<1>5. ~Before(launch, x, x) BY <1>3, <1>4
<1>6. ASSUME x # y PROVE Before(launch, x, y) \/ Before(launch, y, x)
  <2>1. CASE x[1] = y[1]
    <3>1. x[2][2] # y[2][2] BY <1>1, <1>6, <2>1
    <3>2. Rank(x[2]) # Rank(y[2]) BY <1>1, <3>1, Ranks
    <3> QED BY <1>3, <1>4, <2>1, <3>2
  <2>2. CASE x[1] # y[1]
    <3>1. places(x[1]) \cap places(y[1]) = {} BY <2>2 DEF PlacesOf
    <3>2. PICK p \in places(x[1]) \cup places(y[1]) : \A q \in places(x[1]) \cup places(y[1]) : p = q \/ p \prec q
      <4>1. places(x[1]) \cup places(y[1]) \in SUBSET (Nat \X Nat) /\ places(x[1]) \cup places(y[1]) # {} BY <1>2
      <4> HIDE DEF places
      <4> QED BY <4>1, FirstPlace
    <3> HIDE DEF places
    <3>3. first(x[1], y[1]) \/ first(y[1], x[1]) BY <3>1, <3>2
    <3> QED BY <1>3, <2>2, <3>3
  <2> QED BY <2>1, <2>2
<1>7. ASSUME Before(launch, x, y), Before(launch, y, z) PROVE Before(launch, x, z)
  <2> DEFINE X == places(x[1])
             Y == places(y[1])
             Z == places(z[1])
  <2>0. /\ X # {} /\ X \in SUBSET (Nat \X Nat) /\ Y # {} /\ Y \in SUBSET (Nat \X Nat)
        /\ Z # {} /\ Z \in SUBSET (Nat \X Nat)
    BY <1>2
  <2>1. \A p, q, r \in Nat \X Nat : p \prec q /\ q \prec r => p \prec r
    BY DEF \prec
  <2>2. \A p \in Nat \X Nat : ~(p \prec p) BY DEF \prec
  <2>3. CASE x[1] = y[1] /\ y[1] = z[1] BY <1>3, <1>4, <1>7, <2>3
  <2>4. CASE x[1] = y[1] /\ y[1] # z[1] BY <1>3, <1>7, <2>4
  <2>5. CASE x[1] # y[1] /\ y[1] = z[1] BY <1>3, <1>7, <2>5
  <2>6. CASE x[1] # y[1] /\ y[1] # z[1]
    <3>1. PICK p \in X : \A q \in Y : p \prec q BY <1>3, <1>7, <2>6
    <3>2. PICK q \in Y : \A r \in Z : q \prec r BY <1>3, <1>7, <2>6
    <3> HIDE DEF X, Y, Z
    <3>3. \A r \in Z : p \prec r BY <2>0, <2>1, <3>1, <3>2
    <3>4. x[1] # z[1]
      <4>1. SUFFICES ASSUME x[1] = z[1] PROVE FALSE OBVIOUS
      <4>2. p \in Z BY <4>1 DEF X, Z
      <4> QED BY <2>0, <2>2, <3>3, <4>2
    <3> QED BY <1>3, <3>3, <3>4 DEF X, Z
  <2> QED BY <2>3, <2>4, <2>5, <2>6
<1> QED BY <1>5, <1>6, <1>7

IndexOf(launch, use) == Cardinality({x \in DbUses(launch) : Before(launch, x, use)})

\* So no two have one number.
LEMMA IndexesDiffer ==
  ASSUME NEW launch \in Narrowings, NEW x \in DbUses(launch), NEW y \in DbUses(launch), x # y
  PROVE  IndexOf(launch, x) # IndexOf(launch, y)
<1> DEFINE prior(t) == {s \in DbUses(launch) : Before(launch, s, t)}
<1>1. ASSUME NEW s \in DbUses(launch), NEW t \in DbUses(launch), Before(launch, s, t)
      PROVE  IndexOf(launch, s) < IndexOf(launch, t)
  <2>1. IsFiniteSet(prior(s)) /\ IsFiniteSet(prior(t))
    <3>1. prior(s) \in SUBSET DbUses(launch) /\ prior(t) \in SUBSET DbUses(launch) OBVIOUS
    <3> HIDE DEF prior
    <3> QED BY <3>1, DbUsesFinite, FS_Subset
  <2>2. s \notin prior(s) /\ prior(s) \cup {s} \subseteq prior(t)
    BY <1>1, BeforeOrders
  <2> HIDE DEF prior
  <2>3. Cardinality(prior(s) \cup {s}) = Cardinality(prior(s)) + 1
    BY <2>1, <2>2, FS_AddElement
  <2>4. Cardinality(prior(s) \cup {s}) <= Cardinality(prior(t))
    BY <2>1, <2>2, FS_Subset
  <2>5. Cardinality(prior(s)) \in Nat /\ Cardinality(prior(t)) \in Nat
    BY <2>1, FS_CardinalityType
  <2>6. IndexOf(launch, s) = Cardinality(prior(s)) /\ IndexOf(launch, t) = Cardinality(prior(t))
    BY DEF IndexOf, prior
  <2> QED BY <2>3, <2>4, <2>5, <2>6
<1>2. ASSUME NEW s \in DbUses(launch) PROVE IndexOf(launch, s) \in Nat
  <2>1. prior(s) \in SUBSET DbUses(launch) OBVIOUS
  <2> HIDE DEF prior
  <2>2. IsFiniteSet(prior(s)) BY <2>1, DbUsesFinite, FS_Subset
  <2> QED BY <2>2, FS_CardinalityType DEF IndexOf, prior
<1> QED BY <1>1, <1>2, BeforeOrders

LEMMA Allocated ==
  ASSUME NEW launch \in Narrowings, NEW x \in DbUses(launch)
  PROVE  LET all == allocateDbIndexes(launch)
         IN  /\ x[1] \in DOMAIN all /\ x[2] \in DOMAIN all[x[1]]
             /\ all[x[1]][x[2]] = IndexOf(launch, x)
<1>1. x = <<x[1], x[2]>> BY DbUsesShaped
<1> DEFINE keys == {y[1] : y \in DbUses(launch)}
           uses(k) == {y[2] : y \in {z \in DbUses(launch) : z[1] = k}}
<1>2. allocateDbIndexes(launch) = [k \in keys |-> [u \in uses(k) |-> IndexOf(launch, <<k, u>>)]]
  BY DEF allocateDbIndexes, IndexOf
<1>3. x[1] \in keys /\ x[2] \in uses(x[1]) OBVIOUS
<1> HIDE DEF keys, uses
<1> QED BY <1>1, <1>2, <1>3

-----------------------------------------------------------------------------
(* No two uses share a database within one `up`. *)

\* The databases an `up` allocates for a resource, and what it registers of it.
IndexesIn(launch, key) ==
  IF key \in DOMAIN allocateDbIndexes(launch) THEN allocateDbIndexes(launch)[key] ELSE <<>>

\* A resource has a url of its own, and no property of a use.
Plain(base) ==
  /\ \E type, password, database : base[<<"url">>] = <<"url", type, password, database>>
  /\ \A p \in DOMAIN base : Len(p) # 3

LEMMA PropertiesPlain == ASSUME NEW r PROVE Plain(Properties(r))
<1> DEFINE database == CASE r.type = "redis"  -> <<"db", 0>>
                         [] r.type = "sqlite" -> <<"file">>
                         [] OTHER -> <<"instance">>
           url  == <<"url", r.type, r.password, database>>
           rest == IF r.type = "sqlite" THEN Only(<<"path">>, database)
                   ELSE Only(<<"host">>, <<"localhost">>) ++ Only(<<"password">>, r.password)
<1>1. DOMAIN rest \subseteq {<<"path">>, <<"host">>, <<"password">>} BY DEF Only, ++
<1> HIDE DEF database
<1>2. Properties(r) = Only(<<"url">>, url) ++ rest
  <2>1. CASE r.type = "sqlite" BY <2>1 DEF Properties, database
  <2>2. CASE r.type # "sqlite"
    <3>1. Properties(r) = Only(<<"url">>, url) ++ Only(<<"host">>, <<"localhost">>) ++ Only(<<"password">>, r.password)
      BY <2>2 DEF Properties, database
    <3>2. \A f, g, h : f ++ g ++ h = f ++ (g ++ h) BY DEF ++
    <3> QED BY <2>2, <3>1, <3>2
  <2> QED BY <2>1, <2>2
<1> HIDE DEF url, rest
<1>3. Properties(r)[<<"url">>] = url BY <1>2 DEF Only, ++
<1>4. DOMAIN Properties(r) \subseteq {<<"url">>, <<"path">>, <<"host">>, <<"password">>}
  BY <1>1, <1>2 DEF Only, ++
<1>5. \A p \in {<<"url">>, <<"path">>, <<"host">>, <<"password">>} : Len(p) # 3 OBVIOUS
<1> QED BY <1>3, <1>4, <1>5 DEF Plain, url

LEMMA PlaceholderPlain == Plain(Placeholder)
<1> DEFINE url == <<"url", "none", Empty, <<"none">>>>
<1> HIDE DEF url
<1>1. Placeholder = Only(<<"url">>, url) ++ Only(<<"host">>, <<"localhost">>)
  BY DEF Placeholder, url
<1>2. Placeholder[<<"url">>] = url /\ DOMAIN Placeholder = {<<"url">>, <<"host">>}
  BY <1>1 DEF Only, ++
<1>3. \A p \in {<<"url">>, <<"host">>} : Len(p) # 3 OBVIOUS
<1> QED BY <1>2, <1>3 DEF Plain, url

\* The uses that a Launchfile pools have their shape.
LEMMA DeclaredUsesShaped ==
  ASSUME NEW launch \in Narrowings, NEW key \in DOMAIN declaredUses(launch)
  PROVE  declaredUses(launch)[key] \subseteq UseShape
<1> DEFINE entries == UNION {Resources(launch.comp[c]) : c \in Names(launch)}
           using   == {e \in entries : e.uses # <<>>}
<1>1. ASSUME NEW e \in entries PROVE useKeys(e) \subseteq UseShape
  <2>1. PICK n \in DOMAIN Launches :
          launch.comp = Launches[n].comp /\ launch.order \in Seq(Names(Launches[n]))
    BY NarrowingIs
  <2>2. PICK c \in Names(launch) : e \in ToSet(Entries(launch.comp[c])) BY DEF Resources
  <2>3. c \in Names(Launches[n]) BY <2>1, <2>2 DEF Names, ToSet
  <2> HIDE DEF entries
  <2>4. e.uses \in Seq(UseShape) BY <2>1, <2>2, <2>3, UsesAssumption DEF UseShape
  <2> QED BY <2>4 DEF useKeys, ToSet
<1>2. declaredUses(launch) = [k \in {e.key : e \in using} |->
                                UNION {useKeys(e) : e \in {d \in using : d.key = k}}]
  BY DEF declaredUses
<1> HIDE DEF entries
<1>3. declaredUses(launch)[key] = UNION {useKeys(e) : e \in {d \in using : d.key = key}} BY <1>2
<1> QED BY <1>1, <1>3

\* What a `db` use is given: its own number, in place of the database of the url.
Numbered(p, value, n) ==
  \/ p[3] = "index" /\ value = <<"db", n>>
  \/ p[3] = "url" /\ \E type, password : value = <<"url", type, password, <<"db", n>>>>

LEMMA ThreeSteps == ASSUME NEW a, NEW b, NEW w PROVE <<a, b>> \o <<w>> = <<a, b, w>>
<1> DEFINE T == {a, b, w}
           s == <<a, b>> \o <<w>>
<1>1. <<a, b>> \in Seq(T) /\ <<w>> \in Seq(T) /\ <<a, b, w>> \in Seq(T) OBVIOUS
<1>2. s \in Seq(T) /\ Len(s) = 3 /\ s[1] = a /\ s[2] = b /\ s[3] = w BY <1>1
<1> HIDE DEF s
<1>3. s = <<a, b, w>> BY <1>1, <1>2
<1> QED BY <1>3 DEF s

LEMMA UseCovered ==
  ASSUME NEW base, Plain(base), NEW indexes, NEW use \in UseShape,
         NEW p \in DOMAIN coverUse(use, base, indexes), Len(p) = 3, p[1] = "db"
  PROVE  /\ use = <<"db", p[2]>> /\ p = <<"db", p[2], p[3]>>
         /\ Numbered(p, coverUse(use, base, indexes)[p], indexes[use])
<1> DEFINE url(database) == [base[<<"url">>] EXCEPT ![4] = database]
<1>0. use = <<use[1], use[2]>>
  <2>1. \A S, T, u : u \in S \X T => u = <<u[1], u[2]>> OBVIOUS
  <2> QED BY <2>1, Zenon DEF UseShape
<1>1. \A w : /\ use \o <<w>> = <<use[1], use[2], w>>
             /\ (use \o <<w>>)[1] = use[1] /\ (use \o <<w>>)[2] = use[2] /\ (use \o <<w>>)[3] = w
  <2> SUFFICES ASSUME NEW w
               PROVE  /\ use \o <<w>> = <<use[1], use[2], w>>
                      /\ (use \o <<w>>)[1] = use[1] /\ (use \o <<w>>)[2] = use[2] /\ (use \o <<w>>)[3] = w
    OBVIOUS
  <2>1. <<use[1], use[2]>> \o <<w>> = <<use[1], use[2], w>> BY ThreeSteps
  <2>2. use \o <<w>> = <<use[1], use[2], w>> BY <1>0, <2>1, Zenon
  <2> QED BY <2>2
<1>2. PICK type, password, d : base[<<"url">>] = <<"url", type, password, d>> BY DEF Plain
<1>3. \A e : url(e) = <<"url", type, password, e>>
  <2> SUFFICES ASSUME NEW e PROVE url(e) = <<"url", type, password, e>> OBVIOUS
  <2> QED BY <1>2
<1>4. CASE use[1] = "db"
  <2> DEFINE n == <<"db", indexes[use]>>
             f == Only(use \o <<"url">>, url(n)) ++ Only(use \o <<"index">>, n)
  <2>1. coverUse(use, base, indexes) = f BY <1>4 DEF coverUse
  <2> HIDE DEF url
  <2>2. /\ DOMAIN f = {use \o <<"url">>, use \o <<"index">>}
        /\ f[use \o <<"url">>] = url(n)
        /\ use \o <<"url">> # use \o <<"index">> => f[use \o <<"index">>] = n
    BY DEF Only, ++
  <2>3. use \o <<"url">> # use \o <<"index">>
    <3>1. (use \o <<"url">>)[3] = "url" /\ (use \o <<"index">>)[3] = "index" BY <1>1
    <3> QED BY <3>1
  <2> HIDE DEF f
  <2>4. CASE p = use \o <<"url">>
    <3>1. coverUse(use, base, indexes)[p] = <<"url", type, password, n>> BY <1>3, <2>1, <2>2, <2>4
    <3>2. p[2] = use[2] /\ p[3] = "url" /\ p = <<use[1], use[2], "url">> BY <1>1, <2>4
    <3> QED BY <1>0, <1>4, <3>1, <3>2 DEF Numbered
  <2>5. CASE p = use \o <<"index">>
    <3>1. coverUse(use, base, indexes)[p] = n BY <2>1, <2>2, <2>3, <2>5
    <3>2. p[2] = use[2] /\ p[3] = "index" /\ p = <<use[1], use[2], "index">> BY <1>1, <2>5
    <3> QED BY <1>0, <1>4, <3>1, <3>2 DEF Numbered
  <2> QED BY <2>1, <2>2, <2>4, <2>5
<1>5. CASE use[1] = "database"
  <2>1. \E v, w : coverUse(use, base, indexes) = Only(use \o <<"url">>, v) ++ Only(use \o <<"name">>, w)
    <3>1. CASE use[2] = "" BY <1>5, <3>1 DEF coverUse
    <3>2. CASE use[2] # "" BY <1>5, <3>2 DEF coverUse
    <3> QED BY <3>1, <3>2
  <2>2. p \in {use \o <<"url">>, use \o <<"name">>} BY <2>1 DEF Only, ++
  <2>3. p[1] = use[1] BY <1>1, <2>2
  <2> QED BY <1>5, <2>3
<1>6. CASE use[1] \notin {"db", "database"}
  <2>1. coverUse(use, base, indexes) = <<>> BY <1>6 DEF coverUse
  <2> QED BY <2>1
<1> QED BY <1>4, <1>5, <1>6

\* What is registered for a `db` use is the number allocated to it.
LEMMA RegisteredNumbered ==
  ASSUME NEW launch \in Narrowings, NEW base, Plain(base), NEW type, NEW key,
         NEW p \in DOMAIN registerResource(type, key, declaredUses(launch), base, IndexesIn(launch, key)),
         Len(p) = 3, p[1] = "db"
  PROVE  LET value == registerResource(type, key, declaredUses(launch), base, IndexesIn(launch, key))[p]
             use   == <<key, <<"db", p[2]>>>>
         IN  use \in DbUses(launch) /\ p = <<"db", p[2], p[3]>> /\ Numbered(p, value, IndexOf(launch, use))
<1> DEFINE uses    == declaredUses(launch)
           indexes == IndexesIn(launch, key)
           pooled  == IF key \in DOMAIN uses THEN coveredUses(type, uses[key]) ELSE {}
           some    == {u \in pooled : u[1] = "db" => u \in DOMAIN indexes}
           covers(u) == coverUse(u, base, indexes)
           f == [q \in UNION {DOMAIN covers(u) : u \in some} |->
                   covers(CHOOSE u \in some : q \in DOMAIN covers(u))[q]]
           u0 == CHOOSE u \in some : p \in DOMAIN covers(u)
<1>1. registerResource(type, key, uses, base, indexes) = f ++ base
  BY DEF registerResource, withCoveredUses
<1>2. some \subseteq UseShape
  <2>1. pooled \subseteq UseShape BY DeclaredUsesShaped DEF coveredUses
  <2> HIDE DEF pooled
  <2> QED BY <2>1
<1>3. \A u \in some : u[1] = "db" => u \in DOMAIN indexes OBVIOUS
<1> HIDE DEF uses, indexes, some
<1>4. p \notin DOMAIN base BY DEF Plain
<1>5. p \in DOMAIN f /\ (f ++ base)[p] = f[p]
  <2>1. p \in DOMAIN (f ++ base) BY <1>1 DEF uses, indexes
  <2> HIDE DEF f
  <2> QED BY <1>4, <2>1 DEF ++
<1>6. \E u \in some : p \in DOMAIN covers(u) BY <1>5
<1>7. u0 \in some /\ p \in DOMAIN covers(u0) BY <1>6
<1>8. f[p] = covers(u0)[p] BY <1>5
<1> HIDE DEF u0, f
<1>9. u0 = <<"db", p[2]>> /\ p = <<"db", p[2], p[3]>> /\ Numbered(p, f[p], indexes[u0])
  <2>1. u0 \in UseShape BY <1>2, <1>7
  <2> QED BY <1>7, <1>8, <2>1, UseCovered
<1>10. u0 \in DOMAIN indexes
  <2>1. u0[1] = "db" BY <1>9
  <2> QED BY <1>3, <1>7, <2>1
<1>11. <<key, u0>> \in DbUses(launch) /\ indexes[u0] = IndexOf(launch, <<key, u0>>)
  <2> DEFINE keys == {y[1] : y \in DbUses(launch)}
             of(k) == {y[2] : y \in {z \in DbUses(launch) : z[1] = k}}
  <2>1. allocateDbIndexes(launch) = [k \in keys |-> [u \in of(k) |-> IndexOf(launch, <<k, u>>)]]
    BY DEF allocateDbIndexes, IndexOf
  <2>2. key \in keys
    <3> HIDE DEF keys, of
    <3> SUFFICES ASSUME key \notin keys PROVE FALSE OBVIOUS
    <3>1. indexes = <<>> BY <2>1 DEF indexes, IndexesIn
    <3> QED BY <1>10, <3>1
  <2>3. indexes = [u \in of(key) |-> IndexOf(launch, <<key, u>>)]
    <3> HIDE DEF keys, of
    <3> QED BY <2>1, <2>2 DEF indexes, IndexesIn
  <2>4. u0 \in of(key) BY <1>10, <2>3
  <2>5. PICK y \in DbUses(launch) : y[1] = key /\ y[2] = u0 BY <2>4
  <2>6. y = <<key, u0>> BY <2>5, DbUsesShaped
  <2> QED BY <2>3, <2>4, <2>5, <2>6
<1> QED BY <1>1, <1>5, <1>9, <1>11 DEF uses, indexes

\* What an `up` registers for the `db` uses of its redis resources names another
\* database for every one of them: the comment at provider.ts:1020, for one `up`.
WiredApart ==
  up.at # "idle" =>
    \A k \in DOMAIN up.map, j \in DOMAIN up.map :
      \A p \in DOMAIN up.map[k], q \in DOMAIN up.map[j] :
        /\ Len(p) = 3 /\ p[1] = "db" /\ Len(q) = 3 /\ q[1] = "db"
        /\ p[3] = q[3] /\ <<k, p>> # <<j, q>>
        => up.map[k][p] # up.map[j][q]

Allotted(launch, key, value) ==
  \E type, base :
    Plain(base) /\ value = registerResource(type, key, declaredUses(launch), base, IndexesIn(launch, key))

IWired ==
  /\ IDeclared
  /\ up.at # "idle" => \A k \in DOMAIN up.map : Allotted(LaunchOf(up), k, up.map[k])

LEMMA WiredKept == ASSUME IWired, [Next]_vars PROVE IWired'
<1>1. IDeclared /\ IDeclared' /\ Shapes BY DeclaredKept DEF IWired, IDeclared
<1>2. ASSUME up.at # "idle", up'.launch = up.launch, up'.order = up.order, up'.map = up.map
      PROVE  IWired'
  <2>1. LaunchOf(up') = LaunchOf(up) BY <1>2 DEF LaunchOf
  <2> QED BY <1>1, <1>2, <2>1 DEF IWired
<1>3. CASE up' = NoUp BY <1>1, <1>3 DEF IWired, NoUp
<1>4. CASE Begins BY <1>1, <1>4 DEF Begins, IWired
<1>5. CASE Labour
  <2>1. up.at # "idle" /\ (up' = NoUp \/ Continues) BY <1>1, <1>5, Labouring DEF Labours, Busy
  <2>2. CASE Continues /\ up'.map = up.map BY <1>2, <2>1, <2>2 DEF Continues
  <2>3. CASE Continues /\ Registers
    <3>1. LaunchOf(up') = LaunchOf(up) /\ LaunchOf(up) = Launch
      BY <2>3 DEF Continues, LaunchOf, Launch
    <3>2. Indexes(Entry.key) = IndexesIn(Launch, Entry.key) BY DEF Indexes, IndexesIn
    <3>3. PICK base : /\ up'.map = Only(Entry.key, registerResource(Entry.type, Entry.key,
                                     declaredUses(Launch), base, Indexes(Entry.key))) ++ up.map
                      /\ Plain(base)
      BY <2>3, PlaceholderPlain, PropertiesPlain DEF Registers
    <3> DEFINE key == Entry.key
               value == registerResource(Entry.type, key, declaredUses(Launch), base, Indexes(key))
    <3>4. Allotted(Launch, key, value) BY <3>2, <3>3 DEF Allotted
    <3> HIDE DEF key, value
    <3>5. \A k \in DOMAIN up.map : Allotted(Launch, k, up.map[k]) BY <2>1, <3>1 DEF IWired
    <3>6. up'.map = Only(key, value) ++ up.map BY <3>3 DEF key, value
    <3>7. \A k \in DOMAIN up'.map : Allotted(Launch, k, up'.map[k])
      BY <3>4, <3>5, <3>6 DEF Only, ++
    <3> QED BY <1>1, <3>1, <3>7 DEF IWired
  <2> QED BY <1>3, <2>1, <2>2, <2>3 DEF Continues
<1>6. CASE Starts BY <1>2, <1>6 DEF Starts
<1>7. CASE Concludes BY <1>2, <1>3, <1>7 DEF Concludes
<1>8. CASE Breaks BY <1>3, <1>8 DEF Breaks
<1>9. CASE up' = up BY <1>1, <1>9 DEF IWired
<1>10. CASE Besides \/ Rests BY <1>9, <1>10 DEF Besides, Rests
<1> QED
  BY <1>1, <1>4, <1>5, <1>6, <1>7, <1>8, <1>10, Kinds, Concluding, Besiding

\* The number of a use is no other's.
LEMMA AllottedApart ==
  ASSUME NEW launch \in Narrowings, NEW k, NEW j, NEW v, NEW w,
         Allotted(launch, k, v), Allotted(launch, j, w),
         NEW p \in DOMAIN v, NEW q \in DOMAIN w, Len(p) = 3, p[1] = "db", Len(q) = 3, q[1] = "db",
         p[3] = q[3], <<k, p>> # <<j, q>>
  PROVE  v[p] # w[q]
<1> DEFINE x == <<k, <<"db", p[2]>>>>
           y == <<j, <<"db", q[2]>>>>
<1>1. x \in DbUses(launch) /\ p = <<"db", p[2], p[3]>> /\ Numbered(p, v[p], IndexOf(launch, x))
  BY RegisteredNumbered DEF Allotted
<1>2. y \in DbUses(launch) /\ q = <<"db", q[2], q[3]>> /\ Numbered(q, w[q], IndexOf(launch, y))
  BY RegisteredNumbered DEF Allotted
<1>3. x # y
  <2> SUFFICES ASSUME x = y PROVE FALSE OBVIOUS
  <2>1. k = j /\ p[2] = q[2] OBVIOUS
  <2>2. p = q BY <1>1, <1>2, <2>1
  <2> QED BY <2>1, <2>2
<1> HIDE DEF x, y
<1>4. IndexOf(launch, x) # IndexOf(launch, y) BY <1>1, <1>2, <1>3, IndexesDiffer
<1>5. CASE p[3] = "index"
  <2>1. v[p] = <<"db", IndexOf(launch, x)>> /\ w[q] = <<"db", IndexOf(launch, y)>>
    BY <1>1, <1>2, <1>5 DEF Numbered
  <2> QED BY <1>4, <2>1
<1>6. CASE p[3] = "url"
  <2>1. /\ \E a, b : v[p] = <<"url", a, b, <<"db", IndexOf(launch, x)>>>>
        /\ \E a, b : w[q] = <<"url", a, b, <<"db", IndexOf(launch, y)>>>>
    BY <1>1, <1>2, <1>6 DEF Numbered
  <2>2. v[p][4] = <<"db", IndexOf(launch, x)>> /\ w[q][4] = <<"db", IndexOf(launch, y)>> BY <2>1
  <2> QED BY <1>4, <2>2
<1> QED BY <1>1, <1>5, <1>6 DEF Numbered

\* Whatever an `up` is left with of a Launchfile, dry or not: it wires no two
\* uses of redis to one database, whatever earlier ups left on record.  Two ups
\* left with different components may well do so (IndexesApart).
THEOREM WiredApartAlways == Spec => []WiredApart
<1>1. Init => IWired
  BY InitShapes DEF Init, IWired, IDeclared, NoUp, Provisions, Visits
<1>2. IWired /\ [Next]_vars => IWired' BY WiredKept
<1>3. IWired => WiredApart
  <2> SUFFICES ASSUME IWired, up.at # "idle", NEW k \in DOMAIN up.map, NEW j \in DOMAIN up.map,
                      NEW p \in DOMAIN up.map[k], NEW q \in DOMAIN up.map[j],
                      Len(p) = 3, p[1] = "db", Len(q) = 3, q[1] = "db", p[3] = q[3],
                      <<k, p>> # <<j, q>>
               PROVE  up.map[k][p] # up.map[j][q]
    BY DEF WiredApart
  <2>1. LaunchOf(up) \in Narrowings BY DEF IWired, IDeclared, LaunchOf, Narrowings
  <2>2. Allotted(LaunchOf(up), k, up.map[k]) /\ Allotted(LaunchOf(up), j, up.map[j]) BY DEF IWired
  <2> QED BY <2>1, <2>2, AllottedApart
<1> QED BY <1>1, <1>2, <1>3, PTL DEF Spec
=============================================================================
