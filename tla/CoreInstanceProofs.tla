------------------------- MODULE CoreInstanceProofs ------------------------
(***************************************************************************)
(* What is proved about CoreInstance, as Services instantiates it: every    *)
(* callback runs once and with all it needs, none is forgotten, and the     *)
(* order of the apps does not decide whether the instance comes up.         *)
(***************************************************************************)
EXTENDS Services, FiniteSetTheorems, SequenceTheorems, TLAPS

-----------------------------------------------------------------------------
(* CoreInstance, instantiated as Core; its pending is resolutions here *)

CorePhases ==
    {"apps", "essential", "ready", "started", "broken", "closed", "failed"}

CoreTypes ==
    /\ phase \in CorePhases
    /\ Core!Apps \subseteq Types /\ config \in [Core!Apps -> Core!Wants]
    /\ todo \subseteq Core!Apps /\ adding \in Core!Created \cup {NoOne}
    /\ features \in Seq(Types)
    /\ resolutions \in [Core!Kinds -> Seq(Types)]
    /\ called \in Seq(Types \X Core!Kinds)

\* A callback waits once, of an app that was created, for a feature that is
\* not there.
CoreWaits ==
    \A kind \in Core!Kinds :
        /\ Core!IsInjective(resolutions[kind])
        /\ \A t \in Core!ToSet(resolutions[kind]) :
              t \in Core!Created /\ ~Core!FoundAll(t, kind, Core!Registered)

\* One that was called was called once, and with all its features there.
CoreRunsOnce ==
    /\ Core!IsInjective(called)
    /\ \A t \in Types, kind \in Core!Kinds :
          <<t, kind>> \in Core!ToSet(called) =>
              t \in Core!Created /\ Core!FoundAll(t, kind, Core!Registered)

\* Every callback of an app that was created was called or waits.
CoreNoneLost ==
    phase # "failed" =>
        \A t \in Core!Created, kind \in Core!Kinds :
            \/ config[t][kind] = {} \/ <<t, kind>> \in Core!ToSet(called)
            \/ t \in Core!ToSet(resolutions[kind])

\* What is registered: the apps that were added, then the essential features.
CoreAdded ==
    /\ Core!Registered \subseteq (Core!Created \ {adding}) \cup Essential
    /\ phase # "failed" => Core!Created \ {adding} \subseteq Core!Registered
    /\ phase # "apps" => adding = NoOne
    /\ phase \notin {"apps", "failed"} => todo = {}

CoreComplete ==
    \A t \in Core!Apps : config[t]["required"] \subseteq Core!Apps \cup Essential

CoreComesUp ==
    /\ phase \in {"ready", "started", "broken", "closed"} => CoreComplete
    /\ (phase = "failed" /\ erred = {}) => ~CoreComplete

CoreInv == /\ CoreTypes /\ CoreWaits /\ CoreRunsOnce /\ CoreNoneLost
           /\ CoreAdded /\ CoreComesUp

-----------------------------------------------------------------------------
\* How many places are before i.
CoreRank(I, i) == Cardinality({j \in I : j < i})

LEMMA CoreCounts == \A S : Core!Cardinality(S) = Cardinality(S)
  BY DEF Core!Cardinality, Cardinality

\* The n-th place of a finite set of places: there is one for every n, and
\* every place is one of them.
LEMMA CorePlaces ==
    ASSUME NEW I \in SUBSET Nat, IsFiniteSet(I)
    PROVE  /\ \A n \in 1 .. Cardinality(I) :
                 Core!Place(I, n) \in I /\ CoreRank(I, Core!Place(I, n)) = n - 1
           /\ \A i \in I : \E n \in 1 .. Cardinality(I) : Core!Place(I, n) = i
<1>1. Cardinality(I) \in Nat
  BY FS_CardinalityType
<1>2. ASSUME NEW i \in I
      PROVE  CoreRank(I, i) \in Nat /\ CoreRank(I, i) < Cardinality(I)
  <2>1. PICK B : B = {j \in I : j < i}
    OBVIOUS
  <2>2. B \in SUBSET I /\ i \notin B
    BY <2>1
  <2>3. IsFiniteSet(B) /\ Cardinality(B) <= Cardinality(I) /\ Cardinality(B) # Cardinality(I)
    BY <2>2, FS_Subset
  <2>4. Cardinality(B) \in Nat
    BY <2>3, FS_CardinalityType
  <2> QED
    BY <1>1, <2>1, <2>3, <2>4 DEF CoreRank
<1>3. ASSUME NEW i \in I, NEW k \in I, i < k
      PROVE  CoreRank(I, i) < CoreRank(I, k)
  <2>1. PICK B : B = {j \in I : j < i}
    OBVIOUS
  <2>2. PICK C : C = {j \in I : j < k}
    OBVIOUS
  <2>3. B \in SUBSET C /\ i \in C /\ i \notin B
    <3>1. i \in Nat /\ k \in Nat /\ \A j \in B : j \in Nat /\ j \in I /\ j < i
      BY <2>1
    <3>2. \A j \in B : j < k
      BY <1>3, <3>1
    <3>3. \A j \in B : j \in C
      BY <2>2, <3>1, <3>2
    <3>4. i \in C
      BY <1>3, <2>2
    <3>5. i \notin B
      BY <3>1
    <3> QED
      BY <3>3, <3>4, <3>5
  <2>4. IsFiniteSet(C) /\ Cardinality(C) \in Nat /\ Cardinality(B) \in Nat
    <3>1. C \in SUBSET I /\ B \in SUBSET I
      BY <2>1, <2>2
    <3> QED
      BY <3>1, FS_Subset, FS_CardinalityType
  <2>5. Cardinality(B) <= Cardinality(C) /\ Cardinality(B) # Cardinality(C)
    BY <2>3, <2>4, FS_Subset
  <2> QED
    BY <2>1, <2>2, <2>4, <2>5 DEF CoreRank
<1>4. \A i, k \in I : CoreRank(I, i) = CoreRank(I, k) => i = k
  <2>1. SUFFICES ASSUME NEW i \in I, NEW k \in I, i # k
                 PROVE  CoreRank(I, i) # CoreRank(I, k)
    OBVIOUS
  <2>2. i < k \/ k < i
    BY <2>1
  <2>3. CoreRank(I, i) \in Nat /\ CoreRank(I, k) \in Nat
    BY <1>2
  <2> QED
    BY <1>3, <2>2, <2>3
<1>5. \A n \in 1 .. Cardinality(I) : \E i \in I : CoreRank(I, i) = n - 1
  <2>1. PICK r : r = [i \in I |-> CoreRank(I, i) + 1]
    OBVIOUS
  <2>2. r \in [I -> 1 .. Cardinality(I)]
    <3>1. \A i \in I : CoreRank(I, i) + 1 \in 1 .. Cardinality(I)
      BY <1>1, <1>2
    <3> QED
      BY <2>1, <3>1
  <2>3. \A i, k \in I : r[i] = r[k] => i = k
    <3>1. \A i, k \in I : CoreRank(I, i) + 1 = CoreRank(I, k) + 1
                             => CoreRank(I, i) = CoreRank(I, k)
      BY <1>2
    <3> QED
      BY <1>4, <2>1, <3>1
  <2>4. r \in Injection(I, 1 .. Cardinality(I))
    BY <2>2, <2>3 DEF Injection, IsInjective
  <2>5. /\ IsFiniteSet(1 .. Cardinality(I))
        /\ Cardinality(1 .. Cardinality(I)) = Cardinality(I)
    <3>1. /\ IsFiniteSet(1 .. Cardinality(I))
          /\ Cardinality(1 .. Cardinality(I)) =
                IF 1 > Cardinality(I) THEN 0 ELSE Cardinality(I) - 1 + 1
      BY <1>1, FS_Interval
    <3> QED
      BY <1>1, <3>1
  <2>6. r \in Surjection(I, 1 .. Cardinality(I))
    BY <2>4, <2>5, FS_Injection
  <2>7. \A n \in 1 .. Cardinality(I) : \E i \in I : r[i] = n
    BY <2>6 DEF Surjection
  <2>8. ASSUME NEW n \in 1 .. Cardinality(I)
        PROVE  \E i \in I : CoreRank(I, i) = n - 1
    <3>1. PICK i \in I : r[i] = n
      BY <2>7
    <3>2. CoreRank(I, i) + 1 = n
      BY <2>1, <3>1
    <3> QED
      BY <1>2, <3>2
  <2> QED
    BY <2>8
<1>6. ASSUME NEW n \in 1 .. Cardinality(I)
      PROVE  Core!Place(I, n) \in I /\ CoreRank(I, Core!Place(I, n)) = n - 1
  <2>1. Core!Place(I, n) = CHOOSE i \in I : CoreRank(I, i) = n - 1
    BY CoreCounts DEF Core!Place, CoreRank
  <2> QED
    BY <1>5, <2>1
<1>7. ASSUME NEW i \in I
      PROVE  \E n \in 1 .. Cardinality(I) : Core!Place(I, n) = i
  <2>1. PICK n \in 1 .. Cardinality(I) : n = CoreRank(I, i) + 1
    BY <1>1, <1>2
  <2>2. CoreRank(I, Core!Place(I, n)) = CoreRank(I, i)
    BY <1>2, <1>6, <2>1
  <2> QED
    BY <1>4, <1>6, <2>2
<1> QED
  BY <1>6, <1>7

\* What a filtered list has: the entries at the places kept, each once if the
\* list has it once.
LEMMA CoreFiltered ==
    ASSUME NEW S, NEW s \in Seq(S), NEW I \in SUBSET DOMAIN s
    PROVE  /\ Core!At(s, I) \in Seq(S)
           /\ Core!ToSet(Core!At(s, I)) = {s[i] : i \in I}
           /\ Core!IsInjective(s) => Core!IsInjective(Core!At(s, I))
<1>1. DOMAIN s = 1 .. Len(s) /\ Len(s) \in Nat
  OBVIOUS
<1>2. IsFiniteSet(I) /\ I \in SUBSET Nat
  <2>1. IsFiniteSet(1 .. Len(s))
    BY <1>1, FS_Interval
  <2> QED
    BY <1>1, <2>1, FS_Subset
<1>3. Cardinality(I) \in Nat
  BY <1>2, FS_CardinalityType
<1>4. PICK c : c = Core!At(s, I)
  OBVIOUS
<1>5. /\ c = [n \in 1 .. Cardinality(I) |-> s[Core!Place(I, n)]]
      /\ DOMAIN c = 1 .. Cardinality(I)
      /\ \A n \in 1 .. Cardinality(I) : c[n] = s[Core!Place(I, n)]
  BY <1>4, CoreCounts DEF Core!At
<1>6. /\ \A n \in 1 .. Cardinality(I) :
            Core!Place(I, n) \in I /\ CoreRank(I, Core!Place(I, n)) = n - 1
      /\ \A i \in I : \E n \in 1 .. Cardinality(I) : Core!Place(I, n) = i
  BY <1>2, CorePlaces
<1>7. c \in Seq(S)
  <2>1. \A n \in 1 .. Cardinality(I) : s[Core!Place(I, n)] \in S
    BY <1>1, <1>6
  <2> QED
    BY <1>3, <1>5, <2>1
<1>8. Core!ToSet(c) = {s[i] : i \in I}
  <2>1. ASSUME NEW x \in Core!ToSet(c)
        PROVE  x \in {s[i] : i \in I}
    BY <1>5, <1>6 DEF Core!ToSet
  <2>2. ASSUME NEW i \in I
        PROVE  s[i] \in Core!ToSet(c)
    BY <1>5, <1>6 DEF Core!ToSet
  <2> QED
    BY <2>1, <2>2
<1>9. ASSUME Core!IsInjective(s)
      PROVE  Core!IsInjective(c)
  <2>1. SUFFICES ASSUME NEW m \in 1 .. Cardinality(I), NEW n \in 1 .. Cardinality(I),
                        c[m] = c[n]
                 PROVE  m = n
    BY <1>5 DEF Core!IsInjective
  <2>2. Core!Place(I, m) = Core!Place(I, n)
    BY <1>5, <1>6, <1>9, <2>1 DEF Core!IsInjective
  <2>3. m - 1 = n - 1
    BY <1>6, <2>2
  <2> QED
    BY <2>3
<1> QED
  BY <1>4, <1>7, <1>8, <1>9

-----------------------------------------------------------------------------
\* A list with another one behind it.
LEMMA CoreConcat ==
    ASSUME NEW S, NEW s \in Seq(S), NEW r \in Seq(S)
    PROVE  /\ s \o r \in Seq(S)
           /\ Core!ToSet(s \o r) = Core!ToSet(s) \cup Core!ToSet(r)
           /\ (/\ Core!IsInjective(s) /\ Core!IsInjective(r)
               /\ Core!ToSet(s) \cap Core!ToSet(r) = {}) => Core!IsInjective(s \o r)
<1>1. PICK c : c = s \o r
  OBVIOUS
<1>2. /\ c \in Seq(S) /\ Len(c) = Len(s) + Len(r)
      /\ \A i \in 1 .. Len(s) + Len(r) :
            c[i] = IF i <= Len(s) THEN s[i] ELSE r[i - Len(s)]
  BY <1>1, ConcatProperties
<1>3. /\ Len(s) \in Nat /\ Len(r) \in Nat
      /\ DOMAIN s = 1 .. Len(s) /\ DOMAIN r = 1 .. Len(r)
      /\ DOMAIN c = 1 .. Len(s) + Len(r)
  BY <1>2
<1>4. /\ \A i \in 1 .. Len(s) : i \in DOMAIN c /\ c[i] = s[i]
      /\ \A i \in 1 .. Len(r) : Len(s) + i \in DOMAIN c /\ c[Len(s) + i] = r[i]
  <2>1. ASSUME NEW i \in 1 .. Len(s)
        PROVE  i \in DOMAIN c /\ c[i] = s[i]
    BY <1>2, <1>3
  <2>2. ASSUME NEW i \in 1 .. Len(r)
        PROVE  Len(s) + i \in DOMAIN c /\ c[Len(s) + i] = r[i]
    <3>1. /\ Len(s) + i \in 1 .. Len(s) + Len(r)
          /\ ~(Len(s) + i <= Len(s)) /\ (Len(s) + i) - Len(s) = i
      BY <1>3
    <3> QED
      BY <1>2, <1>3, <3>1
  <2> QED
    BY <2>1, <2>2
<1>5. \A i \in DOMAIN c : \/ i \in 1 .. Len(s)
                          \/ i - Len(s) \in 1 .. Len(r) /\ Len(s) + (i - Len(s)) = i
  BY <1>3
<1>6. Core!ToSet(c) = Core!ToSet(s) \cup Core!ToSet(r)
  <2>1. ASSUME NEW i \in DOMAIN c
        PROVE  c[i] \in Core!ToSet(s) \cup Core!ToSet(r)
    <3>1. CASE i \in 1 .. Len(s)
      BY <1>3, <1>4, <3>1 DEF Core!ToSet
    <3>2. CASE i - Len(s) \in 1 .. Len(r) /\ Len(s) + (i - Len(s)) = i
      <4>1. c[i] = r[i - Len(s)]
        BY <1>4, <3>2
      <4> QED
        BY <1>3, <3>2, <4>1 DEF Core!ToSet
    <3> QED
      BY <1>5, <3>1, <3>2
  <2>2. ASSUME NEW x \in Core!ToSet(s) \cup Core!ToSet(r)
        PROVE  x \in Core!ToSet(c)
    BY <1>3, <1>4 DEF Core!ToSet
  <2> QED
    BY <2>1, <2>2 DEF Core!ToSet
<1>7. ASSUME Core!IsInjective(s), Core!IsInjective(r),
             Core!ToSet(s) \cap Core!ToSet(r) = {}
      PROVE  Core!IsInjective(c)
  <2>1. SUFFICES ASSUME NEW i \in DOMAIN c, NEW j \in DOMAIN c, c[i] = c[j]
                 PROVE  i = j
    BY DEF Core!IsInjective
  <2>2. \A k \in 1 .. Len(s), l \in 1 .. Len(r) : s[k] # r[l]
    BY <1>3, <1>7 DEF Core!ToSet
  <2>3. \A k, l \in 1 .. Len(s) : s[k] = s[l] => k = l
    BY <1>3, <1>7 DEF Core!IsInjective
  <2>4. \A k, l \in 1 .. Len(r) : r[k] = r[l] => k = l
    BY <1>3, <1>7 DEF Core!IsInjective
  <2> QED
    BY <1>2, <1>3, <2>1, <2>2, <2>3, <2>4
<1> QED
  BY <1>1, <1>2, <1>6, <1>7

\* A list of one entry.
LEMMA CoreOne ==
    ASSUME NEW S, NEW e \in S
    PROVE  /\ <<e>> \in Seq(S) /\ Core!ToSet(<<e>>) = {e} /\ Core!IsInjective(<<e>>)
           /\ <<>> \in Seq(S) /\ Core!ToSet(<<>>) = {} /\ Core!IsInjective(<<>>)
  BY DEF Core!ToSet, Core!IsInjective

LEMMA CoreAppend ==
    ASSUME NEW S, NEW s \in Seq(S), NEW e \in S
    PROVE  /\ Append(s, e) \in Seq(S)
           /\ Core!ToSet(Append(s, e)) = Core!ToSet(s) \cup {e}
           /\ (Core!IsInjective(s) /\ e \notin Core!ToSet(s))
                 => Core!IsInjective(Append(s, e))
<1>1. /\ Append(s, e) \in Seq(S)
      /\ Append(s, e)[Len(s) + 1] = e
      /\ \A i \in 1 .. Len(s) : Append(s, e)[i] = s[i]
  OBVIOUS
<1>2. DOMAIN Append(s, e) = 1 .. Len(s) + 1 /\ DOMAIN s = 1 .. Len(s)
  OBVIOUS
<1>3. Core!ToSet(Append(s, e)) = Core!ToSet(s) \cup {e}
  BY <1>1, <1>2 DEF Core!ToSet
<1>4. ASSUME Core!IsInjective(s), e \notin Core!ToSet(s)
      PROVE  Core!IsInjective(Append(s, e))
  BY <1>1, <1>2, <1>4 DEF Core!ToSet, Core!IsInjective
<1> QED
  BY <1>1, <1>3, <1>4

-----------------------------------------------------------------------------
\* The callbacks of one kind that are complete, and those that are not.
LEMMA CoreDivides ==
    ASSUME CoreTypes, CoreWaits, NEW kind \in Core!Kinds, NEW have
    PROVE  /\ Core!Completed(kind, have) \in Seq(Types)
           /\ Core!IsInjective(Core!Completed(kind, have))
           /\ Core!ToSet(Core!Completed(kind, have)) =
                 {u \in Core!ToSet(resolutions[kind]) : Core!FoundAll(u, kind, have)}
           /\ Core!StillPending(kind, have) \in Seq(Types)
           /\ Core!IsInjective(Core!StillPending(kind, have))
           /\ Core!ToSet(Core!StillPending(kind, have)) =
                 {u \in Core!ToSet(resolutions[kind]) : ~Core!FoundAll(u, kind, have)}
<1>1. PICK s \in Seq(Types) : s = resolutions[kind]
  BY DEF CoreTypes
<1>2. Core!IsInjective(s)
  BY <1>1 DEF CoreWaits
<1>3. PICK I \in SUBSET DOMAIN s :
         I = {i \in DOMAIN s : Core!FoundAll(s[i], kind, have)}
  OBVIOUS
<1>4. PICK J \in SUBSET DOMAIN s : J = DOMAIN s \ I
  OBVIOUS
<1>5. Core!Ready(kind, have) = I
  BY <1>1, <1>3 DEF Core!Ready
<1>6. /\ Core!Completed(kind, have) = Core!At(s, I)
      /\ Core!StillPending(kind, have) = Core!At(s, J)
  BY <1>1, <1>4, <1>5 DEF Core!Completed, Core!StillPending
<1>7. /\ {s[i] : i \in I} = {u \in Core!ToSet(s) : Core!FoundAll(u, kind, have)}
      /\ {s[i] : i \in J} = {u \in Core!ToSet(s) : ~Core!FoundAll(u, kind, have)}
  BY <1>3, <1>4 DEF Core!ToSet
<1>8. /\ Core!At(s, I) \in Seq(Types) /\ Core!IsInjective(Core!At(s, I))
      /\ Core!ToSet(Core!At(s, I)) = {s[i] : i \in I}
  BY <1>2, CoreFiltered
<1>9. /\ Core!At(s, J) \in Seq(Types) /\ Core!IsInjective(Core!At(s, J))
      /\ Core!ToSet(Core!At(s, J)) = {s[i] : i \in J}
  BY <1>2, CoreFiltered
<1> QED
  BY <1>1, <1>6, <1>7, <1>8, <1>9

\* The calls of the complete ones.
LEMMA CoreCalls ==
    ASSUME CoreTypes, CoreWaits, NEW kind \in Core!Kinds, NEW have
    PROVE  /\ Core!CallbacksOf(kind, have) \in Seq(Types \X Core!Kinds)
           /\ Core!IsInjective(Core!CallbacksOf(kind, have))
           /\ \A c : c \in Core!ToSet(Core!CallbacksOf(kind, have)) <=>
                        \E u \in Core!ToSet(resolutions[kind]) :
                            c = <<u, kind>> /\ Core!FoundAll(u, kind, have)
<1>1. PICK s \in Seq(Types) : s = Core!Completed(kind, have)
  BY CoreDivides
<1>2. /\ Core!IsInjective(s)
      /\ Core!ToSet(s) = {u \in Core!ToSet(resolutions[kind]) :
                             Core!FoundAll(u, kind, have)}
  BY <1>1, CoreDivides
<1>3. PICK c : c = Core!CallbacksOf(kind, have)
  OBVIOUS
<1>4. c = [i \in 1 .. Len(s) |-> <<s[i], kind>>]
  BY <1>1, <1>3 DEF Core!CallbacksOf
<1>5. Len(s) \in Nat /\ DOMAIN s = 1 .. Len(s) /\ \A i \in 1 .. Len(s) : s[i] \in Types
  OBVIOUS
<1>6. c \in Seq(Types \X Core!Kinds)
  <2>1. \A i \in 1 .. Len(s) : <<s[i], kind>> \in Types \X Core!Kinds
    BY <1>5
  <2> QED
    BY <1>4, <1>5, <2>1
<1>7. DOMAIN c = 1 .. Len(s) /\ \A i \in 1 .. Len(s) : c[i] = <<s[i], kind>>
  BY <1>4
<1>8. Core!IsInjective(c)
  BY <1>2, <1>5, <1>7 DEF Core!IsInjective
<1>9. \A e : e \in Core!ToSet(c) <=> \E u \in Core!ToSet(s) : e = <<u, kind>>
  BY <1>5, <1>7 DEF Core!ToSet
<1> QED
  BY <1>2, <1>3, <1>6, <1>8, <1>9

\* What AddFeature calls: of both kinds.
LEMMA CoreReady ==
    ASSUME CoreTypes, CoreWaits, NEW have
    PROVE  /\ Core!Available(have) \in Seq(Types \X Core!Kinds)
           /\ Core!IsInjective(Core!Available(have))
           /\ \A c : c \in Core!ToSet(Core!Available(have)) <=>
                        \E kind \in Core!Kinds : \E u \in Core!ToSet(resolutions[kind]) :
                            c = <<u, kind>> /\ Core!FoundAll(u, kind, have)
<1>1. Core!Kinds = {"required", "optional"}
  BY DEF Core!Kinds
<1>2. PICK r \in Seq(Types \X Core!Kinds) : r = Core!CallbacksOf("required", have)
  BY <1>1, CoreCalls
<1>3. PICK o \in Seq(Types \X Core!Kinds) : o = Core!CallbacksOf("optional", have)
  BY <1>1, CoreCalls
<1>4. /\ Core!IsInjective(r)
      /\ \A c : c \in Core!ToSet(r) <=>
                   \E u \in Core!ToSet(resolutions["required"]) :
                       c = <<u, "required">> /\ Core!FoundAll(u, "required", have)
  BY <1>1, <1>2, CoreCalls
<1>5. /\ Core!IsInjective(o)
      /\ \A c : c \in Core!ToSet(o) <=>
                   \E u \in Core!ToSet(resolutions["optional"]) :
                       c = <<u, "optional">> /\ Core!FoundAll(u, "optional", have)
  BY <1>1, <1>3, CoreCalls
<1>6. Core!ToSet(r) \cap Core!ToSet(o) = {}
  BY <1>4, <1>5
<1>7. Core!Available(have) = r \o o
  BY <1>2, <1>3 DEF Core!Available
<1>8. /\ r \o o \in Seq(Types \X Core!Kinds) /\ Core!IsInjective(r \o o)
      /\ Core!ToSet(r \o o) = Core!ToSet(r) \cup Core!ToSet(o)
  BY <1>4, <1>5, <1>6, CoreConcat
<1> QED
  BY <1>1, <1>4, <1>5, <1>7, <1>8

-----------------------------------------------------------------------------
\* AddFeature, whoever calls it: the callbacks it completes move from the lists
\* of those that wait to those that were called.
LEMMA CoreAddMoves ==
    ASSUME CoreTypes, CoreWaits, CoreRunsOnce, CoreNoneLost, phase # "failed",
           NEW t \in Types, NEW next \in {"apps", "essential"}, Core!AddFeature(t, next)
    PROVE  /\ UNCHANGED <<config, todo>>
           /\ features' \in Seq(Types)
           /\ Core!Registered' = Core!Registered \cup {t}
           /\ resolutions' \in [Core!Kinds -> Seq(Types)]
           /\ called' \in Seq(Types \X Core!Kinds)
           /\ CoreWaits' /\ CoreRunsOnce' /\ CoreNoneLost'
           /\ phase' \in {next, "failed"}
           /\ phase' = "failed" => erred' # {}
<1> DEFINE there == Core!Registered \cup {t}
           ready == Core!Available(there)
<1>1. /\ UNCHANGED <<config, todo>>
      /\ features' = Append(features, t)
      /\ resolutions' = [kind \in Core!Kinds |-> Core!StillPending(kind, there)]
      /\ called' = called \o ready
  BY DEF Core!AddFeature
<1>2. PICK errs \in SUBSET Core!ToSet(ready) :
         /\ erred' = erred \cup errs
         /\ IF ready # <<>> /\ Core!Last(ready) \in errs THEN phase' = "failed"
                                                         ELSE phase' = next
  BY DEF Core!AddFeature, Core!Fail
<1>3. phase' \in {next, "failed"} /\ (phase' = "failed" => erred' # {})
  <2>1. PICK r \in Seq(Types \X Core!Kinds) : r = ready
    BY CoreReady
  <2> QED
    BY <1>2
<1>4. features' \in Seq(Types) /\ Core!Registered' = there
  <2>1. features \in Seq(Types)
    BY DEF CoreTypes
  <2>2. /\ Append(features, t) \in Seq(Types)
        /\ Core!ToSet(Append(features, t)) = Core!ToSet(features) \cup {t}
    BY <2>1, CoreAppend
  <2> QED
    BY <1>1, <2>2 DEF Core!Registered
<1>5. Core!Created' = Core!Created
  BY <1>1 DEF Core!Created, Core!Apps
<1>6. ASSUME NEW u, NEW kind
      PROVE  /\ Core!FoundAll(u, kind, Core!Registered)' <=> Core!FoundAll(u, kind, there)
             /\ Core!FoundAll(u, kind, Core!Registered) => Core!FoundAll(u, kind, there)
  BY <1>1, <1>4 DEF Core!FoundAll
<1>7. ASSUME NEW kind \in Core!Kinds
      PROVE  /\ resolutions'[kind] \in Seq(Types) /\ Core!IsInjective(resolutions'[kind])
             /\ Core!ToSet(resolutions'[kind]) =
                   {u \in Core!ToSet(resolutions[kind]) : ~Core!FoundAll(u, kind, there)}
  <2>1. resolutions'[kind] = Core!StillPending(kind, there)
    BY <1>1
  <2> QED
    BY <2>1, CoreDivides
<1>8. resolutions' \in [Core!Kinds -> Seq(Types)]
  <2>1. \A kind \in Core!Kinds : Core!StillPending(kind, there) \in Seq(Types)
    BY CoreDivides
  <2> QED
    BY <1>1, <2>1
<1>9. CoreWaits'
  <2>1. ASSUME NEW kind \in Core!Kinds, NEW u \in Core!ToSet(resolutions'[kind])
        PROVE  u \in Core!Created' /\ ~Core!FoundAll(u, kind, Core!Registered)'
    BY <1>5, <1>6, <1>7 DEF CoreWaits
  <2> QED
    BY <1>7, <2>1 DEF CoreWaits
<1>10. /\ ready \in Seq(Types \X Core!Kinds) /\ Core!IsInjective(ready)
       /\ \A c : c \in Core!ToSet(ready) <=>
                    \E kind \in Core!Kinds : \E u \in Core!ToSet(resolutions[kind]) :
                        c = <<u, kind>> /\ Core!FoundAll(u, kind, there)
  BY CoreReady
<1>11. \A kind \in Core!Kinds : Core!ToSet(resolutions[kind]) \subseteq Types
  BY DEF CoreTypes, Core!ToSet
<1>12. Core!ToSet(called) \cap Core!ToSet(ready) = {}
  <2>1. SUFFICES ASSUME NEW c \in Core!ToSet(ready)
                 PROVE  c \notin Core!ToSet(called)
    OBVIOUS
  <2>2. PICK kind \in Core!Kinds :
           \E u \in Core!ToSet(resolutions[kind]) : c = <<u, kind>>
    BY <1>10, <2>1
  <2>3. PICK u \in Core!ToSet(resolutions[kind]) : c = <<u, kind>>
    BY <2>2
  <2>4. ~Core!FoundAll(u, kind, Core!Registered)
    BY <2>3 DEF CoreWaits
  <2>5. u \in Types
    BY <1>11, <2>3
  <2> QED
    BY <2>3, <2>4, <2>5 DEF CoreRunsOnce
<1>13. /\ called' \in Seq(Types \X Core!Kinds) /\ Core!IsInjective(called')
       /\ Core!ToSet(called') = Core!ToSet(called) \cup Core!ToSet(ready)
  <2>1. called \in Seq(Types \X Core!Kinds) /\ Core!IsInjective(called)
    BY DEF CoreTypes, CoreRunsOnce
  <2>2. PICK r \in Seq(Types \X Core!Kinds) : r = ready
    BY <1>10
  <2>3. Core!IsInjective(r) /\ Core!ToSet(called) \cap Core!ToSet(r) = {}
    BY <1>10, <1>12, <2>2
  <2>4. /\ called \o r \in Seq(Types \X Core!Kinds) /\ Core!IsInjective(called \o r)
        /\ Core!ToSet(called \o r) = Core!ToSet(called) \cup Core!ToSet(r)
    BY <2>1, <2>3, CoreConcat
  <2> QED
    BY <1>1, <2>2, <2>4
<1>14. CoreRunsOnce'
  <2>1. ASSUME NEW u \in Types, NEW kind \in Core!Kinds,
               <<u, kind>> \in Core!ToSet(called')
        PROVE  u \in Core!Created' /\ Core!FoundAll(u, kind, Core!Registered)'
    <3>1. CASE <<u, kind>> \in Core!ToSet(called)
      BY <1>5, <1>6, <3>1 DEF CoreRunsOnce
    <3>2. CASE <<u, kind>> \in Core!ToSet(ready)
      <4>1. PICK which \in Core!Kinds : \E v \in Core!ToSet(resolutions[which]) :
               <<u, kind>> = <<v, which>> /\ Core!FoundAll(v, which, there)
        BY <1>10, <3>2
      <4>2. u \in Core!ToSet(resolutions[kind]) /\ Core!FoundAll(u, kind, there)
        BY <4>1
      <4> QED
        BY <1>5, <1>6, <4>2 DEF CoreWaits
    <3> QED
      BY <1>13, <2>1, <3>1, <3>2
  <2> QED
    BY <1>13, <2>1 DEF CoreRunsOnce
<1>15. CoreNoneLost'
  <2>1. ASSUME NEW u \in Core!Created', NEW kind \in Core!Kinds
        PROVE  \/ config'[u][kind] = {} \/ <<u, kind>> \in Core!ToSet(called')
               \/ u \in Core!ToSet(resolutions'[kind])
    <3>1. \/ config[u][kind] = {} \/ <<u, kind>> \in Core!ToSet(called)
          \/ u \in Core!ToSet(resolutions[kind])
      BY <1>5, <2>1 DEF CoreNoneLost
    <3>2. ASSUME u \in Core!ToSet(resolutions[kind]), Core!FoundAll(u, kind, there)
          PROVE  <<u, kind>> \in Core!ToSet(ready)
      BY <1>10, <3>2
    <3> QED
      BY <1>1, <1>7, <1>13, <3>1, <3>2
  <2> QED
    BY <2>1 DEF CoreNoneLost
<1> QED
  BY <1>1, <1>3, <1>4, <1>8, <1>9, <1>13, <1>14, <1>15

\* What is called when an app is created: about the new app only, and each
\* kind once at most.
LEMMA CoreCallsOfNew ==
    ASSUME CoreTypes, NEW t \in Types, NEW kind \in Core!Kinds
    PROVE  /\ Core!Require(t, kind) \in Seq(Types \X Core!Kinds)
           /\ Core!IsInjective(Core!Require(t, kind))
           /\ \A c : c \in Core!ToSet(Core!Require(t, kind)) <=>
                        /\ c = <<t, kind>> /\ config[t][kind] # {}
                        /\ Core!FoundAll(t, kind, Core!Registered)
<1>1. PICK e \in Types \X Core!Kinds : e = <<t, kind>>
  OBVIOUS
<1>2. /\ <<e>> \in Seq(Types \X Core!Kinds) /\ Core!ToSet(<<e>>) = {e}
      /\ Core!IsInjective(<<e>>)
      /\ <<>> \in Seq(Types \X Core!Kinds) /\ Core!ToSet(<<>>) = {}
      /\ Core!IsInjective(<<>>)
  BY CoreOne
<1>3. CASE config[t][kind] # {} /\ Core!FoundAll(t, kind, Core!Registered)
  <2>1. Core!Require(t, kind) = <<e>>
    BY <1>1, <1>3 DEF Core!Require
  <2> QED
    BY <1>1, <1>2, <1>3, <2>1
<1>4. CASE ~(config[t][kind] # {} /\ Core!FoundAll(t, kind, Core!Registered))
  <2>1. Core!Require(t, kind) = <<>>
    BY <1>4 DEF Core!Require
  <2> QED
    BY <1>2, <1>4, <2>1
<1> QED
  BY <1>3, <1>4

\* The calls at a creation follow what was called before.
LEMMA CoreGrows ==
    ASSUME CoreTypes, CoreRunsOnce, NEW t \in todo,
           NEW first \in Seq(Types \X Core!Kinds), NEW second \in Seq(Types \X Core!Kinds),
           \/ first = <<>> \/ first = Core!Require(t, "required"),
           second = Core!Require(t, "optional")
           \/ (first = <<>> /\ second = Core!Require(t, "required")),
           called' = called \o first \o second
    PROVE  /\ called' \in Seq(Types \X Core!Kinds) /\ Core!IsInjective(called')
           /\ Core!ToSet(called') =
                 Core!ToSet(called) \cup Core!ToSet(first) \cup Core!ToSet(second)
           /\ \A u \in Types, kind \in Core!Kinds :
                 <<u, kind>> \in Core!ToSet(called') =>
                     \/ <<u, kind>> \in Core!ToSet(called)
                     \/ u = t /\ Core!FoundAll(t, kind, Core!Registered)
<1>1. Core!Kinds = {"required", "optional"} /\ t \in Types /\ t \notin Core!Created
  BY DEF Core!Kinds, Core!Created, CoreTypes
<1>2. /\ Core!IsInjective(first) /\ Core!IsInjective(second)
      /\ \A c \in Core!ToSet(first) :
            c = <<t, "required">> /\ Core!FoundAll(t, "required", Core!Registered)
      /\ \A c \in Core!ToSet(second) :
            \/ c = <<t, "optional">> /\ Core!FoundAll(t, "optional", Core!Registered)
            \/ /\ c = <<t, "required">> /\ Core!FoundAll(t, "required", Core!Registered)
               /\ first = <<>>
      /\ first = <<>> => Core!ToSet(first) = {}
  <2>1. Core!IsInjective(<<>>) /\ Core!ToSet(<<>>) = {}
    BY DEF Core!IsInjective, Core!ToSet
  <2> QED
    BY <1>1, <2>1, CoreCallsOfNew
<1>3. Core!ToSet(first) \cap Core!ToSet(second) = {}
  BY <1>2
<1>4. called \in Seq(Types \X Core!Kinds) /\ Core!IsInjective(called)
  BY DEF CoreTypes, CoreRunsOnce
<1>5. \A kind \in Core!Kinds : <<t, kind>> \notin Core!ToSet(called)
  BY <1>1 DEF CoreRunsOnce
<1>6. PICK s \in Seq(Types \X Core!Kinds) : s = called \o first
  BY <1>4, CoreConcat
<1>7. Core!IsInjective(s) /\ Core!ToSet(s) = Core!ToSet(called) \cup Core!ToSet(first)
  <2>1. Core!ToSet(called) \cap Core!ToSet(first) = {}
    BY <1>1, <1>2, <1>5
  <2> QED
    BY <1>2, <1>4, <1>6, <2>1, CoreConcat
<1>8. Core!ToSet(s) \cap Core!ToSet(second) = {}
  BY <1>1, <1>2, <1>3, <1>5, <1>7
<1>9. called' = s \o second
  BY <1>6
<1>10. /\ called' \in Seq(Types \X Core!Kinds) /\ Core!IsInjective(called')
       /\ Core!ToSet(called') = Core!ToSet(s) \cup Core!ToSet(second)
  BY <1>2, <1>7, <1>8, <1>9, CoreConcat
<1> QED
  BY <1>1, <1>2, <1>7, <1>10

-----------------------------------------------------------------------------
LEMMA CoreInit == ASSUME Core!TypesAssumption, Core!Init PROVE CoreInv
<1> USE DEF Core!Init
<1>1. /\ Core!ToSet(<<>>) = {} /\ Core!IsInjective(<<>>)
      /\ \A S : <<>> \in Seq(S)
  BY DEF Core!ToSet, Core!IsInjective
<1>2. Core!Apps = todo /\ Core!Created = {} /\ Core!Registered = {}
  BY <1>1 DEF Core!Apps, Core!Created, Core!Registered
<1>3. CoreTypes
  BY <1>1, <1>2 DEF CoreTypes, CorePhases
<1>4. CoreWaits /\ CoreRunsOnce /\ CoreNoneLost
  BY <1>1, <1>2 DEF CoreWaits, CoreRunsOnce, CoreNoneLost
<1>5. CoreAdded /\ CoreComesUp
  BY <1>2 DEF CoreAdded, CoreComesUp
<1> QED
  BY <1>3, <1>4, <1>5 DEF CoreInv

LEMMA CoreCreateKeeps ==
    ASSUME Core!TypesAssumption, CoreInv, NEW t \in Types, Core!CreateObject(t)
    PROVE  CoreInv'
<1>1. /\ phase = "apps" /\ adding = NoOne /\ t \in todo
      /\ todo' = todo \ {t}
      /\ resolutions' = [kind \in Core!Kinds |-> Core!Waiting(t, kind)]
      /\ UNCHANGED <<config, features, live>>
  BY DEF Core!CreateObject
<1>2. CoreTypes /\ CoreWaits /\ CoreRunsOnce /\ CoreNoneLost /\ CoreAdded
  BY DEF CoreInv
<1>3. Core!Kinds = {"required", "optional"}
  BY DEF Core!Kinds
<1>4. /\ Core!Apps' = Core!Apps /\ Core!Registered' = Core!Registered
      /\ t \notin Core!Created /\ t \in Core!Apps
      /\ Core!Created' = Core!Created \cup {t} /\ NoOne \notin Core!Apps
  BY <1>1, <1>2 DEF Core!Apps, Core!Created, Core!Registered, CoreTypes,
                    Core!TypesAssumption
<1>5. \A u, kind : Core!FoundAll(u, kind, Core!Registered)'
                      <=> Core!FoundAll(u, kind, Core!Registered)
  BY <1>1, <1>4 DEF Core!FoundAll
<1>6. ASSUME NEW kind \in Core!Kinds
      PROVE  /\ resolutions'[kind] \in Seq(Types) /\ Core!IsInjective(resolutions'[kind])
             /\ Core!ToSet(resolutions[kind]) \subseteq Core!ToSet(resolutions'[kind])
             /\ \A u \in Core!ToSet(resolutions'[kind]) :
                   \/ u \in Core!ToSet(resolutions[kind])
                   \/ u = t /\ ~Core!FoundAll(t, kind, Core!Registered)
             /\ \/ config[t][kind] = {} \/ Core!FoundAll(t, kind, Core!Registered)
                \/ t \in Core!ToSet(resolutions'[kind])
  <2>1. resolutions'[kind] = Core!Waiting(t, kind)
    BY <1>1
  <2>2. PICK s \in Seq(Types) : s = resolutions[kind]
    BY <1>2 DEF CoreTypes
  <2>3. Core!IsInjective(s) /\ t \notin Core!ToSet(s)
    BY <1>2, <1>4, <2>2 DEF CoreWaits
  <2>4. /\ Append(s, t) \in Seq(Types) /\ Core!IsInjective(Append(s, t))
        /\ Core!ToSet(Append(s, t)) = Core!ToSet(s) \cup {t}
    BY <2>3, CoreAppend
  <2>5. CASE config[t][kind] # {} /\ ~Core!FoundAll(t, kind, Core!Registered)
    <3>1. resolutions'[kind] = Append(s, t)
      BY <2>1, <2>2, <2>5 DEF Core!Waiting
    <3> QED
      BY <2>2, <2>4, <2>5, <3>1
  <2>6. CASE ~(config[t][kind] # {} /\ ~Core!FoundAll(t, kind, Core!Registered))
    <3>1. resolutions'[kind] = s
      BY <2>1, <2>2, <2>6 DEF Core!Waiting
    <3> QED
      BY <2>2, <2>3, <2>6, <3>1
  <2> QED
    BY <2>5, <2>6
<1>7. resolutions' \in [Core!Kinds -> Seq(Types)]
  BY <1>1, <1>6
<1>8. CoreWaits'
  <2>1. ASSUME NEW kind \in Core!Kinds, NEW u \in Core!ToSet(resolutions'[kind])
        PROVE  u \in Core!Created' /\ ~Core!FoundAll(u, kind, Core!Registered)'
    BY <1>2, <1>4, <1>5, <1>6 DEF CoreWaits
  <2> QED
    BY <1>6, <2>1 DEF CoreWaits
<1>9. \A kind \in Core!Kinds :
         /\ Core!Require(t, kind) \in Seq(Types \X Core!Kinds)
         /\ \A c : c \in Core!ToSet(Core!Require(t, kind)) <=>
                      /\ c = <<t, kind>> /\ config[t][kind] # {}
                      /\ Core!FoundAll(t, kind, Core!Registered)
  BY <1>2, CoreCallsOfNew
<1>10. ASSUME NEW first \in Seq(Types \X Core!Kinds),
              NEW second \in Seq(Types \X Core!Kinds),
              \/ first = <<>> \/ first = Core!Require(t, "required"),
              second = Core!Require(t, "optional")
              \/ (first = <<>> /\ second = Core!Require(t, "required")),
              called' = called \o first \o second
       PROVE  /\ called' \in Seq(Types \X Core!Kinds) /\ CoreRunsOnce'
              /\ Core!ToSet(called') =
                    Core!ToSet(called) \cup Core!ToSet(first) \cup Core!ToSet(second)
  <2>1. /\ called' \in Seq(Types \X Core!Kinds) /\ Core!IsInjective(called')
        /\ Core!ToSet(called') =
              Core!ToSet(called) \cup Core!ToSet(first) \cup Core!ToSet(second)
        /\ \A u \in Types, kind \in Core!Kinds :
              <<u, kind>> \in Core!ToSet(called') =>
                  \/ <<u, kind>> \in Core!ToSet(called)
                  \/ u = t /\ Core!FoundAll(t, kind, Core!Registered)
    BY <1>1, <1>2, <1>10, CoreGrows
  <2>2. ASSUME NEW u \in Types, NEW kind \in Core!Kinds,
               <<u, kind>> \in Core!ToSet(called')
        PROVE  u \in Core!Created' /\ Core!FoundAll(u, kind, Core!Registered)'
    BY <1>2, <1>4, <1>5, <2>1, <2>2 DEF CoreRunsOnce
  <2> QED
    BY <2>1, <2>2 DEF CoreRunsOnce
<1>11. CASE /\ called' = called \o Core!Require(t, "required")
                                \o Core!Require(t, "optional")
            /\ adding' = t /\ UNCHANGED <<phase, erred>>
  <2>1. /\ called' \in Seq(Types \X Core!Kinds) /\ CoreRunsOnce'
        /\ Core!ToSet(called') = Core!ToSet(called)
              \cup Core!ToSet(Core!Require(t, "required"))
              \cup Core!ToSet(Core!Require(t, "optional"))
    BY <1>3, <1>9, <1>10, <1>11
  <2>2. CoreTypes'
    BY <1>1, <1>2, <1>4, <1>7, <1>11, <2>1 DEF CoreTypes
  <2>3. CoreNoneLost'
    <3>1. ASSUME NEW u \in Core!Created', NEW kind \in Core!Kinds
          PROVE  \/ config[u][kind] = {} \/ <<u, kind>> \in Core!ToSet(called')
                 \/ u \in Core!ToSet(resolutions'[kind])
      <4>1. CASE u = t
        BY <1>3, <1>6, <1>9, <2>1, <4>1
      <4>2. CASE u # t
        BY <1>1, <1>2, <1>4, <1>6, <2>1, <4>2 DEF CoreNoneLost
      <4> QED
        BY <4>1, <4>2
    <3> QED
      BY <1>1, <3>1 DEF CoreNoneLost
  <2>4. CoreAdded'
    BY <1>1, <1>2, <1>4, <1>11 DEF CoreAdded, CoreTypes, Core!Created
  <2>5. CoreComesUp'
    BY <1>1, <1>11 DEF CoreComesUp
  <2> QED
    BY <1>8, <2>1, <2>2, <2>3, <2>4, <2>5 DEF CoreInv
<1>12. ASSUME NEW kind \in Core!Kinds,
              called' = called \o (IF kind = "optional" THEN Core!Require(t, "required")
                                   ELSE <<>>) \o Core!Require(t, kind),
              erred' = erred \cup {<<t, kind>>}, phase' = "failed", adding' = adding
       PROVE  CoreInv'
  <2>1. called' \in Seq(Types \X Core!Kinds) /\ CoreRunsOnce'
    <3>1. <<>> \in Seq(Types \X Core!Kinds)
      OBVIOUS
    <3> QED
      BY <1>3, <1>9, <1>10, <1>12, <3>1
  <2>2. CoreTypes'
    BY <1>1, <1>2, <1>4, <1>7, <1>12, <2>1 DEF CoreTypes, CorePhases
  <2>3. CoreNoneLost' /\ CoreComesUp'
    BY <1>12 DEF CoreNoneLost, CoreComesUp
  <2>4. CoreAdded'
    BY <1>1, <1>2, <1>4, <1>12 DEF CoreAdded
  <2> QED
    BY <1>8, <2>1, <2>2, <2>3, <2>4 DEF CoreInv
<1> QED
  BY <1>11, <1>12 DEF Core!CreateObject, Core!Fail

LEMMA CoreAddKeeps ==
    ASSUME Core!TypesAssumption, CoreInv, Core!AddApp \/ Core!AddEssential
    PROVE  CoreInv'
<1>1. CoreTypes /\ CoreWaits /\ CoreRunsOnce /\ CoreNoneLost /\ CoreAdded /\ CoreComesUp
  BY DEF CoreInv
<1>2. PICK t \in Types, next \in {"apps", "essential"} :
         /\ Core!AddFeature(t, next) /\ phase \in {"apps", "essential"}
         /\ adding' = NoOne
         /\ \/ t = adding /\ adding # NoOne /\ phase = "apps" /\ next = "apps"
            \/ t \in Essential /\ adding = NoOne /\ todo = {}
  <2>1. CASE Core!AddApp
    <3>1. phase = "apps" /\ adding \in Types /\ adding # NoOne
      BY <1>1, <2>1 DEF Core!AddApp, CoreAdded, CoreTypes, Core!Created
    <3> QED
      BY <2>1, <3>1 DEF Core!AddApp
  <2>2. CASE Core!AddEssential
    BY <2>2 DEF Core!AddEssential, Core!TypesAssumption
  <2> QED
    BY <2>1, <2>2
<1>3. /\ UNCHANGED <<config, todo>>
      /\ features' \in Seq(Types)
      /\ Core!Registered' = Core!Registered \cup {t}
      /\ resolutions' \in [Core!Kinds -> Seq(Types)]
      /\ called' \in Seq(Types \X Core!Kinds)
      /\ CoreWaits' /\ CoreRunsOnce' /\ CoreNoneLost'
      /\ phase' \in {next, "failed"}
      /\ phase' = "failed" => erred' # {}
  BY <1>1, <1>2, CoreAddMoves
<1>4. Core!Apps' = Core!Apps /\ Core!Created' = Core!Created /\ Core!Created \subseteq Types
  BY <1>1, <1>3 DEF Core!Apps, Core!Created, CoreTypes
<1>5. CoreTypes'
  BY <1>1, <1>2, <1>3, <1>4 DEF CoreTypes, CorePhases
<1>6. CoreAdded'
  <2>1. adding \in Core!Created \cup {NoOne} /\ NoOne \notin Core!Created
    BY <1>1, <1>4 DEF CoreTypes, Core!TypesAssumption
  <2>2. Core!Registered' \subseteq (Core!Created \ {NoOne}) \cup Essential
    BY <1>1, <1>2, <1>3, <2>1 DEF CoreAdded
  <2>3. Core!Created \ {NoOne} \subseteq Core!Registered'
    BY <1>1, <1>2, <1>3, <2>1 DEF CoreAdded
  <2>4. phase' \notin {"apps", "failed"} => todo' = {}
    BY <1>2, <1>3
  <2> QED
    BY <1>2, <1>4, <2>2, <2>3, <2>4 DEF CoreAdded
<1>7. CoreComesUp'
  BY <1>2, <1>3 DEF CoreComesUp
<1> QED
  BY <1>3, <1>5, <1>6, <1>7 DEF CoreInv

LEMMA CoreCheckKeeps ==
    ASSUME Core!TypesAssumption, CoreInv, Core!CheckPending
    PROVE  CoreInv'
<1>1. /\ phase \in {"apps", "essential"} /\ todo = {} /\ adding = NoOne
      /\ Essential \subseteq Core!Registered
      /\ phase' = IF Core!Resolved THEN "ready" ELSE "failed"
      /\ UNCHANGED <<config, todo, adding, features, resolutions, called, erred>>
  BY DEF Core!CheckPending, Core!Fail
<1>2. CoreTypes /\ CoreWaits /\ CoreRunsOnce /\ CoreNoneLost /\ CoreAdded
  BY DEF CoreInv
<1>3. /\ Core!Created = Core!Apps /\ Core!Created \ {adding} = Core!Apps
      /\ "required" \in Core!Kinds
  BY <1>1, <1>2 DEF Core!Created, CoreTypes, Core!TypesAssumption, Core!Kinds
<1>4. Core!Registered = Core!Apps \cup Essential
  BY <1>1, <1>2, <1>3 DEF CoreAdded
<1>5. Core!Resolved => CoreComplete
  <2>1. SUFFICES ASSUME Core!Resolved, NEW t \in Core!Apps
                 PROVE  config[t]["required"] \subseteq Core!Registered
    BY <1>4 DEF CoreComplete
  <2>2. t \notin Core!ToSet(resolutions["required"])
    BY <2>1 DEF Core!Resolved, Core!ToSet
  <2>3. config[t]["required"] = {} \/ <<t, "required">> \in Core!ToSet(called)
    BY <1>1, <1>2, <1>3, <2>2 DEF CoreNoneLost
  <2>4. t \in Types
    BY <1>2 DEF CoreTypes
  <2> QED
    BY <1>2, <1>3, <2>3, <2>4 DEF CoreRunsOnce, Core!FoundAll
<1>6. ~Core!Resolved => ~CoreComplete
  <2>1. SUFFICES ASSUME ~Core!Resolved
                 PROVE  \E t \in Core!Apps : ~(config[t]["required"] \subseteq Core!Registered)
    BY <1>4 DEF CoreComplete
  <2>2. resolutions["required"] \in Seq(Types) /\ resolutions["required"] # <<>>
    BY <1>2, <1>3, <2>1 DEF CoreTypes, Core!Resolved
  <2>3. resolutions["required"][1] \in Core!ToSet(resolutions["required"])
    BY <2>2 DEF Core!ToSet
  <2> QED
    BY <1>2, <1>3, <2>3 DEF CoreWaits, Core!FoundAll
<1>7. /\ Core!Apps' = Core!Apps /\ Core!Created' = Core!Created
      /\ Core!Registered' = Core!Registered /\ CoreComplete' = CoreComplete
  BY <1>1 DEF Core!Apps, Core!Created, Core!Registered, CoreComplete
<1>8. CoreTypes' /\ CoreAdded'
  BY <1>1, <1>2, <1>7 DEF CoreTypes, CorePhases, CoreAdded
<1>9. CoreWaits' /\ CoreRunsOnce' /\ CoreNoneLost'
  BY <1>1, <1>2, <1>7 DEF CoreWaits, CoreRunsOnce, CoreNoneLost, Core!FoundAll
<1>10. CoreComesUp'
  BY <1>1, <1>5, <1>6, <1>7 DEF CoreComesUp
<1> QED
  BY <1>8, <1>9, <1>10 DEF CoreInv

LEMMA CoreRunKeeps ==
    ASSUME CoreInv,
           Core!Start \/ Core!Close \/ UNCHANGED Core!vars
    PROVE  CoreInv'
<1>1. /\ UNCHANGED <<config, todo, adding, features, resolutions, called, erred>>
      /\ \/ phase' = phase
         \/ /\ phase \in {"ready", "started", "broken"}
            /\ phase' \in {"started", "broken", "closed"}
  BY DEF Core!Start, Core!Close, Core!vars
<1>2. /\ Core!Apps' = Core!Apps /\ Core!Created' = Core!Created
      /\ Core!Registered' = Core!Registered /\ CoreComplete' = CoreComplete
  BY <1>1 DEF Core!Apps, Core!Created, Core!Registered, CoreComplete
<1>3. CoreTypes' /\ CoreAdded' /\ CoreComesUp'
  BY <1>1, <1>2 DEF CoreInv, CoreTypes, CorePhases, CoreAdded, CoreComesUp
<1>4. CoreWaits' /\ CoreRunsOnce' /\ CoreNoneLost'
  BY <1>1, <1>2 DEF CoreInv, CoreWaits, CoreRunsOnce, CoreNoneLost, Core!FoundAll
<1> QED
  BY <1>3, <1>4 DEF CoreInv

\* For all features, apps and what they want, in every order of the apps: a
\* callback runs once and with all it needs, none is forgotten, and whether the
\* instance comes up does not depend on the order (AddFeature,
\* RequireFeatures, initInstanceWithConfig).
THEOREM CoreCallbacksRun ==
  ASSUME Core!TypesAssumption
  PROVE  Core!Spec => []CallbacksRun
<1>1. Core!Init => CoreInv
  BY CoreInit
<1>2. CoreInv /\ [Core!Next]_(Core!vars) => CoreInv'
  <2>1. SUFFICES ASSUME CoreInv, [Core!Next]_(Core!vars)
                 PROVE  CoreInv'
    OBVIOUS
  <2>2. CASE \E t \in Types : Core!CreateObject(t)
    BY <2>1, <2>2, CoreCreateKeeps
  <2>3. CASE Core!AddApp \/ Core!AddEssential
    BY <2>1, <2>3, CoreAddKeeps
  <2>4. CASE Core!CheckPending
    BY <2>1, <2>4, CoreCheckKeeps
  <2>5. CASE Core!Start \/ Core!Close \/ UNCHANGED Core!vars
    BY <2>1, <2>5, CoreRunKeeps
  <2> QED
    BY <2>1, <2>2, <2>3, <2>4, <2>5 DEF Core!Next
<1>3. CoreInv => CallbacksRun
  <2>1. SUFFICES ASSUME CoreInv
                 PROVE  Core!CalledWhenReady /\ Core!NoneForgotten /\ Core!OrderIrrelevant
    BY DEF CallbacksRun
  <2>2. Core!CalledWhenReady
    <3>1. ASSUME NEW i \in DOMAIN called
          PROVE  config[called[i][1]][called[i][2]] \subseteq Core!Registered
      <4>1. called \in Seq(Types \X Core!Kinds)
        BY <2>1 DEF CoreInv, CoreTypes
      <4>2. PICK t \in Types, kind \in Core!Kinds : called[i] = <<t, kind>>
        BY <4>1
      <4>3. <<t, kind>> \in Core!ToSet(called)
        BY <4>2 DEF Core!ToSet
      <4>4. called[i][1] = t /\ called[i][2] = kind
        BY <4>2
      <4> QED
        BY <2>1, <4>3, <4>4 DEF CoreInv, CoreRunsOnce, Core!FoundAll
    <3> QED
      BY <2>1, <3>1 DEF CoreInv, CoreRunsOnce, Core!CalledWhenReady
  <2>3. Core!NoneForgotten
    BY <2>1 DEF CoreInv, CoreNoneLost, CoreWaits, Core!FoundAll, Core!NoneForgotten
  <2>4. Core!OrderIrrelevant
    BY <2>1 DEF CoreInv, CoreComesUp, CoreComplete, Core!OrderIrrelevant
  <2> QED
    BY <2>2, <2>3, <2>4
<1> QED
  BY <1>1, <1>2, <1>3, PTL DEF Core!Spec

=============================================================================
