------------------------- MODULE RegistrationProofs -------------------------
(***************************************************************************)
(* Proofs about Registration, for every set of names and types and every   *)
(* bound.  The properties say what a test or a hook got when it was        *)
(* registered, so the work is in what the three stacks are at any moment.  *)
(*                                                                         *)
(* An error the file catches drops frames and leaves the stacks.  What     *)
(* survives it are the places: as long as every block that returns has a   *)
(* name, a describe that is under way still has its name where it put it   *)
(* (Placed), because a describe that returns removes one entry, and that   *)
(* entry is its own or one above it; for the same reason the names that    *)
(* errors left behind are never removed.  An only mark that is under way   *)
(* is counted (Counted), named or not.                                     *)
(*                                                                         *)
(* A block without a name still removes one when it returns.  As long as   *)
(* no error was caught, what is left on the stack is a subsequence of the  *)
(* names of the blocks under way (SuitesOf), and all of them unless one    *)
(* was removed like that inside a block under way.  Types fare likewise    *)
(* (TypesWithin), and only_depth is exact (ExactDepths).                   *)
(***************************************************************************)
EXTENDS Registration, FiniteSetTheorems, TLAPS

\* The describe calls fs have their names on stack, in order, at their at.
Placed(fs, stack) ==
    /\ \A i \in Named(fs) : fs[i].at \in 1..Len(stack) /\ stack[fs[i].at] = fs[i].name
    /\ \A i, j \in Named(fs) : i < j => fs[i].at < fs[j].at

\* Every only block that is under way is counted, beside those around it.
Counted(fs, d) ==
    /\ \A i \in 1..Len(fs) : fs[i].depth <= d /\ (fs[i].only => fs[i].depth > 0)
    /\ \A i, j \in 1..Len(fs) : i < j =>
          fs[i].depth <= fs[j].depth /\ (fs[j].only => fs[i].depth < fs[j].depth)

\* stack is a subsequence of the names of fs, or all of them.
SuitesOf(fs, stack, all) ==
    \E place \in [1..Len(stack) -> Named(fs)] :
        /\ Increasing(place)
        /\ \A i \in 1..Len(stack) : stack[i] = fs[place[i]].name
        /\ all => Named(fs) \subseteq {place[i] : i \in 1..Len(stack)}

Before(fs, i) == IF i = 1 THEN 0 ELSE fs[i - 1].depth

ExactDepths(fs, d) ==
    /\ d = Before(fs, Len(fs) + 1)
    /\ \A i \in 1..Len(fs) :
          fs[i].depth = IF fs[i].only THEN Before(fs, i) + 1 ELSE Before(fs, i)
    /\ \A i \in 1..Len(fs) : fs[i].depth > 0 => \E j \in 1..i : fs[j].only

\* types is a subsequence of the types of fs.
TypesWithin(fs, types) ==
    \E place \in [1..Len(types) -> 1..Len(fs)] :
        /\ \A i, j \in 1..Len(types) : i < j => place[i] < place[j]
        /\ \A i \in 1..Len(types) : fs[place[i]].type = types[i]

Stacks ==
    /\ Counted(frames, only_depth)
    /\ ~unnamed => /\ Placed(frames, suite_stack)
                   /\ Len(suite_stack) = Cardinality(Named(frames)) + left

Exact ==
    ~caught =>
        /\ SuitesOf(frames, suite_stack, ~robbed)
        /\ TypesWithin(frames, type_stack)
        /\ status # "failed" => ExactDepths(frames, only_depth)

\* What a registered entry has of the describes around it.
Around(r) ==
    /\ r.clean => SuitesOf(r.around, r.stack, ~r.robbed)
    /\ ~r.unnamed =>
          /\ \E place \in [Named(r.around) -> 1..Len(r.stack)] :
                /\ Increasing(place)
                /\ \A i \in Named(r.around) : r.stack[place[i]] = r.around[i].name
          /\ Len(r.stack) = Cardinality(Named(r.around)) + r.left

Focus(t) ==
    /\ InOnly(t.around) => t.in_only_block
    /\ t.clean /\ t.in_only_block => InOnly(t.around)

Typed(t) ==
    t.clean /\ t.type # NoType => \E j \in 1..Len(t.around) : t.around[j].type = t.type

Good(t) == Around(t) /\ Focus(t) /\ Typed(t)

Entries ==
    /\ \A i \in 1..Len(pending_tests) :
          Good(pending_tests[i]) /\ (~caught => pending_tests[i].clean)
    /\ \A i \in 1..Len(suite_hooks) : Around(suite_hooks[i])

Inv == TypeOK /\ Stacks /\ Exact /\ Entries
----------------------------------------------------------------------------
(* The stacks, one push, one pop and one error at a time.                  *)

LEMMA PrefixIs ==
    ASSUME NEW S, NEW s \in Seq(S), NEW j \in 0..Len(s)
    PROVE  /\ SubSeq(s, 1, j) \in Seq(S)
           /\ Len(SubSeq(s, 1, j)) = j
           /\ \A i \in 1..j : SubSeq(s, 1, j)[i] = s[i]
  OBVIOUS

\* What Removed does to a sequence that has an entry.
LEMMA RemovedIs ==
    ASSUME NEW S, NEW s \in Seq(S), s # <<>>
    PROVE  /\ Removed(s) \in Seq(S)
           /\ Len(Removed(s)) = Len(s) - 1
           /\ \A i \in 1..(Len(s) - 1) : Removed(s)[i] = s[i]
<1>1. Removed(s) = SubSeq(s, 1, Len(s) - 1)  BY DEF Removed
<1>2. Len(s) \in Nat /\ Len(s) > 0  OBVIOUS
<1> DEFINE j == Len(s) - 1
<1>3. j \in 0..Len(s)  BY <1>2
<1> HIDE DEF j
<1>4. /\ SubSeq(s, 1, j) \in Seq(S)
      /\ Len(SubSeq(s, 1, j)) = j
      /\ \A i \in 1..j : SubSeq(s, 1, j)[i] = s[i]
  BY <1>3, PrefixIs
<1> QED  BY <1>1, <1>4 DEF j

LEMMA RemovedType ==
    ASSUME NEW S, NEW s \in Seq(S)
    PROVE  Removed(s) \in Seq(S)
  BY DEF Removed

LEMMA AppendIs ==
    ASSUME NEW S, NEW s \in Seq(S), NEW e \in S
    PROVE  /\ Append(s, e) \in Seq(S)
           /\ Len(Append(s, e)) = Len(s) + 1
           /\ \A i \in 1..Len(s) : Append(s, e)[i] = s[i]
           /\ Append(s, e)[Len(s) + 1] = e
  OBVIOUS

LEMMA FrameFields ==
    ASSUME NEW fs \in Seq(Frame), NEW i \in 1..Len(fs)
    PROVE  /\ fs[i] \in Frame /\ fs[i].name \in Name \cup {NoName} /\ fs[i].type \in Type \cup {NoType}
           /\ fs[i].only \in BOOLEAN /\ fs[i].at \in Nat /\ fs[i].depth \in Nat
<1>1. fs[i] \in Frame  OBVIOUS
<1> QED  BY <1>1 DEF Frame

LEMMA NamedFinite ==
    ASSUME NEW fs \in Seq(Frame)
    PROVE  /\ Named(fs) \subseteq 1..Len(fs)
           /\ IsFiniteSet(Named(fs)) /\ Cardinality(Named(fs)) \in Nat
<1>1. Named(fs) \subseteq 1..Len(fs)  BY DEF Named
<1>2. IsFiniteSet(1..Len(fs))
  <2>1. Len(fs) \in Int /\ 1 \in Int  OBVIOUS
  <2> QED  BY <2>1, FS_Interval
<1>3. IsFiniteSet(Named(fs))  BY <1>1, <1>2, FS_Subset
<1> QED  BY <1>1, <1>3, FS_CardinalityType

LEMMA NamedPush ==
    ASSUME NEW fs \in Seq(Frame), NEW f \in Frame
    PROVE  /\ f.name = NoName => Named(Append(fs, f)) = Named(fs)
           /\ f.name # NoName =>
                 /\ Named(Append(fs, f)) = Named(fs) \cup {Len(fs) + 1}
                 /\ Cardinality(Named(Append(fs, f))) = Cardinality(Named(fs)) + 1
<1> DEFINE gs == Append(fs, f)
           n == Len(fs)
<1>1. Len(gs) = n + 1 /\ (\A i \in 1..n : gs[i] = fs[i]) /\ gs[n + 1] = f /\ n \in Nat
  BY AppendIs
<1>2. Named(gs) = {i \in 1..Len(gs) : gs[i].name # NoName}
      /\ Named(fs) = {i \in 1..n : fs[i].name # NoName}
  BY DEF Named
<1> HIDE DEF gs, n
<1>3. 1..(n + 1) = (1..n) \cup {n + 1}  BY <1>1
<1>4. f.name = NoName => Named(gs) = Named(fs)  BY <1>1, <1>2, <1>3
<1>5. f.name # NoName => Named(gs) = Named(fs) \cup {n + 1}  BY <1>1, <1>2, <1>3
<1>6. IsFiniteSet(Named(fs)) /\ n + 1 \notin Named(fs)
  <2>1. n + 1 \notin 1..n  BY <1>1
  <2> QED  BY <2>1, <1>2, NamedFinite
<1>7. Cardinality(Named(fs) \cup {n + 1}) = Cardinality(Named(fs)) + 1
  BY <1>6, FS_AddElement
<1> QED  BY <1>4, <1>5, <1>7 DEF gs, n

LEMMA NamedPop ==
    ASSUME NEW fs \in Seq(Frame), fs # <<>>
    PROVE  /\ Named(Removed(fs)) = Named(fs) \ {Len(fs)}
           /\ fs[Len(fs)].name # NoName =>
                 /\ Len(fs) \in Named(fs)
                 /\ Cardinality(Named(Removed(fs))) = Cardinality(Named(fs)) - 1
<1> DEFINE gs == Removed(fs)
           n == Len(fs)
<1>1. n \in Nat /\ n > 0 /\ n \in 1..n  BY DEF n
<1>2. Len(gs) = n - 1 /\ \A i \in 1..(n - 1) : gs[i] = fs[i]  BY RemovedIs
<1>3. Named(gs) = {i \in 1..Len(gs) : gs[i].name # NoName}
      /\ Named(fs) = {i \in 1..n : fs[i].name # NoName}
  BY DEF Named
<1>4. fs[Len(fs)].name # NoName => n \in Named(fs)  BY <1>1, <1>3
<1> HIDE DEF gs, n
<1>5. 1..(n - 1) = (1..n) \ {n}  BY <1>1
<1>6. Named(gs) = Named(fs) \ {n}  BY <1>2, <1>3, <1>5
<1>7. IsFiniteSet(Named(fs))  BY NamedFinite
<1>8. n \in Named(fs) => Cardinality(Named(fs) \ {n}) = Cardinality(Named(fs)) - 1
  BY <1>7, FS_RemoveElement
<1> QED  BY <1>4, <1>6, <1>8 DEF gs, n

LEMMA NamedPrefix ==
    ASSUME NEW fs \in Seq(Frame), NEW j \in 0..Len(fs)
    PROVE  /\ Named(SubSeq(fs, 1, j)) \subseteq Named(fs)
           /\ \A i \in Named(SubSeq(fs, 1, j)) : SubSeq(fs, 1, j)[i] = fs[i]
           /\ Cardinality(Named(SubSeq(fs, 1, j))) \in Nat
           /\ Cardinality(Named(SubSeq(fs, 1, j))) <= Cardinality(Named(fs))
<1> DEFINE gs == SubSeq(fs, 1, j)
<1>1. gs \in Seq(Frame) /\ Len(gs) = j /\ \A i \in 1..j : gs[i] = fs[i]  BY PrefixIs
<1>2. 1..j \subseteq 1..Len(fs)  OBVIOUS
<1> HIDE DEF gs
<1>3. Named(gs) \subseteq 1..j /\ Named(gs) \subseteq Named(fs)  BY <1>1, <1>2 DEF Named
<1>4. IsFiniteSet(Named(fs)) /\ Cardinality(Named(gs)) \in Nat  BY <1>1, NamedFinite
<1>5. Cardinality(Named(gs)) <= Cardinality(Named(fs))  BY <1>3, <1>4, FS_Subset
<1> QED  BY <1>1, <1>3, <1>4, <1>5 DEF gs

LEMMA PlacedPush ==
    ASSUME NEW fs \in Seq(Frame), NEW stack \in Seq(Name), NEW f \in Frame,
           Placed(fs, stack), f.name # NoName => f.at = Len(stack) + 1
    PROVE  Placed(Append(fs, f), Pushed(stack, f.name, NoName))
<1> DEFINE gs == Append(fs, f)
           st == Append(stack, f.name)
           n == Len(fs)
<1>1. f.name \in Name \cup {NoName}  BY DEF Frame
<1>2. (\A i \in 1..n : gs[i] = fs[i]) /\ gs[n + 1] = f /\ n \in Nat  BY AppendIs
<1>3. Named(fs) \subseteq 1..n  BY NamedFinite
<1>4. \A i \in Named(fs) : gs[i] = fs[i]  BY <1>2, <1>3
<1>5. CASE f.name = NoName
  <2>1. Named(gs) = Named(fs) /\ Pushed(stack, f.name, NoName) = stack
    BY <1>5, NamedPush DEF Pushed
  <2> HIDE DEF gs
  <2>2. Placed(gs, stack)  BY <2>1, <1>4 DEF Placed
  <2> QED  BY <2>1, <2>2 DEF gs
<1>6. CASE f.name # NoName
  <2>1. Named(gs) = Named(fs) \cup {n + 1} /\ Pushed(stack, f.name, NoName) = st
    BY <1>6, NamedPush DEF Pushed
  <2>2. Len(st) = Len(stack) + 1 /\ (\A i \in 1..Len(stack) : st[i] = stack[i])
        /\ st[Len(stack) + 1] = f.name /\ Len(stack) \in Nat
    BY <1>1, <1>6, AppendIs
  <2>3. \A i \in Named(fs) : fs[i].at \in 1..Len(stack) /\ stack[fs[i].at] = fs[i].name
    BY DEF Placed
  <2> HIDE DEF gs, st, n
  <2>4. ASSUME NEW i \in Named(gs)
        PROVE  gs[i].at \in 1..Len(st) /\ st[gs[i].at] = gs[i].name
    <3>1. CASE i = n + 1  BY <3>1, <1>2, <1>6, <2>2
    <3>2. CASE i # n + 1
      <4>1. i \in Named(fs) /\ gs[i] = fs[i]  BY <3>2, <2>1, <1>4
      <4> QED  BY <4>1, <2>2, <2>3
    <3> QED  BY <3>1, <3>2
  <2>5. ASSUME NEW i \in Named(gs), NEW j \in Named(gs), i < j
        PROVE  gs[i].at < gs[j].at
    <3>1. i \in Named(fs) /\ gs[i] = fs[i]  BY <2>1, <2>5, <1>2, <1>3, <1>4 DEF n
    <3>2. CASE j = n + 1
      <4>1. gs[j].at = Len(stack) + 1  BY <3>2, <1>2, <1>6
      <4> QED  BY <4>1, <3>1, <2>2, <2>3
    <3>3. CASE j # n + 1
      <4>1. j \in Named(fs) /\ gs[j] = fs[j]  BY <3>3, <2>1, <1>4
      <4> QED  BY <4>1, <3>1, <2>5 DEF Placed
    <3> QED  BY <3>2, <3>3
  <2>6. Placed(gs, st)  BY <2>4, <2>5 DEF Placed
  <2> QED  BY <2>1, <2>6 DEF gs
<1> QED  BY <1>5, <1>6

\* The describe that returns is the last one, so the entry it removes lies
\* above the entries of the others.
LEMMA PlacedPop ==
    ASSUME NEW fs \in Seq(Frame), NEW stack \in Seq(Name), fs # <<>>, Placed(fs, stack),
           fs[Len(fs)].name # NoName
    PROVE  stack # <<>> /\ Placed(Removed(fs), Removed(stack))
<1> DEFINE gs == Removed(fs)
           n == Len(fs)
<1>1. n \in Nat /\ n > 0 /\ Len(stack) \in Nat  OBVIOUS
<1>2. Named(gs) = Named(fs) \ {n} /\ n \in Named(fs) /\ Named(fs) \subseteq 1..n
  BY NamedPop, NamedFinite
<1>3. fs[n].at \in 1..Len(stack)  BY <1>2 DEF Placed
<1>4. stack # <<>> /\ Len(stack) > 0  BY <1>1, <1>3
<1>5. \A i \in 1..(n - 1) : gs[i] = fs[i]  BY RemovedIs
<1>6. Len(Removed(stack)) = Len(stack) - 1
      /\ \A i \in 1..(Len(stack) - 1) : Removed(stack)[i] = stack[i]
  BY <1>4, RemovedIs
<1> HIDE DEF gs, n
<1>7. \A i \in Named(gs) : i \in Named(fs) /\ i < n /\ gs[i] = fs[i]
  BY <1>1, <1>2, <1>5
<1>8. \A i \in Named(gs) : /\ gs[i].at \in 1..(Len(stack) - 1)
                            /\ stack[gs[i].at] = gs[i].name
  <2> TAKE i \in Named(gs)
  <2>1. fs[i].at \in 1..Len(stack) /\ stack[fs[i].at] = fs[i].name /\ fs[i].at < fs[n].at
    BY <1>2, <1>7 DEF Placed
  <2> QED  BY <2>1, <1>1, <1>3, <1>7
<1>9. \A i, j \in Named(gs) : i < j => gs[i].at < gs[j].at  BY <1>7 DEF Placed
<1>10. Placed(gs, Removed(stack))  BY <1>6, <1>8, <1>9 DEF Placed
<1> QED  BY <1>4, <1>10 DEF gs

LEMMA PlacedPrefix ==
    ASSUME NEW fs \in Seq(Frame), NEW stack \in Seq(Name), NEW j \in 0..Len(fs),
           Placed(fs, stack)
    PROVE  Placed(SubSeq(fs, 1, j), stack)
<1> DEFINE gs == SubSeq(fs, 1, j)
<1>1. Named(gs) \subseteq Named(fs) /\ \A i \in Named(gs) : gs[i] = fs[i]  BY NamedPrefix
<1> HIDE DEF gs
<1>2. Placed(gs, stack)  BY <1>1 DEF Placed
<1> QED  BY <1>2 DEF gs

LEMMA CountedPush ==
    ASSUME NEW fs \in Seq(Frame), NEW d \in Nat, NEW e \in Nat, NEW f \in Frame,
           Counted(fs, d), e = IF f.only THEN d + 1 ELSE d, f.depth = e
    PROVE  Counted(Append(fs, f), e)
<1> DEFINE gs == Append(fs, f)
<1>1. Len(gs) = Len(fs) + 1 /\ (\A i \in 1..Len(fs) : gs[i] = fs[i]) /\ gs[Len(fs) + 1] = f
      /\ Len(fs) \in Nat
  BY AppendIs
<1>2. \A i \in 1..Len(fs) : fs[i] \in Frame /\ fs[i].depth \in Nat
  BY FrameFields
<1>3. d <= e /\ (f.only => e > 0 /\ d < e)
  OBVIOUS
<1> HIDE DEF gs
<1>4. ASSUME NEW i \in 1..Len(gs)
      PROVE  gs[i].depth <= e /\ (gs[i].only => gs[i].depth > 0)
  <2>1. CASE i = Len(fs) + 1  BY <2>1, <1>1, <1>3
  <2>2. CASE i # Len(fs) + 1
    <3>1. i \in 1..Len(fs) /\ gs[i] = fs[i]  BY <2>2, <1>1
    <3>2. fs[i].depth <= d /\ (fs[i].only => fs[i].depth > 0)  BY <3>1 DEF Counted
    <3> QED  BY <3>1, <3>2, <1>2, <1>3
  <2> QED  BY <2>1, <2>2
<1>5. ASSUME NEW i \in 1..Len(gs), NEW j \in 1..Len(gs), i < j
      PROVE  gs[i].depth <= gs[j].depth /\ (gs[j].only => gs[i].depth < gs[j].depth)
  <2>1. i \in 1..Len(fs) /\ gs[i] = fs[i] /\ fs[i].depth <= d /\ fs[i].depth \in Nat
    BY <1>1, <1>2, <1>5 DEF Counted
  <2>2. CASE j = Len(fs) + 1
    <3>1. gs[j] = f  BY <2>2, <1>1
    <3> QED  BY <3>1, <2>1, <1>3
  <2>3. CASE j # Len(fs) + 1
    <3>1. j \in 1..Len(fs) /\ gs[j] = fs[j]  BY <2>3, <1>1
    <3>2. fs[i].depth <= fs[j].depth /\ (fs[j].only => fs[i].depth < fs[j].depth)
      BY <2>1, <3>1, <1>5 DEF Counted
    <3> QED  BY <2>1, <3>1, <3>2
  <2> QED  BY <2>2, <2>3
<1> QED  BY <1>4, <1>5 DEF Counted, gs

\* An only block that returns was counted, so the count does not go below
\* zero, nor below what the blocks around it need.
LEMMA CountedPop ==
    ASSUME NEW fs \in Seq(Frame), NEW d \in Nat, NEW e, fs # <<>>, Counted(fs, d),
           e = IF fs[Len(fs)].only THEN d - 1 ELSE d
    PROVE  e \in Nat /\ Counted(Removed(fs), e)
<1> DEFINE last == fs[Len(fs)]
<1>1. Len(fs) \in Nat /\ Len(fs) > 0 /\ Len(fs) \in 1..Len(fs)  OBVIOUS
<1>2. \A i \in 1..Len(fs) : fs[i] \in Frame /\ fs[i].depth \in Nat  BY FrameFields
<1>3. last.depth <= d /\ (last.only => last.depth > 0) /\ last.depth \in Nat
  BY <1>1, <1>2 DEF Counted
<1>4. Len(Removed(fs)) = Len(fs) - 1 /\ \A i \in 1..(Len(fs) - 1) : Removed(fs)[i] = fs[i]
  BY RemovedIs
<1>5. e \in Nat  BY <1>3
<1>6. ASSUME NEW i \in 1..(Len(fs) - 1)
      PROVE  fs[i].depth <= e /\ (fs[i].only => fs[i].depth > 0)
  <2>1. i \in 1..Len(fs) /\ i < Len(fs)  BY <1>1
  <2>2. fs[i].depth <= last.depth /\ (last.only => fs[i].depth < last.depth)
        /\ (fs[i].only => fs[i].depth > 0) /\ fs[i].depth \in Nat
    BY <2>1, <1>1, <1>2 DEF Counted
  <2> HIDE DEF last
  <2>3. e = IF last.only THEN d - 1 ELSE d  BY DEF last
  <2> QED  BY <2>2, <2>3, <1>3
<1>7. \A i, j \in 1..(Len(fs) - 1) : i < j =>
          fs[i].depth <= fs[j].depth /\ (fs[j].only => fs[i].depth < fs[j].depth)
  BY <1>1 DEF Counted
<1> QED  BY <1>4, <1>5, <1>6, <1>7 DEF Counted

\* The error of a refused describe.only leaves its count behind.
LEMMA CountedPrefix ==
    ASSUME NEW fs \in Seq(Frame), NEW j \in 0..Len(fs), NEW d \in Nat, NEW e \in Nat,
           Counted(fs, d), d <= e
    PROVE  Counted(SubSeq(fs, 1, j), e)
<1>1. Len(SubSeq(fs, 1, j)) = j /\ \A i \in 1..j : SubSeq(fs, 1, j)[i] = fs[i]
  BY PrefixIs
<1>2. \A i \in 1..j : i \in 1..Len(fs) /\ fs[i].depth \in Nat  BY FrameFields
<1>3. \A i \in 1..j : fs[i].depth <= e /\ (fs[i].only => fs[i].depth > 0)
  BY <1>2 DEF Counted
<1>4. \A i, k \in 1..j : i < k =>
          fs[i].depth <= fs[k].depth /\ (fs[k].only => fs[i].depth < fs[k].depth)
  BY <1>2 DEF Counted
<1> QED  BY <1>1, <1>3, <1>4 DEF Counted
----------------------------------------------------------------------------
(* The stacks of a file that has caught no error.                          *)

LEMMA SuitesPush ==
    ASSUME NEW fs \in Seq(Frame), NEW stack \in Seq(Name), NEW f \in Frame,
           NEW all \in BOOLEAN, SuitesOf(fs, stack, all)
    PROVE  SuitesOf(Append(fs, f), Pushed(stack, f.name, NoName), all)
<1> DEFINE gs == Append(fs, f)
           st == Append(stack, f.name)
           n == Len(fs)
           k == Len(stack)
<1>1. f.name \in Name \cup {NoName}  BY DEF Frame
<1>2. (\A i \in 1..n : gs[i] = fs[i]) /\ gs[n + 1] = f /\ n \in Nat /\ k \in Nat
  BY AppendIs
<1>3. Named(fs) \subseteq 1..n /\ \A i \in Named(fs) : gs[i] = fs[i]
  BY <1>2, NamedFinite
<1>4. PICK place \in [1..k -> Named(fs)] :
          /\ Increasing(place)
          /\ \A i \in 1..k : stack[i] = fs[place[i]].name
          /\ all => Named(fs) \subseteq {place[i] : i \in 1..k}
  BY DEF SuitesOf
<1>5. CASE f.name = NoName
  <2>1. Named(gs) = Named(fs) /\ Pushed(stack, f.name, NoName) = stack
    BY <1>5, NamedPush DEF Pushed
  <2> HIDE DEF gs
  <2>2. SuitesOf(gs, stack, all)  BY <2>1, <1>3, <1>4 DEF SuitesOf
  <2> QED  BY <2>1, <2>2 DEF gs
<1>6. CASE f.name # NoName
  <2> DEFINE more == [i \in 1..(k + 1) |-> IF i = k + 1 THEN n + 1 ELSE place[i]]
  <2>1. Named(gs) = Named(fs) \cup {n + 1} /\ Pushed(stack, f.name, NoName) = st
    BY <1>6, NamedPush DEF Pushed
  <2>2. Len(st) = k + 1 /\ (\A i \in 1..k : st[i] = stack[i]) /\ st[k + 1] = f.name
    BY <1>1, <1>6, AppendIs
  <2> HIDE DEF gs, n, k, st
  <2>3. \A i \in 1..k : i \in 1..(k + 1) /\ more[i] = place[i] /\ place[i] \in Named(fs)
    BY <1>2, <1>4
  <2>4. more[k + 1] = n + 1 /\ k + 1 \in 1..(k + 1)  BY <1>2
  <2>5. more \in [1..(k + 1) -> Named(gs)]  BY <1>2, <1>4, <2>1
  <2> HIDE DEF more
  <2>6. Increasing(more)
    <3> SUFFICES ASSUME NEW i \in 1..(k + 1), NEW j \in 1..(k + 1), i < j
                 PROVE  more[i] < more[j]
      BY <2>5 DEF Increasing
    <3>1. i \in 1..k /\ more[i] = place[i] /\ place[i] \in 1..n  BY <1>2, <1>3, <2>3
    <3>2. CASE j = k + 1  BY <3>1, <3>2, <2>4, <1>2
    <3>3. CASE j # k + 1
      <4>1. j \in 1..k  BY <3>3, <1>2
      <4> QED  BY <3>1, <4>1, <2>3, <1>4 DEF Increasing
    <3> QED  BY <3>2, <3>3
  <2>7. ASSUME NEW i \in 1..(k + 1) PROVE st[i] = gs[more[i]].name
    <3>1. CASE i = k + 1  BY <3>1, <2>2, <2>4, <1>2
    <3>2. CASE i # k + 1
      <4>1. i \in 1..k  BY <3>2, <1>2
      <4> QED  BY <4>1, <2>2, <2>3, <1>3, <1>4
    <3> QED  BY <3>1, <3>2
  <2>8. ASSUME all, NEW m \in Named(gs) PROVE \E i \in 1..(k + 1) : m = more[i]
    <3>1. CASE m = n + 1  BY <3>1, <2>4
    <3>2. CASE m # n + 1
      <4>1. m \in Named(fs)  BY <3>2, <2>1
      <4>2. PICK i \in 1..k : m = place[i]  BY <4>1, <2>8, <1>4
      <4> QED  BY <4>2, <2>3
    <3> QED  BY <3>1, <3>2
  <2>9. SuitesOf(gs, st, all)  BY <2>2, <2>5, <2>6, <2>7, <2>8 DEF SuitesOf
  <2> QED  BY <2>1, <2>9 DEF gs
<1> QED  BY <1>5, <1>6

\* A describe that returns removes the last name there is.  It is the block's
\* own if the block has one and none has been removed too early.
LEMMA SuitesPop ==
    ASSUME NEW fs \in Seq(Frame), NEW stack \in Seq(Name), fs # <<>>,
           NEW all \in BOOLEAN, SuitesOf(fs, stack, all), NEW rest \in BOOLEAN,
           rest => Removed(fs) = <<>> \/ (all /\ fs[Len(fs)].name # NoName)
    PROVE  SuitesOf(Removed(fs), Removed(stack), rest)
<1> DEFINE gs == Removed(fs)
           st == Removed(stack)
           n == Len(fs)
           k == Len(stack)
<1>1. n \in Nat /\ n > 0 /\ k \in Nat  OBVIOUS
<1>2. Named(gs) = Named(fs) \ {n} /\ Named(fs) \subseteq 1..n
      /\ \A i \in 1..(n - 1) : gs[i] = fs[i]
  BY NamedPop, NamedFinite, RemovedIs
<1>3. PICK place \in [1..k -> Named(fs)] :
          /\ Increasing(place)
          /\ \A i \in 1..k : stack[i] = fs[place[i]].name
          /\ all => Named(fs) \subseteq {place[i] : i \in 1..k}
  BY DEF SuitesOf
<1>4. gs = <<>> => Named(gs) = {}  BY DEF Named
<1>5. fs[n].name # NoName => n \in Named(fs)  BY NamedPop
<1>6. CASE stack = <<>>
  <2>1. st = stack /\ k = 0  BY <1>6 DEF Removed
  <2> DEFINE none == [i \in 1..k |-> 1]
  <2>2. none \in [1..k -> Named(gs)] /\ \A i : i \notin 1..k  BY <2>1
  <2>3. rest => Named(gs) = {}  BY <2>2, <1>3, <1>4, <1>5
  <2> HIDE DEF gs, none, k
  <2>4. Increasing(none)  BY <2>2 DEF Increasing
  <2>5. SuitesOf(gs, stack, rest)  BY <2>2, <2>3, <2>4 DEF SuitesOf, k
  <2> QED  BY <2>1, <2>5 DEF gs
<1>7. CASE stack # <<>>
  <2>1. Len(st) = k - 1 /\ k > 0 /\ k \in 1..k /\ \A i \in 1..(k - 1) : st[i] = stack[i]
    BY <1>1, <1>7, RemovedIs
  <2> DEFINE less == [i \in 1..(k - 1) |-> place[i]]
  <2> HIDE DEF gs, st, n, k
  <2>2. place[k] \in 1..n  BY <2>1, <1>2, <1>3
  <2>3. \A i \in 1..(k - 1) : /\ i \in 1..k /\ less[i] = place[i]
                               /\ place[i] \in 1..n /\ place[i] < place[k]
    BY <2>1, <1>1, <1>2, <1>3 DEF Increasing
  <2>4. \A i \in 1..(k - 1) : place[i] \in Named(gs) /\ place[i] # n
    BY <2>2, <2>3, <1>1, <1>2, <1>3
  <2>5. less \in [1..(k - 1) -> Named(gs)]  BY <2>4
  <2>6. Increasing(less)
    <3> SUFFICES ASSUME NEW i \in 1..(k - 1), NEW j \in 1..(k - 1), i < j
                 PROVE  less[i] < less[j]
      BY DEF Increasing
    <3> QED  BY <2>3, <1>3 DEF Increasing
  <2> HIDE DEF less
  <2>7. \A i \in 1..(k - 1) : st[i] = gs[less[i]].name
    <3> TAKE i \in 1..(k - 1)
    <3>1. place[i] \in 1..(n - 1)  BY <2>3, <2>4, <1>1
    <3> QED  BY <3>1, <2>1, <2>3, <1>2, <1>3
  <2>8. ASSUME rest, NEW m \in Named(gs) PROVE \E i \in 1..(k - 1) : m = less[i]
    <3>1. all /\ fs[n].name # NoName  BY <2>8, <1>4 DEF gs, n
    <3>2. PICK l \in 1..k : n = place[l]  BY <3>1, <1>3, <1>5
    <3>3. l = k  BY <3>2, <2>4, <1>1
    <3>4. PICK i \in 1..k : m = place[i]  BY <3>1, <1>2, <1>3
    <3>5. i # k  BY <3>2, <3>3, <3>4, <1>2
    <3>6. i \in 1..(k - 1)  BY <3>5, <1>1
    <3> QED  BY <3>4, <3>6, <2>3
  <2>9. SuitesOf(gs, st, rest)
    <3>1. rest => Named(gs) \subseteq {less[i] : i \in 1..(k - 1)}  BY <2>8
    <3> QED  BY <3>1, <2>1, <2>5, <2>6, <2>7 DEF SuitesOf
  <2> QED  BY <2>9 DEF gs, st
<1> QED  BY <1>6, <1>7

LEMMA BeforeIs ==
    ASSUME NEW fs \in Seq(Frame), NEW i \in 1..(Len(fs) + 1)
    PROVE  Before(fs, i) \in Nat
<1>1. CASE i = 1  BY <1>1 DEF Before
<1>2. CASE i # 1
  <2>1. i - 1 \in 1..Len(fs)  BY <1>2
  <2>2. fs[i - 1].depth \in Nat  BY <2>1, FrameFields
  <2> QED  BY <1>2, <2>2 DEF Before
<1> QED  BY <1>1, <1>2

LEMMA ExactDepthsPush ==
    ASSUME NEW fs \in Seq(Frame), NEW d \in Nat, NEW e \in Nat, NEW f \in Frame,
           ExactDepths(fs, d), e = IF f.only THEN d + 1 ELSE d, f.depth = e
    PROVE  ExactDepths(Append(fs, f), e)
<1> DEFINE gs == Append(fs, f)
           n == Len(fs)
<1>1. Len(gs) = n + 1 /\ (\A i \in 1..n : gs[i] = fs[i]) /\ gs[n + 1] = f /\ n \in Nat
  BY AppendIs
<1>2. gs \in Seq(Frame)  BY AppendIs
<1> HIDE DEF gs, n
<1>3. ASSUME NEW i \in 1..(n + 1) PROVE Before(gs, i) = Before(fs, i)
  <2>1. CASE i = 1  BY <2>1 DEF Before
  <2>2. CASE i # 1
    <3>1. i - 1 \in 1..n  BY <2>2, <1>1
    <3> QED  BY <2>2, <3>1, <1>1 DEF Before
  <2> QED  BY <2>1, <2>2
<1>4. d = Before(fs, n + 1)  BY DEF ExactDepths, n
<1>5. e = Before(gs, Len(gs) + 1)
  <2>1. Len(gs) + 1 # 1 /\ (Len(gs) + 1) - 1 = n + 1  BY <1>1
  <2> QED  BY <2>1, <1>1 DEF Before
<1>6. ASSUME NEW i \in 1..Len(gs)
      PROVE  gs[i].depth = IF gs[i].only THEN Before(gs, i) + 1 ELSE Before(gs, i)
  <2>1. CASE i = n + 1
    <3>1. Before(gs, i) = d  BY <2>1, <1>1, <1>3, <1>4
    <3>2. gs[i] = f  BY <2>1, <1>1
    <3> QED  BY <3>1, <3>2
  <2>2. CASE i # n + 1
    <3>1. i \in 1..n /\ gs[i] = fs[i] /\ i \in 1..(n + 1)  BY <2>2, <1>1
    <3>2. fs[i].depth = IF fs[i].only THEN Before(fs, i) + 1 ELSE Before(fs, i)
      BY <3>1 DEF ExactDepths, n
    <3> QED  BY <3>1, <3>2, <1>3
  <2> QED  BY <2>1, <2>2
<1>7. ASSUME NEW i \in 1..Len(gs), gs[i].depth > 0
      PROVE  \E j \in 1..i : gs[j].only
  <2>1. CASE i \in 1..n
    <3>1. gs[i] = fs[i] /\ fs[i].depth > 0  BY <2>1, <1>1, <1>7
    <3>2. PICK j \in 1..i : fs[j].only  BY <2>1, <3>1 DEF ExactDepths, n
    <3>3. j \in 1..n /\ gs[j] = fs[j]  BY <2>1, <1>1
    <3> QED  BY <3>2, <3>3
  <2>2. CASE i \notin 1..n
    <3>1. i = n + 1 /\ gs[i] = f /\ i \in 1..i  BY <2>2, <1>1
    <3>2. CASE f.only  BY <3>1, <3>2
    <3>3. CASE ~f.only
      <4>1. d > 0  BY <3>1, <3>3, <1>7
      <4>2. n # 0  BY <4>1, <1>4 DEF Before
      <4>3. n \in 1..n /\ n + 1 # 1 /\ (n + 1) - 1 = n  BY <4>2, <1>1
      <4>4. fs[n].depth = d  BY <4>3, <1>4 DEF Before
      <4>5. PICK j \in 1..n : fs[j].only  BY <4>1, <4>3, <4>4 DEF ExactDepths, n
      <4>6. j \in 1..i /\ gs[j] = fs[j]  BY <3>1, <1>1
      <4> QED  BY <4>5, <4>6
    <3> QED  BY <3>2, <3>3
  <2> QED  BY <2>1, <2>2
<1> QED  BY <1>5, <1>6, <1>7 DEF ExactDepths, gs

LEMMA ExactDepthsPop ==
    ASSUME NEW fs \in Seq(Frame), NEW d \in Nat, NEW e, fs # <<>>, ExactDepths(fs, d),
           e = IF fs[Len(fs)].only THEN d - 1 ELSE d
    PROVE  ExactDepths(Removed(fs), e)
<1> DEFINE n == Len(fs)
           gs == Removed(fs)
<1>1. n \in Nat /\ n > 0 /\ n \in 1..n  BY DEF n
<1>2. Len(gs) = n - 1 /\ \A i \in 1..(n - 1) : gs[i] = fs[i]  BY RemovedIs
<1> HIDE DEF gs, n
<1>3. ASSUME NEW i \in 1..n PROVE Before(gs, i) = Before(fs, i)
  <2>1. CASE i = 1  BY <2>1 DEF Before
  <2>2. CASE i # 1
    <3>1. i - 1 \in 1..(n - 1)  BY <2>2, <1>1
    <3> QED  BY <2>2, <3>1, <1>2 DEF Before
  <2> QED  BY <2>1, <2>2
<1>4. e = Before(gs, Len(gs) + 1)
  <2>1. d = Before(fs, n + 1)  BY DEF ExactDepths, n
  <2>2. n + 1 # 1 /\ (n + 1) - 1 = n  BY <1>1
  <2>3. d = fs[n].depth  BY <2>1, <2>2 DEF Before
  <2>4. fs[n].depth = IF fs[n].only THEN Before(fs, n) + 1 ELSE Before(fs, n)
    BY <1>1 DEF ExactDepths, n
  <2>5. Before(fs, n) \in Nat  BY <1>1, BeforeIs DEF n
  <2>6. e = Before(fs, n)
    <3>1. e = IF fs[n].only THEN d - 1 ELSE d  BY DEF n
    <3> QED  BY <3>1, <2>3, <2>4, <2>5
  <2>7. Len(gs) + 1 = n  BY <1>1, <1>2
  <2> QED  BY <2>6, <2>7, <1>1, <1>3
<1>5. ASSUME NEW i \in 1..Len(gs)
      PROVE  gs[i].depth = IF gs[i].only THEN Before(gs, i) + 1 ELSE Before(gs, i)
  <2>1. i \in 1..n /\ gs[i] = fs[i]  BY <1>1, <1>2
  <2>2. fs[i].depth = IF fs[i].only THEN Before(fs, i) + 1 ELSE Before(fs, i)
    BY <2>1 DEF ExactDepths, n
  <2> QED  BY <2>1, <2>2, <1>3
<1>6. ASSUME NEW i \in 1..Len(gs), gs[i].depth > 0
      PROVE  \E j \in 1..i : gs[j].only
  <2>1. i \in 1..n /\ gs[i] = fs[i]  BY <1>1, <1>2
  <2>2. PICK j \in 1..i : fs[j].only  BY <2>1, <1>6 DEF ExactDepths, n
  <2>3. gs[j] = fs[j]  BY <1>2
  <2> QED  BY <2>2, <2>3
<1> QED  BY <1>4, <1>5, <1>6 DEF ExactDepths, gs

\* What the count says of the blocks that are under way.
LEMMA CountedOnly ==
    ASSUME NEW fs \in Seq(Frame), NEW d \in Nat, Counted(fs, d), InOnly(fs)
    PROVE  d > 0
<1>1. PICK i \in 1..Len(fs) : fs[i].only  BY DEF InOnly
<1>2. fs[i].depth \in Nat  BY FrameFields
<1> QED  BY <1>1, <1>2 DEF Counted

LEMMA ExactOnly ==
    ASSUME NEW fs \in Seq(Frame), NEW d \in Nat, ExactDepths(fs, d), d > 0
    PROVE  InOnly(fs)
<1> DEFINE n == Len(fs)
<1>1. n \in Nat /\ d = Before(fs, n + 1)  BY DEF ExactDepths
<1> HIDE DEF n
<1>2. n # 0  BY <1>1 DEF Before
<1>3. n \in 1..n /\ n + 1 # 1 /\ (n + 1) - 1 = n  BY <1>1, <1>2
<1>4. fs[n].depth = d  BY <1>1, <1>3 DEF Before
<1>5. PICK j \in 1..n : fs[j].only  BY <1>3, <1>4 DEF ExactDepths, n
<1> QED  BY <1>5 DEF InOnly, n

LEMMA TypesPush ==
    ASSUME NEW fs \in Seq(Frame), NEW types \in Seq(Type), NEW f \in Frame,
           TypesWithin(fs, types)
    PROVE  TypesWithin(Append(fs, f), Pushed(types, f.type, NoType))
<1> DEFINE gs == Append(fs, f)
           n == Len(fs)
           k == Len(types)
<1>1. Len(gs) = n + 1 /\ (\A i \in 1..n : gs[i] = fs[i]) /\ gs[n + 1] = f /\ n \in Nat
      /\ k \in Nat
  BY AppendIs
<1>2. PICK place \in [1..k -> 1..n] :
          /\ \A i, j \in 1..k : i < j => place[i] < place[j]
          /\ \A i \in 1..k : fs[place[i]].type = types[i]
  BY DEF TypesWithin
<1>3. CASE f.type = NoType
  <2>1. place \in [1..k -> 1..Len(gs)]  BY <1>1, <1>2
  <2>2. \A i \in 1..k : gs[place[i]].type = types[i]  BY <1>1, <1>2
  <2> HIDE DEF gs
  <2>3. TypesWithin(gs, types)  BY <2>1, <2>2, <1>2 DEF TypesWithin
  <2> QED  BY <2>3, <1>3 DEF gs, Pushed
<1>4. CASE f.type # NoType
  <2> DEFINE ts == Append(types, f.type)
             more == [i \in 1..(k + 1) |-> IF i = k + 1 THEN n + 1 ELSE place[i]]
  <2>1. f.type \in Type  BY <1>4 DEF Frame
  <2>2. Len(ts) = k + 1 /\ (\A i \in 1..k : ts[i] = types[i]) /\ ts[k + 1] = f.type
    BY <2>1, AppendIs
  <2> HIDE DEF gs, n, k, ts
  <2>3. \A i \in 1..k : i \in 1..(k + 1) /\ more[i] = place[i] /\ place[i] \in 1..n
    BY <1>1, <1>2
  <2>4. more[k + 1] = n + 1  BY <1>1
  <2>5. more \in [1..(k + 1) -> 1..(n + 1)]
    BY <1>1, <1>2
  <2> HIDE DEF more
  <2>6. \A i, j \in 1..(k + 1) : i < j => more[i] < more[j]
    <3> TAKE i, j \in 1..(k + 1)
    <3> HAVE i < j
    <3>1. i \in 1..k  BY <1>1
    <3>2. CASE j = k + 1  BY <3>1, <3>2, <2>3, <2>4, <1>1
    <3>3. CASE j # k + 1
      <4>1. j \in 1..k  BY <3>3, <1>1
      <4> QED  BY <3>1, <4>1, <2>3, <1>2
    <3> QED  BY <3>2, <3>3
  <2>7. ASSUME NEW i \in 1..(k + 1) PROVE gs[more[i]].type = ts[i]
    <3>1. CASE i = k + 1  BY <3>1, <2>2, <2>4, <1>1
    <3>2. CASE i # k + 1
      <4>1. i \in 1..k  BY <3>2, <1>1
      <4> QED  BY <4>1, <2>2, <2>3, <1>1, <1>2
    <3> QED  BY <3>1, <3>2
  <2>8. TypesWithin(gs, ts)  BY <2>2, <2>5, <2>6, <2>7, <1>1 DEF TypesWithin
  <2> QED  BY <2>8, <1>4 DEF gs, ts, Pushed
<1> QED  BY <1>3, <1>4

\* The places are increasing, so only the last type can be the last block's.
LEMMA TypesPop ==
    ASSUME NEW fs \in Seq(Frame), NEW types \in Seq(Type), fs # <<>>, TypesWithin(fs, types)
    PROVE  TypesWithin(Removed(fs), Removed(types))
<1> DEFINE gs == Removed(fs)
           ts == Removed(types)
           n == Len(fs)
           k == Len(types)
<1>1. n \in Nat /\ n > 0 /\ k \in Nat  OBVIOUS
<1>2. Len(gs) = n - 1 /\ \A i \in 1..(n - 1) : gs[i] = fs[i]  BY RemovedIs
<1>3. PICK place \in [1..k -> 1..n] :
          /\ \A i, j \in 1..k : i < j => place[i] < place[j]
          /\ \A i \in 1..k : fs[place[i]].type = types[i]
  BY DEF TypesWithin
<1>4. CASE types = <<>>
  <2>1. ts = types /\ k = 0  BY <1>4 DEF Removed
  <2> DEFINE none == [i \in 1..k |-> 1]
  <2>2. none \in [1..k -> 1..Len(gs)]  BY <2>1
  <2>3. \A i : i \notin 1..k  BY <2>1
  <2> HIDE DEF gs, none
  <2>4. TypesWithin(gs, types)  BY <2>2, <2>3 DEF TypesWithin
  <2> QED  BY <2>1, <2>4 DEF gs
<1>5. CASE types # <<>>
  <2>1. Len(ts) = k - 1 /\ k > 0 /\ k \in 1..k /\ \A i \in 1..(k - 1) : ts[i] = types[i]
    BY <1>1, <1>5, RemovedIs
  <2> DEFINE less == [i \in 1..(k - 1) |-> place[i]]
  <2> HIDE DEF gs, ts, n, k
  <2>2. \A i \in 1..(k - 1) : i \in 1..k /\ place[i] \in 1..(n - 1) /\ less[i] = place[i]
    <3> TAKE i \in 1..(k - 1)
    <3>1. i \in 1..k /\ i < k  BY <1>1
    <3>2. place[i] < place[k] /\ place[i] \in 1..n /\ place[k] \in 1..n
      BY <3>1, <2>1, <1>3
    <3> QED  BY <3>1, <3>2, <1>1
  <2>3. less \in [1..(k - 1) -> 1..(n - 1)]  BY <2>2
  <2> HIDE DEF less
  <2>4. \A i, j \in 1..(k - 1) : i < j => less[i] < less[j]  BY <2>2, <1>3
  <2>5. \A i \in 1..(k - 1) : gs[less[i]].type = ts[i]  BY <2>1, <2>2, <1>2, <1>3
  <2>6. TypesWithin(gs, ts)  BY <2>1, <2>3, <2>4, <2>5, <1>2 DEF TypesWithin
  <2> QED  BY <2>6 DEF gs, ts
<1> QED  BY <1>4, <1>5
----------------------------------------------------------------------------
(* What is registered.                                                     *)

LEMMA InitInv == ASSUME RegistrationAssumption PROVE Init => Inv
<1> SUFFICES ASSUME Init PROVE Inv  OBVIOUS
<1> USE DEF Init
<1>1. TypeOK
  <2>1. \A S : <<>> \in Seq(S)  OBVIOUS
  <2> QED  BY <2>1 DEF TypeOK
<1>2. Named(frames) = {} /\ Cardinality(Named(frames)) = 0
  <2>1. Named(frames) = {}  BY DEF Named
  <2> QED  BY <2>1, FS_EmptySet
<1>3. Stacks  BY <1>2 DEF Stacks, Placed, Counted
<1>4. Exact
  <2>1. SuitesOf(frames, suite_stack, ~robbed)
    <3> DEFINE none == [i \in 1..Len(suite_stack) |-> 1]
    <3>1. none \in [1..Len(suite_stack) -> Named(frames)] /\ Len(suite_stack) = 0  OBVIOUS
    <3>2. \A i : i \notin 1..Len(suite_stack)  BY <3>1
    <3> HIDE DEF none
    <3>3. Increasing(none)  BY <3>1, <3>2 DEF Increasing
    <3> QED  BY <3>1, <3>2, <3>3, <1>2 DEF SuitesOf
  <2>2. ExactDepths(frames, only_depth)  BY DEF ExactDepths, Before
  <2>3. TypesWithin(frames, type_stack)
    <3> DEFINE none == [i \in 1..Len(type_stack) |-> 1]
    <3>1. none \in [1..Len(type_stack) -> 1..Len(frames)] /\ Len(type_stack) = 0  OBVIOUS
    <3>2. \A i : i \notin 1..Len(type_stack)  BY <3>1
    <3> HIDE DEF none
    <3> QED  BY <3>1, <3>2 DEF TypesWithin
  <2> QED  BY <2>1, <2>2, <2>3 DEF Exact
<1>5. Entries  BY DEF Entries
<1> QED  BY <1>1, <1>3, <1>4, <1>5 DEF Inv

\* The describes around an entry, from the stacks it was registered under.
LEMMA AroundHere ==
    ASSUME TypeOK, Stacks, Exact, NEW r, r.stack = suite_stack, r.around = frames,
           r.clean = ~caught, r.left = left, r.unnamed = unnamed, r.robbed = robbed
    PROVE  Around(r)
<1>1. r.clean => SuitesOf(r.around, r.stack, ~r.robbed)  BY DEF Exact
<1>2. ASSUME ~unnamed
      PROVE  /\ \E place \in [Named(frames) -> 1..Len(suite_stack)] :
                   /\ Increasing(place)
                   /\ \A i \in Named(frames) : suite_stack[place[i]] = frames[i].name
             /\ Len(suite_stack) = Cardinality(Named(frames)) + left
  <2> DEFINE place == [i \in Named(frames) |-> frames[i].at]
  <2>1. /\ \A i \in Named(frames) : frames[i].at \in 1..Len(suite_stack)
                                   /\ suite_stack[frames[i].at] = frames[i].name
        /\ \A i, j \in Named(frames) : i < j => frames[i].at < frames[j].at
        /\ Len(suite_stack) = Cardinality(Named(frames)) + left
    BY <1>2 DEF Stacks, Placed
  <2>2. place \in [Named(frames) -> 1..Len(suite_stack)]  BY <2>1
  <2>3. \A i \in Named(frames) : place[i] = frames[i].at  OBVIOUS
  <2> HIDE DEF place
  <2>4. Increasing(place)  BY <2>1, <2>2, <2>3 DEF Increasing
  <2> QED  BY <2>1, <2>2, <2>3, <2>4
<1> QED  BY <1>1, <1>2 DEF Around

LEMMA TestHereIs ==
    ASSUME TypeOK, Stacks, Exact, status = "loading", NEW mode \in Modes
    PROVE  /\ TestHere(mode) \in Test
           /\ Good(TestHere(mode)) /\ TestHere(mode).clean = ~caught
<1> DEFINE t == TestHere(mode)
<1>1. /\ frames \in Seq(Frame) /\ suite_stack \in Seq(Name) /\ type_stack \in Seq(Type)
      /\ only_depth \in Nat /\ caught \in BOOLEAN
      /\ left \in Nat /\ unnamed \in BOOLEAN /\ robbed \in BOOLEAN
  BY DEF TypeOK
<1>2. /\ t.stack = suite_stack /\ t.around = frames /\ t.clean = ~caught
      /\ t.left = left /\ t.unnamed = unnamed /\ t.robbed = robbed
      /\ t.in_only_block = (only_depth > 0) /\ t.type = current_type /\ t.mode = mode
  BY DEF TestHere
<1>3. type_stack # <<>> => Len(type_stack) \in 1..Len(type_stack) /\ current_type \in Type
  BY <1>1 DEF current_type
<1>4. t \in Test
  <2>1. current_type \in Type \cup {NoType}  BY <1>3 DEF current_type
  <2> QED  BY <1>1, <2>1 DEF Test, TestHere
<1>5. Around(t)
  <2> HIDE DEF t
  <2> QED  BY <1>2, AroundHere
<1>6. Focus(t)
  <2>1. InOnly(frames) => only_depth > 0  BY <1>1, CountedOnly DEF Stacks
  <2>2. ~caught /\ only_depth > 0 => InOnly(frames)
    <3>1. ~caught => ExactDepths(frames, only_depth)  BY DEF Exact
    <3> QED  BY <1>1, <3>1, ExactOnly
  <2> HIDE DEF t
  <2> QED  BY <2>1, <2>2, <1>2 DEF Focus
<1>7. Typed(t)
  <2>1. ASSUME ~caught, current_type # NoType
        PROVE  \E j \in 1..Len(frames) : frames[j].type = current_type
    <3> DEFINE k == Len(type_stack)
    <3>1. type_stack # <<>> /\ current_type = type_stack[k]
      BY <2>1 DEF current_type
    <3>2. k \in 1..k  BY <3>1, <1>3
    <3>3. PICK place \in [1..k -> 1..Len(frames)] :
              \A i \in 1..k : frames[place[i]].type = type_stack[i]
      BY <2>1 DEF Exact, TypesWithin
    <3>4. place[k] \in 1..Len(frames) /\ frames[place[k]].type = type_stack[k]
      BY <3>2, <3>3
    <3> QED  BY <3>1, <3>4
  <2> HIDE DEF t
  <2> QED  BY <2>1, <1>2 DEF Typed
<1> QED  BY <1>2, <1>4, <1>5, <1>6, <1>7 DEF Good
----------------------------------------------------------------------------
(* The steps.                                                              *)

LEMMA DescribeStep ==
    ASSUME RegistrationAssumption, Inv,
           NEW name \in Name \cup {NoName}, NEW type \in Type \cup {NoType}, NEW only \in BOOLEAN,
           Describe(name, type, only)
    PROVE  (TypeOK /\ Stacks /\ Exact)'
<1> DEFINE f == [name |-> name, type |-> type, only |-> only,
                 at |-> IF name = NoName THEN 0 ELSE Len(suite_stack) + 1,
                 depth |-> Deeper(only)]
<1>1. /\ frames \in Seq(Frame) /\ suite_stack \in Seq(Name) /\ type_stack \in Seq(Type)
      /\ only_depth \in Nat /\ describes \in Nat
  BY DEF Inv, TypeOK
<1>2. /\ only_depth' = Deeper(only) /\ suite_stack' = Pushed(suite_stack, name, NoName)
      /\ frames' = Append(frames, f) /\ describes' = describes + 1
      /\ type_stack' = Pushed(type_stack, type, NoType)
      /\ UNCHANGED <<status, pending_tests, suite_hooks, caught, left, unnamed, robbed>>
      /\ status = "loading"
  BY DEF Describe, history
<1>3. Deeper(only) \in Nat /\ Len(suite_stack) + 1 \in Nat  BY <1>1 DEF Deeper
<1>4. f \in Frame  BY <1>3 DEF Frame
<1>5. /\ f.name = name /\ f.type = type /\ f.only = only
      /\ name # NoName => f.at = Len(suite_stack) + 1
      /\ f.depth = Deeper(only)
  OBVIOUS
<1>6. Deeper(only) = IF f.only THEN only_depth + 1 ELSE only_depth  BY DEF Deeper
<1> HIDE DEF f
<1>7. TypeOK'
  <2>1. frames' \in Seq(Frame)  BY <1>1, <1>2, <1>4
  <2>2. suite_stack' \in Seq(Name)
    <3>1. name # NoName => name \in Name  OBVIOUS
    <3> QED  BY <3>1, <1>1, <1>2 DEF Pushed
  <2>3. type_stack' \in Seq(Type)
    <3>1. type # NoType => type \in Type  OBVIOUS
    <3> QED  BY <3>1, <1>1, <1>2 DEF Pushed
  <2> QED  BY <2>1, <2>2, <2>3, <1>1, <1>2, <1>3 DEF Inv, TypeOK
<1>8. Stacks'
  <2>1. ~unnamed => Placed(frames', suite_stack')
    BY <1>1, <1>2, <1>4, <1>5, PlacedPush DEF Inv, Stacks
  <2>3. ~unnamed => Len(suite_stack') = Cardinality(Named(frames')) + left
    <3> SUFFICES ASSUME ~unnamed PROVE Len(suite_stack') = Cardinality(Named(frames')) + left
      OBVIOUS
    <3>1. Len(suite_stack) = Cardinality(Named(frames)) + left  BY DEF Inv, Stacks
    <3>2. left \in Nat /\ Cardinality(Named(frames)) \in Nat
      BY <1>1, NamedFinite DEF Inv, TypeOK
    <3>3. CASE name = NoName  BY <3>1, <3>3, <1>1, <1>2, <1>4, <1>5, NamedPush DEF Pushed
    <3>4. CASE name # NoName
      <4>1. Len(suite_stack') = Len(suite_stack) + 1
        BY <3>4, <1>1, <1>2, AppendIs DEF Pushed
      <4>2. Cardinality(Named(frames')) = Cardinality(Named(frames)) + 1
        BY <3>4, <1>1, <1>2, <1>4, <1>5, NamedPush
      <4> QED  BY <4>1, <4>2, <3>1, <3>2
    <3> QED  BY <3>3, <3>4
  <2>2. Counted(frames', only_depth')
    BY <1>1, <1>2, <1>3, <1>4, <1>5, <1>6, CountedPush DEF Inv, Stacks
  <2> QED  BY <2>1, <2>2, <2>3, <1>2 DEF Stacks
<1>9. Exact'
  <2> SUFFICES ASSUME ~caught
               PROVE  /\ SuitesOf(frames', suite_stack', ~robbed')
                      /\ TypesWithin(frames', type_stack')
                      /\ ExactDepths(frames', only_depth')
    BY <1>2 DEF Exact
  <2>1. /\ SuitesOf(frames, suite_stack, ~robbed) /\ TypesWithin(frames, type_stack)
        /\ ExactDepths(frames, only_depth)
    BY <1>2 DEF Inv, Exact
  <2>2. SuitesOf(frames', suite_stack', ~robbed')
    <3>1. (~robbed) \in BOOLEAN  BY DEF Inv, TypeOK
    <3> QED  BY <3>1, <2>1, <1>1, <1>2, <1>4, <1>5, SuitesPush
  <2>3. TypesWithin(frames', type_stack')
    BY <2>1, <1>1, <1>2, <1>4, <1>5, TypesPush
  <2>4. ExactDepths(frames', only_depth')
    BY <2>1, <1>1, <1>2, <1>3, <1>4, <1>5, <1>6, ExactDepthsPush
  <2> QED  BY <2>2, <2>3, <2>4
<1> QED  BY <1>7, <1>8, <1>9

LEMMA EndDescribeStep ==
    ASSUME Inv, EndDescribe
    PROVE  (TypeOK /\ Stacks /\ Exact)'
<1>1. /\ frames \in Seq(Frame) /\ suite_stack \in Seq(Name) /\ type_stack \in Seq(Type)
      /\ only_depth \in Nat
  BY DEF Inv, TypeOK
<1> DEFINE last == frames[Len(frames)]
<1>2. /\ frames # <<>> /\ status = "loading"
      /\ type_stack' = Removed(type_stack) /\ suite_stack' = Removed(suite_stack)
      /\ only_depth' = IF last.only THEN only_depth - 1 ELSE only_depth
      /\ frames' = Removed(frames)
      /\ unnamed' = (unnamed \/ last.name = NoName)
      /\ robbed' = (frames' # <<>> /\ (robbed \/ last.name = NoName))
      /\ UNCHANGED <<status, pending_tests, suite_hooks, describes, caught, left>>
  BY DEF EndDescribe, Return
<1>3. only_depth' \in Nat /\ Counted(frames', only_depth')
  BY <1>1, <1>2, CountedPop DEF Inv, Stacks
<1>4. ~unnamed' => /\ Placed(frames', suite_stack')
                   /\ Len(suite_stack') = Cardinality(Named(frames')) + left'
  <2> SUFFICES ASSUME ~unnamed'
               PROVE  /\ Placed(frames', suite_stack')
                      /\ Len(suite_stack') = Cardinality(Named(frames')) + left'
    OBVIOUS
  <2>1. ~unnamed /\ last.name # NoName  BY <1>2
  <2>2. Placed(frames, suite_stack) /\ Len(suite_stack) = Cardinality(Named(frames)) + left
    BY <2>1 DEF Inv, Stacks
  <2>3. suite_stack # <<>> /\ Placed(frames', suite_stack')
    BY <2>1, <2>2, <1>1, <1>2, PlacedPop
  <2>4. Len(suite_stack') = Len(suite_stack) - 1  BY <2>3, <1>1, <1>2, RemovedIs
  <2>5. Cardinality(Named(frames')) = Cardinality(Named(frames)) - 1
    BY <2>1, <1>1, <1>2, NamedPop
  <2>6. left \in Nat /\ Cardinality(Named(frames)) \in Nat
    BY <1>1, NamedFinite DEF Inv, TypeOK
  <2> QED  BY <2>2, <2>3, <2>4, <2>5, <2>6, <1>2
<1>5. TypeOK'
  <2>1. frames' \in Seq(Frame)  BY <1>1, <1>2, RemovedType
  <2>2. suite_stack' \in Seq(Name)  BY <1>1, <1>2, RemovedType
  <2>3. type_stack' \in Seq(Type)  BY <1>1, <1>2, RemovedType
  <2>4. unnamed' \in BOOLEAN /\ robbed' \in BOOLEAN  BY <1>2 DEF Inv, TypeOK
  <2> QED  BY <2>1, <2>2, <2>3, <2>4, <1>2, <1>3 DEF Inv, TypeOK
<1>6. Exact'
  <2> SUFFICES ASSUME ~caught
               PROVE  /\ SuitesOf(frames', suite_stack', ~robbed')
                      /\ TypesWithin(frames', type_stack')
                      /\ ExactDepths(frames', only_depth')
    BY <1>2 DEF Exact
  <2>1. /\ SuitesOf(frames, suite_stack, ~robbed) /\ TypesWithin(frames, type_stack)
        /\ ExactDepths(frames, only_depth)
    BY <1>2 DEF Inv, Exact
  <2>2. SuitesOf(frames', suite_stack', ~robbed')
    <3>1. (~robbed) \in BOOLEAN /\ (~robbed') \in BOOLEAN  BY <1>2 DEF Inv, TypeOK
    <3>2. ~robbed' => Removed(frames) = <<>> \/ (~robbed /\ last.name # NoName)  BY <1>2
    <3> QED  BY <3>1, <3>2, <2>1, <1>1, <1>2, SuitesPop
  <2>3. TypesWithin(frames', type_stack')  BY <2>1, <1>1, <1>2, TypesPop
  <2>4. ExactDepths(frames', only_depth')  BY <2>1, <1>1, <1>2, ExactDepthsPop
  <2> QED  BY <2>2, <2>3, <2>4
<1> QED  BY <1>3, <1>4, <1>5, <1>6 DEF Stacks

\* An error: the frames above the pcall go, the stacks stay; only_depth may
\* have been raised by the describe.only that was refused.
LEMMA UnwindStep ==
    ASSUME Inv, status = "loading",
           Unwind \/ UNCHANGED <<status, frames, caught, left>>,
           UNCHANGED <<suite_stack, type_stack, unnamed, robbed>>,
           \/ only_depth' = only_depth
           \/ only_depth' = only_depth + 1 /\ Unwind
    PROVE  /\ frames' \in Seq(Frame) /\ only_depth' \in Nat
           /\ status' \in {"loading", "failed"} /\ caught' \in BOOLEAN /\ left' \in Nat
           /\ caught => caught'
           /\ Stacks' /\ Exact'
<1>1. /\ frames \in Seq(Frame) /\ suite_stack \in Seq(Name) /\ only_depth \in Nat
      /\ caught \in BOOLEAN /\ left \in Nat
  BY DEF Inv, TypeOK
<1>2. only_depth' \in Nat /\ only_depth <= only_depth'  BY <1>1
<1> DEFINE Dropped ==
             /\ \E j \in 0..Len(frames) : frames' = SubSeq(frames, 1, j)
             /\ caught' = TRUE
             /\ left' = left + Cardinality(Named(frames)) - Cardinality(Named(frames'))
             /\ UNCHANGED status
<1>3. CASE Dropped
  <2>1. PICK j \in 0..Len(frames) : frames' = SubSeq(frames, 1, j)  BY <1>3
  <2>2. frames' \in Seq(Frame)  BY <2>1, <1>1, PrefixIs
  <2>3. ~unnamed => Placed(frames', suite_stack')
    BY <2>1, <1>1, PlacedPrefix DEF Inv, Stacks
  <2>4. Counted(frames', only_depth')  BY <2>1, <1>1, <1>2, CountedPrefix DEF Inv, Stacks
  <2>5. /\ Cardinality(Named(frames)) \in Nat /\ Cardinality(Named(frames')) \in Nat
        /\ Cardinality(Named(frames')) <= Cardinality(Named(frames))
    BY <2>1, <1>1, NamedPrefix, NamedFinite
  <2>6. left' \in Nat  BY <2>5, <1>1, <1>3
  <2>7. ~unnamed => Len(suite_stack') = Cardinality(Named(frames')) + left'
    <3>1. ~unnamed => Len(suite_stack) = Cardinality(Named(frames)) + left
      BY DEF Inv, Stacks
    <3>2. left' = left + Cardinality(Named(frames)) - Cardinality(Named(frames'))  BY <1>3
    <3> QED  BY <3>1, <3>2, <2>5, <1>1
  <2>8. caught' = TRUE /\ status' = status  BY <1>3
  <2>9. Stacks' /\ Exact'  BY <2>3, <2>4, <2>7, <2>8 DEF Stacks, Exact
  <2> QED  BY <2>2, <2>6, <2>8, <2>9, <1>2
<1>4. ASSUME UNCHANGED <<frames, caught, left>>, status' \in {"loading", "failed"},
             only_depth' = only_depth \/ status' = "failed", status' # "failed" => status' = status
      PROVE  /\ frames' \in Seq(Frame) /\ only_depth' \in Nat
             /\ status' \in {"loading", "failed"} /\ caught' \in BOOLEAN /\ left' \in Nat
             /\ caught => caught'
             /\ Stacks' /\ Exact'
  <2>1. Counted(frames', only_depth')
    <3> DEFINE n == Len(frames)
    <3>1. n \in 0..Len(frames) /\ SubSeq(frames, 1, n) = frames  BY <1>1
    <3>2. Counted(SubSeq(frames, 1, n), only_depth')
      BY <3>1, <1>1, <1>2, CountedPrefix DEF Inv, Stacks
    <3> QED  BY <3>1, <3>2, <1>4
  <2>2. Stacks'  BY <2>1, <1>4 DEF Inv, Stacks
  <2>3. Exact'  BY <1>4 DEF Inv, Exact
  <2> QED  BY <2>2, <2>3, <1>1, <1>2, <1>4
<1>5. CASE status' = "failed" /\ UNCHANGED <<frames, caught, left>>  BY <1>4, <1>5
<1>6. CASE UNCHANGED <<status, frames, caught, left>> /\ only_depth' = only_depth
  BY <1>4, <1>6
<1>7. Unwind => Dropped \/ (status' = "failed" /\ UNCHANGED <<frames, caught, left>>)
  BY DEF Unwind
<1> QED  BY <1>3, <1>5, <1>6, <1>7

\* The entries there are stay as good as they were.
LEMMA OldEntries ==
    ASSUME Inv, caught => caught', caught' \in BOOLEAN, UNCHANGED <<pending_tests, suite_hooks>>
    PROVE  Entries'
<1>1. caught \in BOOLEAN  BY DEF Inv, TypeOK
<1> QED  BY <1>1 DEF Inv, Entries

LEMMA TestsStep ==
    ASSUME RegistrationAssumption, Inv, NEW mode \in Modes, It(mode) \/ Each(mode)
    PROVE  Inv'
<1>1. /\ status = "loading" /\ pending_tests \in Seq(Test) /\ caught \in BOOLEAN
      /\ TypeOK /\ Stacks /\ Exact /\ Entries
  BY DEF Inv, TypeOK, It, Each
<1>2. /\ TestHere(mode) \in Test /\ Good(TestHere(mode))
      /\ TestHere(mode).clean = ~caught
  BY <1>1, TestHereIs
<1> DEFINE t == TestHere(mode)
<1> HIDE DEF t
<1>3. PICK more \in Seq({t}) : pending_tests' = pending_tests \o more
  <2>1. CASE It(mode)
    <3>1. <<t>> \in Seq({t}) /\ Append(pending_tests, t) = pending_tests \o <<t>>
      BY <1>1, <1>2 DEF t
    <3> QED  BY <2>1, <3>1 DEF It, t
  <2>2. CASE Each(mode)
    <3>1. PICK rows \in 0..MaxRows : pending_tests' = pending_tests \o [i \in 1..rows |-> t]
      BY <2>2 DEF Each, t
    <3>2. rows \in Nat  BY <3>1 DEF RegistrationAssumption
    <3>3. [i \in 1..rows |-> t] \in Seq({t})  BY <3>2
    <3> QED  BY <3>1, <3>3
  <2> QED  BY <2>1, <2>2
<1>4. ASSUME NEW i \in 1..Len(pending_tests')
      PROVE  \/ i \in 1..Len(pending_tests) /\ pending_tests'[i] = pending_tests[i]
             \/ pending_tests'[i] = t
  <2> DEFINE n == Len(pending_tests)
  <2>1. n \in Nat /\ Len(more) \in Nat /\ Len(pending_tests') = n + Len(more)
    BY <1>1, <1>3
  <2>2. CASE i \in 1..n  BY <2>2, <1>1, <1>3
  <2>3. CASE i \notin 1..n
    <3>1. i - n \in 1..Len(more)  BY <2>1, <2>3
    <3>2. pending_tests'[i] = more[i - n]  BY <2>1, <2>3, <1>1, <1>3
    <3>3. more[i - n] \in {t}  BY <3>1, <1>3
    <3> QED  BY <3>2, <3>3
  <2> QED  BY <2>2, <2>3
<1>5. pending_tests' \in Seq(Test)
  <2>1. more \in Seq(Test)
    <3>1. Len(more) \in Nat /\ more = [i \in 1..Len(more) |-> more[i]]
          /\ \A i \in 1..Len(more) : more[i] = t
      BY <1>3
    <3>2. \A i \in 1..Len(more) : more[i] \in Test  BY <3>1, <1>2 DEF t
    <3> QED  BY <3>1, <3>2
  <2> QED  BY <2>1, <1>1, <1>3
<1>6. /\ Unwind \/ UNCHANGED <<status, frames, caught, left>>
      /\ UNCHANGED <<suite_stack, type_stack, only_depth, suite_hooks, describes,
                     unnamed, robbed>>
  BY DEF It, Each, stacks, history
<1>7. /\ frames' \in Seq(Frame) /\ only_depth' \in Nat
      /\ status' \in {"loading", "failed"} /\ caught' \in BOOLEAN /\ left' \in Nat
      /\ (caught => caught')
      /\ Stacks' /\ Exact'
  BY <1>1, <1>6, UnwindStep
<1>8. TypeOK'  BY <1>1, <1>5, <1>6, <1>7 DEF TypeOK
<1>9. Entries'
  <2>1. ASSUME NEW i \in 1..Len(pending_tests')
        PROVE  Good(pending_tests'[i]) /\ (~caught' => pending_tests'[i].clean)
    <3>1. CASE i \in 1..Len(pending_tests) /\ pending_tests'[i] = pending_tests[i]
      <4>1. Good(pending_tests[i]) /\ (~caught => pending_tests[i].clean)
        BY <3>1, <1>1 DEF Entries
      <4> QED  BY <3>1, <4>1, <1>7
    <3>2. CASE pending_tests'[i] = t
      <4>1. Good(t) /\ t.clean = ~caught  BY <1>2 DEF t
      <4> QED  BY <3>2, <4>1, <1>7
    <3> QED  BY <3>1, <3>2, <1>4
  <2>2. \A i \in 1..Len(suite_hooks') : Around(suite_hooks'[i])  BY <1>1, <1>6 DEF Entries
  <2> QED  BY <2>1, <2>2 DEF Entries
<1> QED  BY <1>7, <1>8, <1>9 DEF Inv

LEMMA HookStep ==
    ASSUME Inv, Hook
    PROVE  Inv'
<1> DEFINE h == HookHere
<1>1. /\ TypeOK /\ Stacks /\ Exact /\ Entries /\ suite_hooks \in Seq(HookEntry)
      /\ frames \in Seq(Frame) /\ suite_stack \in Seq(Name) /\ caught \in BOOLEAN
      /\ left \in Nat /\ unnamed \in BOOLEAN /\ robbed \in BOOLEAN
  BY DEF Inv, TypeOK
<1>2. /\ suite_hooks' = Append(suite_hooks, h)
      /\ UNCHANGED <<status, frames, suite_stack, type_stack, only_depth, pending_tests,
                     describes, caught, left, unnamed, robbed>>
  BY DEF Hook, stacks, history
<1>3. h \in HookEntry  BY <1>1 DEF HookEntry, HookHere
<1>4. /\ h.stack = suite_stack /\ h.around = frames /\ h.clean = ~caught
      /\ h.left = left /\ h.unnamed = unnamed /\ h.robbed = robbed
  BY DEF HookHere
<1> HIDE DEF h
<1>5. Around(h)  BY <1>1, <1>4, AroundHere
<1>6. TypeOK'
  <2>1. suite_hooks' \in Seq(HookEntry)  BY <1>1, <1>2, <1>3
  <2> QED  BY <2>1, <1>1, <1>2 DEF TypeOK
<1>7. Stacks' /\ Exact'  BY <1>1, <1>2 DEF Stacks, Exact
<1>8. Entries'
  <2>1. ASSUME NEW i \in 1..Len(suite_hooks') PROVE Around(suite_hooks'[i])
    <3>1. CASE i = Len(suite_hooks) + 1
      <4>1. suite_hooks'[i] = h  BY <3>1, <1>1, <1>2, <1>3
      <4> QED  BY <4>1, <1>5
    <3>2. CASE i # Len(suite_hooks) + 1
      <4>1. i \in 1..Len(suite_hooks) /\ suite_hooks'[i] = suite_hooks[i]
        BY <3>2, <1>1, <1>2, <1>3
      <4> QED  BY <4>1, <1>1 DEF Entries
    <3> QED  BY <3>1, <3>2
  <2>2. \A i \in 1..Len(pending_tests') :
            Good(pending_tests'[i]) /\ (~caught' => pending_tests'[i].clean)
    BY <1>1, <1>2 DEF Entries
  <2> QED  BY <2>1, <2>2 DEF Entries
<1> QED  BY <1>6, <1>7, <1>8 DEF Inv

LEMMA NextInv ==
    ASSUME RegistrationAssumption
    PROVE  Inv /\ [Next]_vars => Inv'
<1> SUFFICES ASSUME Inv, [Next]_vars PROVE Inv'  OBVIOUS
<1>0. caught \in BOOLEAN  BY DEF Inv, TypeOK
<1>1. ASSUME NEW name \in Name \cup {NoName}, NEW type \in Type \cup {NoType},
             NEW only \in BOOLEAN, Describe(name, type, only)
      PROVE  Inv'
  <2>1. (TypeOK /\ Stacks /\ Exact)'  BY <1>1, DescribeStep
  <2>2. UNCHANGED <<pending_tests, suite_hooks, caught>>  BY <1>1 DEF Describe, history
  <2>3. Entries'  BY <2>2, <1>0, OldEntries
  <2> QED  BY <2>1, <2>3 DEF Inv
<1>2. CASE EndDescribe
  <2>1. (TypeOK /\ Stacks /\ Exact)'  BY <1>2, EndDescribeStep
  <2>2. UNCHANGED <<pending_tests, suite_hooks, caught>>  BY <1>2 DEF EndDescribe, Return
  <2>3. Entries'  BY <2>2, <1>0, OldEntries
  <2> QED  BY <2>1, <2>3 DEF Inv
<1>3. CASE Raise \/ DescribeOnlyRefused
  <2>1. /\ status = "loading" /\ Unwind
        /\ UNCHANGED <<suite_stack, type_stack, pending_tests, suite_hooks, unnamed, robbed>>
        /\ only_depth' = only_depth \/ only_depth' = only_depth + 1
        /\ describes' = describes \/ describes' = describes + 1
    BY <1>3 DEF Raise, DescribeOnlyRefused, stacks
  <2>2. /\ frames' \in Seq(Frame) /\ only_depth' \in Nat
        /\ status' \in {"loading", "failed"} /\ caught' \in BOOLEAN /\ left' \in Nat
        /\ (caught => caught')
        /\ Stacks' /\ Exact'
    BY <2>1, UnwindStep
  <2>3. Entries'  BY <2>1, <2>2, OldEntries
  <2>4. describes' \in Nat  BY <2>1 DEF Inv, TypeOK
  <2>5. TypeOK'  BY <2>1, <2>2, <2>4 DEF Inv, TypeOK
  <2> QED  BY <2>2, <2>3, <2>5 DEF Inv
<1>4. ASSUME NEW mode \in Modes, It(mode) \/ Each(mode) PROVE Inv'
  BY <1>4, TestsStep
<1>5. CASE Hook  BY <1>5, HookStep
<1>6. CASE EndOfFile
  <2>1. /\ status' = "loaded" /\ status = "loading"
        /\ UNCHANGED <<frames, suite_stack, type_stack, only_depth, pending_tests,
                       suite_hooks, describes, caught, left, unnamed, robbed>>
    BY <1>6 DEF EndOfFile, stacks, history
  <2>2. Stacks' /\ Exact'  BY <2>1 DEF Inv, Stacks, Exact
  <2>3. Entries'  BY <2>1, <1>0, OldEntries
  <2>4. TypeOK'  BY <2>1 DEF Inv, TypeOK
  <2> QED  BY <2>2, <2>3, <2>4 DEF Inv
<1>7. CASE UNCHANGED vars
  BY <1>7 DEF vars, stacks, history, Inv, TypeOK, Stacks, Exact, Entries
<1> QED  BY <1>1, <1>2, <1>3, <1>4, <1>5, <1>6, <1>7 DEF Next
----------------------------------------------------------------------------
(* What follows.                                                           *)

\* The stacks and the entries are what Inv says at every moment.
THEOREM RegistrationInvariant == ASSUME RegistrationAssumption PROVE Spec => []Inv
<1>1. Init => Inv  BY InitInv
<1>2. Inv /\ [Next]_vars => Inv'  BY NextInv
<1> QED  BY <1>1, <1>2, PTL DEF Spec

\* The state keeps its shape: above all, only_depth never goes below zero,
\* however errors and describe.only are mixed.
THEOREM DepthNeverNegative == ASSUME RegistrationAssumption PROVE Spec => []TypeOK
<1>1. Inv => TypeOK  BY DEF Inv
<1> QED  BY <1>1, RegistrationInvariant, PTL

\* The suites of what a file registers before it has caught an error are blocks
\* it is written in, and all that have a name unless one was taken away by a
\* block without a name, inside a block that was still under way.
THEOREM SuitesAreLexical == ASSUME RegistrationAssumption PROVE Spec => []LexicalStack
<1>1. Inv => LexicalStack
  <2> SUFFICES ASSUME Inv, NEW r \in Registered, r.clean
               PROVE  SuitesOf(r.around, r.stack, ~r.robbed)
    BY DEF LexicalStack, SuitesOf
  <2>1. Around(r)  BY DEF Inv, Entries, Good, Registered
  <2> QED  BY <2>1 DEF Around
<1> QED  BY <1>1, RegistrationInvariant, PTL

\* Whatever errors were caught, as long as every block that returned had a
\* name: what is registered keeps the blocks it is written in, in order, and
\* gets one name more for each block that an error left.  An only mark is kept
\* whether blocks have names or not.
THEOREM NothingLost == ASSUME RegistrationAssumption PROVE Spec => []CaughtErrorsOnlyAdd
<1>1. Inv => CaughtErrorsOnlyAdd
  <2> SUFFICES ASSUME Inv PROVE CaughtErrorsOnlyAdd  OBVIOUS
  <2>1. \A r \in Registered : Around(r)  BY DEF Inv, Entries, Good, Registered
  <2>2. \A i \in 1..Len(pending_tests) : Focus(pending_tests[i])
    BY DEF Inv, Entries, Good
  <2> QED  BY <2>1, <2>2 DEF CaughtErrorsOnlyAdd, Around, Focus
<1> QED  BY <1>1, RegistrationInvariant, PTL

\* As long as no error was caught a test has the type of a block it is written
\* in, or none, although a block without a type removes one when it ends.
THEOREM TypesFromBlocks == ASSUME RegistrationAssumption PROVE Spec => []TypeFromEnclosing
<1>1. Inv => TypeFromEnclosing
  BY DEF Inv, Entries, Good, Typed, TypeFromEnclosing
<1> QED  BY <1>1, RegistrationInvariant, PTL

\* When a file that caught no error is loaded, the tests that are listed and
\* run are those written as only or inside an only block, or all of them.
THEOREM FocusByText == ASSUME RegistrationAssumption PROVE Spec => []FocusIsLexical
<1>1. Inv => FocusIsLexical
  <2> SUFFICES ASSUME Inv, ~caught PROVE FocusIsLexical  BY DEF FocusIsLexical
  <2> DEFINE Focused == {i \in 1..Len(pending_tests) :
                           pending_tests[i].mode = "only" \/ InOnly(pending_tests[i].around)}
  <2>1. \A i \in 1..Len(pending_tests) : Marked(pending_tests[i]) <=> i \in Focused
    <3> TAKE i \in 1..Len(pending_tests)
    <3>1. Focus(pending_tests[i]) /\ pending_tests[i].clean  BY DEF Inv, Entries, Good
    <3> QED  BY <3>1 DEF Focus, Marked
  <2>2. has_only <=> Focused # {}  BY <2>1 DEF has_only
  <2>3. Collected = IF Focused = {} THEN 1..Len(pending_tests) ELSE Focused
    BY <2>1, <2>2 DEF Collected
  <2> QED  BY <2>3 DEF FocusIsLexical
<1> QED  BY <1>1, RegistrationInvariant, PTL
=============================================================================
