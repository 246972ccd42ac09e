-------------------------- MODULE MockBinaryProofs --------------------------
(***************************************************************************)
(* Proofs about mock binaries for every set of workers, calls and argument *)
(* lists and every number of mocks: what get_calls makes of the log that   *)
(* the concurrent, killable processes of the script leave.  The inductive  *)
(* invariant is Logs: as long as a mock has its directory to itself, its   *)
(* log is Clean, the lines of its calls one after the other with at most   *)
(* the last one incomplete, or Broken, because a call began on an          *)
(* incomplete line or wrote what is no JSON.  Broken logs stay broken and  *)
(* are never read; of a clean log the reader finds exactly these lines.    *)
(***************************************************************************)
EXTENDS MockBinary, TLAPS, FiniteSetTheorems
----------------------------------------------------------------------------
(* The invariant.                                                          *)

\* What a log can hold, arguments that are logged as JSON, and the token
\* between two of them.
Token == {NL, Garbage} \cup Brackets \cup Arg
Plain == Arg \cup Trailing
Sep == ","

\* A call that has written something.
IsCall(r) ==
    /\ r \in [state : {"next", "comma", "done", "killed"}, mock : Mock, args : Args, done : Nat]
    /\ r.done <= Len(r.args)
    /\ r.state = "comma" => r.done \in 1..(Len(r.args) - 1)
    /\ r.state = "done" => r.done = Len(r.args)

\* The tokens of "[" and of n arguments.
Size(n) == IF n = 0 THEN 1 ELSE 2 * n

\* From a on l has what r has written up to the last argument.
Written(l, a, r) ==
    /\ l[a] = "["
    /\ \A k \in 1..r.done : r.args[k] \in Plain /\ l[a + (2 * k - 1)] = Shown(r.args)[k]
    /\ \A k \in 1..(r.done - 1) : l[a + 2 * k] = Sep

\* From a to b l has the line of r and its end, or a part of the line.
Full(l, a, b, r) ==
    /\ r.state = "done" /\ b = a + Size(r.done) + 1 /\ Written(l, a, r)
    /\ l[b - 1] = "]" /\ l[b] = NL

Half(l, a, b, r) ==
    /\ r.state \in {"next", "comma", "killed"}
    /\ \A k \in a..b : l[k] \notin {NL, "]"}
    /\ r.state = "next" => Written(l, a, r) /\ b + 1 = a + Size(r.done)
    /\ r.state = "comma" => Written(l, a, r) /\ b = a + 2 * r.done /\ l[b] = Sep

\* l is the lines of the n calls in R, the last of which may be half a line:
\* the ith is from s[i] to e[i].
Whole(l, R, n, s, e) ==
    /\ n = 0 => Len(l) = 0
    /\ n > 0 => s[1] = 1 /\ e[n] = Len(l)
    /\ \A i \in 1..n :
          /\ s[i] \in 1..Len(l) /\ e[i] \in 1..Len(l) /\ s[i] <= e[i]
          /\ s[i] = 1 \/ l[s[i] - 1] = NL
          /\ Full(l, s[i], e[i], R[i]) \/ (i = n /\ Half(l, s[i], e[i], R[i]))
    /\ \A i, j \in 1..n : i < j => e[i] < s[j]
    /\ \A p \in 1..Len(l) : l[p] = NL => p = Len(l) \/ \E i \in 1..n : s[i] = p + 1

Clean(l, R, n) == \E s, e : Whole(l, R, n, s, e)

\* l will never be read again.
Broken(l) ==
    \E p \in 1..Len(l) : l[p] = Garbage \/ (p > 1 /\ l[p] = "[" /\ l[p - 1] # NL)

Spoils(r) == r.state = "killed" \/ \E k \in 1..Len(r.args) : r.args[k] \notin Plain

Same(r2, r) == r2.done = r.done /\ r2.args = r.args

Records(mock) == [i \in 1..Len(begun[mock]) |-> call[begun[mock][i]]]

Shape ==
    /\ mocks \in [Owner -> Seq(Nat)]
    /\ \A w \in Owner : /\ Len(mocks[w]) <= MaxBinaries
                        /\ \A i \in 1..Len(mocks[w]) : mocks[w][i] = i
    /\ log \in [Directory -> Seq(Token)]
    /\ call = [c \in Call |-> call[c]]
    /\ \A c \in Call : call[c] = None \/ IsCall(call[c])
    /\ begun \in [Mock -> Seq(Call)]
    /\ mixed \subseteq Mock

Created(mock) == mock[2] <= Len(mocks[mock[1]])

\* The calls of a mock are those that have begun, once each.
Listed ==
    /\ \A c \in Call : call[c] # None =>
          /\ Created(call[c].mock)
          /\ \E i \in 1..Len(begun[call[c].mock]) : begun[call[c].mock][i] = c
    /\ \A mock \in Mock :
          /\ \A i \in 1..Len(begun[mock]) :
                call[begun[mock][i]] # None /\ call[begun[mock][i]].mock = mock
          /\ \A i, j \in 1..Len(begun[mock]) : begun[mock][i] = begun[mock][j] => i = j
    /\ \A mock \in mixed : Created(mock)

\* What is to be said of the log of a mock with its own directory.
Legible(mock) ==
    \/ Clean(log[mock[2]], Records(mock), Len(begun[mock])) /\ mock \notin mixed
    \/ /\ Broken(log[mock[2]])
       /\ mock \in mixed \/ \E i \in 1..Len(begun[mock]) : Spoils(call[begun[mock][i]])

Logs == \A mock \in Mock : Sole(mock) => Legible(mock)
----------------------------------------------------------------------------
(* A log that grows.                                                       *)

Grows(l, l2) ==
    /\ l \in Seq(Token) /\ l2 \in Seq(Token) /\ Len(l) <= Len(l2)
    /\ \A p \in 1..Len(l) : l2[p] = l[p]

LEMMA Tokens ==
    /\ "[" \in Token /\ "]" \in Token /\ Sep \in Token /\ NL \in Token /\ Garbage \in Token
    /\ "[" # NL /\ "]" # NL /\ Sep # NL /\ Sep # "]" /\ Garbage # NL
    /\ Garbage # "[" /\ Garbage # "]" /\ Garbage # Sep
    /\ \A x \in Arg : x \in Token /\ x # NL /\ x # "]" /\ x # "[" /\ x # Garbage
  BY MockBinaryAssumption DEF Token, Brackets, Sep

LEMMA CallIs ==
    ASSUME NEW r, IsCall(r)
    PROVE  /\ Len(r.args) \in Nat /\ r.done \in Nat /\ r.done <= Len(r.args)
           /\ r.state \in {"next", "comma", "done", "killed"}
           /\ r.args \in Seq(Arg \cup Trailing \cup Inner \cup Control)
           /\ \A k \in 1..Len(r.args) : r.args[k] \in Plain => Shown(r.args)[k] \in Arg
           /\ r.state = "comma" => r.done > 0 /\ r.done < Len(r.args)
           /\ r.state = "done" => r.done = Len(r.args)
<1>1. r.args \in Args  BY DEF IsCall
<1>2. r.args \in Seq(Arg \cup Trailing \cup Inner \cup Control)
  BY <1>1, MockBinaryAssumption
<1>3. \A k \in 1..Len(r.args) : r.args[k] \in Plain => Shown(r.args)[k] \in Arg
  BY <1>2, MockBinaryAssumption DEF Shown, Plain
<1>4. r.state = "comma" => r.done > 0 /\ r.done < Len(r.args)
  <2>1. Len(r.args) \in Nat  BY <1>2
  <2> QED  BY <2>1 DEF IsCall
<1> QED  BY <1>2, <1>3, <1>4 DEF IsCall

LEMMA WrittenGrows ==
    ASSUME NEW l, NEW l2, Grows(l, l2), NEW a \in 1..Len(l), NEW r, IsCall(r), Written(l, a, r),
           a + Size(r.done) <= Len(l) + 1
    PROVE  Written(l2, a, r)
<1>1. r.done \in Nat /\ Len(l) \in Nat  BY CallIs DEF Grows
<1>2. l2[a] = "["  BY <1>1 DEF Grows, Written
<1>3. ASSUME NEW k \in 1..r.done
      PROVE  r.args[k] \in Plain /\ l2[a + (2 * k - 1)] = Shown(r.args)[k]
  <2>1. a + (2 * k - 1) \in 1..Len(l)  BY <1>1 DEF Size
  <2> QED  BY <2>1 DEF Grows, Written
<1>4. ASSUME NEW k \in 1..(r.done - 1) PROVE l2[a + 2 * k] = Sep
  <2>1. a + 2 * k \in 1..Len(l)  BY <1>1 DEF Size
  <2> QED  BY <2>1 DEF Grows, Written
<1> QED  BY <1>2, <1>3, <1>4 DEF Written

LEMMA FullGrows ==
    ASSUME NEW l, NEW l2, Grows(l, l2), NEW a \in 1..Len(l), NEW b \in 1..Len(l),
           NEW r, IsCall(r), Full(l, a, b, r)
    PROVE  Full(l2, a, b, r)
<1>1. r.done \in Nat /\ Len(l) \in Nat /\ b = a + Size(r.done) + 1
  BY CallIs DEF Grows, Full
<1>2. Size(r.done) \in Nat /\ Size(r.done) > 0  BY <1>1 DEF Size
<1>3. a + Size(r.done) <= Len(l) + 1 /\ b - 1 \in 1..Len(l)  BY <1>1, <1>2
<1>4. Written(l2, a, r)  BY <1>3, WrittenGrows DEF Full
<1>5. l2[b - 1] = l[b - 1] /\ l2[b] = l[b]  BY <1>3 DEF Grows
<1> QED  BY <1>4, <1>5 DEF Same, Full

LEMMA HalfGrows ==
    ASSUME NEW l, NEW l2, Grows(l, l2), NEW a \in 1..Len(l), NEW r, IsCall(r),
           Half(l, a, Len(l), r)
    PROVE  /\ r.state = "next" => Written(l2, a, r)
           /\ r.state = "comma" => Written(l2, a, r) /\ l2[Len(l)] = Sep
           /\ \A k \in a..Len(l) : l2[k] \notin {NL, "]"}
<1>1. r.done \in Nat /\ Len(l) \in Nat  BY CallIs DEF Grows
<1>2. r.state = "next" => a + Size(r.done) <= Len(l) + 1  BY <1>1 DEF Half, Size
<1>3. r.state = "comma" => a + Size(r.done) <= Len(l) + 1
  <2>1. r.state = "comma" => r.done > 0 /\ Len(l) = a + 2 * r.done
    BY CallIs DEF Half
  <2> QED  BY <2>1, <1>1 DEF Size
<1>4. r.state \in {"next", "comma"} => Written(l2, a, r)
  BY <1>2, <1>3, WrittenGrows DEF Half
<1>5. \A k \in a..Len(l) : l2[k] = l[k]
  <2>1. \A k \in a..Len(l) : k \in 1..Len(l)  BY <1>1
  <2> QED  BY <2>1 DEF Grows
<1>6. Len(l) \in a..Len(l)  BY <1>1
<1> QED  BY <1>4, <1>5, <1>6 DEF Half

LEMMA AppendGrows ==
    ASSUME NEW l \in Seq(Token), NEW x \in Token
    PROVE  /\ Grows(l, Append(l, x)) /\ Len(Append(l, x)) = Len(l) + 1
           /\ Append(l, x)[Len(l) + 1] = x
  BY DEF Grows

LEMMA BrokenGrows ==
    ASSUME NEW l, NEW l2, Grows(l, l2), Broken(l)
    PROVE  Broken(l2)
<1>1. Len(l) \in Nat /\ Len(l2) \in Nat  BY DEF Grows
<1>2. PICK p \in 1..Len(l) : l[p] = Garbage \/ (p > 1 /\ l[p] = "[" /\ l[p - 1] # NL)
  BY DEF Broken
<1>3. p \in 1..Len(l2) /\ l2[p] = l[p] /\ (p > 1 => l2[p - 1] = l[p - 1])
  <2>1. p > 1 => p - 1 \in 1..Len(l)  BY <1>1
  <2> QED  BY <2>1, <1>1 DEF Grows
<1> QED  BY <1>2, <1>3 DEF Broken

\* The ith line stays what it is while the log grows and the last one does.
LEMMA WholeContinued ==
    ASSUME NEW l, NEW l2, Grows(l, l2), NEW R, NEW R2, NEW n \in Nat \ {0}, NEW s, NEW e,
           \A i \in 1..n : IsCall(R[i]), \A i \in 1..(n - 1) : R2[i] = R[i],
           Whole(l, R, n, s, e), Half(l, s[n], Len(l), R[n]),
           Full(l2, s[n], Len(l2), R2[n]) \/ Half(l2, s[n], Len(l2), R2[n]),
           \A p \in (Len(l) + 1)..Len(l2) : l2[p] = NL => p = Len(l2)
    PROVE  Clean(l2, R2, n)
<1>1. Len(l) \in Nat /\ Len(l2) \in Nat /\ Len(l) <= Len(l2)  BY DEF Grows
<1>2. n \in 1..n /\ \A i \in 1..n : i # n => i \in 1..(n - 1)  OBVIOUS
<1>3. \A i \in 1..n : s[i] \in 1..Len(l) /\ e[i] \in 1..Len(l) /\ s[i] <= e[i]
  BY DEF Whole
<1> DEFINE f == [i \in 1..n |-> IF i = n THEN Len(l2) ELSE e[i]]
<1>4. f[n] = Len(l2) /\ \A i \in 1..n : i # n => f[i] = e[i]  BY <1>2
<1> HIDE DEF f
<1>5. s[1] = 1 /\ f[n] = Len(l2)  BY <1>4 DEF Whole
<1>6. ASSUME NEW i \in 1..n
      PROVE  /\ s[i] \in 1..Len(l2) /\ f[i] \in 1..Len(l2) /\ s[i] <= f[i]
             /\ s[i] = 1 \/ l2[s[i] - 1] = NL
             /\ Full(l2, s[i], f[i], R2[i]) \/ (i = n /\ Half(l2, s[i], f[i], R2[i]))
  <2>1. s[i] \in 1..Len(l2)  BY <1>1, <1>3
  <2>2. s[i] = 1 \/ l2[s[i] - 1] = NL
    <3>1. s[i] = 1 \/ l[s[i] - 1] = NL  BY DEF Whole
    <3>2. s[i] # 1 => s[i] - 1 \in 1..Len(l)  BY <1>1, <1>3
    <3> QED  BY <3>1, <3>2 DEF Grows
  <2>3. CASE i = n
    <3>1. f[i] = Len(l2) /\ f[i] \in 1..Len(l2) /\ s[i] <= f[i]  BY <2>3, <1>1, <1>3, <1>4
    <3> QED  BY <2>1, <2>2, <2>3, <3>1
  <2>4. CASE i # n
    <3>1. f[i] = e[i] /\ R2[i] = R[i]  BY <2>4, <1>2, <1>4
    <3>2. Full(l, s[i], e[i], R[i])  BY <2>4 DEF Whole
    <3>3. Full(l2, s[i], e[i], R[i])  BY <3>2, <1>3, FullGrows
    <3>4. e[i] \in 1..Len(l2)  BY <1>1, <1>3
    <3> QED  BY <2>1, <2>2, <3>1, <3>3, <3>4, <1>3
  <2> QED  BY <2>3, <2>4
<1>7. \A i, j \in 1..n : i < j => f[i] < s[j]
  <2>1. \A i, j \in 1..n : i < j => i # n /\ e[i] < s[j]  BY DEF Whole
  <2> QED  BY <2>1, <1>4
<1>8. ASSUME NEW p \in 1..Len(l2), l2[p] = NL, p # Len(l2)
      PROVE  \E i \in 1..n : s[i] = p + 1
  <2>1. p \in 1..Len(l)  BY <1>1, <1>8
  <2>2. l[p] = NL  BY <2>1, <1>8 DEF Grows
  <2>3. p # Len(l)
    <3>1. Len(l) \in s[n]..Len(l)  BY <1>1, <1>2, <1>3
    <3> QED  BY <2>2, <3>1 DEF Half
  <2> QED  BY <2>1, <2>2, <2>3 DEF Whole
<1>9. Whole(l2, R2, n, s, f)
  BY <1>5, <1>6, <1>7, <1>8 DEF Whole
<1> QED  BY <1>9 DEF Clean

\* After calls that are done another one begins.
LEMMA WholeBegun ==
    ASSUME NEW l, NEW l2, NEW R, NEW R2, NEW n \in Nat, Clean(l, R, n),
           \A i \in 1..n : IsCall(R[i]) /\ R[i].state = "done" /\ R2[i] = R[i],
           IsCall(R2[n + 1]), R2[n + 1].state = "next", R2[n + 1].done = 0,
           Grows(l, l2), Len(l2) = Len(l) + 1, l2[Len(l) + 1] = "["
    PROVE  Clean(l2, R2, n + 1)
<1> PICK s, e : Whole(l, R, n, s, e)  BY DEF Clean
<1> PICK m \in Nat : m = Len(l)  BY DEF Grows
<1>1. /\ \A i \in 1..(n + 1) : i \in 1..n \/ i = n + 1
      /\ \A i \in 1..n : i \in 1..(n + 1) /\ i # n + 1 /\ ~(n + 1 < i)
      /\ n + 1 \in 1..(n + 1) /\ m + 1 \in 1..(m + 1)
      /\ \A p \in 1..(m + 1) : p \in 1..m \/ p = m + 1
  OBVIOUS
<1> DEFINE t == [i \in 1..(n + 1) |-> IF i = n + 1 THEN m + 1 ELSE s[i]]
           f == [i \in 1..(n + 1) |-> IF i = n + 1 THEN m + 1 ELSE e[i]]
<1>2. /\ t[n + 1] = m + 1 /\ f[n + 1] = m + 1
      /\ \A i \in 1..n : t[i] = s[i] /\ f[i] = e[i]
  BY <1>1
<1> HIDE DEF t, f
<1>3. \A i \in 1..n : s[i] \in 1..m /\ e[i] \in 1..m /\ s[i] <= e[i]  BY DEF Whole
<1>4. n > 0 => l[m] = NL
  <2> SUFFICES ASSUME n > 0 PROVE l[m] = NL  OBVIOUS
  <2>1. n \in 1..n  OBVIOUS
  <2>2. ~Half(l, s[n], e[n], R[n])  BY <2>1 DEF Half
  <2>3. Full(l, s[n], e[n], R[n]) /\ e[n] = m  BY <2>1, <2>2 DEF Whole
  <2> QED  BY <2>3 DEF Full
<1>5. t[1] = 1
  <2>1. CASE n = 0  BY <2>1, <1>2 DEF Whole
  <2>2. CASE n > 0
    <3>1. 1 \in 1..n  BY <2>2
    <3> QED  BY <2>2, <3>1, <1>2 DEF Whole
  <2> QED  BY <2>1, <2>2
<1>6. Half(l2, m + 1, m + 1, R2[n + 1])
  <2>1. \A k \in (m + 1)..(m + 1) : k = m + 1  OBVIOUS
  <2>2. Written(l2, m + 1, R2[n + 1])
    <3>1. (\A k \in 1..0 : FALSE) /\ (\A k \in 1..(0 - 1) : FALSE)  OBVIOUS
    <3> QED  BY <3>1 DEF Written
  <2>3. m + 1 + 1 = m + 1 + Size(0)  BY DEF Size
  <2> QED  BY <2>1, <2>2, <2>3, Tokens DEF Half
<1>7. ASSUME NEW i \in 1..(n + 1)
      PROVE  /\ t[i] \in 1..(m + 1) /\ f[i] \in 1..(m + 1) /\ t[i] <= f[i]
             /\ t[i] = 1 \/ l2[t[i] - 1] = NL
             /\ Full(l2, t[i], f[i], R2[i]) \/ (i = n + 1 /\ Half(l2, t[i], f[i], R2[i]))
  <2>1. CASE i = n + 1
    <3>1. n = 0 => m = 0  BY DEF Whole
    <3>2. n > 0 => m \in 1..m /\ (m + 1) - 1 = m
      <4>1. n > 0 => n \in 1..n  OBVIOUS
      <4> QED  BY <4>1, <1>3
    <3>3. n > 0 => l2[(m + 1) - 1] = NL  BY <3>2, <1>4 DEF Grows
    <3>4. t[i] = 1 \/ l2[t[i] - 1] = NL  BY <2>1, <3>1, <3>3, <1>2
    <3> QED  BY <2>1, <3>4, <1>1, <1>2, <1>6
  <2>2. CASE i \in 1..n
    <3>1. t[i] = s[i] /\ f[i] = e[i] /\ R2[i] = R[i]  BY <2>2, <1>2
    <3>2. Full(l, s[i], e[i], R[i])
      <4>1. ~Half(l, s[i], e[i], R[i])  BY <2>2 DEF Half
      <4> QED  BY <2>2, <4>1 DEF Whole
    <3>3. Full(l2, s[i], e[i], R[i])  BY <2>2, <3>2, <1>3, FullGrows
    <3>4. s[i] = 1 \/ l2[s[i] - 1] = NL
      <4>1. s[i] = 1 \/ l[s[i] - 1] = NL  BY <2>2 DEF Whole
      <4>2. s[i] # 1 => s[i] - 1 \in 1..m  BY <2>2, <1>3
      <4> QED  BY <4>1, <4>2 DEF Grows
    <3>5. s[i] \in 1..(m + 1) /\ e[i] \in 1..(m + 1) /\ s[i] <= e[i]  BY <2>2, <1>3
    <3> QED  BY <3>1, <3>3, <3>4, <3>5
  <2> QED  BY <2>1, <2>2, <1>1
<1>8. ASSUME NEW i \in 1..(n + 1), NEW j \in 1..(n + 1), i < j PROVE f[i] < t[j]
  <2>1. i \in 1..n  BY <1>1, <1>8
  <2>2. CASE j = n + 1
    <3>1. e[i] < m + 1  BY <2>1, <1>3
    <3> QED  BY <2>1, <2>2, <3>1, <1>2
  <2>3. CASE j \in 1..n
    <3>1. e[i] < s[j]  BY <2>1, <2>3, <1>8 DEF Whole
    <3> QED  BY <2>1, <2>3, <3>1, <1>2
  <2> QED  BY <2>2, <2>3, <1>1
<1>9. ASSUME NEW p \in 1..(m + 1), l2[p] = NL
      PROVE  \E i \in 1..(n + 1) : t[i] = p + 1
  <2>1. p \in 1..m /\ l[p] = NL  BY <1>1, <1>9, Tokens DEF Grows
  <2>2. CASE p = m  BY <2>2, <1>1, <1>2
  <2>3. CASE p # m
    <3>1. \E i \in 1..n : s[i] = p + 1  BY <2>1, <2>3 DEF Whole
    <3> QED  BY <3>1, <1>1, <1>2
  <2> QED  BY <2>2, <2>3
<1>10. Whole(l2, R2, n + 1, t, f)
  <2>1. Len(l2) = m + 1 /\ n + 1 > 0 /\ n + 1 # 0  OBVIOUS
  <2> QED  BY <2>1, <1>2, <1>5, <1>7, <1>8, <1>9 DEF Whole
<1> QED  BY <1>10 DEF Clean

\* A call that is not done is the last one, and its line is not complete.
LEMMA LastIsHalf ==
    ASSUME NEW l, NEW R, NEW n \in Nat, NEW s, NEW e, Whole(l, R, n, s, e),
           NEW i \in 1..n, R[i].state # "done"
    PROVE  i = n /\ s[n] \in 1..Len(l) /\ Half(l, s[n], Len(l), R[n])
<1>1. i = n /\ Half(l, s[i], e[i], R[i])  BY DEF Whole, Full
<1>2. n > 0 /\ n \in 1..n  OBVIOUS
<1>3. e[n] = Len(l) /\ s[n] \in 1..Len(l)  BY <1>2 DEF Whole
<1> QED  BY <1>1, <1>3

LEMMA CleanContinued ==
    ASSUME NEW l, NEW l2, Grows(l, l2), NEW R, NEW R2, NEW n \in Nat, Clean(l, R, n),
           \A i \in 1..n : IsCall(R[i]), NEW c \in 1..n, R[c].state # "done",
           \A i \in 1..n : i # c => R2[i] = R[i],
           \A a \in 1..Len(l) : Half(l, a, Len(l), R[c]) =>
               Full(l2, a, Len(l2), R2[c]) \/ Half(l2, a, Len(l2), R2[c]),
           \A p \in (Len(l) + 1)..Len(l2) : l2[p] = NL => p = Len(l2)
    PROVE  Clean(l2, R2, n)
<1> PICK s, e : Whole(l, R, n, s, e)  BY DEF Clean
<1>1. c = n /\ s[n] \in 1..Len(l) /\ Half(l, s[n], Len(l), R[n])  BY LastIsHalf
<1>2. \A i \in 1..(n - 1) : R2[i] = R[i]
  <2>1. \A i \in 1..(n - 1) : i \in 1..n /\ i # n  OBVIOUS
  <2> QED  BY <1>1, <2>1
<1>3. n \in Nat \ {0}  OBVIOUS
<1>4. Full(l2, s[n], Len(l2), R2[n]) \/ Half(l2, s[n], Len(l2), R2[n])  BY <1>1
<1> QED  BY <1>1, <1>2, <1>3, <1>4, WholeContinued

\* "[" after a line that is not complete.
LEMMA BegunTooEarly ==
    ASSUME NEW l, NEW l2, Grows(l, l2), NEW R, NEW n \in Nat, Clean(l, R, n),
           NEW c \in 1..n, R[c].state # "done",
           Len(l2) = Len(l) + 1, l2[Len(l) + 1] = "["
    PROVE  Broken(l2)
<1> PICK s, e : Whole(l, R, n, s, e)  BY DEF Clean
<1> PICK m \in Nat : m = Len(l)  BY DEF Grows
<1>1. s[n] \in 1..m /\ Half(l, s[n], m, R[n])  BY LastIsHalf
<1>2. m \in s[n]..m /\ m \in 1..m /\ m + 1 \in 1..(m + 1) /\ m + 1 > 1 /\ (m + 1) - 1 = m
  BY <1>1
<1>3. l[m] # NL  BY <1>1, <1>2 DEF Half
<1>4. l2[(m + 1) - 1] # NL  BY <1>2, <1>3 DEF Grows
<1> QED  BY <1>2, <1>4 DEF Broken

LEMMA HalfTakesComma ==
    ASSUME NEW l, NEW l2, Grows(l, l2), NEW a \in 1..Len(l), NEW r, IsCall(r), NEW r2,
           Half(l, a, Len(l), r), r.state = "next", r.done > 0,
           r2.state = "comma", Same(r2, r),
           Len(l2) = Len(l) + 1, l2[Len(l) + 1] = Sep
    PROVE  Half(l2, a, Len(l2), r2)
<1> PICK m \in Nat : m = Len(l)  BY DEF Grows
<1>1. r.done \in Nat  BY CallIs
<1>2. Written(l2, a, r) /\ \A k \in a..m : l2[k] \notin {NL, "]"}  BY HalfGrows
<1>3. Written(l2, a, r2)  BY <1>2 DEF Same, Written, Shown
<1>4. m + 1 = a + 2 * r.done  BY <1>1 DEF Half, Size
<1>5. \A k \in a..(m + 1) : k \in a..m \/ k = m + 1  OBVIOUS
<1>6. \A k \in a..(m + 1) : l2[k] \notin {NL, "]"}  BY <1>2, <1>5, Tokens
<1> QED  BY <1>3, <1>4, <1>6 DEF Same, Half

LEMMA HalfTakesArgument ==
    ASSUME NEW l, NEW l2, Grows(l, l2), NEW a \in 1..Len(l), NEW r, IsCall(r), NEW r2,
           Half(l, a, Len(l), r), r.state = "comma" \/ (r.state = "next" /\ r.done = 0),
           r.done < Len(r.args), r.args[r.done + 1] \in Plain,
           r2.state = "next", r2.done = r.done + 1, r2.args = r.args,
           Len(l2) = Len(l) + 1, l2[Len(l) + 1] = Shown(r.args)[r.done + 1]
    PROVE  Half(l2, a, Len(l2), r2)
<1> PICK m \in Nat : m = Len(l)  BY DEF Grows
<1> PICK d \in Nat : d = r.done  BY CallIs
<1>1. /\ Written(l2, a, r) /\ \A k \in a..m : l2[k] \notin {NL, "]"}
      /\ r.state = "comma" => l2[m] = Sep
  BY HalfGrows
<1>2. m = a + 2 * d
  <2>1. d = 0 => m + 1 = a + 1 \/ m = a + 2 * d  BY DEF Half, Size
  <2>2. d # 0 => m = a + 2 * d  BY DEF Half
  <2> QED  BY <2>1, <2>2
<1>3. l2[m + 1] \in Arg
  <2>1. d + 1 \in 1..Len(r.args)  BY CallIs
  <2> QED  BY <2>1, CallIs
<1>4. \A k \in a..(m + 1) : l2[k] \notin {NL, "]"}
  <2>1. \A k \in a..(m + 1) : k \in a..m \/ k = m + 1  OBVIOUS
  <2> QED  BY <2>1, <1>1, <1>3, Tokens
<1>5. ASSUME NEW k \in 1..(d + 1)
      PROVE  r2.args[k] \in Plain /\ l2[a + (2 * k - 1)] = Shown(r2.args)[k]
  <2>1. CASE k = d + 1
    <3>1. a \in Nat /\ m \in Nat /\ d \in Nat  OBVIOUS
    <3>2. a + (2 * k - 1) = m + 1  BY ONLY <2>1, <1>2, <3>1
    <3> QED  BY <2>1, <3>2
  <2>2. CASE k \in 1..d  BY <2>2, <1>1 DEF Written
  <2> QED  BY <2>1, <2>2
<1>6. ASSUME NEW k \in 1..d PROVE l2[a + 2 * k] = Sep
  <2>1. CASE k = d
    <3>1. r.state = "comma"  BY <2>1
    <3> QED  BY <2>1, <3>1, <1>1, <1>2
  <2>2. CASE k \in 1..(d - 1)  BY <2>2, <1>1 DEF Written
  <2> QED  BY <2>1, <2>2
<1>7. Written(l2, a, r2)
  <2>1. (d + 1) - 1 = d  OBVIOUS
  <2> QED  BY <2>1, <1>1, <1>5, <1>6 DEF Written
<1>8. m + 1 + 1 = a + Size(d + 1)
  <2>1. Size(d + 1) = 2 * d + 2  BY DEF Size
  <2>2. a \in Nat  OBVIOUS
  <2> QED  BY <1>2, <2>1, <2>2
<1> QED  BY <1>4, <1>7, <1>8 DEF Half

LEMMA HalfCloses ==
    ASSUME NEW l, NEW l2, Grows(l, l2), NEW a \in 1..Len(l), NEW r, IsCall(r), NEW r2,
           Half(l, a, Len(l), r), r.state = "next",
           r2.state = "done", Same(r2, r),
           Len(l2) = Len(l) + 2, l2[Len(l) + 1] = "]", l2[Len(l) + 2] = NL
    PROVE  Full(l2, a, Len(l2), r2)
<1> PICK m \in Nat : m = Len(l)  BY DEF Grows
<1>1. r.done \in Nat  BY CallIs
<1>2. Size(r.done) \in Nat  BY <1>1 DEF Size
<1>3. Written(l2, a, r)  BY HalfGrows
<1>4. Written(l2, a, r2)  BY <1>3 DEF Same, Written, Shown
<1>5. m + 2 = a + Size(r.done) + 1 /\ (m + 2) - 1 = m + 1  BY <1>2 DEF Half
<1> QED  BY <1>4, <1>5 DEF Same, Full

\* What is written is tokens, one of which spoils the log when the argument
\* is not plain.
LEMMA LoggedIs ==
    ASSUME NEW r, IsCall(r), NEW k \in 1..Len(r.args)
    PROVE  /\ Logged(r.args[k]) \in Seq(Token)
           /\ r.args[k] \in Plain => Logged(r.args[k]) = <<Shown(r.args)[k]>>
           /\ r.args[k] \notin Plain => Logged(r.args[k]) # <<>> /\ Logged(r.args[k])[1] = Garbage
<1> DEFINE arg == r.args[k]
<1>1. arg \in Arg \cup Trailing \cup Inner \cup Control  BY CallIs
<1>2. Shown(r.args)[k] = IF arg \in Trailing THEN Kept[arg] ELSE arg  BY CallIs DEF Shown
<1>3. NL \in Token /\ Garbage \in Token /\ Arg \subseteq Token  BY Tokens
<1>4. arg \in Trailing => Kept[arg] \in Arg  BY MockBinaryAssumption
<1>5. CASE arg \in Arg
  <2>1. arg \notin Trailing /\ arg \in Plain  BY <1>5, MockBinaryAssumption DEF Plain
  <2>2. Logged(arg) = <<arg>>  BY <1>5, <2>1, MockBinaryAssumption DEF Logged
  <2> QED  BY <1>2, <1>3, <1>5, <2>1, <2>2
<1>6. CASE arg \in Trailing
  <2>1. arg \notin Arg /\ arg \in Plain  BY <1>6, MockBinaryAssumption DEF Plain
  <2>2. Logged(arg) = <<Kept[arg]>>  BY <1>6, <2>1, MockBinaryAssumption DEF Logged
  <2> QED  BY <1>2, <1>3, <1>4, <1>6, <2>1, <2>2
<1>7. CASE arg \in Inner
  <2>1. arg \notin Plain  BY <1>7, MockBinaryAssumption DEF Plain
  <2>2. Logged(arg) = <<Garbage, NL, Garbage>>
    BY <1>7, <2>1, MockBinaryAssumption DEF Logged, Plain
  <2> QED  BY <1>3, <2>1, <2>2
<1>8. CASE arg \in Control
  <2>1. arg \notin Plain  BY <1>8, MockBinaryAssumption DEF Plain
  <2>2. Logged(arg) = <<Garbage>>
    BY <1>8, <2>1, MockBinaryAssumption DEF Logged, Plain
  <2> QED  BY <1>3, <2>1, <2>2
<1> QED  BY <1>1, <1>5, <1>6, <1>7, <1>8
----------------------------------------------------------------------------
(* Reading a log.                                                          *)

LEMMA Least ==
    ASSUME NEW T, T \subseteq Nat, T # {}
    PROVE  \E x \in T : \A y \in T : x <= y
<1>1. PICK x \in T : \A y \in T : ~(<<y, x>> \in OpToRel(<, Nat))
  BY NatLessThanWellFounded, WFMin
<1>2. \A y \in T : <<y, x>> \in Nat \X Nat  OBVIOUS
<1>3. \A y \in T : ~(y < x)  BY <1>1, <1>2 DEF OpToRel
<1>4. \A y \in T : y \in Nat /\ x \in Nat  OBVIOUS
<1> QED  BY <1>3, <1>4

\* Every place in the log that is no newline is in a line.
LEMMA LineAround ==
    ASSUME NEW l \in Seq(Token), NEW p \in 1..Len(l), l[p] # NL
    PROVE  \E a \in 1..p, b \in p..Len(l) : IsLine(l, a, b)
<1> PICK m \in Nat : m = Len(l)  OBVIOUS
<1> DEFINE After == {b \in p..m : b = m \/ l[b + 1] = NL}
           Before == {d \in 0..(p - 1) : d = p - 1 \/ l[p - d - 1] = NL}
<1>1. \E b \in After : \A y \in After : b <= y
  <2>1. m \in After  OBVIOUS
  <2>2. After \subseteq Nat  OBVIOUS
  <2> QED  BY <2>1, <2>2, Least
<1>2. \E d \in Before : \A y \in Before : d <= y
  <2>1. p - 1 \in Before  OBVIOUS
  <2>2. Before \subseteq Nat  OBVIOUS
  <2> QED  BY <2>1, <2>2, Least
<1> PICK b \in After : \A y \in After : b <= y  BY <1>1
<1> PICK d \in Before : \A y \in Before : d <= y  BY <1>2
<1>3. b \in p..m /\ (b = m \/ l[b + 1] = NL)  OBVIOUS
<1>4. d \in 0..(p - 1) /\ (d = p - 1 \/ l[p - d - 1] = NL)  OBVIOUS
<1>5. ASSUME NEW k \in (p + 1)..b, l[k] = NL PROVE FALSE
  <2>1. k - 1 \in p..m /\ (k - 1) + 1 = k  BY <1>3
  <2>2. k - 1 \in After  BY <1>5, <2>1
  <2>3. b <= k - 1  BY <2>2
  <2> QED  BY <1>3, <2>3
<1>6. ASSUME NEW k \in (p - d)..(p - 1), l[k] = NL PROVE FALSE
  <2>1. p - k - 1 \in 0..(p - 1) /\ p - (p - k - 1) - 1 = k  BY <1>4
  <2>2. p - k - 1 \in Before  BY <1>6, <2>1
  <2>3. d <= p - k - 1  BY <2>2
  <2> QED  BY <1>4, <2>3
<1>7. p - d \in 1..p /\ (p - d = 1 \/ l[(p - d) - 1] = NL)  BY <1>4
<1>8. \A k \in (p - d)..b : l[k] # NL
  <2>1. \A k \in (p - d)..b : k = p \/ k \in (p + 1)..b \/ k \in (p - d)..(p - 1)  BY <1>3, <1>4
  <2> QED  BY <2>1, <1>5, <1>6
<1>9. p - d <= b  BY <1>3, <1>4
<1>10. IsLine(l, p - d, b)  BY <1>3, <1>7, <1>8, <1>9 DEF IsLine
<1> QED  BY <1>3, <1>7, <1>10

LEMMA TextIs ==
    ASSUME NEW l \in Seq(Token), NEW a \in 1..Len(l), NEW b \in a..Len(l)
    PROVE  /\ TextOf(l, <<a, b>>) \in Seq(Token)
           /\ Len(TextOf(l, <<a, b>>)) = b + 1 - a
           /\ \A k \in 1..(b + 1 - a) : TextOf(l, <<a, b>>)[k] = l[a + k - 1]
<1>1. TextOf(l, <<a, b>>) = SubSeq(l, a, b)  BY DEF TextOf
<1>2. /\ SubSeq(l, a, b) \in Seq(Token)
      /\ Len(SubSeq(l, a, b)) = b + 1 - a
      /\ \A k \in 1..(b + 1 - a) : SubSeq(l, a, b)[k] = l[a + k - 1]
  OBVIOUS
<1> QED  BY <1>1, <1>2

LEMMA LineIs ==
    ASSUME NEW l \in Seq(Token), NEW a \in 1..Len(l), NEW b \in 1..Len(l), IsLine(l, a, b)
    PROVE  <<a, b>> \in Lines(l)
  BY DEF Lines

\* What is in an array.
LEMMA ArrayHas ==
    ASSUME NEW text \in Seq(Token), NEW n \in Nat, IsArrayOf(text, n)
    PROVE  /\ Len(text) > 1 /\ text[Len(text)] = "]"
           /\ \A k \in 1..Len(text) : text[k] # Garbage /\ (text[k] = "[" => k = 1)
<1> PICK m \in Nat : m = Len(text)  OBVIOUS
<1>1. /\ text[1] = "[" /\ text[m] = "]"
      /\ \A k \in 1..n : text[2 * k] \in Arg
  BY DEF IsArrayOf
<1>2. \A k \in 1..(n - 1) : text[2 * k + 1] = Sep  BY DEF IsArrayOf, Sep
<1>3. m = IF n = 0 THEN 2 ELSE 2 * n + 1  BY DEF IsArrayOf
<1>4. Sep # "[" /\ "]" # "["  BY DEF Sep
<1>5. ASSUME NEW k \in 1..m, k # 1, k # m
      PROVE  \E j \in 1..n : k = 2 * j \/ (k = 2 * j + 1 /\ j \in 1..(n - 1))
  <2>1. n # 0 /\ m = 2 * n + 1  BY <1>3, <1>5
  <2>2. k \div 2 \in 1..n /\ (k = 2 * (k \div 2) \/ k = 2 * (k \div 2) + 1)  BY <1>5, <2>1
  <2>3. k = 2 * (k \div 2) + 1 => k \div 2 \in 1..(n - 1)  BY <1>5, <2>1, <2>2
  <2> QED  BY <2>2, <2>3
<1>6. ASSUME NEW k \in 1..m
      PROVE  text[k] # Garbage /\ (text[k] = "[" => k = 1)
  <2>1. CASE k = 1  BY <2>1, <1>1, Tokens
  <2>2. CASE k = m  BY <2>2, <1>1, <1>4, Tokens
  <2>3. CASE k # 1 /\ k # m
    <3>1. PICK j \in 1..n : k = 2 * j \/ (k = 2 * j + 1 /\ j \in 1..(n - 1))  BY <1>5, <2>3
    <3>2. CASE k = 2 * j  BY <3>2, <1>1, Tokens
    <3>3. CASE k = 2 * j + 1 /\ j \in 1..(n - 1)  BY <3>3, <1>2, <1>4, Tokens
    <3> QED  BY <3>1, <3>2, <3>3
  <2> QED  BY <2>1, <2>2, <2>3
<1>7. m > 1  BY <1>3
<1> QED  BY <1>1, <1>6, <1>7

LEMMA NoArrayRaises ==
    ASSUME NEW l, NEW line \in Lines(l), ~IsArray(TextOf(l, line))
    PROVE  read_mock_calls(l).raised
<1>1. read_mock_calls(l) = Raised  BY DEF read_mock_calls
<1>2. Raised.raised  BY DEF Raised
<1> QED  BY <1>1, <1>2

LEMMA BrokenRaises ==
    ASSUME NEW l \in Seq(Token), Broken(l)
    PROVE  read_mock_calls(l).raised
<1> PICK m \in Nat : m = Len(l)  OBVIOUS
<1> PICK p \in 1..m : l[p] = Garbage \/ (p > 1 /\ l[p] = "[" /\ l[p - 1] # NL)
  BY DEF Broken
<1>1. l[p] # NL  BY Tokens
<1>2. PICK a \in 1..p, b \in p..m : IsLine(l, a, b)  BY <1>1, LineAround
<1>3. a \in 1..m /\ b \in a..m /\ b \in 1..m /\ p + 1 - a \in 1..(b + 1 - a) /\ a + (p + 1 - a) - 1 = p
  OBVIOUS
<1>4. /\ TextOf(l, <<a, b>>) \in Seq(Token) /\ Len(TextOf(l, <<a, b>>)) = b + 1 - a
      /\ TextOf(l, <<a, b>>)[p + 1 - a] = l[p]
  BY <1>3, TextIs
<1>5. ASSUME IsArray(TextOf(l, <<a, b>>)) PROVE FALSE
  <2>1. PICK n \in 0..Len(TextOf(l, <<a, b>>)) : IsArrayOf(TextOf(l, <<a, b>>), n)
    BY <1>5 DEF IsArray
  <2>2. n \in Nat  OBVIOUS
  <2>3. l[p] # Garbage /\ (l[p] = "[" => p + 1 - a = 1)  BY <1>3, <1>4, <2>1, <2>2, ArrayHas
  <2>4. a = p /\ p > 1 /\ l[p - 1] # NL  BY <2>3
  <2> QED  BY <2>4, <1>2 DEF IsLine
<1> QED  BY <1>2, <1>3, <1>5, LineIs, NoArrayRaises

\* A line that is not complete does not end as an array.
LEMMA HalfRaises ==
    ASSUME NEW l \in Seq(Token), NEW R, NEW n \in Nat, Clean(l, R, n),
           NEW i \in 1..n, R[i].state # "done"
    PROVE  read_mock_calls(l).raised
<1> PICK s, e : Whole(l, R, n, s, e)  BY DEF Clean
<1> PICK m \in Nat : m = Len(l)  OBVIOUS
<1> PICK a : a = s[n]  OBVIOUS
<1>1. i = n /\ a \in 1..m /\ Half(l, a, m, R[n])  BY LastIsHalf
<1>2. \A k \in a..m : l[k] # NL /\ l[k] # "]"  BY <1>1 DEF Half
<1>3. a = 1 \/ l[a - 1] = NL  BY <1>1 DEF Whole
<1>4. a <= m /\ m \in a..m /\ m \in 1..m  BY <1>1
<1>5. IsLine(l, a, m)  BY <1>2, <1>3, <1>4 DEF IsLine
<1>6. /\ TextOf(l, <<a, m>>) \in Seq(Token)
      /\ TextOf(l, <<a, m>>)[Len(TextOf(l, <<a, m>>))] = l[m]
  <2>1. m + 1 - a \in 1..(m + 1 - a) /\ a + (m + 1 - a) - 1 = m  BY <1>1
  <2> QED  BY <2>1, <1>1, <1>4, TextIs
<1>7. ASSUME IsArray(TextOf(l, <<a, m>>)) PROVE FALSE
  <2>1. PICK k \in 0..Len(TextOf(l, <<a, m>>)) : IsArrayOf(TextOf(l, <<a, m>>), k)
    BY <1>7 DEF IsArray
  <2>2. k \in Nat  OBVIOUS
  <2>3. l[m] = "]"  BY <1>6, <2>1, <2>2, ArrayHas
  <2> QED  BY <2>3, <1>2, <1>4
<1> QED  BY <1>1, <1>4, <1>5, <1>7, LineIs, NoArrayRaises

\* The complete line of a call is an array of its arguments.
LEMMA FullReads ==
    ASSUME NEW l \in Seq(Token), NEW a \in 1..Len(l), NEW b \in 1..Len(l),
           a = 1 \/ l[a - 1] = NL, NEW r, IsCall(r), Full(l, a, b, r)
    PROVE  /\ b - 1 \in a..Len(l) /\ l[b] = NL /\ IsLine(l, a, b - 1)
           /\ IsArray(TextOf(l, <<a, b - 1>>))
           /\ Strings(TextOf(l, <<a, b - 1>>)) = Shown(r.args)
<1> PICK m \in Nat : m = Len(l)  OBVIOUS
<1> PICK d \in Nat : d = r.done  BY CallIs
<1> DEFINE text == TextOf(l, <<a, b - 1>>)
<1>1. d = Len(r.args) /\ Written(l, a, r) /\ b = a + Size(d) + 1  BY CallIs DEF Full
<1>2. l[b - 1] = "]" /\ l[b] = NL  BY DEF Full
<1>3. /\ d = 0 => b = a + 2
      /\ d # 0 => b = a + 2 * d + 1
  BY <1>1 DEF Size
<1>4. b - 1 \in a..m /\ b - 1 \in 1..m /\ a <= b - 1  BY <1>3
<1>5. l[a] = "["  BY <1>1 DEF Written
<1>6. \A k \in 1..d : r.args[k] \in Plain /\ l[a + (2 * k - 1)] = Shown(r.args)[k]
  BY <1>1 DEF Written
<1>7. \A k \in 1..(d - 1) : l[a + 2 * k] = Sep  BY <1>1 DEF Written
<1>8. \A k \in 1..d : Shown(r.args)[k] \in Arg  BY <1>1, <1>6, CallIs
<1>9. ASSUME NEW k \in a..(b - 1) PROVE l[k] # NL
  <2>1. CASE k = a  BY <2>1, <1>5, Tokens
  <2>2. CASE k = b - 1  BY <2>2, <1>2, Tokens
  <2>3. CASE k # a /\ k # b - 1
    <3>1. d # 0 /\ b = a + 2 * d + 1  BY <2>3, <1>3
    <3>2. \E j \in 1..d : k = a + (2 * j - 1) \/ (k = a + 2 * j /\ j \in 1..(d - 1))
      <4>1. k - a \in 1..(2 * d - 1)
        <5>1. a \in Nat /\ b \in Nat /\ k \in a..(b - 1)  OBVIOUS
        <5> QED  BY ONLY d \in Nat, <2>3, <3>1, <5>1
      <4>2. PICK q \in Nat : q = k - a  BY <4>1
      <4>3. q = 2 * (q \div 2) \/ q = 2 * ((q + 1) \div 2) - 1  BY <4>2
      <4>4. CASE q = 2 * (q \div 2)
        <5>1. q \div 2 \in 1..d /\ q \div 2 \in 1..(d - 1) /\ k = a + 2 * (q \div 2)
          BY <4>1, <4>2, <4>4
        <5> QED  BY <5>1
      <4>5. CASE q = 2 * ((q + 1) \div 2) - 1
        <5>1. (q + 1) \div 2 \in 1..d /\ k = a + (2 * ((q + 1) \div 2) - 1)
          BY <4>1, <4>2, <4>5
        <5> QED  BY <5>1
      <4> QED  BY <4>3, <4>4, <4>5
    <3>3. PICK j \in 1..d : k = a + (2 * j - 1) \/ (k = a + 2 * j /\ j \in 1..(d - 1))  BY <3>2
    <3>4. CASE k = a + (2 * j - 1)
      <4>1. l[k] = Shown(r.args)[j] /\ Shown(r.args)[j] \in Arg  BY <3>4, <1>6, <1>8
      <4> QED  BY <4>1, Tokens
    <3>5. CASE k = a + 2 * j /\ j \in 1..(d - 1)
      <4>1. l[k] = Sep  BY <3>5, <1>7
      <4> QED  BY <4>1, Tokens
    <3> QED  BY <3>3, <3>4, <3>5
  <2> QED  BY <2>1, <2>2, <2>3
<1>10. (b - 1) + 1 = b  OBVIOUS
<1>11. IsLine(l, a, b - 1)  BY <1>2, <1>4, <1>9, <1>10 DEF IsLine
<1>12. /\ Len(text) = b - a
       /\ \A k \in 1..(b - a) : text[k] = l[a + k - 1]
  <2>1. (b - 1) + 1 - a = b - a  OBVIOUS
  <2> QED  BY <1>4, <2>1, TextIs
<1> HIDE DEF text
<1>13. /\ Len(text) = (IF d = 0 THEN 2 ELSE 2 * d + 1)
       /\ text[1] = "[" /\ text[Len(text)] = "]"
  <2>1. Len(text) = IF d = 0 THEN 2 ELSE 2 * d + 1
    <3>1. Len(text) = b - a  BY <1>12
    <3>2. b - a = IF d = 0 THEN 2 ELSE 2 * d + 1  BY <1>3
    <3> QED  BY <3>1, <3>2
  <2>2. 1 \in 1..(b - a) /\ a + 1 - 1 = a /\ b - a \in 1..(b - a) /\ a + (b - a) - 1 = b - 1
    BY <1>4
  <2>3. text[1] = l[a] /\ text[b - a] = l[b - 1]  BY <2>2, <1>12
  <2> QED  BY <2>1, <2>3, <1>2, <1>5, <1>12
<1>14. ASSUME NEW k \in 1..d PROVE text[2 * k] = Shown(r.args)[k]
  <2>1. 2 * k \in 1..(b - a) /\ a + 2 * k - 1 = a + (2 * k - 1)  BY <1>3
  <2> QED  BY <2>1, <1>6, <1>12
<1>15. ASSUME NEW k \in 1..(d - 1) PROVE text[2 * k + 1] = Sep
  <2>1. 2 * k + 1 \in 1..(b - a) /\ a + (2 * k + 1) - 1 = a + 2 * k  BY <1>3
  <2> QED  BY <2>1, <1>7, <1>12
<1>16. IsArray(text)
  <2>1. \A k \in 1..d : text[2 * k] \in Arg  BY <1>8, <1>14
  <2>2. IsArrayOf(text, d)  BY <2>1, <1>13, <1>15 DEF IsArrayOf, Sep
  <2>3. d \in 0..Len(text)  BY <1>13
  <2> QED  BY <2>2, <2>3 DEF IsArray
<1>17. Strings(text) = Shown(r.args)
  <2>1. (Len(text) - 1) \div 2 = d  BY <1>13
  <2>2. Strings(text) = [k \in 1..d |-> text[2 * k]]  BY <2>1 DEF Strings
  <2>3. Shown(r.args) = [k \in 1..d |-> Shown(r.args)[k]]  BY <1>1 DEF Shown
  <2> QED  BY <2>2, <2>3, <1>14
<1> QED  BY <1>2, <1>4, <1>11, <1>16, <1>17 DEF text

\* The first k lines, counted by where they begin.
FirstLines(s, g, k) == {<<s[i], g[i]>> : i \in 1..k}

LEMMA LinesCount ==
    ASSUME NEW n \in Nat, NEW s, NEW g, \A i, j \in 1..n : i < j => s[i] < s[j],
           \A i \in 1..n : s[i] \in Nat
    PROVE  \A k \in 0..n : Cardinality(FirstLines(s, g, k)) = k
<1> TAKE k \in 0..n
<1> DEFINE S == {<<s[i], g[i]>> : i \in 1..k}
           f == [i \in 1..k |-> <<s[i], g[i]>>]
<1>1. f \in [1..k -> S] /\ \A x \in S : \E i \in 1..k : f[i] = x  OBVIOUS
<1>2. ASSUME NEW i \in 1..k, NEW j \in 1..k, f[i] = f[j] PROVE i = j
  <2>1. s[i] = s[j]  BY <1>2
  <2>2. i \in 1..n /\ j \in 1..n  OBVIOUS
  <2> QED  BY <2>1, <2>2
<1>3. ExistsBijection(1..k, S)
  <2> HIDE DEF f, S
  <2>1. f \in Bijection(1..k, S)
    BY <1>1, <1>2 DEF Bijection, Injection, Surjection, IsInjective
  <2> QED  BY <2>1 DEF ExistsBijection
<1>4. k \in Nat  OBVIOUS
<1>5. S = FirstLines(s, g, k)  BY DEF FirstLines
<1> HIDE DEF S
<1> QED  BY <1>3, <1>4, <1>5, FS_CountingElements

LEMMA NthIs ==
    ASSUME NEW n \in Nat, NEW s, NEW g, \A i, j \in 1..n : i < j => s[i] < s[j],
           \A i \in 1..n : s[i] \in Nat, NEW k \in 1..n
    PROVE  Nth(FirstLines(s, g, n), k) = <<s[k], g[k]>>
<1> DEFINE S == {<<s[i], g[i]>> : i \in 1..n}
           Before(line) == {m \in S : m[1] < line[1]}
<1>1. ASSUME NEW j \in 1..n PROVE Cardinality(Before(<<s[j], g[j]>>)) = j - 1
  <2>1. \A i \in 1..n : s[i] < s[j] <=> i < j
    <3> TAKE i \in 1..n
    <3>1. i < j => s[i] < s[j]  OBVIOUS
    <3>2. j < i => s[j] < s[i]  OBVIOUS
    <3>3. i = j => ~(s[i] < s[j])  OBVIOUS
    <3>4. s[i] \in Nat /\ s[j] \in Nat  OBVIOUS
    <3> QED  BY <3>1, <3>2, <3>3, <3>4
  <2>2. \A i \in 1..n : i < j <=> i \in 1..(j - 1)  OBVIOUS
  <2>3. \A i \in 1..(j - 1) : i \in 1..n  OBVIOUS
  <2>4. Before(<<s[j], g[j]>>) = FirstLines(s, g, j - 1)
    BY <2>1, <2>2, <2>3 DEF FirstLines
  <2>5. j - 1 \in 0..n  OBVIOUS
  <2>6. \A q \in 0..n : Cardinality(FirstLines(s, g, q)) = q  BY LinesCount
  <2> HIDE DEF Before
  <2> QED  BY <2>4, <2>5, <2>6
<1>2. <<s[k], g[k]>> \in S /\ Cardinality(Before(<<s[k], g[k]>>)) = k - 1  BY <1>1
<1>3. ASSUME NEW line \in S, Cardinality(Before(line)) = k - 1 PROVE line = <<s[k], g[k]>>
  <2>1. PICK j \in 1..n : line = <<s[j], g[j]>>  OBVIOUS
  <2>2. j - 1 = k - 1  BY <2>1, <1>1, <1>3
  <2> QED  BY <2>1, <2>2
<1>4. Nth(S, k) = CHOOSE line \in S : Cardinality(Before(line)) = k - 1  BY DEF Nth
<1> HIDE DEF S, Before
<1>5. Nth(S, k) = <<s[k], g[k]>>  BY <1>2, <1>3, <1>4
<1>6. S = FirstLines(s, g, n)  BY DEF S, FirstLines
<1> QED  BY <1>5, <1>6

\* A log of complete lines is read as the calls that wrote them.
LEMMA WholeReads ==
    ASSUME NEW l \in Seq(Token), NEW R, NEW n \in Nat, Clean(l, R, n),
           \A i \in 1..n : IsCall(R[i]) /\ R[i].state = "done"
    PROVE  /\ read_mock_calls(l).raised = FALSE
           /\ read_mock_calls(l).calls = [i \in 1..n |-> Shown(R[i].args)]
<1> PICK s, e : Whole(l, R, n, s, e)  BY DEF Clean
<1> PICK m \in Nat : m = Len(l)  OBVIOUS
<1> DEFINE g == [i \in 1..n |-> e[i] - 1]
<1>1. ASSUME NEW i \in 1..n
      PROVE  /\ s[i] \in 1..m /\ e[i] \in 1..m /\ s[i] <= e[i]
             /\ s[i] = 1 \/ l[s[i] - 1] = NL
             /\ Full(l, s[i], e[i], R[i])
  <2>1. ~Half(l, s[i], e[i], R[i])  BY DEF Half
  <2> QED  BY <2>1 DEF Whole
<1>2. ASSUME NEW i \in 1..n
      PROVE  /\ g[i] = e[i] - 1 /\ g[i] \in s[i]..m /\ l[e[i]] = NL /\ IsLine(l, s[i], g[i])
             /\ IsArray(TextOf(l, <<s[i], g[i]>>))
             /\ Strings(TextOf(l, <<s[i], g[i]>>)) = Shown(R[i].args)
  <2>1. g[i] = e[i] - 1  OBVIOUS
  <2> PICK a \in 1..m, b \in 1..m : a = s[i] /\ b = e[i]  BY <1>1
  <2>2. Full(l, a, b, R[i]) /\ (a = 1 \/ l[a - 1] = NL)  BY <1>1
  <2>3. /\ b - 1 \in a..Len(l) /\ l[b] = NL /\ IsLine(l, a, b - 1)
        /\ IsArray(TextOf(l, <<a, b - 1>>))
        /\ Strings(TextOf(l, <<a, b - 1>>)) = Shown(R[i].args)
    BY <2>2, FullReads
  <2> QED  BY <2>1, <2>3
<1> HIDE DEF g
<1>3. \A i, j \in 1..n : i < j => s[i] < s[j]
  <2>1. \A i, j \in 1..n : i < j => e[i] < s[j]  BY DEF Whole
  <2> QED  BY <2>1, <1>1
<1>4. ASSUME NEW i \in 1..n
      PROVE  s[i] \in 1..Len(l) /\ g[i] \in 1..Len(l)
  <2>1. s[i] \in 1..m /\ g[i] \in s[i]..m  BY <1>1, <1>2
  <2> QED  BY <2>1
<1>4a. \A i \in 1..n : s[i] \in Nat  BY <1>4
<1>5. ASSUME NEW i \in 1..n PROVE <<s[i], g[i]>> \in Lines(l)
  <2> PICK a, b : a = s[i] /\ b = g[i]  OBVIOUS
  <2>1. a \in 1..Len(l) /\ b \in 1..Len(l) /\ IsLine(l, a, b)  BY <1>2, <1>4
  <2> QED  BY <2>1, LineIs
<1>6. ASSUME NEW line \in Lines(l) PROVE \E i \in 1..n : line = <<s[i], g[i]>>
  <2> PICK a \in 1..m, b \in 1..m : line = <<a, b>> /\ IsLine(l, a, b)
    <3>1. line \in (1..m) \X (1..m) /\ IsLine(l, line[1], line[2])  BY DEF Lines
    <3> QED  BY <3>1
  <2>1. /\ a <= b /\ \A k \in a..b : l[k] # NL
        /\ a = 1 \/ l[a - 1] = NL
        /\ b = m \/ l[b + 1] = NL
    BY DEF IsLine
  <2>2. PICK i \in 1..n : s[i] = a
    <3>1. CASE a = 1
      <4>1. n # 0  BY DEF Whole
      <4>2. 1 \in 1..n /\ s[1] = 1  BY <4>1 DEF Whole
      <4> QED  BY <3>1, <4>2
    <3>2. CASE a # 1
      <4>1. a - 1 \in 1..m /\ a - 1 # m /\ (a - 1) + 1 = a  BY <3>2
      <4>2. l[a - 1] = NL  BY <3>2, <2>1
      <4>3. \E i \in 1..n : s[i] = (a - 1) + 1  BY <4>1, <4>2 DEF Whole
      <4> QED  BY <4>1, <4>3
    <3> QED  BY <3>1, <3>2
  <2>3. b < e[i]
    <3>1. e[i] \in 1..m /\ l[e[i]] = NL /\ a <= e[i]  BY <1>1, <1>2, <2>2
    <3>2. ~(e[i] \in a..b)  BY <2>1, <3>1
    <3> QED  BY <3>1, <3>2
  <2>4. b + 1 \notin s[i]..g[i]
    <3>1. b # m /\ l[b + 1] = NL  BY <2>1, <2>3, <1>1
    <3>2. \A k \in s[i]..g[i] : l[k] # NL  BY <1>2 DEF IsLine
    <3> QED  BY <3>1, <3>2
  <2>5. b = g[i]
    <3>1. e[i] \in 1..m /\ g[i] = e[i] - 1 /\ a <= b /\ ~(b + 1 \in a..g[i])
      BY <1>1, <1>2, <2>1, <2>2, <2>4
    <3>2. a \in Nat /\ b \in Nat /\ e[i] \in Nat  BY <3>1
    <3> QED  BY ONLY <2>3, <3>1, <3>2
  <2> QED  BY <2>2, <2>5
<1>7. Lines(l) = FirstLines(s, g, n)  BY <1>5, <1>6 DEF FirstLines
<1>8. \A line \in Lines(l) : IsArray(TextOf(l, line))  BY <1>2, <1>6
<1>9. read_mock_calls(l) = Returned(l, FirstLines(s, g, n))
  BY <1>7, <1>8 DEF read_mock_calls
<1>10. Cardinality(FirstLines(s, g, n)) = n
  <2>1. n \in 0..n  OBVIOUS
  <2> QED  BY <2>1, <1>3, <1>4a, LinesCount
<1>11. ASSUME NEW i \in 1..n
       PROVE  Strings(TextOf(l, Nth(FirstLines(s, g, n), i))) = Shown(R[i].args)
  <2>1. Nth(FirstLines(s, g, n), i) = <<s[i], g[i]>>  BY <1>3, <1>4a, NthIs
  <2> QED  BY <2>1, <1>2
<1>12. [i \in 1..n |-> Strings(TextOf(l, Nth(FirstLines(s, g, n), i)))]
         = [i \in 1..n |-> Shown(R[i].args)]
  BY <1>11
<1>13. Returned(l, FirstLines(s, g, n)) =
         [raised |-> FALSE, calls |-> [i \in 1..n |-> Shown(R[i].args)]]
  BY <1>10, <1>12 DEF Returned
<1> QED  BY <1>9, <1>13
----------------------------------------------------------------------------
(* Steps of a script.                                                      *)

LEMMA MockIs ==
    ASSUME Shape, NEW mock \in Mock
    PROVE  /\ mock[1] \in Owner /\ mock[2] \in Directory /\ mock = <<mock[1], mock[2]>>
           /\ log[mock[2]] \in Seq(Token) /\ begun[mock] \in Seq(Call)
           /\ Len(begun[mock]) \in Nat
           /\ \A w \in Owner : Len(mocks[w]) \in Nat
           /\ Created(mock) => Directory_of(mock) = mock[2]
           /\ Sole(mock) => Created(mock) /\ Directory_of(mock) = mock[2]
           /\ \A other \in Mock : Sole(mock) /\ Created(other) /\ other[2] = mock[2] => other = mock
<1>1. mock[1] \in Owner /\ mock[2] \in Directory /\ mock = <<mock[1], mock[2]>>
  BY DEF Mock
<1>2. \A w \in Owner : Len(mocks[w]) \in Nat  BY DEF Shape
<1>3. Created(mock) => Directory_of(mock) = mock[2]
  <2>1. mock[2] \in Nat /\ mock[2] > 0  BY <1>1, MockBinaryAssumption DEF Directory
  <2>2. Created(mock) => mock[2] \in 1..Len(mocks[mock[1]])  BY <1>1, <1>2, <2>1 DEF Created
  <2> QED  BY <1>1, <2>2 DEF Directory_of, Shape
<1>4. Sole(mock) => Created(mock)  BY DEF Sole, Created
<1>5. ASSUME NEW other \in Mock, Sole(mock), Created(other), other[2] = mock[2] PROVE other = mock
  <2>1. other[1] \in Owner /\ other[2] \in Directory /\ other = <<other[1], other[2]>>
    BY DEF Mock
  <2>2. other[2] \in 1..Len(mocks[other[1]]) /\ mocks[other[1]][other[2]] = other[2]
    <3>1. other[2] \in Nat /\ other[2] > 0  BY <2>1, MockBinaryAssumption DEF Directory
    <3>2. other[2] \in 1..Len(mocks[other[1]])  BY <1>2, <1>5, <2>1, <3>1 DEF Created
    <3> QED  BY <2>1, <3>2 DEF Shape
  <2>3. other[1] = mock[1]  BY <1>3, <1>4, <1>5, <2>1, <2>2 DEF Sole
  <2> QED  BY <1>1, <1>5, <2>1, <2>3
<1>6. log[mock[2]] \in Seq(Token) /\ begun[mock] \in Seq(Call)  BY <1>1 DEF Shape
<1> QED  BY <1>1, <1>2, <1>3, <1>4, <1>5, <1>6

\* c has gone on to another record of the same call, and has written.
Moves(c) ==
    /\ UNCHANGED <<mocks, begun, mixed>>
    /\ call' = [d \in Call |-> call'[d]] /\ \A d \in Call : d # c => call'[d] = call[d]
    /\ IsCall(call[c]) /\ IsCall(call'[c]) /\ call'[c].mock = call[c].mock
    /\ Spoils(call[c]) => Spoils(call'[c])
    /\ log' \in [Directory -> Seq(Token)]
    /\ Grows(log[call[c].mock[2]], log'[call[c].mock[2]])
    /\ \A d \in Directory : d # call[c].mock[2] => log'[d] = log[d]

\* What c has written continues its line, or spoils the log.
Continues(l, l2, r, r2) ==
    \/ Broken(l2) /\ Spoils(r2)
    \/ /\ \A a \in 1..Len(l) : Half(l, a, Len(l), r) =>
              Full(l2, a, Len(l2), r2) \/ Half(l2, a, Len(l2), r2)
       /\ \A p \in (Len(l) + 1)..Len(l2) : l2[p] = NL => p = Len(l2)

LEMMA RecordsAre ==
    ASSUME Shape, Listed, NEW mock \in Mock
    PROVE  \A i \in 1..Len(begun[mock]) :
              /\ begun[mock][i] \in Call /\ Records(mock)[i] = call[begun[mock][i]]
              /\ IsCall(Records(mock)[i]) /\ Records(mock)[i].mock = mock
<1> TAKE i \in 1..Len(begun[mock])
<1>1. begun[mock][i] \in Call  BY MockIs
<1>2. call[begun[mock][i]] # None /\ call[begun[mock][i]].mock = mock  BY DEF Listed
<1>3. Records(mock)[i] = call[begun[mock][i]]  BY DEF Records
<1> QED  BY <1>1, <1>2, <1>3 DEF Shape

LEMMA MovesKeep ==
    ASSUME Shape, Listed, Logs, NEW c \in Call, call[c].state # "done", Moves(c),
           Continues(log[call[c].mock[2]], log'[call[c].mock[2]], call[c], call'[c])
    PROVE  Shape' /\ Listed' /\ Logs'
<1> DEFINE mk == call[c].mock
<1>1. mk \in Mock /\ call[c] # None /\ call'[c] # None
  BY DEF Moves, IsCall, None
<1>2. Shape'  BY DEF Moves, Shape
<1>3. \A d \in Call : (call'[d] # None <=> call[d] # None) /\ (call[d] # None => call'[d].mock = call[d].mock)
  BY <1>1 DEF Moves
<1>4. Listed'
  <2>1. mocks' = mocks /\ begun' = begun /\ mixed' = mixed  BY DEF Moves
  <2>2. \A mock \in Mock : \A i \in 1..Len(begun[mock]) : begun[mock][i] \in Call
    BY RecordsAre
  <2>3. \A mock : Created(mock)' = Created(mock)  BY <2>1 DEF Created
  <2>4. \A d \in Call : call'[d] # None =>
          /\ Created(call'[d].mock)
          /\ \E i \in 1..Len(begun[call'[d].mock]) : begun[call'[d].mock][i] = d
    BY <1>3 DEF Listed
  <2>5. \A mock \in Mock : \A i \in 1..Len(begun[mock]) :
           call'[begun[mock][i]] # None /\ call'[begun[mock][i]].mock = mock
    BY <1>3, <2>2 DEF Listed
  <2> QED  BY <2>1, <2>4, <2>5 DEF Listed, Created
<1>5. ASSUME NEW mock \in Mock, Sole(mock)' PROVE Legible(mock)'
  <2>1. Sole(mock) /\ Legible(mock)  BY <1>5 DEF Sole, Directory_of, Moves, Logs
  <2>2. begun'[mock] = begun[mock] /\ (mock \in mixed' <=> mock \in mixed)  BY DEF Moves
  <2>3. CASE mock # mk
    <3>1. log'[mock[2]] = log[mock[2]]
      <4>1. Created(mk)  BY <1>1 DEF Listed
      <4>2. mk[2] # mock[2]  BY <1>1, <2>1, <2>3, <4>1, MockIs
      <4> QED  BY <4>2, MockIs DEF Moves
    <3>2. \A i \in 1..Len(begun[mock]) : call'[begun[mock][i]] = call[begun[mock][i]]
      <4> TAKE i \in 1..Len(begun[mock])
      <4>1. begun[mock][i] \in Call /\ begun[mock][i] # c  BY <2>3, RecordsAre
      <4> QED  BY <4>1 DEF Moves
    <3>3. Records(mock)' = Records(mock)  BY <2>2, <3>2 DEF Records
    <3> QED  BY <2>1, <2>2, <3>1, <3>2, <3>3 DEF Legible
  <2>4. CASE mock = mk
    <3> PICK l, l2 : l = log[mock[2]] /\ l2 = log'[mock[2]]  OBVIOUS
    <3> PICK n \in Nat : n = Len(begun[mock])  BY MockIs
    <3> PICK R, R2 : R = Records(mock) /\ R2 = Records(mock)'  OBVIOUS
    <3>1. Grows(l, l2)  BY <2>4 DEF Moves
    <3>2. PICK i \in 1..n : begun[mock][i] = c  BY <1>1, <2>4 DEF Listed
    <3>3. \A j \in 1..n : begun[mock][j] \in Call /\ IsCall(R[j]) /\ R[j] = call[begun[mock][j]]
      BY RecordsAre
    <3>4. R2 = [j \in 1..n |-> call'[begun[mock][j]]]  BY <2>2 DEF Records
    <3>5. \A j \in 1..n : j # i => R2[j] = R[j]
      <4> TAKE j \in 1..n
      <4>1. j # i => begun[mock][j] # c  BY <3>2 DEF Listed
      <4> QED  BY <3>3, <3>4, <4>1 DEF Moves
    <3>6. R[i] = call[c] /\ R2[i] = call'[c]  BY <3>2, <3>3, <3>4
    <3>7. CASE Broken(l) /\ (mock \in mixed \/ \E j \in 1..n : Spoils(call[begun[mock][j]]))
      <4>1. Broken(l2)  BY <3>1, <3>7, BrokenGrows
      <4>2. \A j \in 1..n : Spoils(call[begun[mock][j]]) => Spoils(call'[begun[mock][j]])
        BY <3>3 DEF Moves
      <4> QED  BY <2>2, <3>7, <4>1, <4>2 DEF Legible
    <3>8. CASE Clean(l, R, n) /\ mock \notin mixed
      <4>1. CASE Broken(l2) /\ Spoils(call'[c])  BY <2>2, <3>2, <4>1 DEF Legible
      <4>2. CASE /\ \A a \in 1..Len(l) : Half(l, a, Len(l), R[i]) =>
                       Full(l2, a, Len(l2), R2[i]) \/ Half(l2, a, Len(l2), R2[i])
                 /\ \A p \in (Len(l) + 1)..Len(l2) : l2[p] = NL => p = Len(l2)
        <5>1. \A j \in 1..n : IsCall(R[j])  BY <3>3
        <5>2. R[i].state # "done"  BY <3>6
        <5>3. Clean(l2, R2, n)  BY SMTT(30), <3>1, <3>5, <3>8, <4>2, <5>1, <5>2, CleanContinued
        <5> QED  BY <2>2, <3>8, <5>3 DEF Legible
      <4> QED  BY <2>4, <3>6, <4>1, <4>2 DEF Continues
    <3> QED  BY <2>1, <3>7, <3>8 DEF Legible
  <2> QED  BY <2>3, <2>4
<1> QED  BY <1>2, <1>4, <1>5 DEF Logs

LEMMA ConcatGrows ==
    ASSUME NEW l \in Seq(Token), NEW tokens \in Seq(Token)
    PROVE  /\ l \o tokens \in Seq(Token) /\ Grows(l, l \o tokens)
           /\ Len(l \o tokens) = Len(l) + Len(tokens)
           /\ \A k \in 1..Len(tokens) : (l \o tokens)[Len(l) + k] = tokens[k]
  BY DEF Grows

LEMMA RunningIs ==
    ASSUME Shape, Listed, NEW c \in Call, call[c].state \in {"next", "comma"}
    PROVE  /\ IsCall(call[c]) /\ call[c].mock \in Mock /\ Created(call[c].mock)
           /\ call[c].state # "done" /\ call[c].state # "killed"
<1>1. None.state = "none"  BY DEF None
<1>2. call[c] # None  BY <1>1
<1> QED  BY <1>2 DEF Shape, Listed, IsCall

\* The call's record after a step, and what it can be.
MovedTo(r, st, n) == [r EXCEPT !.state = st, !.done = n]

LEMMA RecordMoves ==
    ASSUME NEW r, IsCall(r), NEW st \in {"next", "comma", "done", "killed"}, NEW n \in Nat,
           n <= Len(r.args), st = "comma" => n \in 1..(Len(r.args) - 1),
           st = "done" => n = Len(r.args), r.state # "killed"
    PROVE  /\ IsCall(MovedTo(r, st, n))
           /\ MovedTo(r, st, n).state = st /\ MovedTo(r, st, n).done = n
           /\ MovedTo(r, st, n).args = r.args /\ MovedTo(r, st, n).mock = r.mock
           /\ Spoils(r) => Spoils(MovedTo(r, st, n))
<1> PICK r2 : r2 = MovedTo(r, st, n)  OBVIOUS
<1>1. r \in [state : {"next", "comma", "done", "killed"}, mock : Mock, args : Args, done : Nat]
  BY DEF IsCall
<1>2. /\ r2 \in [state : {"next", "comma", "done", "killed"}, mock : Mock, args : Args, done : Nat]
      /\ r2.state = st /\ r2.done = n /\ r2.args = r.args /\ r2.mock = r.mock
  BY <1>1 DEF MovedTo
<1>3. IsCall(r2)  BY <1>2 DEF IsCall
<1> QED  BY <1>2, <1>3 DEF Spoils

\* A step of c that writes.
LEMMA WriteMoves ==
    ASSUME Shape, Listed, NEW c \in Call, IsCall(call[c]), Created(call[c].mock),
           NEW tokens \in Seq(Token), Write(c, tokens), UNCHANGED <<mocks, begun, mixed>>,
           call' = [call EXCEPT ![c] = call'[c]],
           IsCall(call'[c]), call'[c].mock = call[c].mock, Spoils(call[c]) => Spoils(call'[c])
    PROVE  /\ Moves(c)
           /\ log[call[c].mock[2]] \in Seq(Token) /\ log'[call[c].mock[2]] \in Seq(Token)
           /\ Grows(log[call[c].mock[2]], log'[call[c].mock[2]])
           /\ Len(log'[call[c].mock[2]]) = Len(log[call[c].mock[2]]) + Len(tokens)
           /\ \A k \in 1..Len(tokens) :
                 log'[call[c].mock[2]][Len(log[call[c].mock[2]]) + k] = tokens[k]
<1> PICK mk \in Mock : mk = call[c].mock  BY DEF IsCall
<1> PICK d \in Directory : d = mk[2]  BY MockIs
<1>1. Directory_of(mk) = d /\ log[d] \in Seq(Token)  BY MockIs
<1>2. log' = [log EXCEPT ![d] = log[d] \o tokens]  BY <1>1 DEF Write
<1>3. log \in [Directory -> Seq(Token)]  BY DEF Shape
<1>4. log[d] \o tokens \in Seq(Token) /\ Grows(log[d], log[d] \o tokens)  BY <1>1, ConcatGrows
<1>5. /\ log' \in [Directory -> Seq(Token)] /\ log'[d] = log[d] \o tokens
      /\ \A x \in Directory : x # d => log'[x] = log[x]
  BY <1>2, <1>3, <1>4
<1>6. call = [x \in Call |-> call[x]]  BY DEF Shape
<1>7. call' = [x \in Call |-> call'[x]] /\ \A x \in Call : x # c => call'[x] = call[x]
  <2> PICK new : new = call'[c]  OBVIOUS
  <2>1. call' = [call EXCEPT ![c] = new]  OBVIOUS
  <2>2. DOMAIN call = Call  BY <1>6
  <2>3. \A x \in Call : call'[x] = IF x = c THEN new ELSE call[x]  BY <2>1, <2>2
  <2>4. call' = [x \in Call |-> IF x = c THEN new ELSE call[x]]  BY <2>1, <2>2
  <2> QED  BY <2>3, <2>4
<1>8. Moves(c)  BY <1>4, <1>5, <1>7 DEF Moves
<1>9. /\ Len(log'[d]) = Len(log[d]) + Len(tokens)
      /\ \A k \in 1..Len(tokens) : log'[d][Len(log[d]) + k] = tokens[k]
  <2>1. /\ Len(log[d] \o tokens) = Len(log[d]) + Len(tokens)
        /\ \A k \in 1..Len(tokens) : (log[d] \o tokens)[Len(log[d]) + k] = tokens[k]
    BY <1>1, ConcatGrows
  <2> QED  BY <2>1, <1>5
<1> QED  BY <1>1, <1>4, <1>5, <1>8, <1>9

LEMMA CommaKeeps ==
    ASSUME Shape, Listed, Logs, NEW c \in Call, Comma(c)
    PROVE  Shape' /\ Listed' /\ Logs'
<1> PICK r, r2 : r = call[c] /\ r2 = call'[c]  OBVIOUS
<1> PICK tokens \in Seq(Token) : tokens = <<Sep>>
  <2>1. <<Sep>> \in Seq(Token)  BY Tokens
  <2> QED  BY <2>1
<1>1. /\ r.state = "next" /\ r.done \in 1..(Len(r.args) - 1)
      /\ call' = [call EXCEPT ![c].state = "comma"]
  BY DEF Comma
<1>2. IsCall(r) /\ Created(r.mock) /\ r.state # "done" /\ r.state # "killed"  BY <1>1, RunningIs
<1>3. r2 = MovedTo(r, "comma", r.done)
  BY <1>1, <1>2 DEF Shape, IsCall, MovedTo
<1>4. r.done \in Nat /\ r.done <= Len(r.args) /\ r.done > 0  BY <1>1, <1>2, CallIs
<1>5. /\ IsCall(r2) /\ r2.state = "comma" /\ Same(r2, r) /\ r2.mock = r.mock
      /\ Spoils(r) => Spoils(r2)
  <2> PICK n \in Nat : n = r.done  BY <1>4
  <2>1. n <= Len(r.args) /\ n \in 1..(Len(r.args) - 1)  BY <1>1, <1>4
  <2>2. /\ IsCall(MovedTo(r, "comma", n))
        /\ MovedTo(r, "comma", n).state = "comma" /\ MovedTo(r, "comma", n).done = n
        /\ MovedTo(r, "comma", n).args = r.args /\ MovedTo(r, "comma", n).mock = r.mock
        /\ Spoils(r) => Spoils(MovedTo(r, "comma", n))
    BY ONLY n \in Nat, <2>1, <1>2, RecordMoves
  <2> QED  BY <2>2, <1>3 DEF Same
<1>6. call' = [call EXCEPT ![c] = r2]  BY <1>1 DEF Shape
<1>7. Write(c, tokens) /\ UNCHANGED <<mocks, begun, mixed>>  BY DEF Comma, Sep
<1> PICK l, l2 : l = log[r.mock[2]] /\ l2 = log'[r.mock[2]]  OBVIOUS
<1>8. /\ Moves(c) /\ l \in Seq(Token) /\ l2 \in Seq(Token) /\ Grows(l, l2)
      /\ Len(l2) = Len(l) + Len(tokens)
      /\ \A k \in 1..Len(tokens) : l2[Len(l) + k] = tokens[k]
  BY <1>2, <1>5, <1>6, <1>7, WriteMoves
<1>9. Len(l2) = Len(l) + 1 /\ l2[Len(l) + 1] = Sep
  <2>1. Len(tokens) = 1 /\ tokens[1] = Sep /\ 1 \in 1..1  OBVIOUS
  <2> QED  BY <2>1, <1>8
<1>10. ASSUME NEW a \in 1..Len(l), Half(l, a, Len(l), r) PROVE Half(l2, a, Len(l2), r2)
  BY ONLY <1>1, <1>2, <1>4, <1>5, <1>8, <1>9, <1>10, HalfTakesComma
<1>11. \A p \in (Len(l) + 1)..Len(l2) : l2[p] = NL => p = Len(l2)
  BY <1>8, <1>9
<1>12. Continues(l, l2, r, r2)  BY <1>10, <1>11 DEF Continues
<1> QED  BY <1>2, <1>8, <1>12, MovesKeep

LEMMA ArgumentKeeps ==
    ASSUME Shape, Listed, Logs, NEW c \in Call, Argument(c)
    PROVE  Shape' /\ Listed' /\ Logs'
<1> PICK r, r2 : r = call[c] /\ r2 = call'[c]  OBVIOUS
<1>1. /\ r.state = "comma" \/ (r.state = "next" /\ r.done = 0 /\ r.args # <<>>)
      /\ call' = [call EXCEPT ![c].state = "next", ![c].done = @ + 1]
  BY DEF Argument
<1>2. IsCall(r) /\ Created(r.mock) /\ r.state # "done" /\ r.state # "killed"
  <2>1. r.state \in {"next", "comma"}  BY <1>1
  <2> QED  BY <2>1, RunningIs
<1>3. r2 = MovedTo(r, "next", r.done + 1)
  BY <1>1, <1>2 DEF Shape, IsCall, MovedTo
<1>4. /\ r.done \in Nat /\ Len(r.args) \in Nat /\ r.done < Len(r.args)
      /\ r.state = "comma" \/ (r.state = "next" /\ r.done = 0)
  <2>1. r.args # <<>> => Len(r.args) > 0
    <3>1. r.args \in Seq(Arg \cup Trailing \cup Inner \cup Control)  BY <1>2, CallIs
    <3> QED  BY <3>1
  <2> QED  BY <2>1, <1>1, <1>2, CallIs
<1>5. /\ IsCall(r2) /\ r2.state = "next" /\ r2.done = r.done + 1 /\ r2.args = r.args /\ r2.mock = r.mock
      /\ Spoils(r) => Spoils(r2)
  <2> PICK n \in Nat : n = r.done + 1  BY <1>4
  <2>1. n <= Len(r.args)  BY <1>4
  <2>2. /\ IsCall(MovedTo(r, "next", n))
        /\ MovedTo(r, "next", n).state = "next" /\ MovedTo(r, "next", n).done = n
        /\ MovedTo(r, "next", n).args = r.args /\ MovedTo(r, "next", n).mock = r.mock
        /\ Spoils(r) => Spoils(MovedTo(r, "next", n))
    BY ONLY n \in Nat, <2>1, <1>2, RecordMoves
  <2> QED  BY <2>2, <1>3
<1>6. call' = [call EXCEPT ![c] = r2]  BY <1>1 DEF Shape
<1> PICK k \in 1..Len(r.args) : k = r.done + 1
  <2>1. r.done + 1 \in 1..Len(r.args)  BY <1>4
  <2> QED  BY <2>1
<1>7. /\ Logged(r.args[k]) \in Seq(Token)
      /\ r.args[k] \in Plain => Logged(r.args[k]) = <<Shown(r.args)[k]>>
      /\ r.args[k] \notin Plain => Logged(r.args[k]) # <<>> /\ Logged(r.args[k])[1] = Garbage
  BY <1>2, LoggedIs
<1> PICK tokens \in Seq(Token) : tokens = Logged(r.args[k])  BY <1>7
<1>8. Write(c, tokens) /\ UNCHANGED <<mocks, begun, mixed>>  BY DEF Argument
<1> PICK l, l2 : l = log[r.mock[2]] /\ l2 = log'[r.mock[2]]  OBVIOUS
<1>9. /\ Moves(c) /\ l \in Seq(Token) /\ l2 \in Seq(Token) /\ Grows(l, l2)
      /\ Len(l2) = Len(l) + Len(tokens)
      /\ \A j \in 1..Len(tokens) : l2[Len(l) + j] = tokens[j]
  <2>1. IsCall(r2) /\ r2.mock = r.mock /\ (Spoils(r) => Spoils(r2))  BY <1>5
  <2> QED
    BY ONLY Shape, Listed, c \in Call, r = call[c] /\ r2 = call'[c], tokens \in Seq(Token),
            l = log[r.mock[2]] /\ l2 = log'[r.mock[2]], <2>1, <1>2, <1>6, <1>8, WriteMoves
<1>10. CASE r.args[k] \in Plain
  <2>1. Len(l2) = Len(l) + 1 /\ l2[Len(l) + 1] = Shown(r.args)[k]
    <3>1. Len(tokens) = 1 /\ tokens[1] = Shown(r.args)[k] /\ 1 \in 1..1  BY <1>7, <1>10
    <3> QED  BY <3>1, <1>9
  <2>2. Shown(r.args)[k] # NL
    <3>1. Shown(r.args)[k] \in Arg  BY <1>2, <1>10, CallIs
    <3> QED  BY <3>1, Tokens
  <2>3. k = r.done + 1  OBVIOUS
  <2>4. ASSUME NEW a \in 1..Len(l), Half(l, a, Len(l), r) PROVE Half(l2, a, Len(l2), r2)
    BY ONLY <1>2, <1>4, <1>5, <1>9, <1>10, <2>1, <2>3, <2>4, HalfTakesArgument
  <2>5. \A p \in (Len(l) + 1)..Len(l2) : l2[p] = NL => p = Len(l2)
    <3>1. Len(l) \in Nat  BY <1>9
    <3> QED  BY ONLY <2>1, <3>1
  <2>6. Continues(l, l2, r, r2)  BY <2>4, <2>5 DEF Continues
  <2> QED  BY <1>2, <1>9, <2>6, MovesKeep
<1>11. CASE r.args[k] \notin Plain
  <2>1. Len(tokens) > 0 /\ tokens[1] = Garbage  BY <1>7, <1>11
  <2>2. Len(l) + 1 \in 1..Len(l2) /\ l2[Len(l) + 1] = Garbage
    <3>1. 1 \in 1..Len(tokens) /\ Len(tokens) \in Nat /\ Len(l) \in Nat  BY <2>1, <1>9
    <3>2. l2[Len(l) + 1] = tokens[1]  BY <3>1, <1>9
    <3>3. Len(l2) = Len(l) + Len(tokens)  BY <1>9
    <3> QED  BY ONLY <2>1, <3>1, <3>2, <3>3
  <2>3. Broken(l2)  BY <2>2 DEF Broken
  <2>4. Spoils(r2)
    <3>1. k \in 1..Len(r2.args) /\ r2.args[k] \notin Plain  BY <1>5, <1>11
    <3> QED  BY <3>1 DEF Spoils
  <2>5. Continues(l, l2, r, r2)  BY <2>3, <2>4 DEF Continues
  <2> QED  BY <1>2, <1>9, <2>5, MovesKeep
<1> QED  BY <1>10, <1>11

LEMMA CloseKeeps ==
    ASSUME Shape, Listed, Logs, NEW c \in Call, Close(c)
    PROVE  Shape' /\ Listed' /\ Logs'
<1> PICK r, r2 : r = call[c] /\ r2 = call'[c]  OBVIOUS
<1> PICK tokens \in Seq(Token) : tokens = <<"]", NL>>
  <2>1. <<"]", NL>> \in Seq(Token)  BY Tokens
  <2> QED  BY <2>1
<1>1. /\ r.state = "next" /\ r.done = Len(r.args)
      /\ call' = [call EXCEPT ![c].state = "done"]
  BY DEF Close
<1>2. IsCall(r) /\ Created(r.mock) /\ r.state # "done" /\ r.state # "killed"  BY <1>1, RunningIs
<1>3. r2 = MovedTo(r, "done", r.done)
  BY <1>1, <1>2 DEF Shape, IsCall, MovedTo
<1>4. r.done \in Nat  BY <1>2, CallIs
<1>5. /\ IsCall(r2) /\ r2.state = "done" /\ Same(r2, r) /\ r2.mock = r.mock
      /\ Spoils(r) => Spoils(r2)
  <2> PICK n \in Nat : n = r.done  BY <1>4
  <2>1. n <= Len(r.args) /\ n = Len(r.args)  BY <1>1, <1>4
  <2>2. /\ IsCall(MovedTo(r, "done", n))
        /\ MovedTo(r, "done", n).state = "done" /\ MovedTo(r, "done", n).done = n
        /\ MovedTo(r, "done", n).args = r.args /\ MovedTo(r, "done", n).mock = r.mock
        /\ Spoils(r) => Spoils(MovedTo(r, "done", n))
    BY ONLY n \in Nat, <2>1, <1>2, RecordMoves
  <2> QED  BY <2>2, <1>3 DEF Same
<1>6. call' = [call EXCEPT ![c] = r2]  BY <1>1 DEF Shape
<1>7. Write(c, tokens) /\ UNCHANGED <<mocks, begun, mixed>>  BY DEF Close
<1> PICK l, l2 : l = log[r.mock[2]] /\ l2 = log'[r.mock[2]]  OBVIOUS
<1>8. /\ Moves(c) /\ l \in Seq(Token) /\ l2 \in Seq(Token) /\ Grows(l, l2)
      /\ Len(l2) = Len(l) + Len(tokens)
      /\ \A k \in 1..Len(tokens) : l2[Len(l) + k] = tokens[k]
  BY <1>2, <1>5, <1>6, <1>7, WriteMoves
<1>9. Len(l2) = Len(l) + 2 /\ l2[Len(l) + 1] = "]" /\ l2[Len(l) + 2] = NL
  <2>1. Len(tokens) = 2 /\ tokens[1] = "]" /\ tokens[2] = NL /\ 1 \in 1..2 /\ 2 \in 1..2  OBVIOUS
  <2> QED  BY <2>1, <1>8
<1>10. ASSUME NEW a \in 1..Len(l), Half(l, a, Len(l), r) PROVE Full(l2, a, Len(l2), r2)
  BY ONLY <1>1, <1>2, <1>4, <1>5, <1>8, <1>9, <1>10, HalfCloses
<1>11. \A p \in (Len(l) + 1)..Len(l2) : l2[p] = NL => p = Len(l2)
  <2>1. Len(l) \in Nat  BY <1>8
  <2>2. \A p \in (Len(l) + 1)..Len(l2) : p = Len(l) + 1 \/ p = Len(l2)  BY <2>1, <1>9
  <2> QED  BY <2>2, <1>9, Tokens
<1>12. Continues(l, l2, r, r2)  BY <1>10, <1>11 DEF Continues
<1> QED  BY <1>2, <1>8, <1>12, MovesKeep

LEMMA KillKeeps ==
    ASSUME Shape, Listed, Logs, NEW c \in Call, Kill(c)
    PROVE  Shape' /\ Listed' /\ Logs'
<1> PICK r, r2 : r = call[c] /\ r2 = call'[c]  OBVIOUS
<1>1. /\ r.state \in {"next", "comma"} /\ call' = [call EXCEPT ![c].state = "killed"]
      /\ UNCHANGED <<mocks, log, begun, mixed>>
  BY DEF Kill, Running
<1>2. IsCall(r) /\ Created(r.mock) /\ r.state # "done" /\ r.state # "killed" /\ r.mock \in Mock
  BY <1>1, RunningIs
<1>3. r2 = MovedTo(r, "killed", r.done)
  BY <1>1, <1>2 DEF Shape, IsCall, MovedTo
<1>4. r.done \in Nat /\ r.done <= Len(r.args)  BY <1>2, CallIs
<1>5. IsCall(r2) /\ r2.state = "killed" /\ r2.mock = r.mock
  <2> PICK n \in Nat : n = r.done  BY <1>4
  <2>1. n <= Len(r.args)  BY <1>4
  <2>2. /\ IsCall(MovedTo(r, "killed", n))
        /\ MovedTo(r, "killed", n).state = "killed" /\ MovedTo(r, "killed", n).done = n
        /\ MovedTo(r, "killed", n).args = r.args /\ MovedTo(r, "killed", n).mock = r.mock
        /\ Spoils(r) => Spoils(MovedTo(r, "killed", n))
    BY ONLY n \in Nat, <2>1, <1>2, RecordMoves
  <2> QED  BY <2>2, <1>3
<1> PICK l : l = log[r.mock[2]]  OBVIOUS
<1>6. l \in Seq(Token) /\ l = log'[r.mock[2]]  BY <1>1, <1>2, MockIs
<1>7. Grows(l, l)  BY <1>6 DEF Grows
<1>8. call' = [d \in Call |-> call'[d]] /\ \A d \in Call : d # c => call'[d] = call[d]
  BY <1>1 DEF Shape
<1>9. Spoils(r2)  BY <1>5 DEF Spoils
<1>10. log' \in [Directory -> Seq(Token)]  BY <1>1 DEF Shape
<1>11. Moves(c)  BY <1>1, <1>2, <1>5, <1>6, <1>7, <1>8, <1>9, <1>10 DEF Moves
<1>12. ASSUME NEW a \in 1..Len(l), Half(l, a, Len(l), r) PROVE Half(l, a, Len(l), r2)
  BY <1>5, <1>12 DEF Half
<1>13. \A p \in (Len(l) + 1)..Len(l) : FALSE  BY <1>6
<1>14. Continues(l, l, r, r2)  BY <1>12, <1>13 DEF Continues
<1> QED  BY <1>2, <1>6, <1>11, <1>14, MovesKeep

\* The record of a call that begins.
Fresh(mock, args) == [state |-> "next", mock |-> mock, args |-> args, done |-> 0]

LEMMA FreshIs ==
    ASSUME NEW mock \in Mock, NEW args \in Args
    PROVE  /\ IsCall(Fresh(mock, args)) /\ Fresh(mock, args) # None
           /\ Fresh(mock, args).state = "next" /\ Fresh(mock, args).done = 0
           /\ Fresh(mock, args).mock = mock
<1>1. args \in Seq(Arg \cup Trailing \cup Inner \cup Control)  BY MockBinaryAssumption
<1>2. Len(args) \in Nat  BY <1>1
<1>3. 0 <= Len(args)  BY <1>2
<1>4. Fresh(mock, args).state = "next" /\ None.state = "none"  BY DEF Fresh, None
<1>5. /\ Fresh(mock, args) \in
            [state : {"next", "comma", "done", "killed"}, mock : Mock, args : Args, done : Nat]
      /\ Fresh(mock, args).done = 0 /\ Fresh(mock, args).mock = mock /\ Fresh(mock, args).args = args
  BY DEF Fresh
<1> QED  BY <1>3, <1>4, <1>5 DEF IsCall

\* c has begun a call of mock.
Begins(c, mock) ==
    /\ mocks' = mocks
    /\ call' = [d \in Call |-> call'[d]] /\ \A d \in Call : d # c => call'[d] = call[d]
    /\ call[c] = None /\ call'[c] # None /\ IsCall(call'[c])
    /\ call'[c].mock = mock /\ call'[c].state = "next" /\ call'[c].done = 0
    /\ log' \in [Directory -> Seq(Token)]
    /\ Grows(log[mock[2]], log'[mock[2]]) /\ Len(log'[mock[2]]) = Len(log[mock[2]]) + 1
    /\ log'[mock[2]][Len(log[mock[2]]) + 1] = "["
    /\ \A d \in Directory : d # mock[2] => log'[d] = log[d]
    /\ begun' \in [Mock -> Seq(Call)]
    /\ Len(begun'[mock]) = Len(begun[mock]) + 1 /\ begun'[mock][Len(begun[mock]) + 1] = c
    /\ \A i \in 1..Len(begun[mock]) : begun'[mock][i] = begun[mock][i]
    /\ \A other \in Mock : other # mock => begun'[other] = begun[other]
    /\ mixed' = IF \E d \in Call : Running(d) /\ call[d].mock = mock
                THEN mixed \cup {mock} ELSE mixed

LEMMA BeginBegins ==
    ASSUME Shape, NEW c \in Call, NEW mock \in Mock, NEW args \in Args, Begin(c, mock, args)
    PROVE  Begins(c, mock) /\ Created(mock)
<1>1. Created(mock)  BY DEF Begin, Created
<1>2. mocks' = mocks /\ call[c] = None  BY DEF Begin
<1>3. /\ call' = [d \in Call |-> call'[d]] /\ call'[c] = Fresh(mock, args)
      /\ \A d \in Call : d # c => call'[d] = call[d]
  BY DEF Begin, Shape, Fresh
<1>4. /\ call'[c] # None /\ IsCall(call'[c])
      /\ call'[c].mock = mock /\ call'[c].state = "next" /\ call'[c].done = 0
  BY <1>3, FreshIs
<1> PICK d \in Directory : d = mock[2]  BY MockIs
<1>5. Directory_of(mock) = d /\ log[d] \in Seq(Token)  BY <1>1, MockIs
<1> PICK l2 : l2 = Append(log[d], "[")  OBVIOUS
<1>6. l2 \in Seq(Token) /\ Grows(log[d], l2) /\ Len(l2) = Len(log[d]) + 1 /\ l2[Len(log[d]) + 1] = "["
  <2>1. "[" \in Token  BY Tokens
  <2> QED  BY <2>1, <1>5, AppendGrows DEF Grows
<1>7. log' = [log EXCEPT ![d] = l2]  BY <1>5 DEF Begin
<1>8. log \in [Directory -> Seq(Token)]  BY DEF Shape
<1>9. /\ log' \in [Directory -> Seq(Token)] /\ log'[d] = l2
      /\ \A x \in Directory : x # d => log'[x] = log[x]
  BY <1>6, <1>7, <1>8
<1> PICK b \in Seq(Call) : b = begun[mock]  BY MockIs
<1> PICK b2 : b2 = Append(b, c)  OBVIOUS
<1>10. /\ b2 \in Seq(Call) /\ Len(b2) = Len(b) + 1 /\ b2[Len(b) + 1] = c
       /\ \A i \in 1..Len(b) : b2[i] = b[i]
  OBVIOUS
<1>11. begun' = [begun EXCEPT ![mock] = b2] /\ begun \in [Mock -> Seq(Call)]
  BY DEF Begin, Shape
<1>12. /\ begun' \in [Mock -> Seq(Call)] /\ begun'[mock] = b2
       /\ \A other \in Mock : other # mock => begun'[other] = begun[other]
  BY <1>10, <1>11
<1>13. mixed' = IF \E x \in Call : Running(x) /\ call[x].mock = mock
                THEN mixed \cup {mock} ELSE mixed
  BY DEF Begin
<1> QED  BY <1>1, <1>2, <1>3, <1>4, <1>6, <1>9, <1>10, <1>12, <1>13 DEF Begins

LEMMA BeginsListed ==
    ASSUME Shape, Listed, NEW c \in Call, NEW mock \in Mock, Begins(c, mock), Created(mock)
    PROVE  Listed'
<1> PICK n \in Nat : n = Len(begun[mock])  BY MockIs
<1>1. /\ mocks' = mocks /\ call[c] = None /\ call'[c] # None /\ call'[c].mock = mock
      /\ \A d \in Call : d # c => call'[d] = call[d]
      /\ Len(begun'[mock]) = n + 1 /\ begun'[mock][n + 1] = c
      /\ \A i \in 1..n : begun'[mock][i] = begun[mock][i]
      /\ \A other \in Mock : other # mock => begun'[other] = begun[other]
  BY DEF Begins
<1>2. \A other \in Mock : Created(other)' = Created(other)  BY <1>1 DEF Created
<1>3. \A other \in Mock : \A i \in 1..Len(begun[other]) :
         /\ begun[other][i] \in Call /\ call[begun[other][i]] # None
         /\ call[begun[other][i]].mock = other /\ begun[other][i] # c
         /\ call'[begun[other][i]] = call[begun[other][i]]
  <2>1. \A other \in Mock : \A i \in 1..Len(begun[other]) :
           /\ begun[other][i] \in Call /\ call[begun[other][i]] # None
           /\ call[begun[other][i]].mock = other
    BY RecordsAre DEF Listed
  <2> QED  BY <2>1, <1>1
<1>4. \A i \in 1..(n + 1) : i \in 1..n \/ i = n + 1  OBVIOUS
<1>5. ASSUME NEW d \in Call, call'[d] # None
      PROVE  /\ call'[d].mock \in Mock /\ Created(call'[d].mock)
             /\ \E i \in 1..Len(begun'[call'[d].mock]) : begun'[call'[d].mock][i] = d
  <2>1. CASE d = c
    <3>1. n + 1 \in 1..(n + 1)  OBVIOUS
    <3> QED  BY <2>1, <3>1, <1>1
  <2>2. CASE d # c
    <3>1. call'[d] = call[d] /\ call[d] # None  BY <2>2, <1>1, <1>5
    <3> PICK mk \in Mock : mk = call[d].mock  BY <3>1 DEF Shape, IsCall
    <3>2. Created(mk) /\ \E i \in 1..Len(begun[mk]) : begun[mk][i] = d  BY <3>1 DEF Listed
    <3>3. \E i \in 1..Len(begun'[mk]) : begun'[mk][i] = d
      <4>1. CASE mk = mock
        <5>1. PICK i \in 1..n : begun[mock][i] = d  BY <3>2, <4>1
        <5>2. i \in 1..(n + 1) /\ begun'[mock][i] = d  BY <5>1, <1>1
        <5> QED  BY <4>1, <5>2, <1>1
      <4>2. CASE mk # mock  BY <3>2, <4>2, <1>1
      <4> QED  BY <4>1, <4>2
    <3> QED  BY <3>1, <3>2, <3>3
  <2> QED  BY <2>1, <2>2
<1>6. ASSUME NEW other \in Mock, NEW i \in 1..Len(begun'[other])
      PROVE  call'[begun'[other][i]] # None /\ call'[begun'[other][i]].mock = other
  <2>1. CASE other = mock
    <3>1. CASE i = n + 1  BY <2>1, <3>1, <1>1
    <3>2. CASE i \in 1..n  BY <2>1, <3>2, <1>1, <1>3
    <3> QED  BY <2>1, <3>1, <3>2, <1>1, <1>4
  <2>2. CASE other # mock
    <3>1. begun'[other] = begun[other] /\ i \in 1..Len(begun[other])  BY <2>2, <1>1
    <3> QED  BY <3>1, <1>3
  <2> QED  BY <2>1, <2>2
<1>7. ASSUME NEW other \in Mock, NEW i \in 1..Len(begun'[other]), NEW j \in 1..Len(begun'[other]),
             begun'[other][i] = begun'[other][j]
      PROVE  i = j
  <2>1. CASE other = mock
    <3>1. i \in 1..(n + 1) /\ j \in 1..(n + 1)  BY <2>1, <1>1
    <3>2. CASE i \in 1..n /\ j \in 1..n
      <4>1. begun[mock][i] = begun[mock][j]  BY <2>1, <3>2, <1>1, <1>7
      <4> QED  BY <3>2, <4>1 DEF Listed
    <3>3. CASE i = n + 1 /\ j \in 1..n  BY <2>1, <3>3, <1>1, <1>3, <1>7
    <3>4. CASE i \in 1..n /\ j = n + 1  BY <2>1, <3>4, <1>1, <1>3, <1>7
    <3> QED  BY <3>1, <3>2, <3>3, <3>4, <1>4
  <2>2. CASE other # mock
    <3>1. begun'[other] = begun[other]  BY <2>2, <1>1
    <3> QED  BY <3>1, <1>7 DEF Listed
  <2> QED  BY <2>1, <2>2
<1>8. \A other \in mixed' : Created(other)'
  <2>1. mixed' \subseteq mixed \cup {mock}  BY DEF Begins
  <2>2. \A other \in mixed \cup {mock} : other \in Mock /\ Created(other)  BY DEF Listed, Shape
  <2> QED  BY <2>1, <2>2, <1>2
<1>9. \A d \in Call : call'[d] # None =>
        /\ call'[d].mock[2] <= Len(mocks'[call'[d].mock[1]])
        /\ \E i \in 1..Len(begun'[call'[d].mock]) : begun'[call'[d].mock][i] = d
  BY <1>1, <1>5 DEF Created
<1> QED  BY <1>6, <1>7, <1>8, <1>9 DEF Listed, Created

\* What is said of a log stays so when another mock's calls go on.
LEMMA LegibleStays ==
    ASSUME Shape, Listed, NEW mock \in Mock, Legible(mock),
           log'[mock[2]] = log[mock[2]], begun'[mock] = begun[mock],
           mock \in mixed' <=> mock \in mixed,
           \A i \in 1..Len(begun[mock]) : call'[begun[mock][i]] = call[begun[mock][i]]
    PROVE  Legible(mock)'
<1>1. Records(mock)' = Records(mock)  BY DEF Records
<1> QED  BY <1>1 DEF Legible

LEMMA BeginsLegible ==
    ASSUME Shape, Listed, NEW c \in Call, NEW mock \in Mock, Begins(c, mock), Legible(mock)
    PROVE  Legible(mock)'
<1> PICK l, l2 : l = log[mock[2]] /\ l2 = log'[mock[2]]  OBVIOUS
<1> PICK n \in Nat : n = Len(begun[mock])  BY MockIs
<1> PICK R, R2 : R = Records(mock) /\ R2 = Records(mock)'  OBVIOUS
<1>1. /\ Grows(l, l2) /\ Len(l2) = Len(l) + 1 /\ l2[Len(l) + 1] = "["
      /\ Len(begun'[mock]) = n + 1 /\ begun'[mock][n + 1] = c
      /\ \A i \in 1..n : begun'[mock][i] = begun[mock][i]
      /\ \A d \in Call : d # c => call'[d] = call[d]
      /\ call[c] = None /\ IsCall(call'[c]) /\ call'[c].state = "next" /\ call'[c].done = 0
  BY DEF Begins
<1>2. ASSUME NEW i \in 1..n
      PROVE  /\ begun[mock][i] \in Call /\ IsCall(R[i]) /\ R[i] = call[begun[mock][i]]
             /\ R[i].mock = mock
             /\ call'[begun'[mock][i]] = call[begun[mock][i]]
  <2>1. begun[mock][i] \in Call /\ IsCall(R[i]) /\ R[i] = call[begun[mock][i]] /\ R[i].mock = mock
    BY RecordsAre
  <2>2. begun[mock][i] # c  BY <1>1 DEF Listed
  <2> QED  BY <2>1, <2>2, <1>1
<1>3. R2 = [i \in 1..(n + 1) |-> call'[begun'[mock][i]]]  BY <1>1 DEF Records
<1>4. n + 1 \in 1..(n + 1) /\ \A i \in 1..n : i \in 1..(n + 1)  OBVIOUS
<1>5. R2[n + 1] = call'[c] /\ \A i \in 1..n : R2[i] = R[i]  BY <1>1, <1>2, <1>3, <1>4
<1>6. mixed \subseteq mixed'  BY DEF Begins
<1>7. CASE Broken(l) /\ (mock \in mixed \/ \E i \in 1..n : Spoils(call[begun[mock][i]]))
  <2>1. Broken(l2)  BY <1>1, <1>7, BrokenGrows
  <2>2. \A i \in 1..n : Spoils(call[begun[mock][i]]) => Spoils(call'[begun'[mock][i]])
    BY <1>2
  <2>3. mock \in mixed' \/ \E i \in 1..(n + 1) : Spoils(call'[begun'[mock][i]])
    BY <1>4, <1>6, <1>7, <2>2
  <2> QED  BY <1>1, <2>1, <2>3 DEF Legible
<1>8. CASE Clean(l, R, n) /\ mock \notin mixed
  <2>1. CASE \A i \in 1..n : R[i].state = "done"
    <3>1. ~\E d \in Call : Running(d) /\ call[d].mock = mock
      <4> SUFFICES ASSUME NEW d \in Call, Running(d), call[d].mock = mock PROVE FALSE
        OBVIOUS
      <4>1. None.state = "none"  BY DEF None
      <4>2. call[d] # None  BY <4>1 DEF Running
      <4>3. PICK i \in 1..n : begun[mock][i] = d  BY <4>2 DEF Listed
      <4>4. call[d].state = "done"  BY <4>3, <1>2, <2>1
      <4> QED  BY <4>4 DEF Running
    <3>2. mock \notin mixed'  BY <3>1, <1>8 DEF Begins
    <3>3. \A i \in 1..n : IsCall(R[i]) /\ R[i].state = "done" /\ R2[i] = R[i]
      BY <1>2, <1>5, <2>1
    <3>4. IsCall(R2[n + 1]) /\ R2[n + 1].state = "next" /\ R2[n + 1].done = 0  BY <1>1, <1>5
    <3>5. Clean(l2, R2, n + 1)  BY ONLY n \in Nat, <1>1, <1>8, <3>3, <3>4, WholeBegun
    <3> QED  BY <1>1, <3>2, <3>5 DEF Legible
  <2>2. CASE ~\A i \in 1..n : R[i].state = "done"
    <3> PICK i \in 1..n : R[i].state # "done"  BY <2>2
    <3>1. Broken(l2)  BY SMTT(30), <1>1, <1>8, BegunTooEarly
    <3>2. R[i].state \in {"next", "comma", "killed"}  BY <1>2 DEF IsCall
    <3>3. CASE R[i].state = "killed"
      <4>1. Spoils(call'[begun'[mock][i]])  BY <1>2, <3>3 DEF Spoils
      <4> QED  BY <1>1, <1>4, <3>1, <4>1 DEF Legible
    <3>4. CASE R[i].state \in {"next", "comma"}
      <4>1. begun[mock][i] \in Call /\ Running(begun[mock][i]) /\ call[begun[mock][i]].mock = mock
        BY <1>2, <3>4 DEF Running
      <4>2. mock \in mixed'  BY <4>1 DEF Begins
      <4> QED  BY <3>1, <4>2 DEF Legible
    <3> QED  BY <3>2, <3>3, <3>4
  <2> QED  BY <2>1, <2>2
<1> QED  BY <1>7, <1>8 DEF Legible

LEMMA BeginKeeps ==
    ASSUME Shape, Listed, Logs, NEW c \in Call, NEW mock \in Mock, NEW args \in Args,
           Begin(c, mock, args)
    PROVE  Shape' /\ Listed' /\ Logs'
<1>1. Begins(c, mock) /\ Created(mock)  BY BeginBegins
<1>2. Shape'
  <2>1. mixed' \subseteq Mock  BY <1>1 DEF Begins, Shape
  <2>2. \A d \in Call : call'[d] = None \/ IsCall(call'[d])  BY <1>1 DEF Begins, Shape
  <2>3. mocks' = mocks /\ call' = [d \in Call |-> call'[d]] /\ log' \in [Directory -> Seq(Token)]
        /\ begun' \in [Mock -> Seq(Call)]
    BY <1>1 DEF Begins
  <2> QED  BY <2>1, <2>2, <2>3 DEF Shape
<1>3. Listed'  BY <1>1, BeginsListed
<1>4. ASSUME NEW other \in Mock, Sole(other)' PROVE Legible(other)'
  <2>1. Sole(other) /\ Legible(other)
    <3>1. mocks' = mocks  BY <1>1 DEF Begins
    <3>2. Sole(other)  BY <1>4, <3>1 DEF Sole, Directory_of
    <3> QED  BY <3>2 DEF Logs
  <2>2. CASE other = mock  BY <1>1, <2>1, <2>2, BeginsLegible
  <2>3. CASE other # mock
    <3>1. other[2] # mock[2]  BY <1>1, <2>1, <2>3, MockIs
    <3>2. log'[other[2]] = log[other[2]]  BY <1>1, <3>1, MockIs DEF Begins
    <3>3. begun'[other] = begun[other] /\ (other \in mixed' <=> other \in mixed)
      BY <1>1, <2>3 DEF Begins
    <3>4. \A i \in 1..Len(begun[other]) : call'[begun[other][i]] = call[begun[other][i]]
      <4>1. \A i \in 1..Len(begun[other]) : begun[other][i] \in Call  BY RecordsAre
      <4>2. \A i \in 1..Len(begun[other]) : call[begun[other][i]] # None  BY DEF Listed
      <4> QED  BY <1>1, <4>1, <4>2 DEF Begins
    <3> QED  BY <2>1, <3>2, <3>3, <3>4, LegibleStays
  <2> QED  BY <2>2, <2>3
<1> QED  BY <1>2, <1>3, <1>4 DEF Logs

LEMMA CreateKeeps ==
    ASSUME Shape, Listed, Logs, NEW w \in Owner, create_mock_binary(w)
    PROVE  Shape' /\ Listed' /\ Logs'
<1> PICK q \in Nat : q = Len(mocks[w]) + 1
  <2>1. Len(mocks[w]) \in Nat  BY DEF Shape
  <2> QED  BY <2>1
<1>1. /\ MaxBinaries \in Nat /\ q <= MaxBinaries /\ q \in Directory /\ Len(mocks[w]) = q - 1
      /\ Len(mocks[w]) \in Nat
  BY MockBinaryAssumption DEF create_mock_binary, Directory, Shape
<1> PICK ms \in Seq(Nat) : ms = mocks[w]  BY DEF Shape
<1> PICK ms2 : ms2 = Append(ms, Len(ms) + 1)  OBVIOUS
<1>2. /\ ms2 \in Seq(Nat) /\ Len(ms2) = q /\ ms2[q] = q
      /\ \A i \in 1..(q - 1) : ms2[i] = ms[i]
  BY <1>1
<1>3. mocks' = [mocks EXCEPT ![w] = ms2] /\ mocks \in [Owner -> Seq(Nat)]
  BY DEF create_mock_binary, Shape
<1>4. /\ mocks' \in [Owner -> Seq(Nat)] /\ mocks'[w] = ms2
      /\ \A v \in Owner : v # w => mocks'[v] = mocks[v]
  BY <1>2, <1>3
<1>5. /\ log' \in [Directory -> Seq(Token)] /\ log'[q] = <<>>
      /\ \A d \in Directory : d # q => log'[d] = log[d]
  <2>1. log' = [log EXCEPT ![q] = <<>>] /\ log \in [Directory -> Seq(Token)]
    BY DEF create_mock_binary, Shape
  <2>2. <<>> \in Seq(Token)  OBVIOUS
  <2> QED  BY <1>1, <2>1, <2>2
<1>6. UNCHANGED <<call, begun, mixed>>  BY DEF create_mock_binary
<1>7. ASSUME NEW v \in Owner
      PROVE  /\ Len(mocks'[v]) <= MaxBinaries /\ Len(mocks[v]) <= Len(mocks'[v])
             /\ Len(mocks[v]) \in Nat /\ Len(mocks'[v]) \in Nat
             /\ \A i \in 1..Len(mocks'[v]) : mocks'[v][i] = i
             /\ v # w => mocks'[v] = mocks[v]
  <2>1. CASE v = w
    <3>1. \A i \in 1..(q - 1) : ms[i] = i  BY <1>1 DEF Shape
    <3>2. \A i \in 1..q : i \in 1..(q - 1) \/ i = q  OBVIOUS
    <3> QED  BY <2>1, <3>1, <3>2, <1>1, <1>2, <1>4
  <2>2. CASE v # w  BY <2>2, <1>4 DEF Shape
  <2> QED  BY <2>1, <2>2
<1>8. Shape'  BY <1>4, <1>5, <1>6, <1>7 DEF Shape
<1>9. ASSUME NEW mock \in Mock, Created(mock) PROVE Created(mock)'
  <2>1. mock[2] \in Nat /\ mock[1] \in Owner  BY <1>1 DEF Mock, Directory
  <2> QED  BY <2>1, <1>7, <1>9 DEF Created
<1>10. Listed'
  <2>1. \A d \in Call : call[d] # None => call[d].mock \in Mock  BY DEF Shape, IsCall
  <2>2. \A d \in Call : call[d] # None =>
          call[d].mock[2] <= Len(mocks'[call[d].mock[1]])
    BY <2>1, <1>9 DEF Listed, Created
  <2>3. \A mock \in mixed : Created(mock)'  BY <1>9 DEF Listed, Shape
  <2> QED  BY <2>2, <2>3, <1>6 DEF Listed, Created
<1>11. ASSUME NEW mock \in Mock, Sole(mock)' PROVE Legible(mock)'
  <2>1. mock[1] \in Owner /\ mock[2] \in Directory /\ mock[2] \in Nat /\ mock[2] > 0
        /\ mock = <<mock[1], mock[2]>>
    BY <1>1, MockIs DEF Directory
  <2>2. CASE mock = <<w, q>>
    <3>1. ~Created(mock)  BY <2>2, <1>1 DEF Created
    <3>2. mock \notin mixed /\ Len(begun[mock]) = 0
      <4>1. \A i \in 1..Len(begun[mock]) : FALSE  BY <3>1, RecordsAre DEF Listed
      <4>2. Len(begun[mock]) \in Nat  BY MockIs
      <4>3. ~(1 \in 1..Len(begun[mock]))  BY <4>1
      <4> QED  BY <3>1, <4>2, <4>3 DEF Listed
    <3>3. log'[mock[2]] = <<>>  BY <2>2, <1>5
    <3>4. Clean(<<>>, Records(mock)', 0)
      <4>1. Len(<<>>) = 0 /\ (\A i \in 1..0 : FALSE)  OBVIOUS
      <4>2. Whole(<<>>, Records(mock)', 0, <<>>, <<>>)  BY <4>1 DEF Whole
      <4> QED  BY <4>2 DEF Clean
    <3> QED  BY <3>2, <3>3, <3>4, <1>6 DEF Legible
  <2>3. CASE mock # <<w, q>>
    <3>1. Directory_of(mock)' = mock[2] /\ mock[2] <= Len(mocks'[mock[1]])
      <4>1. mock[2] <= Len(mocks'[mock[1]])  BY <1>11 DEF Sole
      <4>2. mock[2] \in 1..Len(mocks'[mock[1]])  BY <2>1, <4>1, <1>7
      <4> QED  BY <2>1, <4>1, <4>2, <1>7 DEF Directory_of
    <3>2. \A v \in Owner : v # mock[1] => ~(mock[2] <= Len(mocks'[v]))
      <4> SUFFICES ASSUME NEW v \in Owner, v # mock[1], mock[2] <= Len(mocks'[v]) PROVE FALSE
        OBVIOUS
      <4>1. mock[2] \in 1..Len(mocks'[v]) /\ mocks'[v][mock[2]] = mock[2]  BY <2>1, <1>7
      <4> QED  BY <4>1, <3>1, <1>11 DEF Sole
    <3>3. mock[2] # q
      <4>1. CASE mock[1] = w  BY <4>1, <2>1, <2>3
      <4>2. CASE mock[1] # w
        <5>1. Len(mocks'[w]) = q  BY <1>2, <1>4
        <5> QED  BY <4>2, <5>1, <3>2
      <4> QED  BY <4>1, <4>2
    <3>4. Created(mock)
      <4>1. CASE mock[1] = w
        <5>1. mock[2] <= q  BY <4>1, <3>1, <1>2, <1>4
        <5> QED  BY <4>1, <5>1, <2>1, <3>3, <1>1 DEF Created
      <4>2. CASE mock[1] # w  BY <4>2, <3>1, <2>1, <1>4 DEF Created
      <4> QED  BY <4>1, <4>2
    <3>5. Sole(mock)
      <4>1. Directory_of(mock) = mock[2]  BY <3>4, MockIs
      <4>2. ASSUME NEW v \in Owner \ {mock[1]}, NEW i \in 1..Len(mocks[v])
            PROVE  mocks[v][i] # mock[2]
        <5>1. mocks[v][i] = i /\ i <= Len(mocks'[v]) /\ v \in Owner /\ v # mock[1]
          <6>1. v \in Owner  OBVIOUS
          <6>2. i <= Len(mocks'[v])  BY <6>1, <1>7
          <6> QED  BY <6>1, <6>2 DEF Shape
        <5> QED  BY <5>1, <3>2
      <4> QED  BY <3>4, <4>1, <4>2 DEF Sole, Created
    <3>6. Legible(mock)  BY <3>5 DEF Logs
    <3>7. log'[mock[2]] = log[mock[2]]  BY <2>1, <3>3, <1>5
    <3>8. /\ begun'[mock] = begun[mock] /\ (mock \in mixed' <=> mock \in mixed)
          /\ \A i \in 1..Len(begun[mock]) : call'[begun[mock][i]] = call[begun[mock][i]]
      BY <1>6
    <3> QED  BY <3>6, <3>7, <3>8, LegibleStays
  <2> QED  BY <2>2, <2>3
<1> QED  BY <1>8, <1>10, <1>11 DEF Logs
----------------------------------------------------------------------------
(* Theorems.                                                               *)

LEMMA InitKeeps == BinaryInit => Shape /\ Listed /\ Logs
<1> SUFFICES ASSUME BinaryInit PROVE Shape /\ Listed /\ Logs  OBVIOUS
<1>1. /\ mocks = [w \in Owner |-> <<>>] /\ log \in [Directory -> {<<>>, <<"[">>}]
      /\ call = [c \in Call |-> None] /\ begun = [mock \in Mock |-> <<>>] /\ mixed = {}
  BY DEF BinaryInit
<1>2. \A w \in Owner : mocks[w] = <<>> /\ Len(mocks[w]) = 0 /\ mocks[w] \in Seq(Nat)  BY <1>1
<1>3. Shape
  <2>1. <<>> \in Seq(Token) /\ <<"[">> \in Seq(Token)  BY Tokens
  <2>2. log \in [Directory -> Seq(Token)]  BY <1>1, <2>1
  <2>3. mocks \in [Owner -> Seq(Nat)]  BY <1>1, <1>2
  <2>4. begun \in [Mock -> Seq(Call)]
    <3>1. <<>> \in Seq(Call)  OBVIOUS
    <3> QED  BY <1>1, <3>1
  <2>5. \A w \in Owner : Len(mocks[w]) <= MaxBinaries /\ \A i \in 1..Len(mocks[w]) : FALSE
    BY <1>2, MockBinaryAssumption
  <2> QED  BY <1>1, <2>2, <2>3, <2>4, <2>5 DEF Shape
<1>4. Listed
  <2>1. \A mock \in Mock : begun[mock] = <<>> /\ \A i \in 1..Len(begun[mock]) : FALSE  BY <1>1
  <2> QED  BY <1>1, <2>1 DEF Listed
<1>5. \A mock \in Mock : ~Sole(mock)
  <2> SUFFICES ASSUME NEW mock \in Mock, mock[2] <= Len(mocks[mock[1]]) PROVE FALSE
    BY DEF Sole
  <2>1. mock[1] \in Owner /\ mock[2] \in Nat /\ mock[2] > 0
    BY MockBinaryAssumption DEF Mock, Directory
  <2> QED  BY <2>1, <1>2
<1> QED  BY <1>3, <1>4, <1>5 DEF Logs

LEMMA StepKeeps ==
    ASSUME Shape, Listed, Logs, [BinaryNext]_binaryVars
    PROVE  Shape' /\ Listed' /\ Logs'
<1>1. ASSUME NEW w \in Owner, create_mock_binary(w) PROVE Shape' /\ Listed' /\ Logs'
  BY <1>1, CreateKeeps
<1>2. ASSUME NEW c \in Call, NEW mock \in Mock, NEW args \in Args, Begin(c, mock, args)
      PROVE  Shape' /\ Listed' /\ Logs'
  BY <1>2, BeginKeeps
<1>3. ASSUME NEW c \in Call, Comma(c) PROVE Shape' /\ Listed' /\ Logs'
  BY <1>3, CommaKeeps
<1>4. ASSUME NEW c \in Call, Argument(c) PROVE Shape' /\ Listed' /\ Logs'
  BY <1>4, ArgumentKeeps
<1>5. ASSUME NEW c \in Call, Close(c) PROVE Shape' /\ Listed' /\ Logs'
  BY <1>5, CloseKeeps
<1>6. ASSUME NEW c \in Call, Kill(c) PROVE Shape' /\ Listed' /\ Logs'
  BY <1>6, KillKeeps
<1>7. CASE UNCHANGED binaryVars
  <2>1. /\ mocks' = mocks /\ log' = log /\ call' = call /\ begun' = begun /\ mixed' = mixed
    BY <1>7 DEF binaryVars
  <2>2. Shape'  BY <2>1 DEF Shape
  <2>3. Listed'  BY <2>1 DEF Listed, Created
  <2>4. Logs'  BY <2>1 DEF Logs, Legible, Sole, Directory_of, Records
  <2> QED  BY <2>2, <2>3, <2>4
<1> QED  BY <1>1, <1>2, <1>3, <1>4, <1>5, <1>6, <1>7 DEF BinaryNext

\* The calls of a mock are recorded once each, and the log of a mock with its
\* own directory is the lines of its calls, or spoiled by calls that met, were
\* killed or had arguments that cannot be logged.
THEOREM LogIsCalls == BinarySpec => [](Shape /\ Listed /\ Logs)
<1>1. BinaryInit => Shape /\ Listed /\ Logs  BY InitKeeps
<1>2. (Shape /\ Listed /\ Logs) /\ [BinaryNext]_binaryVars => (Shape /\ Listed /\ Logs)'
  BY StepKeeps
<1> QED  BY <1>1, <1>2, PTL DEF BinarySpec

\* What get_calls reads of a mock with its own directory.
LEMMA GetCallsIs ==
    ASSUME Shape, Listed, Logs, NEW mock \in Mock, Sole(mock)
    PROVE  \/ /\ get_calls(mock).raised
              /\ \/ mock \in mixed
                 \/ \E i \in 1..Len(begun[mock]) : call[begun[mock][i]].state # "done"
                 \/ \E i \in 1..Len(begun[mock]) : Spoils(call[begun[mock][i]])
           \/ /\ get_calls(mock).raised = FALSE /\ mock \notin mixed
              /\ get_calls(mock).calls =
                    [i \in 1..Len(begun[mock]) |-> Shown(call[begun[mock][i]].args)]
              /\ \A i \in 1..Len(begun[mock]) : call[begun[mock][i]].state = "done"
<1> PICK l \in Seq(Token) : l = log[mock[2]]  BY MockIs
<1> PICK n \in Nat : n = Len(begun[mock])  BY MockIs
<1> PICK R : R = Records(mock)  OBVIOUS
<1>1. get_calls(mock) = read_mock_calls(l)  BY MockIs DEF get_calls
<1>2. \A i \in 1..n : IsCall(R[i]) /\ R[i] = call[begun[mock][i]]  BY RecordsAre
<1>3. CASE Broken(l) /\ (mock \in mixed \/ \E i \in 1..n : Spoils(call[begun[mock][i]]))
  <2>1. read_mock_calls(l).raised  BY <1>3, BrokenRaises
  <2> QED  BY <1>1, <1>3, <2>1
<1>4. CASE Clean(l, R, n) /\ mock \notin mixed
  <2>1. CASE \A i \in 1..n : R[i].state = "done"
    <3>1. /\ read_mock_calls(l).raised = FALSE
          /\ read_mock_calls(l).calls = [i \in 1..n |-> Shown(R[i].args)]
      <4>1. \A i \in 1..n : IsCall(R[i]) /\ R[i].state = "done"  BY <1>2, <2>1
      <4> QED  BY ONLY l \in Seq(Token), n \in Nat, <1>4, <4>1, WholeReads
    <3>2. [i \in 1..n |-> Shown(R[i].args)] = [i \in 1..n |-> Shown(call[begun[mock][i]].args)]
      BY <1>2
    <3>3. \A i \in 1..n : call[begun[mock][i]].state = "done"  BY <1>2, <2>1
    <3> QED  BY <1>1, <1>4, <3>1, <3>2, <3>3
  <2>2. CASE ~\A i \in 1..n : R[i].state = "done"
    <3> PICK i \in 1..n : R[i].state # "done"  BY <2>2
    <3>1. read_mock_calls(l).raised  BY <1>4, HalfRaises
    <3>2. call[begun[mock][i]].state # "done"  BY <1>2
    <3> QED  BY <1>1, <3>1, <3>2
  <2> QED  BY <2>1, <2>2
<1>5. Legible(mock)  BY DEF Logs
<1> QED  BY <1>3, <1>4, <1>5 DEF Legible

\* get_calls of a mock with its own directory raises, or returns every call of
\* the mock, whole and in order, and nothing that others have logged.
THEOREM CallsAreReadWhole == BinarySpec => []ReadHonest
<1>1. Shape /\ Listed /\ Logs => ReadHonest
  <2> SUFFICES ASSUME Shape, Listed, Logs, NEW mock \in Mock, Sole(mock), ~get_calls(mock).raised
               PROVE  /\ get_calls(mock).calls =
                            [i \in 1..Len(begun[mock]) |-> Shown(call[begun[mock][i]].args)]
                      /\ \A i \in 1..Len(begun[mock]) : call[begun[mock][i]].state = "done"
    BY DEF ReadHonest
  <2> QED  BY GetCallsIs
<1> QED  BY <1>1, LogIsCalls, PTL

\* After calls that came one at a time, ended by themselves and had plain
\* arguments, get_calls does not raise.
THEOREM OrderlyCallsAreRead == BinarySpec => []OrderlyCallsRead
<1>1. Shape /\ Listed /\ Logs => OrderlyCallsRead
  <2> SUFFICES ASSUME Shape, Listed, Logs, NEW mock \in Mock, Sole(mock), mock \notin mixed,
                      \A i \in 1..Len(begun[mock]) :
                         /\ call[begun[mock][i]].state = "done"
                         /\ Range(call[begun[mock][i]].args) \subseteq Arg \cup Trailing,
                      get_calls(mock).raised
               PROVE  FALSE
    BY DEF OrderlyCallsRead
  <2>1. PICK i \in 1..Len(begun[mock]) : Spoils(call[begun[mock][i]])  BY GetCallsIs
  <2> PICK r : r = call[begun[mock][i]]  OBVIOUS
  <2>2. r.state = "done" /\ IsCall(r) /\ Range(r.args) \subseteq Plain  BY RecordsAre DEF Plain
  <2>3. \A k \in 1..Len(r.args) : r.args[k] \in Range(r.args)
    <3>1. r.args \in Seq(Arg \cup Trailing \cup Inner \cup Control)  BY <2>2, CallIs
    <3>2. DOMAIN r.args = 1..Len(r.args)  BY <3>1
    <3> QED  BY <3>2 DEF Range
  <2> QED  BY <2>1, <2>2, <2>3 DEF Spoils
<1> QED  BY <1>1, LogIsCalls, PTL

\* Once two calls of a mock have been under way at the same time, get_calls
\* raises for good.
THEOREM OverlapIsNoticed == BinarySpec => []OverlapNoticed
<1>1. Shape /\ Listed /\ Logs => OverlapNoticed
  <2> SUFFICES ASSUME Shape, Listed, Logs, NEW mock \in mixed, Sole(mock)
               PROVE  get_calls(mock).raised
    BY DEF OverlapNoticed
  <2>1. mock \in Mock  BY DEF Shape
  <2> QED  BY <2>1, GetCallsIs
<1> QED  BY <1>1, LogIsCalls, PTL
=============================================================================
