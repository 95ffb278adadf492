------------------------- MODULE ReplayScriptProofs -------------------------
(***************************************************************************)
(* What a replay that is accepted has compared with the recording: every   *)
(* call, import, argument and result of it, in order.                      *)
(*                                                                         *)
(* The argument follows the script, the record of what the guest did, as it*)
(* grows one step at a time, and carries with it the place in the recording*)
(* up to which it has been matched.                                        *)
(***************************************************************************)
EXTENDS ReplayProofs

-----------------------------------------------------------------------------
(***************************************************************************)
(* The operators of the property over a sequence of crossings, since a     *)
(* recording never changes.                                                *)
(***************************************************************************)

\* The k-th top-level export is the first with k of them up to it.
Count(cs, i) == Cardinality({j \in Tops(cs) : j <= i})
Calls(cs) == Cardinality(Tops(cs))

NotKept(cs, st) == st.do = "import" /\ Valueless(st.label) /\ ~Marked(cs, Len(cs))

Keeps(cs, steps) ==
  LET kept[n \in 0..Len(steps)] ==
        IF n = 0 THEN <<>>
        ELSE IF NotKept(cs, steps[n]) THEN kept[n - 1] ELSE Append(kept[n - 1], steps[n])
  IN  kept

Visible(cs, steps) == Keeps(cs, steps)[Len(steps)]

\* The import crossings between the t-th crossing and the m-th, as steps.
Imported(cs, t, m) == [i \in 1..(m - t) |-> ImportStep(cs[t + i].label, cs[t + i].args)]

\* What was recorded of the call the t-th crossing opens, if it ends at the m-th.
Recorded(cs, t, m) == Append(Imported(cs, t, m), ReturnStep(cs[t].results))

\* Where the k-th exported call ends.
Until(cs, k) == IF k < Calls(cs) THEN cs[TopLevelExport(cs, k + 1)].seq ELSE Len(cs)

\* A crossing a driver may pass.
Proper(cs, i) ==
  LET c == cs[i]
  IN  IF c.kind = "export" THEN IsTop(c) /\ checkExportCrossing(c)
      ELSE /\ Len(c.args) = ImportSig[c.label].params
           /\ Len(c.results) = ImportSig[c.label].results
           /\ Valueless(c.label) => Marked(cs, Len(cs))

\* The guest has ended the call, and will not do more in it.
Closed(steps) == steps # <<>> /\ steps[Len(steps)].do # "import"

\* The k-th call was made and ended as recorded.
Done(cs, s, k) ==
  Closed(s[k]) /\ Visible(cs, s[k]) = Recorded(cs, TopLevelExport(cs, k), Until(cs, k))

\* Where the cursor and the guest's script are when all calls but the last have
\* been compared to their end, and the last as far as the cursor.
Followed(p, cs, s) ==
  LET t == TopLevelExport(cs, p.call)
  IN  /\ \A i \in 1..p.cursor : Proper(cs, i)
      /\ \A k \in 1..(p.call - 1) : Done(cs, s, k)
      /\ p.call = 0 => p.cursor = 0
      /\ p.call > 0 =>
           /\ 1 \in Tops(cs) /\ t \in Tops(cs) /\ t <= p.cursor
           /\ IF p.pc = "guest"
              THEN Visible(cs, SubSeq(s[p.call], 1, p.step)) = Imported(cs, t, p.cursor)
              ELSE Closed(s[p.call]) /\ Visible(cs, s[p.call]) = Recorded(cs, t, p.cursor)

\* Every step but the last of a call is an import call.
IsScript(cs, s) ==
  /\ \E S : s \in [0..Calls(cs) -> Seq(S)]
  /\ \A k \in 0..Calls(cs) : \A j \in 1..(Len(s[k]) - 1) : s[k][j].do = "import"

\* Where driver d with replayer p is in script s.
Scripted(p, d, cs, s, opts) ==
  /\ p.call \in 0..Calls(cs) /\ (p.pc = "guest" => p.call # 0)
  /\ p.pc \in {"guest", "start"} =>
       p.step \in 0..Len(s[p.call]) /\ \A j \in 1..p.step : s[p.call][j].do = "import"
  /\ d = "batch" /\ p.instantiated =>
       p.to \in p.call..Calls(cs) /\ (opts.to = 0 => p.to = Calls(cs))
  /\ d = "batch" /\ p.pc # "begin" => \A i \in Tops(cs) : checkExportCrossing(cs[i])
  /\ (d = "batch" => opts.from = 0) =>
       /\ Count(cs, p.cursor) = p.call
       /\ p.err = None /\ (p.unchecked = 0 \/ ~Marked(cs, Len(cs))) => Followed(p, cs, s)

\* The script is the recorded execution, and complete.
Reproduced(cs, s) ==
  /\ \A i \in 1..Len(cs) : Proper(cs, i)
  /\ cs # <<>> => 1 \in Tops(cs)
  /\ \A k \in 1..Calls(cs) : Done(cs, s, k)

\* What the drivers have compared so far, and of a driver that accepted the
\* whole recording, that the script reproduces it.  Inductive together with IInv.
SInv ==
  /\ IsScript(rec.crossings, script)
  /\ driver # "none" => verdict[driver] = None
  /\ driver # "none" => Scripted(r, driver, rec.crossings, script, range)
  /\ \A d \in Drivers \ {driver} :
       verdict[d] = "accepted" /\ (d = "batch" => range.from = 0 /\ range.to = 0)
         => Reproduced(rec.crossings, script)

\* Counting the top-level exports up to a place of the recording.
LEMMA Counted ==
  ASSUME NEW cs \in Seq(Crossing)
  PROVE  /\ Calls(cs) \in Nat /\ Count(cs, 0) = 0 /\ Count(cs, Len(cs)) = Calls(cs)
         /\ \A i \in 0..Len(cs) : Count(cs, i) \in Nat
         /\ \A i \in 1..Len(cs) :
              Count(cs, i) = IF i \in Tops(cs) THEN Count(cs, i - 1) + 1 ELSE Count(cs, i - 1)
         /\ \A i, j \in 0..Len(cs) : i <= j => Count(cs, i) <= Count(cs, j)
<1> DEFINE T == Tops(cs)
           Upto(i) == {j \in T : j <= i}
<1>1. T \subseteq 1..Len(cs) /\ Len(cs) \in Nat
  BY DEF Tops
<1>2. IsFiniteSet(T) /\ Cardinality(T) \in Nat
  <2>1. IsFiniteSet(1..Len(cs))
    BY <1>1, FS_Interval
  <2> HIDE DEF T
  <2> QED BY <1>1, <2>1, FS_Subset, FS_CardinalityType, Zenon
<1>3. \A i : Upto(i) \subseteq T /\ Count(cs, i) = Cardinality(Upto(i))
  BY DEF Count
<1>4. Upto(0) = {} /\ Upto(Len(cs)) = T
  BY <1>1
<1>5. \A i \in 1..Len(cs) : /\ i \notin T => Upto(i) = Upto(i - 1)
                            /\ i \in T => Upto(i) = Upto(i - 1) \cup {i} /\ i \notin Upto(i - 1)
  BY <1>1
<1>6. \A i, j \in 0..Len(cs) : i <= j => Upto(i) \subseteq Upto(j)
  BY <1>1
<1>7. Calls(cs) = Cardinality(T)
  BY DEF Calls
<1> HIDE DEF T, Upto
<1>8. \A i : IsFiniteSet(Upto(i)) /\ Cardinality(Upto(i)) \in Nat
  BY <1>2, <1>3, FS_Subset, FS_CardinalityType, Zenon
<1>9. ASSUME NEW i \in 1..Len(cs)
      PROVE  Count(cs, i) = IF i \in T THEN Count(cs, i - 1) + 1 ELSE Count(cs, i - 1)
  <2>1. CASE i \notin T
    BY <1>3, <1>5, <2>1, Zenon
  <2>2. CASE i \in T
    <3>1. Upto(i) = Upto(i - 1) \cup {i} /\ i \notin Upto(i - 1)
      BY <1>5, <2>2, Zenon
    <3>2. Cardinality(Upto(i)) = Cardinality(Upto(i - 1)) + 1
      BY <1>8, <3>1, FS_AddElement, Zenon
    <3> QED BY <1>3, <2>2, <3>2, Zenon
  <2> QED BY <2>1, <2>2
<1>10. ASSUME NEW i \in 0..Len(cs), NEW j \in 0..Len(cs), i <= j
       PROVE  Count(cs, i) <= Count(cs, j)
  <2>1. Upto(i) \subseteq Upto(j)
    BY <1>6, <1>10, Zenon
  <2>2. Cardinality(Upto(i)) <= Cardinality(Upto(j))
    BY <1>8, <2>1, FS_Subset, Zenon
  <2>3. Count(cs, i) = Cardinality(Upto(i)) /\ Count(cs, j) = Cardinality(Upto(j))
    BY <1>3, Zenon
  <2> QED BY <2>2, <2>3
<1>11. Count(cs, 0) = 0
  BY <1>3, <1>4, FS_EmptySet, Zenon
<1>12. Count(cs, Len(cs)) = Calls(cs) /\ Calls(cs) \in Nat /\ \A i : Count(cs, i) \in Nat
  BY <1>2, <1>3, <1>4, <1>7, <1>8, Zenon
<1> QED BY <1>9, <1>10, <1>11, <1>12, Zenon DEF T

\* A top-level export is the one its count names.
LEMMA TopLevelExportIs ==
  ASSUME NEW cs \in Seq(Crossing), NEW i \in Tops(cs)
  PROVE  /\ TopLevelExport(cs, Count(cs, i)) = i
         /\ i \in 1..Len(cs) /\ Count(cs, i) \in 1..Calls(cs)
<1>1. i \in 1..Len(cs) /\ Len(cs) \in Nat /\ Tops(cs) \subseteq 1..Len(cs)
  BY DEF Tops
<1>2. /\ Calls(cs) \in Nat /\ Count(cs, Len(cs)) = Calls(cs)
      /\ \A j \in 0..Len(cs) : Count(cs, j) \in Nat
      /\ \A j \in 1..Len(cs) :
           Count(cs, j) = IF j \in Tops(cs) THEN Count(cs, j - 1) + 1 ELSE Count(cs, j - 1)
      /\ \A j, k \in 0..Len(cs) : j <= k => Count(cs, j) <= Count(cs, k)
  BY Counted, Zenon
<1>3. ASSUME NEW j \in Tops(cs), NEW k \in Tops(cs), j < k PROVE Count(cs, j) < Count(cs, k)
  <2>1. j \in 0..Len(cs) /\ k \in 1..Len(cs) /\ k - 1 \in 0..Len(cs) /\ j <= k - 1
    BY <1>1, <1>3
  <2>2. Count(cs, k) = Count(cs, k - 1) + 1 /\ Count(cs, j) <= Count(cs, k - 1)
    BY <1>2, <1>3, <2>1
  <2>3. Count(cs, j) \in Nat /\ Count(cs, k - 1) \in Nat
    BY <1>2, <2>1, Zenon
  <2> QED BY <2>2, <2>3
<1>4. ASSUME NEW j \in Tops(cs), Count(cs, j) = Count(cs, i) PROVE j = i
  <2>1. j \in Nat /\ i \in Nat /\ Count(cs, i) \in Nat
    BY <1>1, <1>2
  <2>2. ~(j < i) /\ ~(i < j)
    BY <1>3, <1>4, <2>1
  <2> QED BY <2>1, <2>2
<1>5. TopLevelExport(cs, Count(cs, i)) = CHOOSE j \in Tops(cs) : Count(cs, j) = Count(cs, i)
  BY Zenon DEF TopLevelExport, Count
<1>6. TopLevelExport(cs, Count(cs, i)) = i
  BY <1>4, <1>5, Zenon
<1>7. Count(cs, i) \in 1..Calls(cs)
  <2>1. i - 1 \in 0..Len(cs) /\ i \in 0..Len(cs) /\ Len(cs) \in 0..Len(cs) /\ i <= Len(cs)
    BY <1>1
  <2>2. /\ Count(cs, i) = Count(cs, i - 1) + 1 /\ Count(cs, i - 1) \in Nat
        /\ Count(cs, i) <= Calls(cs)
    BY <1>1, <1>2, <2>1
  <2> QED BY <1>2, <2>2
<1> QED BY <1>1, <1>6, <1>7, Zenon

\* The call made when k calls precede the m-th crossing ends there, if another
\* exported call or nothing follows.
LEMMA UntilIs ==
  ASSUME NEW cs \in Seq(Crossing), \A i \in 1..Len(cs) : cs[i].seq = i - 1,
         NEW m \in 0..Len(cs), m = Len(cs) \/ m + 1 \in Tops(cs)
  PROVE  Until(cs, Count(cs, m)) = m
<1>1. Len(cs) \in Nat /\ Calls(cs) \in Nat /\ Count(cs, m) \in Nat
  BY Counted
<1>2. CASE m = Len(cs)
  <2>1. Count(cs, m) = Calls(cs)
    BY <1>2, Counted, Zenon
  <2> QED BY <1>1, <1>2, <2>1 DEF Until
<1>3. CASE m + 1 \in Tops(cs)
  <2>1. /\ TopLevelExport(cs, Count(cs, m + 1)) = m + 1 /\ m + 1 \in 1..Len(cs)
        /\ Count(cs, m + 1) \in 1..Calls(cs)
    BY <1>3, TopLevelExportIs, Zenon
  <2>2. (m + 1) - 1 = m
    BY <1>1
  <2>3. Count(cs, m + 1) = Count(cs, m) + 1
    BY <1>3, <2>1, <2>2, Counted
  <2>4. cs[m + 1].seq = m
    BY <2>1, <2>2
  <2> QED BY <1>1, <2>1, <2>3, <2>4 DEF Until
<1> QED BY <1>2, <1>3

-----------------------------------------------------------------------------
(***************************************************************************)
(* The steps of a call, and what was recorded of them.                     *)
(***************************************************************************)

IsKept(cs, steps, m, f) ==
  /\ DOMAIN f = 0..m /\ f[0] = <<>>
  /\ \A n \in 1..m :
       f[n] = IF NotKept(cs, steps[n]) THEN f[n - 1] ELSE Append(f[n - 1], steps[n])

\* What is kept of the first n steps can be computed step by step.
LEMMA KeptExists ==
  ASSUME NEW cs, NEW steps, NEW n \in Nat
  PROVE  \E f : IsKept(cs, steps, n, f)
<1> DEFINE T == {m \in Nat : ~\E f : IsKept(cs, steps, m, f)}
<1> SUFFICES ASSUME T # {} PROVE FALSE
  OBVIOUS
<1>1. PICK m \in T : \A k \in T : m <= k
  <2>1. T \subseteq Nat
    OBVIOUS
  <2> HIDE DEF T
  <2> QED BY <2>1, LeastExists, Zenon
<1>2. m # 0
  <2>1. IsKept(cs, steps, 0, [k \in 0..0 |-> <<>>])
    BY DEF IsKept
  <2> QED BY <1>1, <2>1, Zenon
<1>3. m \in Nat \ {0} /\ m - 1 \in Nat /\ m - 1 \notin T
  BY <1>1, <1>2
<1>4. PICK f : IsKept(cs, steps, m - 1, f)
  BY <1>3
<1>5. PICK x : x = IF NotKept(cs, steps[m]) THEN f[m - 1] ELSE Append(f[m - 1], steps[m])
  BY Zenon
<1>6. PICK g : g = [k \in 0..m |-> IF k = m THEN x ELSE f[k]]
  BY Zenon
<1>7. DOMAIN g = 0..m /\ g[m] = x /\ \A k \in 0..(m - 1) : g[k] = f[k]
  BY <1>3, <1>6
<1>8. g[0] = <<>>
  BY <1>3, <1>4, <1>7 DEF IsKept
<1>9. ASSUME NEW k \in 1..m
      PROVE  g[k] = IF NotKept(cs, steps[k]) THEN g[k - 1] ELSE Append(g[k - 1], steps[k])
  <2>1. k - 1 \in 0..(m - 1)
    BY <1>3
  <2>2. g[k - 1] = f[k - 1]
    BY <1>7, <2>1
  <2>3. CASE k = m
    BY <1>5, <1>7, <2>2, <2>3, Zenon
  <2>4. CASE k # m
    <3>1. k \in 1..(m - 1) /\ k \in 0..(m - 1)
      BY <1>3, <2>4
    <3>2. f[k] = IF NotKept(cs, steps[k]) THEN f[k - 1] ELSE Append(f[k - 1], steps[k])
      BY <1>4, <3>1, Zenon DEF IsKept
    <3>3. g[k] = f[k]
      BY <1>7, <3>1
    <3> QED BY <2>2, <3>2, <3>3, Zenon
  <2> QED BY <2>3, <2>4
<1>10. IsKept(cs, steps, m, g)
  BY <1>7, <1>8, <1>9 DEF IsKept
<1> QED BY <1>1, <1>10

\* Keeps computes it.
LEMMA KeepsUnfolds ==
  ASSUME NEW cs, NEW S, NEW steps \in Seq(S)
  PROVE  IsKept(cs, steps, Len(steps), Keeps(cs, steps))
<1>1. Len(steps) \in Nat
  OBVIOUS
<1>2. PICK f : IsKept(cs, steps, Len(steps), f)
  BY <1>1, KeptExists, Zenon
<1> DEFINE Body(g) == [n \in 0..Len(steps) |->
                         IF n = 0 THEN <<>>
                         ELSE IF NotKept(cs, steps[n]) THEN g[n - 1] ELSE Append(g[n - 1], steps[n])]
           g0 == [n \in 0..Len(steps) |-> f[n]]
<1>3. g0 = Body(g0)
  <2>1. ASSUME NEW n \in 0..Len(steps)
        PROVE  f[n] = IF n = 0 THEN <<>>
                      ELSE IF NotKept(cs, steps[n]) THEN g0[n - 1] ELSE Append(g0[n - 1], steps[n])
    <3>1. CASE n = 0
      BY <1>2, <3>1 DEF IsKept
    <3>2. CASE n # 0
      <4>1. n \in 1..Len(steps) /\ n - 1 \in 0..Len(steps)
        BY <1>1, <3>2
      <4>2. g0[n - 1] = f[n - 1]
        BY <4>1
      <4> HIDE DEF g0
      <4> QED BY <1>2, <3>2, <4>1, <4>2, Zenon DEF IsKept
    <3> QED BY <3>1, <3>2
  <2> QED BY <2>1
<1>4. Keeps(cs, steps) = CHOOSE g : g = Body(g)
  BY DEF Keeps
<1> HIDE DEF g0
<1>5. Keeps(cs, steps) = Body(Keeps(cs, steps))
  <2>1. \E g : g = Body(g)
    BY <1>3
  <2> HIDE DEF Body
  <2> QED BY <1>4, <2>1
<1>6. PICK g : g = Keeps(cs, steps)
  OBVIOUS
<1>7. g = Body(g)
  BY <1>5, <1>6, Zenon
<1>8. DOMAIN g = 0..Len(steps)
  BY <1>7
<1>9. \A n \in 0..Len(steps) :
        g[n] = IF n = 0 THEN <<>>
               ELSE IF NotKept(cs, steps[n]) THEN g[n - 1] ELSE Append(g[n - 1], steps[n])
  BY <1>7, Zenon
<1>10. 0 \in 0..Len(steps) /\ \A n \in 1..Len(steps) : n \in 0..Len(steps) /\ n # 0
  BY <1>1
<1> QED BY <1>6, <1>8, <1>9, <1>10, Zenon DEF IsKept

\* Nothing is kept of no steps.
LEMMA VisibleNone ==
  ASSUME NEW cs
  PROVE  Visible(cs, <<>>) = <<>>
<1>1. <<>> \in Seq({}) /\ Len(<<>>) = 0
  OBVIOUS
<1>2. IsKept(cs, <<>>, Len(<<>>), Keeps(cs, <<>>))
  BY <1>1, KeepsUnfolds, Zenon
<1> QED BY <1>1, <1>2, Zenon DEF IsKept, Visible

\* One more step is kept, or not.
LEMMA VisibleMore ==
  ASSUME NEW cs, NEW S, NEW steps \in Seq(S), NEW x \in S
  PROVE  /\ NotKept(cs, x) => Visible(cs, Append(steps, x)) = Visible(cs, steps)
         /\ ~NotKept(cs, x) => Visible(cs, Append(steps, x)) = Append(Visible(cs, steps), x)
<1>1. PICK more : more = Append(steps, x)
  BY Zenon
<1>2. /\ more \in Seq(S) /\ Len(more) = Len(steps) + 1 /\ Len(steps) \in Nat
      /\ more[Len(steps) + 1] = x /\ \A k \in 1..Len(steps) : more[k] = steps[k]
  BY <1>1
<1>3. PICK f : f = Keeps(cs, steps)
  OBVIOUS
<1>4. PICK g : g = Keeps(cs, more)
  OBVIOUS
<1>5. IsKept(cs, steps, Len(steps), f) /\ IsKept(cs, more, Len(more), g)
  BY <1>2, <1>3, <1>4, KeepsUnfolds, Zenon
<1>6. g[Len(steps)] = f[Len(steps)]
  <2> DEFINE T == {m \in 0..Len(steps) : g[m] # f[m]}
  <2> SUFFICES ASSUME T # {} PROVE FALSE
    BY <1>2
  <2>1. PICK m \in T : \A k \in T : m <= k
    <3>1. T \subseteq Nat
      BY <1>2
    <3> HIDE DEF T
    <3> QED BY <3>1, LeastExists, Zenon
  <2>2. m # 0
    BY <1>5, <2>1 DEF IsKept
  <2>3. m \in 1..Len(steps) /\ m \in 1..Len(more) /\ m - 1 \in 0..Len(steps) /\ m - 1 \notin T
    BY <1>2, <2>1, <2>2
  <2>4. g[m - 1] = f[m - 1] /\ more[m] = steps[m]
    BY <1>2, <2>3
  <2>5. g[m] = f[m]
    BY <1>5, <2>3, <2>4, Zenon DEF IsKept
  <2> QED BY <2>1, <2>5
<1>7. Len(more) \in 1..Len(more) /\ Len(more) - 1 = Len(steps)
  BY <1>2
<1>8. g[Len(more)] = IF NotKept(cs, x) THEN g[Len(steps)] ELSE Append(g[Len(steps)], x)
  BY <1>2, <1>5, <1>7 DEF IsKept
<1> QED BY <1>1, <1>3, <1>4, <1>6, <1>8, Zenon DEF Visible

\* One more import crossing is one more step.
LEMMA ImportedSteps ==
  ASSUME NEW cs, NEW t \in Nat, NEW m \in Nat, t <= m
  PROVE  /\ Imported(cs, t, t) = <<>>
         /\ Imported(cs, t, m + 1) =
              Append(Imported(cs, t, m), ImportStep(cs[m + 1].label, cs[m + 1].args))
<1> DEFINE step(i) == ImportStep(cs[i].label, cs[i].args)
<1>1. \A k \in Nat : Imported(cs, t, k) = [i \in 1..(k - t) |-> step(t + i)]
  BY DEF Imported
<1> HIDE DEF step
<1>2. Imported(cs, t, t) = <<>>
  <2>1. t - t = 0 /\ 1..0 = {}
    OBVIOUS
  <2> QED BY <1>1, <2>1
<1>3. PICK n \in Nat : n = m - t
  OBVIOUS
<1>4. PICK u : u = [i \in 1..n |-> step(t + i)]
  BY Zenon
<1>5. Imported(cs, t, m) = u
  BY <1>1, <1>3, <1>4
<1>6. Imported(cs, t, m + 1) = [i \in 1..(n + 1) |-> step(t + i)]
  <2>1. (m + 1) - t = n + 1 /\ m + 1 \in Nat
    BY <1>3
  <2> QED BY <1>1, <2>1, Zenon
<1>7. t + (n + 1) = m + 1
  BY <1>3
<1>8. PICK S : \A i \in 1..(n + 1) : step(t + i) \in S
  <2>1. \A i \in 1..(n + 1) : step(t + i) \in {step(t + j) : j \in 1..(n + 1)}
    OBVIOUS
  <2> QED BY <2>1, Zenon
<1>9. u \in Seq(S) /\ Len(u) = n
  <2>1. \A i \in 1..n : i \in 1..(n + 1)
    OBVIOUS
  <2>2. u \in [1..n -> S]
    BY <1>4, <1>8, <2>1, Zenon
  <2> QED BY <2>2
<1>10. [i \in 1..(n + 1) |-> step(t + i)] = Append(u, step(m + 1))
  BY <1>4, <1>7, <1>9
<1> QED BY <1>2, <1>5, <1>6, <1>10, Zenon DEF step

\* A longer prefix is the shorter one and the next element.
LEMMA SubSeqAppends ==
  ASSUME NEW S, NEW a \in Seq(S), NEW n \in Nat, n + 1 <= Len(a)
  PROVE  SubSeq(a, 1, n + 1) = Append(SubSeq(a, 1, n), a[n + 1])
OBVIOUS

-----------------------------------------------------------------------------
(***************************************************************************)
(* What the guest has done stays done.                                     *)
(***************************************************************************)

\* The script goes on from s to s2: calls that have ended are as they were.
Grown(cs, s, s2) ==
  IsScript(cs, s2) /\ \A k \in 0..Calls(cs) : Closed(s[k]) => s2[k] = s[k]

\* A call that has ended as recorded stays so.
LEMMA GrownDone ==
  ASSUME NEW cs, NEW s, NEW s2, Grown(cs, s, s2), NEW k \in 0..Calls(cs), Done(cs, s, k)
  PROVE  Done(cs, s2, k)
BY DEF Grown, Done

\* A script that reproduces the recording stays so.
LEMMA GrownReproduced ==
  ASSUME NEW cs \in Seq(Crossing), NEW s, NEW s2, Grown(cs, s, s2), Reproduced(cs, s)
  PROVE  Reproduced(cs, s2)
<1>1. 1..Calls(cs) \subseteq 0..Calls(cs)
  BY Counted
<1>2. \A k \in 1..Calls(cs) : Done(cs, s2, k)
  BY <1>1, GrownDone, Zenon DEF Reproduced
<1> QED BY <1>2, Zenon DEF Reproduced

\* After n steps of call c the guest takes another.
TakesStep(cs, s, s2, c, n, st) ==
  /\ Grown(cs, s, s2)
  /\ n + 1 \in 1..Len(s2[c]) /\ s2[c][n + 1] = st
  /\ \A j \in 1..n : s2[c][j] = s[c][j]
  /\ SubSeq(s2[c], 1, n + 1) = Append(SubSeq(s[c], 1, n), st)
  /\ st.do # "import" => Len(s2[c]) = n + 1 /\ s2[c] = Append(SubSeq(s[c], 1, n), st)

\* A step the script holds already, or one it is given now.
LEMMA StepTaken ==
  ASSUME NEW cs \in Seq(Crossing), NEW s, NEW s2, IsScript(cs, s),
         NEW c \in 0..Calls(cs), NEW n \in 0..Len(s[c]), NEW st,
         \A j \in 1..n : s[c][j].do = "import",
         IF n < Len(s[c]) THEN st = s[c][n + 1] /\ s2 = s
         ELSE s2 = [s EXCEPT ![c] = Append(@, st)]
  PROVE  TakesStep(cs, s, s2, c, n, st)
<1>1. PICK S : s \in [0..Calls(cs) -> Seq(S)]
  BY DEF IsScript
<1>2. PICK a \in Seq(S) : a = s[c]
  BY <1>1
<1>3. \A j \in 1..(Len(a) - 1) : a[j].do = "import"
  BY <1>2 DEF IsScript
<1>4. Len(a) \in Nat /\ n \in 0..Len(a) /\ n \in Nat /\ Calls(cs) \in Nat
  BY <1>2, Counted
<1>5. CASE n < Len(a)
  <2>1. st = a[n + 1] /\ s2 = s /\ n + 1 \in 1..Len(a)
    BY <1>2, <1>4, <1>5
  <2>2. SubSeq(a, 1, n + 1) = Append(SubSeq(a, 1, n), a[n + 1])
    BY <1>2, <1>4, <2>1, SubSeqAppends
  <2>3. st.do # "import" => Len(a) = n + 1
    BY <1>3, <1>4, <2>1
  <2>4. SubSeq(a, 1, Len(a)) = a
    BY <1>2
  <2> QED BY <1>2, <2>1, <2>2, <2>3, <2>4 DEF TakesStep, Grown
<1>6. CASE ~(n < Len(a))
  <2>1. n = Len(a) /\ s2 = [s EXCEPT ![c] = Append(a, st)]
    BY <1>2, <1>4, <1>6
  <2>2. PICK b : b = Append(a, st)
    BY Zenon
  <2>3. /\ b \in Seq(S \cup {st}) /\ Len(b) = n + 1 /\ b[n + 1] = st
        /\ \A j \in 1..n : b[j] = a[j]
    BY <1>2, <2>1, <2>2
  <2>4. s2[c] = b /\ DOMAIN s2 = 0..Calls(cs) /\ \A k \in 0..Calls(cs) : k # c => s2[k] = s[k]
    BY <1>1, <2>1, <2>2
  <2>5. SubSeq(a, 1, n) = a /\ SubSeq(b, 1, n + 1) = b
    BY <1>2, <2>1, <2>3
  <2>6. ~Closed(a)
    <3>1. a # <<>> => Len(a) \in 1..n
      BY <1>2, <1>4, <2>1
    <3> QED BY <1>2, <3>1 DEF Closed
  <2>7. IsScript(cs, s2)
    <3>1. s2 \in [0..Calls(cs) -> Seq(S \cup {st})]
      <4>1. \A k \in 0..Calls(cs) : s2[k] \in Seq(S \cup {st})
        <5>1. \A u \in Seq(S) : u \in Seq(S \cup {st})
          OBVIOUS
        <5> QED BY <1>1, <2>3, <2>4, <5>1, SMTT(30)
      <4>2. s2 = [k \in 0..Calls(cs) |-> s2[k]]
        BY <1>1, <2>1, Zenon
      <4> QED BY <4>1, <4>2
    <3>2. \A k \in 0..Calls(cs) : \A j \in 1..(Len(s2[k]) - 1) : s2[k][j].do = "import"
      <4>1. ASSUME NEW j \in 1..(Len(b) - 1) PROVE b[j].do = "import"
        <5>1. j \in 1..n
          BY <1>4, <2>3
        <5> QED BY <1>2, <2>3, <5>1, Zenon
      <4> QED BY <2>4, <4>1 DEF IsScript
    <3> QED BY <3>1, <3>2 DEF IsScript
  <2>8. Grown(cs, s, s2)
    BY <1>2, <2>4, <2>6, <2>7 DEF Grown
  <2>9. n + 1 \in 1..Len(b)
    BY <1>4, <2>3
  <2> QED BY <1>2, <2>2, <2>3, <2>4, <2>5, <2>8, <2>9, SMTT(30) DEF TakesStep
<1> QED BY <1>5, <1>6

\* What becomes of what the recording can have kept of the call.
Takes(cs, s, s2, c, n, st) ==
  /\ Grown(cs, s, s2)
  /\ st.do = "import" => n + 1 \in 0..Len(s2[c]) /\ \A j \in 1..(n + 1) : s2[c][j].do = "import"
  /\ NotKept(cs, st) => Visible(cs, SubSeq(s2[c], 1, n + 1)) = Visible(cs, SubSeq(s[c], 1, n))
  /\ ~NotKept(cs, st) =>
       Visible(cs, SubSeq(s2[c], 1, n + 1)) = Append(Visible(cs, SubSeq(s[c], 1, n)), st)
  /\ st.do # "import" =>
       Closed(s2[c]) /\ Visible(cs, s2[c]) = Append(Visible(cs, SubSeq(s[c], 1, n)), st)

\* What such a step adds to what the recording can have kept.
LEMMA StepSeen ==
  ASSUME NEW cs \in Seq(Crossing), NEW s, NEW s2, IsScript(cs, s),
         NEW c \in 0..Calls(cs), NEW n \in 0..Len(s[c]), NEW st,
         \A j \in 1..n : s[c][j].do = "import", TakesStep(cs, s, s2, c, n, st)
  PROVE  Takes(cs, s, s2, c, n, st)
<1>1. PICK S : s \in [0..Calls(cs) -> Seq(S)]
  BY DEF IsScript
<1>2. PICK S2 : s2 \in [0..Calls(cs) -> Seq(S2)]
  BY DEF TakesStep, Grown, IsScript
<1>3. PICK a \in Seq(S) : a = s[c]
  BY <1>1
<1>4. PICK b \in Seq(S2) : b = s2[c]
  BY <1>2
<1>5. n \in Nat /\ n \in 0..Len(a) /\ Len(a) \in Nat /\ Len(b) \in Nat
  BY <1>3, <1>4
<1>6. PICK u : u = SubSeq(a, 1, n)
  BY Zenon
<1>7. u \in Seq(S \cup {st})
  <2>1. u \in Seq(S)
    BY <1>3, <1>5, <1>6
  <2> QED BY <2>1
<1>8. /\ NotKept(cs, st) => Visible(cs, Append(u, st)) = Visible(cs, u)
      /\ ~NotKept(cs, st) => Visible(cs, Append(u, st)) = Append(Visible(cs, u), st)
  <2>1. PICK T : T = S \cup {st}
    BY Zenon
  <2>2. st \in T /\ u \in Seq(T)
    BY <1>7, <2>1
  <2> QED BY <2>2, VisibleMore, ZenonT(30)
<1>9. /\ NotKept(cs, st) => Visible(cs, SubSeq(b, 1, n + 1)) = Visible(cs, u)
      /\ ~NotKept(cs, st) => Visible(cs, SubSeq(b, 1, n + 1)) = Append(Visible(cs, u), st)
  BY <1>3, <1>4, <1>6, <1>8, Zenon DEF TakesStep
<1>10. ASSUME st.do = "import"
       PROVE  n + 1 \in 0..Len(b) /\ \A j \in 1..(n + 1) : b[j].do = "import"
  <2>1. n + 1 \in 1..Len(b) /\ b[n + 1] = st /\ \A j \in 1..n : b[j] = a[j] /\ a[j].do = "import"
    BY <1>3, <1>4, Zenon DEF TakesStep
  <2>2. \A j \in 1..(n + 1) : j = n + 1 \/ j \in 1..n
    BY <1>5
  <2>3. n + 1 \in 0..Len(b)
    BY <1>5, <2>1
  <2> QED BY <1>10, <2>1, <2>2, <2>3, Zenon
<1>11. ASSUME st.do # "import"
       PROVE  Closed(b) /\ Visible(cs, b) = Append(Visible(cs, u), st)
  <2>1. Len(b) = n + 1 /\ b[n + 1] = st /\ b = Append(u, st)
    BY <1>3, <1>4, <1>6, <1>11, Zenon DEF TakesStep
  <2>2. ~NotKept(cs, st)
    BY <1>11, Zenon DEF NotKept
  <2>3. b # <<>>
    BY <1>5, <2>1, SMTT(30)
  <2> QED BY <1>8, <1>11, <2>1, <2>2, <2>3, Zenon DEF Closed
<1>12. Grown(cs, s, s2)
  BY DEF TakesStep
<1> QED BY <1>3, <1>4, <1>6, <1>9, <1>10, <1>11, <1>12, Zenon DEF Takes

\* What the guest does next is a step of the script of the running call.
LEMMA GuestTakes ==
  ASSUME IInv, SInv, driver # "none", r.pc \in {"guest", "start"}, NEW st, GuestDoes(st)
  PROVE  Takes(rec.crossings, script, script', r.call, r.step, st)
<1>1. rec.crossings \in Seq(Crossing)
  BY RecordingShape DEF IInv
<1>2. /\ IsScript(rec.crossings, script) /\ r.call \in 0..Calls(rec.crossings)
      /\ r.step \in 0..Len(script[r.call]) /\ \A j \in 1..r.step : script[r.call][j].do = "import"
  BY DEF SInv, Scripted
<1>3. PICK s2 : s2 = script'
  OBVIOUS
<1>4. IF r.step < Len(script[r.call]) THEN st = script[r.call][r.step + 1] /\ s2 = script
      ELSE s2 = [script EXCEPT ![r.call] = Append(@, st)]
  BY <1>3, Zenon DEF GuestDoes
<1>5. TakesStep(rec.crossings, script, s2, r.call, r.step, st)
  BY <1>1, <1>2, <1>4, StepTaken, Zenon
<1>6. Takes(rec.crossings, script, s2, r.call, r.step, st)
  BY <1>1, <1>2, <1>5, StepSeen, Zenon
<1> QED BY <1>3, <1>6

\* A script that does not change has grown by nothing.
LEMMA NotGrown ==
  ASSUME SInv
  PROVE  Grown(rec.crossings, script, script)
BY DEF SInv, Grown

\* A step after which the driver runs on.
LEMMA ScriptContinues ==
  ASSUME IInv, SInv, driver # "none", Same, Grown(rec.crossings, script, script'), NEW p, Continue(p),
         NEW s2, s2 = script', Scripted(p, driver, rec.crossings, s2, range)
  PROVE  SInv'
<1>1. /\ r' = p /\ driver' = driver /\ verdict' = verdict /\ rec' = rec /\ range' = range
      /\ rec.crossings \in Seq(Crossing)
  BY RecordingShape DEF Continue, Same, IInv
<1>2. ASSUME NEW d \in Drivers \ {driver}, verdict[d] = "accepted",
             d = "batch" => range.from = 0 /\ range.to = 0
      PROVE  Reproduced(rec.crossings, s2)
  <2>1. Reproduced(rec.crossings, script)
    BY <1>2, Zenon DEF SInv
  <2> QED BY <1>1, <2>1, GrownReproduced
<1>3. IsScript(rec.crossings, s2) /\ verdict[driver] = None
  BY Zenon DEF Grown, SInv
<1> QED BY <1>1, <1>2, <1>3, Zenon DEF SInv

\* A step after which the driver has returned.
LEMMA ScriptEnds ==
  ASSUME IInv, SInv, driver # "none", Same, Grown(rec.crossings, script, script'), NEW what, NEW p,
         End(what, p),
         what = "accepted" /\ (driver = "batch" => range.from = 0 /\ range.to = 0)
           => Reproduced(rec.crossings, script)
  PROVE  SInv'
<1>1. /\ driver' = "none" /\ rec' = rec /\ range' = range /\ rec.crossings \in Seq(Crossing)
      /\ verdict'[driver] = what /\ driver \in Drivers
      /\ \A d \in Drivers \ {driver} : verdict'[d] = verdict[d]
  BY RecordingShape DEF End, Same, IInv
<1>2. PICK s2 : s2 = script'
  OBVIOUS
<1>3. ASSUME NEW d \in Drivers, verdict'[d] = "accepted",
             d = "batch" => range.from = 0 /\ range.to = 0
      PROVE  Reproduced(rec.crossings, s2)
  <2>1. Reproduced(rec.crossings, script)
    BY <1>1, <1>3, Zenon DEF SInv
  <2> QED BY <1>1, <1>2, <2>1, GrownReproduced
<1>4. IsScript(rec.crossings, s2)
  BY <1>2, Zenon DEF Grown
<1> QED BY <1>1, <1>2, <1>3, <1>4, Zenon DEF SInv

-----------------------------------------------------------------------------
(***************************************************************************)
(* The driver goes on where the guest has got to.                          *)
(***************************************************************************)

\* What a step outside a call keeps.
LEMMA ScriptStays ==
  ASSUME IInv, SInv, driver # "none", NEW q,
         r.pc # "guest", q.pc \notin {"begin", "guest"}, q.pc = "start" => q.step = 0,
         q.call = r.call, q.cursor = r.cursor, q.err = r.err, q.unchecked = r.unchecked,
         q.to = r.to, q.instantiated = r.instantiated,
         r.pc = "begin" /\ driver = "batch" =>
           \A i \in Tops(rec.crossings) : checkExportCrossing(rec.crossings[i])
  PROVE  Scripted(q, driver, rec.crossings, script, range)
<1>1. PICK cs : cs = rec.crossings
  OBVIOUS
<1>2. Scripted(r, driver, cs, script, range) /\ IsScript(cs, script)
  BY <1>1, Zenon DEF SInv
<1>3. q.call \in 0..Calls(cs)
  BY <1>2, Zenon DEF Scripted
<1>4. 0 \in 0..Len(script[q.call])
  <2>1. PICK S : script \in [0..Calls(cs) -> Seq(S)]
    BY <1>2 DEF IsScript
  <2>2. script[q.call] \in Seq(S)
    BY <1>3, <2>1
  <2> QED BY <2>2
<1>5. q.pc \in {"guest", "start"} =>
        q.step \in 0..Len(script[q.call]) /\ \A j \in 1..q.step : script[q.call][j].do = "import"
  BY <1>4
<1>6. Followed(r, cs, script) => Followed(q, cs, script)
  BY Zenon DEF Followed
<1>7. driver = "batch" => \A i \in Tops(cs) : checkExportCrossing(cs[i])
  BY <1>1, <1>2, Zenon DEF Scripted
<1>8. Scripted(q, driver, cs, script, range)
  BY <1>2, <1>3, <1>5, <1>6, <1>7, Zenon DEF Scripted
<1> QED BY <1>1, <1>8

\* Prepare keeps the invariant on the script.
LEMMA PrepareScript ==
  ASSUME IInv, SInv, driver # "none", Prepare
  PROVE  SInv'
<1>1. Running(driver) /\ Same /\ r.pc = "prepare" /\ script' = script
  BY Started, Zenon DEF Prepare, Same
<1>2. PICK p : p = [r EXCEPT !.host = Carrier(r.arrived)]
  BY Zenon
<1>3. PICK h : h = HostNow(p)
  OBVIOUS
<1>4. PICK q : q = [p EXCEPT !.pc = "start", !.inst = h, !.step = 0]
  OBVIOUS
<1>5. End("host state", r) \/ End("memory", p) \/ End("instantiate", p) \/ Continue(q)
  BY <1>2, <1>3, <1>4, Zenon DEF Prepare
<1>6. DOMAIN r = Fields
  BY <1>1 DEF Running, Tallied
<1>7. /\ q.pc = "start" /\ q.step = 0 /\ q.call = r.call /\ q.to = r.to /\ q.instantiated = r.instantiated
      /\ q.cursor = r.cursor /\ q.err = r.err /\ q.unchecked = r.unchecked
  BY <1>2, <1>4, <1>6 DEF Fields
<1>8. Scripted(q, driver, rec.crossings, script, range)
  BY <1>1, <1>7, ScriptStays
<1> QED BY <1>1, <1>5, <1>8, NotGrown, ScriptEnds, ScriptContinues, Zenon

\* StreamingBegin keeps the invariant on the script.
LEMMA StreamingBeginScript ==
  ASSUME IInv, SInv, driver # "none", StreamingBegin
  PROVE  SInv'
<1>1. Running(driver) /\ Same /\ r.pc = "begin" /\ script' = script /\ driver = "streaming"
  BY Started, Zenon DEF StreamingBegin, Same
<1>2. PICK to \in {"idle", "prepare"} : Continue([r EXCEPT !.pc = to])
  BY Zenon DEF StreamingBegin
<1>3. PICK q : q = [r EXCEPT !.pc = to]
  BY Zenon
<1>4. DOMAIN r = Fields
  BY <1>1 DEF Running, Tallied
<1>5. /\ q.pc = to /\ q.call = r.call /\ q.to = r.to /\ q.instantiated = r.instantiated
      /\ q.cursor = r.cursor /\ q.err = r.err /\ q.unchecked = r.unchecked
  BY <1>3, <1>4 DEF Fields
<1>6. Scripted(q, driver, rec.crossings, script, range)
  BY <1>1, <1>2, <1>5, ScriptStays
<1> QED BY <1>1, <1>2, <1>3, <1>6, NotGrown, ScriptContinues, Zenon

\* NextGroup keeps the invariant on the script.
LEMMA NextGroupScript ==
  ASSUME IInv, SInv, driver # "none", NextGroup
  PROVE  SInv'
<1>1. Running(driver) /\ Same /\ r.pc = "idle" /\ script' = script /\ driver = "streaming"
  BY Started, Zenon DEF NextGroup, Same
<1>7. PICK to \in {"drive", "prepare"} : to = IF r.instantiated THEN "drive" ELSE "prepare"
  BY Zenon
<1>2. PICK n : Continue([r EXCEPT !.groups = @ + 1, !.arrived = n, !.next = "drive", !.pc = to])
  BY <1>7, Zenon DEF NextGroup
<1>3. PICK q : q = [r EXCEPT !.groups = @ + 1, !.arrived = n, !.next = "drive", !.pc = to]
  OBVIOUS
<1>4. DOMAIN r = Fields
  BY <1>1 DEF Running, Tallied
<1>5. /\ q.pc = to /\ q.call = r.call /\ q.to = r.to /\ q.instantiated = r.instantiated
      /\ q.cursor = r.cursor /\ q.err = r.err /\ q.unchecked = r.unchecked
  BY <1>3, <1>4 DEF Fields
<1>6. Scripted(q, driver, rec.crossings, script, range)
  BY <1>1, <1>2, <1>5, ScriptStays
<1> QED BY <1>1, <1>2, <1>3, <1>6, NotGrown, ScriptContinues, Zenon

\* StreamEnds keeps the invariant on the script.
LEMMA StreamEndsScript ==
  ASSUME IInv, SInv, driver # "none", StreamEnds
  PROVE  SInv'
<1>1. Running(driver) /\ Same /\ r.pc = "idle" /\ script' = script /\ driver = "streaming"
  BY Started, Zenon DEF StreamEnds, Same
<1>7. PICK to \in {"end", "prepare"} : to = IF r.instantiated THEN "end" ELSE "prepare"
  BY Zenon
<1>2. PICK n : \/ End("stream", r)
               \/ Continue([[r EXCEPT !.arrived = n, !.next = "end"] EXCEPT !.pc = to])
  BY <1>7, Zenon DEF StreamEnds
<1>3. PICK q : q = [[r EXCEPT !.arrived = n, !.next = "end"] EXCEPT !.pc = to]
  OBVIOUS
<1>4. DOMAIN r = Fields
  BY <1>1 DEF Running, Tallied
<1>5. /\ q.pc = to /\ q.call = r.call /\ q.to = r.to /\ q.instantiated = r.instantiated
      /\ q.cursor = r.cursor /\ q.err = r.err /\ q.unchecked = r.unchecked
  BY <1>3, <1>4 DEF Fields
<1>6. Scripted(q, driver, rec.crossings, script, range)
  BY <1>1, <1>2, <1>5, ScriptStays
<1> QED BY <1>1, <1>2, <1>3, <1>6, NotGrown, ScriptContinues, ScriptEnds, Zenon

\* BatchChecks keeps the invariant on the script.
LEMMA BatchChecksScript ==
  ASSUME IInv, SInv, driver # "none", BatchChecks
  PROVE  SInv'
<1>1. Running(driver) /\ Same /\ r.pc = "begin" /\ script' = script
  BY Started, Zenon DEF BatchChecks, Same
<1>2. PICK q : q = [r EXCEPT !.pc = "prepare"]
  BY Zenon
<1>3. \/ End("host state", r) \/ End("export", r) \/ End("nested", r)
      \/ /\ Continue(q)
         /\ \A i \in Tops(rec.crossings) : checkExportCrossing(rec.crossings[i])
  BY <1>2, Zenon DEF BatchChecks
<1>4. DOMAIN r = Fields
  BY <1>1 DEF Running, Tallied
<1>5. /\ q.pc = "prepare" /\ q.call = r.call /\ q.to = r.to /\ q.instantiated = r.instantiated
      /\ q.cursor = r.cursor /\ q.err = r.err /\ q.unchecked = r.unchecked
  BY <1>2, <1>4 DEF Fields
<1>6. CASE Continue(q) /\ \A i \in Tops(rec.crossings) : checkExportCrossing(rec.crossings[i])
  <2>1. Scripted(q, driver, rec.crossings, script, range)
    BY <1>1, <1>5, <1>6, ScriptStays
  <2> QED BY <1>1, <1>6, <2>1, NotGrown, ScriptContinues, Zenon
<1> QED BY <1>1, <1>3, <1>6, NotGrown, ScriptEnds, Zenon

-----------------------------------------------------------------------------
(***************************************************************************)
(* The start function and the guest's calls.                               *)
(***************************************************************************)

\* The hook sees the quiescent point the driver is at.
LEMMA HookedScript ==
  ASSUME IInv, SInv, driver # "none", Same, Grown(rec.crossings, script, script'),
         NEW p, NEW point, DOMAIN p = Fields, atQuiescentPoint(p, point), p.pc \notin {"start", "guest"},
         NEW s2, s2 = script', Scripted(p, driver, rec.crossings, s2, range)
  PROVE  SInv'
<1>1. PICK q : q = [p EXCEPT !.points = Append(@, point)]
  BY Zenon
<1>2. Continue(q) \/ End("hook", q)
  BY <1>1 DEF atQuiescentPoint
<1>3. /\ q.pc = p.pc /\ q.call = p.call /\ q.to = p.to /\ q.instantiated = p.instantiated
      /\ q.cursor = p.cursor /\ q.err = p.err /\ q.unchecked = p.unchecked /\ q.step = p.step
  BY <1>1 DEF Fields
<1>4. PICK cs : cs = rec.crossings
  OBVIOUS
<1>5. Followed(p, cs, s2) => Followed(q, cs, s2)
  BY <1>3, Zenon DEF Followed
<1>6. Scripted(q, driver, cs, s2, range)
  BY <1>3, <1>4, <1>5, Zenon DEF Scripted
<1> QED BY <1>2, <1>4, <1>6, ScriptContinues, ScriptEnds, Zenon

\* StartTraps keeps the invariant on the script.
LEMMA StartTrapsScript ==
  ASSUME IInv, SInv, driver # "none", StartTraps
  PROVE  SInv'
<1>1. Same /\ End("start trap", r) /\ r.pc = "start"
  BY Zenon DEF StartTraps, Same
<1>2. Grown(rec.crossings, script, script')
  <2>1. CASE script' = script
    BY <2>1, NotGrown, Zenon
  <2>2. CASE GuestDoes(TrapStep)
    BY <1>1, <2>2, GuestTakes, Zenon DEF Takes
  <2> QED BY <2>1, <2>2, Zenon DEF StartTraps
<1> QED BY <1>1, <1>2, ScriptEnds, Zenon

\* StartReturns keeps the invariant on the script.
LEMMA StartReturnsScript ==
  ASSUME IInv, SInv, driver # "none", StartReturns
  PROVE  SInv'
<1>1. Running(driver) /\ Same /\ r.pc = "start" /\ Prepared
  BY Started, Zenon DEF StartReturns, Same
<1>2. Grown(rec.crossings, script, script')
  <2>1. CASE script' = script
    BY <2>1, NotGrown, Zenon
  <2>2. CASE GuestDoes(ReturnStep(<<>>))
    BY <1>1, <2>2, GuestTakes DEF Takes
  <2> QED BY <2>1, <2>2, Zenon DEF StartReturns
<1>3. PICK s2 : s2 = script'
  OBVIOUS
<1>4. PICK p : p = [r EXCEPT !.pc = r.next, !.instantiated = TRUE, !.step = 0]
  OBVIOUS
<1>5. DOMAIN r = Fields /\ r.call = 0 /\ r.next \in {"idle", "drive", "end"} /\ driver \in Drivers
  BY <1>1 DEF Running, Tallied, Placed, Instantiating, Informed
<1>6. PICK cs : cs = rec.crossings
  OBVIOUS
<1>7. /\ Scripted(r, driver, cs, script, range) /\ Calls(cs) \in Nat
      /\ range.from \in Nat /\ range.to \in Nat
  <2>1. rec.crossings \in Seq(Crossing)
    BY RecordingShape DEF IInv
  <2>2. range.from \in Nat /\ range.to \in Nat
    BY DEF IInv
  <2> QED BY <1>6, <2>1, <2>2, Counted DEF SInv
<1>8. CASE driver = "streaming"
  <2>1. /\ DOMAIN p = Fields /\ p.pc = r.next /\ p.call = 0 /\ p.cursor = r.cursor
        /\ p.err = r.err /\ p.unchecked = r.unchecked
    BY <1>4, <1>5 DEF Fields
  <2>2. Followed(r, cs, script) => Followed(p, cs, s2)
    BY <1>5, <2>1 DEF Followed
  <2>3. Scripted(p, driver, cs, s2, range)
    BY <1>5, <1>7, <1>8, <2>1, <2>2 DEF Scripted
  <2>4. atQuiescentPoint(p, 0)
    BY <1>1, <1>4, <1>8 DEF Prepared
  <2>5. p.pc \notin {"start", "guest"}
    BY <1>5, <2>1
  <2> QED BY <1>1, <1>2, <1>3, <1>6, <2>1, <2>3, <2>4, <2>5, HookedScript, Zenon
<1>9. CASE driver = "batch"
  <2>1. PICK n : n = Cardinality(Tops(rec.crossings)) /\ n = Calls(cs)
    BY <1>6 DEF Calls
  <2>2. PICK q : q = [p EXCEPT !.cursor = IF range.from > 0 THEN CursorAt(range.from) ELSE @,
                               !.call = range.from, !.to = To(n)]
    OBVIOUS
  <2>3. End("range", r) \/ End("resume", r) \/ (RangeOK(n) /\ atQuiescentPoint(q, range.from))
    BY <1>1, <1>4, <1>9, <2>1, <2>2 DEF Prepared
  <2>4. CASE End("range", r) \/ End("resume", r)
    BY <1>1, <1>2, <2>4, ScriptEnds, Zenon
  <2>5. CASE RangeOK(n) /\ atQuiescentPoint(q, range.from)
    <3>1. /\ DOMAIN q = Fields /\ q.pc = r.next /\ q.call = range.from /\ q.to = To(n)
          /\ q.err = r.err /\ q.unchecked = r.unchecked
          /\ q.cursor = IF range.from > 0 THEN CursorAt(range.from) ELSE r.cursor
      BY <1>4, <1>5, <2>2 DEF Fields
    <3>2. q.to \in q.call..Calls(cs) /\ q.call \in 0..Calls(cs) /\ (range.to = 0 => q.to = Calls(cs))
      BY <1>7, <2>1, <2>5, <3>1 DEF RangeOK, To
    <3>3. range.from = 0 => q.call = r.call /\ q.cursor = r.cursor
      BY <1>5, <3>1
    <3>4. range.from = 0 /\ Followed(r, cs, script) => Followed(q, cs, s2)
      BY <1>5, <3>3 DEF Followed
    <3>5. q.pc \notin {"start", "guest"}
      BY <1>5, <3>1
    <3>6. \A i \in Tops(cs) : checkExportCrossing(cs[i])
      BY <1>1, <1>7, <1>9 DEF Scripted
    <3>7. Scripted(q, driver, cs, s2, range)
      BY <1>7, <1>9, <3>1, <3>2, <3>3, <3>4, <3>5, <3>6, Zenon DEF Scripted
    <3> QED BY <1>1, <1>2, <1>3, <1>6, <2>5, <3>1, <3>5, <3>7, HookedScript, Zenon
  <2> QED BY <2>3, <2>4, <2>5
<1> QED BY <1>5, <1>8, <1>9 DEF Drivers

\* An import call that is compared with the crossing at the cursor, or that a
\* recording without markers cannot have kept.
LEMMA FollowsImport ==
  ASSUME NEW cs \in Seq(Crossing), NEW s, NEW s2, NEW p, NEW q, NEW st,
         p.call \in 0..Calls(cs), p.cursor \in 0..Len(cs), Followed(p, cs, s),
         Takes(cs, s, s2, p.call, p.step, st),
         p.pc = "guest", q.pc = "guest", q.call = p.call, q.step = p.step + 1, p.call > 0,
         \/ q.cursor = p.cursor /\ NotKept(cs, st)
         \/ /\ q.cursor = p.cursor + 1 /\ ~NotKept(cs, st) /\ Proper(cs, q.cursor)
            /\ st = ImportStep(cs[q.cursor].label, cs[q.cursor].args)
  PROVE  Followed(q, cs, s2)
<1>1. PICK t : t = TopLevelExport(cs, p.call)
  OBVIOUS
<1>2. /\ 1 \in Tops(cs) /\ t \in Tops(cs) /\ t <= p.cursor
      /\ Visible(cs, SubSeq(s[p.call], 1, p.step)) = Imported(cs, t, p.cursor)
      /\ \A i \in 1..p.cursor : Proper(cs, i)
      /\ \A k \in 1..(p.call - 1) : Done(cs, s, k)
  BY <1>1 DEF Followed
<1>3. t \in Nat /\ p.cursor \in Nat /\ Calls(cs) \in Nat
  BY <1>2, Counted DEF Tops
<1>4. \A k \in 1..(q.call - 1) : Done(cs, s2, k)
  <2>1. \A k \in 1..(p.call - 1) : k \in 0..Calls(cs)
    BY <1>3
  <2> QED BY <1>2, <2>1, GrownDone, Zenon DEF Takes
<1>5. CASE q.cursor = p.cursor /\ NotKept(cs, st)
  <2>1. Visible(cs, SubSeq(s2[q.call], 1, q.step)) = Imported(cs, t, q.cursor)
    BY <1>2, <1>5, Zenon DEF Takes
  <2> QED BY <1>1, <1>2, <1>4, <1>5, <2>1, Zenon DEF Followed
<1>6. CASE /\ q.cursor = p.cursor + 1 /\ ~NotKept(cs, st) /\ Proper(cs, q.cursor)
           /\ st = ImportStep(cs[q.cursor].label, cs[q.cursor].args)
  <2>1. Visible(cs, SubSeq(s2[q.call], 1, q.step)) = Append(Imported(cs, t, p.cursor), st)
    BY <1>2, <1>6, Zenon DEF Takes
  <2>2. Imported(cs, t, q.cursor) = Append(Imported(cs, t, p.cursor), st)
    BY <1>2, <1>3, <1>6, ImportedSteps, ZenonT(30)
  <2>3. \A i \in 1..q.cursor : Proper(cs, i)
    <3>1. \A i \in 1..q.cursor : i \in 1..p.cursor \/ i = q.cursor
      BY <1>3, <1>6
    <3> QED BY <1>2, <1>6, <3>1, Zenon
  <2>4. t <= q.cursor
    BY <1>2, <1>3, <1>6
  <2>5. q.call # 0
    BY <1>3
  <2> QED BY <1>1, <1>2, <1>4, <2>1, <2>2, <2>3, <2>4, <2>5, Zenon DEF Followed
<1> QED BY <1>5, <1>6

\* GuestImport keeps the invariant on the script.
LEMMA GuestImportScript ==
  ASSUME IInv, SInv, driver # "none", GuestImport, r.pc = "guest"
  PROVE  SInv'
<1>1. Running(driver) /\ Same /\ r.err = None
  BY Started, Zenon DEF GuestImport, Same, None
<1>2. r.pc = "guest"
  OBVIOUS
<1>3. PICK i, args : /\ GuestDoes(ImportStep(i, args))
                     /\ Continue([serviceImport(r, i, args) EXCEPT !.step = @ + 1])
  BY Zenon DEF GuestImport
<1>4. PICK q : q = [serviceImport(r, i, args) EXCEPT !.step = @ + 1]
  BY Zenon
<1>5. PICK cs : cs = rec.crossings
  OBVIOUS
<1>6. PICK s2 : s2 = script'
  OBVIOUS
<1>7. PICK st : st = ImportStep(i, args)
  OBVIOUS
<1>8. Takes(cs, script, s2, r.call, r.step, st) /\ st.do = "import" /\ st.label = i
  <2>1. Takes(rec.crossings, script, script', r.call, r.step, st)
    BY <1>2, <1>3, <1>7, GuestTakes
  <2> QED BY <1>5, <1>6, <1>7, <2>1 DEF ImportStep
<1>9. /\ DOMAIN r = Fields /\ r.deferred \in Differences \cup {None, "mixed"}
      /\ r.cursor \in Nat /\ r.visible \in Nat
  <2>1. /\ DOMAIN r = Fields /\ r.deferred \in Differences \cup {None, "mixed"}
        /\ r.cursor \in 0..r.visible /\ r.visible \in 0..Len(rec.crossings)
    BY <1>1 DEF Running, Tallied
  <2>2. Len(rec.crossings) \in Nat
    BY RecordingShape DEF IInv
  <2> QED BY <2>1, <2>2
<1>10. /\ SameCall(r, q)
       /\ \/ Untouched(r, q) \/ Unwitnessed(r, q, i, driver = "streaming")
          \/ Refused(r, q) \/ Serviced(r, q, cs[r.cursor + 1], i, args)
  BY <1>4, <1>5, <1>9, ServiceImport
<1>11. q.pc = "guest" /\ q.call = r.call /\ q.step = r.step + 1 /\ q.to = r.to
       /\ q.instantiated = r.instantiated
  BY <1>2, <1>10 DEF SameCall
<1>12. /\ cs \in Seq(Crossing) /\ Len(cs) \in Nat /\ r.cursor \in 0..r.visible /\ r.visible \in 0..Len(cs)
       /\ r.unchecked \in Nat /\ (r.witness <=> Marked(cs, r.visible))
  <2>1. rec.crossings \in Seq(Crossing)
    BY RecordingShape DEF IInv
  <2> QED BY <1>1, <1>5, <2>1 DEF Running, Tallied
<1>13. Scripted(r, driver, cs, script, range)
  BY <1>5 DEF SInv
<1>14. /\ q.step \in 0..Len(s2[q.call]) /\ \A j \in 1..q.step : s2[q.call][j].do = "import"
  BY <1>8, <1>11, Zenon DEF Takes
<1>15. ASSUME driver = "batch" => range.from = 0
       PROVE  /\ Count(cs, q.cursor) = q.call
              /\ q.err = None /\ (q.unchecked = 0 \/ ~Marked(cs, Len(cs))) => Followed(q, cs, s2)
  <2>1. /\ Count(cs, r.cursor) = r.call /\ r.call \in 0..Calls(cs)
        /\ r.unchecked = 0 \/ ~Marked(cs, Len(cs)) => Followed(r, cs, script)
    BY <1>1, <1>13, <1>15, Zenon DEF Scripted
  <2>2. r.call > 0
    <3>1. r.call # 0 /\ Calls(cs) \in Nat
      BY <1>2, <1>12, <1>13, Counted DEF Scripted
    <3> QED BY <2>1, <3>1
  <2>3. CASE Unwitnessed(r, q, i, driver = "streaming")
    <3>1. q.cursor = r.cursor /\ Valueless(i) /\ q.unchecked # 0
      BY <1>12, <2>3 DEF Unwitnessed
    <3>2. ASSUME ~Marked(cs, Len(cs)) PROVE Followed(q, cs, s2)
      <4>1. NotKept(cs, st)
        BY <1>8, <3>1, <3>2 DEF NotKept
      <4>2. r.cursor \in 0..Len(cs)
        BY <1>12
      <4> QED BY <1>2, <1>8, <1>11, <1>12, <2>1, <2>2, <3>1, <3>2, <4>1, <4>2, FollowsImport
    <3> QED BY <1>11, <2>1, <3>1, <3>2
  <2>4. CASE Refused(r, q)
    BY <1>11, <2>1, <2>4 DEF Refused
  <2>5. CASE Serviced(r, q, cs[r.cursor + 1], i, args)
    <3>1. /\ r.cursor + 1 \in 1..Len(cs) /\ (r.cursor + 1) - 1 = r.cursor
          /\ q.cursor = r.cursor + 1 /\ q.unchecked = r.unchecked
      BY <1>12, <2>5, SMTT(30) DEF Serviced
    <3>2. PICK c : c = cs[r.cursor + 1]
      OBVIOUS
    <3>3. /\ c.kind = "import" /\ c.label = i /\ c.args = args /\ Len(c.args) = ImportSig[i].params
          /\ Len(c.results) = ImportSig[i].results /\ (Valueless(i) => r.witness)
      BY <2>5, <3>2 DEF Serviced, Records
    <3>4. Valueless(i) => Marked(cs, Len(cs))
      <4>1. Marked(cs, r.visible) => Marked(cs, Len(cs))
        BY <1>12, MarkedMore
      <4> QED BY <1>12, <3>3, <4>1
    <3>5. Proper(cs, q.cursor)
      BY <3>1, <3>2, <3>3, <3>4 DEF Proper
    <3>6. ~NotKept(cs, st)
      BY <1>8, <3>4 DEF NotKept
    <3>7. Count(cs, q.cursor) = q.call
      <4>1. q.cursor \notin Tops(cs)
        BY <3>1, <3>2, <3>3 DEF Tops, IsTop
      <4> QED BY <1>11, <1>12, <2>1, <3>1, <4>1, Counted
    <3>8. ASSUME r.unchecked = 0 \/ ~Marked(cs, Len(cs)) PROVE Followed(q, cs, s2)
      <4>1. st = ImportStep(cs[q.cursor].label, cs[q.cursor].args)
        BY <1>7, <3>1, <3>2, <3>3
      <4>2. r.cursor \in 0..Len(cs)
        BY <1>12
      <4>3. Followed(r, cs, script)
        BY <2>1, <3>8
      <4> QED BY <1>2, <1>8, <1>11, <1>12, <2>1, <2>2, <3>1, <3>5, <3>6, <4>1, <4>2, <4>3, FollowsImport, SMTT(30)
    <3> QED BY <3>1, <3>7, <3>8
  <2> QED BY <1>1, <1>10, <2>3, <2>4, <2>5 DEF Untouched
<1>16. Scripted(q, driver, cs, s2, range)
  BY <1>2, <1>11, <1>13, <1>14, <1>15, Zenon DEF Scripted
<1> QED BY <1>1, <1>3, <1>4, <1>5, <1>6, <1>8, <1>16, ScriptContinues, Zenon DEF Takes

\* GuestReturns keeps the invariant on the script.
LEMMA GuestReturnsScript ==
  ASSUME IInv, SInv, driver # "none", GuestReturns
  PROVE  SInv'
<1>1. Running(driver) /\ Same /\ r.pc = "guest" /\ r.err = None
  BY Started, Zenon DEF GuestReturns, Same, None
<1>2. PICK p : p = [r EXCEPT !.pc = "idle"]
  BY Zenon
<1>3. PICK cs : cs = rec.crossings
  OBVIOUS
<1>4. PICK t : t = TopLevelExport(cs, r.call)
  OBVIOUS
<1>5. PICK values : /\ GuestDoes(ReturnStep(values))
                    /\ \/ End("return value", r)
                       \/ cs[t].results = values /\ atQuiescentPoint(p, r.call)
  BY <1>2, <1>3, <1>4, Zenon DEF GuestReturns
<1>6. PICK s2 : s2 = script'
  OBVIOUS
<1>7. PICK st : st = ReturnStep(values)
  OBVIOUS
<1>8. Takes(cs, script, s2, r.call, r.step, st) /\ st.do # "import"
  <2>1. Takes(rec.crossings, script, script', r.call, r.step, st)
    BY <1>1, <1>5, <1>7, GuestTakes, Zenon
  <2> QED BY <1>3, <1>6, <1>7, <2>1 DEF ReturnStep
<1>9. CASE End("return value", r)
  BY <1>1, <1>3, <1>6, <1>8, <1>9, ScriptEnds, Zenon DEF Takes
<1>10. CASE cs[t].results = values /\ atQuiescentPoint(p, r.call)
  <2>1. DOMAIN r = Fields
    BY <1>1 DEF Running, Tallied
  <2>2. /\ DOMAIN p = Fields /\ p.pc = "idle" /\ p.call = r.call /\ p.to = r.to
        /\ p.instantiated = r.instantiated
        /\ p.cursor = r.cursor /\ p.err = r.err /\ p.unchecked = r.unchecked
    BY <1>2, <2>1 DEF Fields
  <2>3. Scripted(r, driver, cs, script, range) /\ cs \in Seq(Crossing)
    BY <1>3, RecordingShape DEF SInv, IInv
  <2>4. ASSUME Followed(r, cs, script) PROVE Followed(p, cs, s2)
    <3>1. Calls(cs) \in Nat /\ r.call \in 0..Calls(cs)
      BY <2>3, Counted DEF Scripted
    <3>2. \A k \in 1..(p.call - 1) : Done(cs, s2, k)
      <4>1. \A k \in 1..(r.call - 1) : k \in 0..Calls(cs) /\ Done(cs, script, k)
        BY <2>4, <3>1 DEF Followed
      <4> QED BY <1>8, <2>2, <4>1, GrownDone, Zenon DEF Takes
    <3>3. r.call > 0 => Closed(s2[p.call]) /\ Visible(cs, s2[p.call]) = Recorded(cs, t, p.cursor)
      <4>1. r.call > 0 => Visible(cs, SubSeq(script[r.call], 1, r.step)) = Imported(cs, t, r.cursor)
        BY <1>1, <1>4, <2>4 DEF Followed
      <4> QED BY <1>7, <1>8, <1>10, <2>2, <4>1, Zenon DEF Takes, Recorded
    <3> QED BY <1>4, <2>2, <2>4, <3>2, <3>3, Zenon DEF Followed
  <2>5. Scripted(p, driver, cs, s2, range)
    BY <1>1, <2>2, <2>3, <2>4, Zenon DEF Scripted
  <2>6. p.pc \notin {"start", "guest"}
    BY <2>2
  <2> QED BY <1>1, <1>3, <1>6, <1>8, <1>10, <2>2, <2>5, <2>6, HookedScript, Zenon DEF Takes
<1> QED BY <1>5, <1>9, <1>10, Zenon

\* GuestTraps keeps the invariant on the script.
LEMMA GuestTrapsScript ==
  ASSUME IInv, SInv, driver # "none", GuestTraps
  PROVE  SInv'
<1>1. Same /\ End("trap", r) /\ r.pc = "guest" /\ GuestDoes(TrapStep)
  BY Zenon DEF GuestTraps, Same
<1>2. Grown(rec.crossings, script, script')
  BY <1>1, GuestTakes DEF Takes
<1> QED BY <1>1, <1>2, ScriptEnds, Zenon

\* GuestUnwinds keeps the invariant on the script.
LEMMA GuestUnwindsScript ==
  ASSUME IInv, SInv, driver # "none", GuestUnwinds
  PROVE  SInv'
<1>1. Same /\ End(r.err, r) /\ script' = script
  BY Zenon DEF GuestUnwinds, Same
<1>2. PICK e : e = r.err
  OBVIOUS
<1>3. e \in Errors
  BY <1>2, Started DEF Running, Tallied
<1>4. e # "accepted"
  BY <1>3, Zenon DEF Errors, Differences, None
<1> QED BY <1>1, <1>2, <1>4, NotGrown, ScriptEnds, Zenon

-----------------------------------------------------------------------------
(***************************************************************************)
(* The drivers' calls, and how they end.                                   *)
(***************************************************************************)

\* The f-th crossing is a top-level export the cursor has reached, and the
\* driver calls it.
LEMMA FollowsExport ==
  ASSUME NEW cs \in Seq(Crossing), \A i \in 1..Len(cs) : cs[i].seq = i - 1, NEW s, NEW p, NEW q,
         NEW f \in Tops(cs), checkExportCrossing(cs[f]), p.cursor = f - 1, q.cursor = f,
         p.call \in Nat, q.call = p.call + 1, p.pc # "guest", q.pc = "guest", q.step = 0,
         IsScript(cs, s), q.call \in 0..Calls(cs), Count(cs, p.cursor) = p.call, Followed(p, cs, s)
  PROVE  Followed(q, cs, s)
<1>1. /\ f \in 1..Len(cs) /\ Len(cs) \in Nat /\ p.cursor \in 0..Len(cs) /\ p.cursor + 1 = f
      /\ cs[f].kind = "export" /\ IsTop(cs[f])
  BY DEF Tops, IsTop
<1>2. Count(cs, f) = q.call
  BY <1>1, Counted
<1>3. TopLevelExport(cs, q.call) = f
  BY <1>2, TopLevelExportIs, Zenon
<1>4. \A i \in 1..q.cursor : Proper(cs, i)
  <2>1. \A i \in 1..f : i \in 1..p.cursor \/ i = f
    BY <1>1
  <2>2. Proper(cs, f)
    BY <1>1 DEF Proper
  <2> QED BY <2>1, <2>2, Zenon DEF Followed
<1>5. p.call # 0 => Done(cs, s, p.call)
  <2> SUFFICES ASSUME p.call # 0 PROVE Done(cs, s, p.call)
    OBVIOUS
  <2>1. Until(cs, p.call) = p.cursor
    BY <1>1, UntilIs, Zenon
  <2>2. p.call > 0
    OBVIOUS
  <2>3. Closed(s[p.call]) /\ Visible(cs, s[p.call]) = Recorded(cs, TopLevelExport(cs, p.call), p.cursor)
    BY <2>2, Zenon DEF Followed
  <2> QED BY <2>1, <2>3 DEF Done
<1>6. \A k \in 1..(q.call - 1) : Done(cs, s, k)
  <2>1. \A k \in 1..(q.call - 1) : k \in 1..(p.call - 1) \/ (k = p.call /\ p.call # 0)
    OBVIOUS
  <2> QED BY <1>5, <2>1, Zenon DEF Followed
<1>7. 1 \in Tops(cs)
  <2>1. CASE p.call = 0
    BY <1>1, <2>1 DEF Followed
  <2>2. CASE p.call # 0
    BY <2>2 DEF Followed
  <2> QED BY <2>1, <2>2
<1>8. Visible(cs, SubSeq(s[q.call], 1, q.step)) = Imported(cs, f, q.cursor)
  <2>1. PICK S : s \in [0..Calls(cs) -> Seq(S)]
    BY DEF IsScript
  <2>2. s[q.call] \in Seq(S)
    BY <2>1
  <2>3. SubSeq(s[q.call], 1, q.step) = <<>>
    BY <2>2
  <2>4. f \in Nat /\ f <= f
    BY <1>1
  <2>5. Imported(cs, f, f) = <<>>
    BY <2>4, ImportedSteps, Zenon
  <2> QED BY <2>3, <2>5, VisibleNone, Zenon
<1>9. q.call > 0 /\ q.call # 0 /\ f <= q.cursor
  BY <1>1
<1> QED BY <1>3, <1>4, <1>6, <1>7, <1>8, <1>9, Zenon DEF Followed

\* callExport, from either driver.
LEMMA ExportScript ==
  ASSUME IInv, SInv, driver # "none", Same, script' = script, NEW p, NEW f \in Tops(rec.crossings),
         DOMAIN p = Fields, callExport(p, rec.crossings[f]), checkExportCrossing(rec.crossings[f]),
         Scripted(p, driver, rec.crossings, script, range), p.pc \notin {"begin", "guest"},
         p.call \in Nat, driver = "batch" => p.call < p.to /\ p.instantiated
  PROVE  SInv'
<1>1. PICK cs : cs = rec.crossings
  OBVIOUS
<1>2. cs \in Seq(Crossing) /\ (\A i \in 1..Len(cs) : cs[i].seq = i - 1) /\ IsScript(cs, script)
  BY <1>1, RecordingShape, Zenon DEF IInv, SInv
<1>3. PICK q : q = [p EXCEPT !.pc = "guest", !.cursor = @ + 1, !.exportCalls = @ + 1,
                             !.call = @ + 1, !.step = 0]
  OBVIOUS
<1>4. \/ End("crossing order", p)
      \/ p.cursor = cs[f].seq /\ Continue(q)
  BY <1>1, <1>3, Zenon DEF callExport
<1>5. CASE End("crossing order", p)
  BY <1>5, NotGrown, ScriptEnds, Zenon
<1>6. CASE p.cursor = cs[f].seq /\ Continue(q)
  <2>1. f \in 1..Len(cs) /\ Len(cs) \in Nat /\ f \in Tops(cs)
    BY <1>1, <1>2 DEF Tops
  <2>2. p.cursor = f - 1
    BY <1>2, <1>6, <2>1
  <2>3. /\ q.pc = "guest" /\ q.cursor = f /\ q.call = p.call + 1 /\ q.step = 0
        /\ q.err = p.err /\ q.unchecked = p.unchecked /\ q.to = p.to
    BY <1>3, <2>1, <2>2 DEF Fields
  <2>4. Calls(cs) \in Nat /\ p.call \in 0..Calls(cs)
    BY <1>1, <1>2, Counted DEF Scripted
  <2>5. ASSUME driver = "batch" => range.from = 0
        PROVE  Count(cs, p.cursor) = p.call /\ Count(cs, f) = q.call /\ q.call \in 1..Calls(cs)
    <3>1. Count(cs, p.cursor) = p.call
      BY <1>1, <2>5, Zenon DEF Scripted
    <3>2. Count(cs, f) = q.call
      BY <1>2, <2>1, <2>2, <2>3, <3>1, Counted
    <3> QED BY <1>2, <2>1, <3>1, <3>2, TopLevelExportIs, Zenon
  <2>6. driver = "batch" => /\ p.to \in p.call..Calls(cs) /\ p.call < p.to
                            /\ (range.to = 0 => p.to = Calls(cs))
                            /\ \A i \in Tops(cs) : checkExportCrossing(cs[i])
    BY <1>1, Zenon DEF Scripted
  <2>7. q.call \in 0..Calls(cs) /\ q.call # 0
    <3>1. CASE driver = "batch"
      BY <2>3, <2>4, <2>6, <3>1
    <3>2. CASE driver # "batch"
      BY <2>3, <2>4, <2>5, <3>2
    <3> QED BY <3>1, <3>2
  <2>8. driver = "batch" => q.to \in q.call..Calls(cs)
    BY <2>3, <2>4, <2>6
  <2>9. q.step \in 0..Len(script[q.call]) /\ \A j \in 1..q.step : script[q.call][j].do = "import"
    <3>1. PICK S : script \in [0..Calls(cs) -> Seq(S)]
      BY <1>2 DEF IsScript
    <3>2. script[q.call] \in Seq(S)
      BY <2>7, <3>1
    <3> QED BY <2>3, <3>2
  <2>10. ASSUME driver = "batch" => range.from = 0,
                q.err = None, q.unchecked = 0 \/ ~Marked(cs, Len(cs))
         PROVE  Followed(q, cs, script)
    <3>1. Followed(p, cs, script)
      BY <1>1, <2>3, <2>10, Zenon DEF Scripted
    <3> QED BY <1>1, <1>2, <2>1, <2>2, <2>3, <2>5, <2>7, <2>10, <3>1, FollowsExport, Zenon
  <2>11. Scripted(q, driver, cs, script, range)
    BY <2>3, <2>5, <2>6, <2>7, <2>8, <2>9, <2>10, Zenon DEF Scripted
  <2> QED BY <1>1, <1>6, <2>11, NotGrown, ScriptContinues, Zenon
<1> QED BY <1>4, <1>5, <1>6, Zenon

\* The first crossing of a group that is not refused is a top-level export.
LEMMA GroupBegins ==
  ASSUME rec \in Recordings, NEW g \in 1..Len(rec.groupEnds), ~GroupRefused(g)
  PROVE  GroupFirst(rec, g) \in Tops(rec.crossings)
<1>1. PICK f : f = GroupFirst(rec, g)
  OBVIOUS
<1>2. PICK last : last = rec.groupEnds[g]
  OBVIOUS
<1>3. f \in 1..last /\ last \in 1..Len(rec.crossings) /\ rec.crossings \in Seq(Crossing)
  <2>1. /\ rec.crossings \in Seq(Crossing) /\ rec.groupEnds \in Seq(Nat)
        /\ \A i \in 1..Len(rec.groupEnds) : rec.groupEnds[i] \in 1..Len(rec.crossings)
        /\ \A i, j \in 1..Len(rec.groupEnds) : i < j => rec.groupEnds[i] < rec.groupEnds[j]
    BY RecordingShape, SMTT(30)
  <2>2. last \in 1..Len(rec.crossings) /\ Len(rec.crossings) \in Nat /\ Len(rec.groupEnds) \in Nat
    BY <1>2, <2>1
  <2>3. CASE g = 1
    BY <1>1, <2>1, <2>2, <2>3 DEF GroupFirst
  <2>4. CASE g # 1
    <3>1. g - 1 \in 1..Len(rec.groupEnds) /\ g - 1 < g
      BY <2>2, <2>4
    <3>2. rec.groupEnds[g - 1] < last /\ rec.groupEnds[g - 1] \in 1..Len(rec.crossings)
      BY <1>2, <2>1, <3>1
    <3>3. f = rec.groupEnds[g - 1] + 1
      BY <1>1, <2>4 DEF GroupFirst
    <3> QED BY <2>1, <2>2, <3>2, <3>3, SMTT(30)
  <2> QED BY <2>3, <2>4
<1>4. PICK cs : cs = SubSeq(rec.crossings, f, last)
  BY Zenon
<1>5. 1 \in Tops(cs)
  BY <1>1, <1>2, <1>4 DEF GroupRefused, group
<1>6. IsTop(cs[1])
  BY <1>5 DEF Tops
<1>7. cs[1] = rec.crossings[f]
  BY <1>3, <1>4
<1> QED BY <1>1, <1>3, <1>6, <1>7 DEF Tops

\* DriveGroup keeps the invariant on the script.
LEMMA DriveGroupScript ==
  ASSUME IInv, SInv, driver # "none", DriveGroup
  PROVE  SInv'
<1>1. /\ Running(driver) /\ Same /\ r.pc = "drive" /\ driver = "streaming" /\ rec \in Recordings
      /\ script' = script
  BY Started, Zenon DEF DriveGroup, Same, IInv
<1>2. PICK f : f = GroupFirst(rec, r.groups)
  OBVIOUS
<1>3. PICK p : p = [r EXCEPT !.visible = rec.groupEnds[r.groups], !.next = "idle",
                             !.witness = @ \/ MarkersIdentifyImports(rec.groupEnds[r.groups])]
  OBVIOUS
<1>4. \/ End("group", p) \/ End("export", p)
      \/ /\ ~GroupRefused(r.groups) /\ checkExportCrossing(rec.crossings[f])
         /\ callExport(p, rec.crossings[f])
  BY <1>2, <1>3, Zenon DEF DriveGroup
<1>5. CASE End("group", p) \/ End("export", p)
  BY <1>1, <1>5, NotGrown, ScriptEnds, Zenon
<1>6. CASE /\ ~GroupRefused(r.groups) /\ checkExportCrossing(rec.crossings[f])
           /\ callExport(p, rec.crossings[f])
  <2>1. r.groups \in 1..Len(rec.groupEnds)
    <3>1. r.groups \in 0..stream.groups /\ r.groups > 0 /\ stream.groups \in 0..Len(rec.groupEnds)
      BY <1>1, Zenon DEF Running, IInv, Informed
    <3>2. rec.groupEnds \in Seq(Nat)
      BY <1>1, RecordingShape
    <3> QED BY <3>1, <3>2
  <2>2. f \in Tops(rec.crossings)
    BY <1>1, <1>2, <1>6, <2>1, GroupBegins
  <2>3. DOMAIN r = Fields /\ r.call \in Nat
    BY <1>1 DEF Running, Tallied, Placed
  <2>4. /\ DOMAIN p = Fields /\ p.pc = "drive" /\ p.call = r.call /\ p.cursor = r.cursor
        /\ p.err = r.err /\ p.unchecked = r.unchecked /\ p.to = r.to
    BY <1>1, <1>3, <2>3 DEF Fields
  <2>5. Followed(r, rec.crossings, script) => Followed(p, rec.crossings, script)
    BY <1>1, <2>4, Zenon DEF Followed
  <2>6. Scripted(r, driver, rec.crossings, script, range)
    BY <1>1 DEF SInv
  <2>7. Scripted(p, driver, rec.crossings, script, range)
    BY <1>1, <2>4, <2>5, <2>6 DEF Scripted
  <2> QED BY <1>1, <1>6, <2>2, <2>3, <2>4, <2>7, ExportScript
<1> QED BY <1>4, <1>5, <1>6

\* DriveExport keeps the invariant on the script.
LEMMA DriveExportScript ==
  ASSUME IInv, SInv, driver # "none", DriveExport
  PROVE  SInv'
<1>1. /\ Running(driver) /\ Same /\ r.pc = "idle" /\ driver = "batch" /\ r.call < r.to
      /\ script' = script
  BY Started, Zenon DEF DriveExport, Same
<1>2. PICK f : f = TopLevelExport(rec.crossings, r.call + 1)
  OBVIOUS
<1>3. callExport(r, rec.crossings[f])
  BY <1>2 DEF DriveExport
<1>4. DOMAIN r = Fields /\ r.call \in Nat /\ r.instantiated
  BY <1>1 DEF Running, Tallied, Placed
<1>5. Scripted(r, driver, rec.crossings, script, range)
  BY <1>1 DEF SInv
<1>6. /\ r.to \in r.call..Calls(rec.crossings)
      /\ \A i \in Tops(rec.crossings) : checkExportCrossing(rec.crossings[i])
  BY <1>1, <1>4, <1>5 DEF Scripted
<1>7. f \in Tops(rec.crossings)
  <2>1. rec.crossings \in Seq(Crossing)
    BY RecordingShape DEF IInv
  <2>2. Calls(rec.crossings) \in Nat
    BY <2>1, Counted
  <2>3. r.call + 1 \in 1..Calls(rec.crossings)
    BY <1>1, <1>4, <1>6, <2>2
  <2> QED BY <1>2, <2>1, <2>3, TopLevelExportExists, Zenon DEF Calls
<1> QED BY <1>1, <1>3, <1>4, <1>5, <1>6, <1>7, ExportScript

\* Every call has been made and the cursor is at the end.
LEMMA AllFollowed ==
  ASSUME NEW cs \in Seq(Crossing), \A i \in 1..Len(cs) : cs[i].seq = i - 1, NEW s, NEW p,
         p.pc # "guest", p.cursor = Len(cs), Count(cs, p.cursor) = p.call, Followed(p, cs, s)
  PROVE  Reproduced(cs, s)
<1>1. p.call = Calls(cs) /\ Calls(cs) \in Nat /\ Len(cs) \in Nat
  BY Counted
<1>2. \A i \in 1..Len(cs) : Proper(cs, i)
  BY DEF Followed
<1>3. cs # <<>> => 1 \in Tops(cs)
  <2>1. p.call = 0 => cs = <<>>
    BY <1>1 DEF Followed
  <2> QED BY <1>1, <2>1 DEF Followed
<1>4. p.call # 0 => Done(cs, s, p.call)
  <2> SUFFICES ASSUME p.call # 0 PROVE Done(cs, s, p.call)
    OBVIOUS
  <2>1. Len(cs) \in 0..Len(cs)
    BY <1>1
  <2>2. Until(cs, p.call) = p.cursor
    BY <2>1, UntilIs, Zenon
  <2>3. p.call > 0
    BY <1>1
  <2>4. Closed(s[p.call]) /\ Visible(cs, s[p.call]) = Recorded(cs, TopLevelExport(cs, p.call), p.cursor)
    BY <2>3, Zenon DEF Followed
  <2> QED BY <2>2, <2>4 DEF Done
<1>5. \A k \in 1..Calls(cs) : Done(cs, s, k)
  <2>1. \A k \in 1..Calls(cs) : k \in 1..(p.call - 1) \/ (k = p.call /\ p.call # 0)
    BY <1>1
  <2> QED BY <1>4, <2>1, Zenon DEF Followed
<1> QED BY <1>2, <1>3, <1>5 DEF Reproduced

\* StreamingEnd keeps the invariant on the script.
LEMMA StreamingEndScript ==
  ASSUME IInv, SInv, driver # "none", StreamingEnd, r.err = None
  PROVE  SInv'
<1>1. /\ Running(driver) /\ Same /\ r.pc = "end" /\ driver = "streaming" /\ rec \in Recordings
      /\ script' = script
  BY Started, Zenon DEF StreamingEnd, Same, IInv
<1>2. r.deferred \in Differences \cup {None, "mixed"} /\ r.witness \in BOOLEAN
  BY <1>1, Zenon DEF Running, Tallied
<1>3. \/ r.deferred # None /\ End(r.deferred, r)
      \/ End("unclassified", r) \/ End("crossing count", r) \/ End("truncated", r)
      \/ /\ stream.end # "truncated" /\ ~(r.deferred # None /\ r.witness)
         /\ r.cursor = r.visible /\ End("accepted", r)
  BY <1>2, Zenon DEF StreamingEnd, None
<1>4. CASE r.deferred # None /\ End(r.deferred, r)
  <2>1. PICK e : e = r.deferred
    OBVIOUS
  <2>2. e # "accepted"
    BY <1>2, <2>1, Zenon DEF Differences, None
  <2> QED BY <1>1, <1>4, <2>1, <2>2, NotGrown, ScriptEnds, Zenon
<1>5. CASE End("unclassified", r) \/ End("crossing count", r) \/ End("truncated", r)
  BY <1>1, <1>5, NotGrown, ScriptEnds, Zenon
<1>6. CASE /\ stream.end # "truncated" /\ ~(r.deferred # None /\ r.witness)
           /\ r.cursor = r.visible /\ End("accepted", r)
  <2>1. stream.end = "EOF" /\ r.groups = Len(rec.groupEnds) /\ r.visible = Shown(rec, r.groups)
    BY <1>1, <1>6, Zenon DEF Running, IInv, Informed, Driven
  <2>2. /\ r.visible = Len(rec.crossings) /\ rec.crossings \in Seq(Crossing)
        /\ \A i \in 1..Len(rec.crossings) : rec.crossings[i].seq = i - 1
    BY <1>1, <2>1, RecordingShape
  <2>3. r.unchecked = 0 \/ ~Marked(rec.crossings, Len(rec.crossings))
    <3>1. /\ r.witness <=> Marked(rec.crossings, Len(rec.crossings))
          /\ r.unchecked \in Nat /\ (r.unchecked > 0 => r.deferred # None)
      BY <1>1, <2>2 DEF Running, Tallied
    <3> QED BY <1>6, <3>1
  <2>4. r.err = None
    OBVIOUS
  <2>5. Scripted(r, driver, rec.crossings, script, range)
    BY <1>1 DEF SInv
  <2>6. Count(rec.crossings, r.cursor) = r.call /\ Followed(r, rec.crossings, script)
    BY <1>1, <2>3, <2>4, <2>5, Zenon DEF Scripted
  <2>7. r.cursor = Len(rec.crossings) /\ r.pc # "guest"
    BY <1>1, <1>6, <2>2
  <2>8. Reproduced(rec.crossings, script)
    BY <2>2, <2>6, <2>7, AllFollowed
  <2> QED BY <1>1, <1>6, <2>8, NotGrown, ScriptEnds, Zenon
<1> QED BY <1>3, <1>4, <1>5, <1>6, Zenon

\* BatchEnd keeps the invariant on the script.
LEMMA BatchEndScript ==
  ASSUME IInv, SInv, driver # "none", BatchEnd, r.err = None
  PROVE  SInv'
<1>1. Running(driver) /\ Same /\ r.pc = "idle" /\ driver = "batch" /\ r.call = r.to /\ script' = script
  BY Started, Zenon DEF BatchEnd, Same
<1>2. PICK cs : cs = rec.crossings
  OBVIOUS
<1>3. \/ End("crossing count", r)
      \/ ~(WholeRecording(r) /\ r.cursor # Len(cs)) /\ End("accepted", r)
  BY <1>2, Zenon DEF BatchEnd
<1>4. ASSUME ~(WholeRecording(r) /\ r.cursor # Len(cs)), range.from = 0, range.to = 0
      PROVE  Reproduced(cs, script)
  <2>1. Scripted(r, driver, cs, script, range) /\ r.instantiated
    BY <1>1, <1>2 DEF SInv, Running, Placed
  <2>2. /\ cs \in Seq(Crossing) /\ \A i \in 1..Len(cs) : cs[i].seq = i - 1
    BY <1>2, RecordingShape DEF IInv
  <2>3. r.to = Calls(cs)
    BY <1>1, <1>4, <2>1 DEF Scripted
  <2>4. r.cursor = Len(cs)
    BY <1>2, <1>4, <2>3 DEF WholeRecording, Calls
  <2>5. r.unchecked = 0 \/ ~Marked(cs, Len(cs))
    <3>1. /\ r.visible = Len(cs) /\ r.unchecked \in Nat /\ (r.unchecked > 0 => ~r.witness)
          /\ r.witness <=> Marked(cs, r.visible)
      BY <1>1, <1>2 DEF Running, Tallied, Informed
    <3> QED BY <3>1
  <2>6. r.err = None
    OBVIOUS
  <2>7. Count(cs, r.cursor) = r.call /\ Followed(r, cs, script)
    BY <1>4, <2>1, <2>5, <2>6, Zenon DEF Scripted
  <2>8. r.pc # "guest"
    BY <1>1
  <2> QED BY <2>2, <2>4, <2>7, <2>8, AllFollowed
<1> QED BY <1>1, <1>2, <1>3, <1>4, NotGrown, ScriptEnds, Zenon

\* Nothing has been called, and the script is any script.
LEMMA BlankScripted ==
  ASSUME NEW cs \in Seq(Crossing), NEW s, NEW d, NEW opts, NEW p, NEW v, Blank(p, v),
         p.instantiated = FALSE
  PROVE  Scripted(p, d, cs, s, opts)
<1>1. /\ p.pc = "begin" /\ p.call = 0 /\ p.cursor = 0 /\ ~p.instantiated
  BY Zenon DEF Blank
<1>2. Calls(cs) \in Nat /\ Count(cs, 0) = 0
  BY Counted
<1>3. Followed(p, cs, s)
  BY <1>1 DEF Followed
<1>4. p.call \in 0..Calls(cs)
  BY <1>1, <1>2
<1>5. p.pc \notin {"guest", "start"}
  BY <1>1
<1> QED BY <1>1, <1>2, <1>3, <1>4, <1>5, Zenon DEF Scripted

\* BatchBegin keeps the invariant on the script.
LEMMA BatchBeginScript ==
  ASSUME IInv, SInv, BatchBegin
  PROVE  SInv'
<1>1. /\ driver = "none" /\ driver' = "batch" /\ verdict' = verdict /\ rec' = rec
      /\ script' = script /\ rec \in Recordings /\ verdict["batch"] = None
  BY Zenon DEF BatchBegin, IInv, None
<1>2. PICK b : b = newReplayer(Len(rec.crossings), "none")
  OBVIOUS
<1>3. PICK p : p = r' /\ p = [b EXCEPT !.arrived = Len(rec.host)]
  BY <1>2, Zenon DEF BatchBegin
<1>4. Blank(b, Len(rec.crossings)) /\ b.instantiated = FALSE
  BY <1>2, NewIsBlank, Zenon
<1>5. DOMAIN p = Fields /\ \A f \in Fields \ {"arrived"} : p[f] = b[f]
  BY <1>3, <1>4 DEF Blank
<1>6. Blank(p, Len(rec.crossings)) /\ p.instantiated = FALSE
  BY <1>4, <1>5 DEF Blank, Fields
<1>7. rec.crossings \in Seq(Crossing)
  BY <1>1, RecordingShape
<1>8. PICK opts : opts = range'
  OBVIOUS
<1>9. Scripted(p, "batch", rec.crossings, script, opts)
  BY <1>6, <1>7, BlankScripted, Zenon
<1>10. verdict["streaming"] = "accepted" => Reproduced(rec.crossings, script)
  BY <1>1 DEF SInv, Drivers
<1>11. \A d \in Drivers \ {"batch"} : d = "streaming"
  BY DEF Drivers
<1>12. IsScript(rec.crossings, script)
  BY DEF SInv
<1> QED BY <1>1, <1>3, <1>8, <1>9, <1>10, <1>11, <1>12, Zenon DEF SInv

\* Before the first step nothing has been called.
LEMMA InitScript == Init => SInv
<1> SUFFICES ASSUME Init PROVE SInv
  OBVIOUS
<1>1. /\ rec \in Recordings /\ driver = "streaming" /\ verdict = [d \in Drivers |-> None]
      /\ script = [k \in 0..Calls(rec.crossings) |-> <<>>]
  BY Zenon DEF Init, Drivers, None, Calls
<1>2. PICK h : r = newReplayer(0, h)
  BY Zenon DEF Init
<1>3. Blank(r, 0) /\ r.instantiated = FALSE
  BY <1>2, NewIsBlank, Zenon
<1>4. rec.crossings \in Seq(Crossing)
  BY <1>1, RecordingShape
<1>5. Scripted(r, driver, rec.crossings, script, range)
  BY <1>3, <1>4, BlankScripted, Zenon
<1>6. IsScript(rec.crossings, script)
  <2>1. script \in [0..Calls(rec.crossings) -> Seq({})]
    BY <1>1
  <2>2. \A k \in 0..Calls(rec.crossings) : Len(script[k]) = 0
    BY <1>1
  <2>3. \A k \in 0..Calls(rec.crossings) : 1..(Len(script[k]) - 1) = {}
    BY <2>2
  <2> QED BY <2>1, <2>3, Zenon DEF IsScript
<1>7. \A d \in Drivers : verdict[d] = None /\ verdict[d] # "accepted"
  BY <1>1, Zenon DEF None
<1> QED BY <1>1, <1>5, <1>6, <1>7 DEF SInv, Drivers

-----------------------------------------------------------------------------
\* Every step keeps the invariant on the script.
LEMMA NextScript ==
  ASSUME IInv, Listed, QuietStart, StartIsSilent, StartIsSilent', SInv, [Next]_replayVars
  PROVE  SInv'
<1>1. CASE UNCHANGED replayVars
  BY <1>1 DEF SInv, replayVars
<1>2. CASE Next /\ driver # "none"
  <2>1. ~BatchBegin
    BY <1>2, Zenon DEF BatchBegin
  <2>2. GuestImport => r.pc = "guest"
    BY <1>2, StartHeard
  <2>3. StreamingEnd \/ BatchEnd => r.err = None
    <3>1. StreamingEnd \/ BatchEnd => r.pc # "guest"
      BY Zenon DEF StreamingEnd, BatchEnd
    <3> QED BY <1>2, <3>1 DEF QuietStart
  <2> QED BY <1>2, <2>1, <2>2, <2>3, PrepareScript, StartReturnsScript, StartTrapsScript,
             GuestImportScript, GuestReturnsScript, GuestTrapsScript, GuestUnwindsScript,
             StreamingBeginScript, NextGroupScript, DriveGroupScript, StreamEndsScript,
             StreamingEndScript, BatchChecksScript, DriveExportScript, BatchEndScript DEF Next
<1>3. CASE Next /\ driver = "none"
  <2>1. BatchBegin
    BY <1>3, OnlyBatchBegins
  <2> QED BY <2>1, BatchBeginScript
<1> QED BY <1>1, <1>2, <1>3

\* The script that is followed to the end is the recorded execution.
LEMMA ReproducedIsRecorded ==
  ASSUME IInv, Reproduced(rec.crossings, script)
  PROVE  IsTheRecordedExecution
<1>1. PICK cs : cs = rec.crossings
  OBVIOUS
<1>2. cs \in Seq(Crossing) /\ Calls(cs) \in Nat /\ Len(cs) \in Nat
  <2>1. cs \in Seq(Crossing)
    BY <1>1, RecordingShape, Zenon DEF IInv
  <2> QED BY <2>1, Counted
<1>3. \A i \in 1..Len(cs) : Proper(cs, i)
  BY <1>1 DEF Reproduced
<1>4. DOMAIN cs = 1..Len(cs)
  BY <1>2
<1>5. MarkersIdentifyImports(Len(cs)) <=> Marked(cs, Len(cs))
  BY <1>1 DEF MarkersIdentifyImports, Marked
<1>6. Nested(cs) = {}
  <2>1. ASSUME NEW i \in DOMAIN cs, cs[i].kind = "export", cs[i].depth > 0 PROVE FALSE
    <3>1. IsTop(cs[i])
      BY <1>3, <1>4, <2>1 DEF Proper
    <3> QED BY <2>1, <3>1 DEF IsTop
  <2> QED BY <2>1 DEF Nested
<1>7. \A i \in DOMAIN cs :
        IF cs[i].kind = "export" THEN checkExportCrossing(cs[i])
        ELSE /\ Len(cs[i].args) = ImportSig[cs[i].label].params
             /\ Len(cs[i].results) = ImportSig[cs[i].label].results
             /\ Valueless(cs[i].label) => MarkersIdentifyImports(Len(cs))
  BY <1>3, <1>4, <1>5, Zenon DEF Proper
<1>8. ASSUME NEW k \in 1..Calls(cs) PROVE Witnessed(script[k]) = RecordedSteps(k)
  <2>1. Visible(cs, script[k]) = Recorded(cs, TopLevelExport(cs, k), Until(cs, k))
    BY <1>1, <1>8, Zenon DEF Reproduced, Done
  <2>2. Witnessed(script[k]) = Visible(cs, script[k])
    BY <1>1 DEF Witnessed, Unkept, MarkersIdentifyImports, Visible, Keeps, NotKept, Marked
  <2>3. PICK t : t = TopLevelExport(cs, k)
    OBVIOUS
  <2>4. PICK u : u = Until(cs, k) /\ u = CursorAt(k)
    BY <1>1, Zenon DEF Until, CursorAt, Calls
  <2>5. t \in 1..Len(cs) /\ u \in 0..Len(cs)
    <3>1. t \in Tops(cs)
      BY <1>2, <2>3, TopLevelExportExists DEF Calls
    <3>2. k \in Nat
      BY <1>2
    <3>3. u \in 0..Len(cs)
      BY <1>1, <2>4, <3>2, CursorInRecording, Zenon DEF IInv
    <3> QED BY <1>2, <3>1, <3>3 DEF Tops
  <2>6. PICK nested : nested = SubSeq(cs, t + 1, u)
    BY Zenon
  <2>7. DOMAIN nested = 1..(u - t) /\ \A i \in 1..(u - t) : nested[i] = cs[t + i]
    BY <1>2, <2>5, <2>6
  <2>8. [i \in DOMAIN nested |-> ImportStep(nested[i].label, nested[i].args)] = Imported(cs, t, u)
    BY <2>7 DEF Imported
  <2>9. RecordedSteps(k) = Recorded(cs, t, u)
    BY <1>1, <2>3, <2>4, <2>6, <2>8, Zenon DEF RecordedSteps, Recorded
  <2> QED BY <2>1, <2>2, <2>3, <2>4, <2>9, Zenon
<1>9. cs # <<>> => 1 \in Tops(cs)
  BY <1>1 DEF Reproduced
<1> QED BY <1>1, <1>6, <1>7, <1>8, <1>9, Zenon DEF IsTheRecordedExecution, IsReplayable, Calls

\* What a whole replay accepts is what was recorded, call by call: the same
\* imports in the same order with the same arguments, and the same results
\* (replay.go: "the exact global interleaving of the recording is verified").
\* It is so of both drivers, for any number of calls, groups and imports, of
\* every replay in which the start function called no import.
THEOREM AcceptedIsRecorded == Spec => []AcceptsOnlyTheRecorded
<1> DEFINE Inv == Listed /\ QuietStart /\ (StartIsSilent => SInv)
<1>1. Init => Inv
  <2> SUFFICES ASSUME Init PROVE Inv
    OBVIOUS
  <2>1. SInv
    BY InitScript
  <2>2. Listed
    <3>1. rec \in Recordings /\ IsScript(rec.crossings, script)
      BY <2>1, Zenon DEF Init, SInv
    <3>2. Calls(rec.crossings) \in Nat
      BY <3>1, RecordingShape, Counted, Zenon
    <3> QED BY <3>1, <3>2, Zenon DEF IsScript, Listed
  <2>3. r.err = None
    BY Zenon DEF Init, newReplayer, None
  <2> QED BY <2>1, <2>2, <2>3 DEF QuietStart
<1>2. IInv /\ Inv /\ [Next]_replayVars => Inv'
  BY NextQuiet, NextScript
<1>3. IInv /\ Inv => AcceptsOnlyTheRecorded
  <2> SUFFICES ASSUME IInv, SInv, NEW d \in Drivers, ReplayedWhole(d), verdict[d] = "accepted"
               PROVE  IsTheRecordedExecution
    BY Zenon DEF AcceptsOnlyTheRecorded
  <2>1. d # driver
    BY Zenon DEF SInv, None, Drivers
  <2>2. d = "batch" => range.from = 0 /\ range.to = 0
    BY DEF ReplayedWhole
  <2>3. Reproduced(rec.crossings, script)
    BY <2>1, <2>2 DEF SInv
  <2> QED BY <2>3, ReproducedIsRecorded
<1> QED BY <1>1, <1>2, <1>3, ReplayInvariant, PTL DEF Spec
=============================================================================
