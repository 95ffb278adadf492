--------------------------- MODULE AssemblerProofs ---------------------------
(***************************************************************************)
(* Proofs about the assembler's operators, for every set of names and      *)
(* values and any record: what one record, and finish, do to an assembler. *)
(***************************************************************************)
EXTENDS Assembler, WellFoundedInduction, TLAPS

\* What the proofs use of sequences.
LEMMA EmptyOrNot ==
  ASSUME NEW S
  PROVE  /\ <<>> \in Seq(S) /\ Len(<<>>) = 0
         /\ \A s \in Seq(S) : s # <<>> => Len(s) \in Nat \ {0}
OBVIOUS

LEMMA Elements ==
  ASSUME NEW S, NEW s \in Seq(S), NEW n \in 1..Len(s)
  PROVE  s[n] \in S
OBVIOUS

LEMMA Replacing ==
  ASSUME NEW S, NEW s \in Seq(S), NEW n \in 1..Len(s), NEW x \in S
  PROVE  LET t == [s EXCEPT ![n] = x]
         IN  /\ t \in Seq(S) /\ Len(t) = Len(s)
             /\ \A j \in 1..Len(s) : t[j] = IF j = n THEN x ELSE s[j]
OBVIOUS

LEMMA Appending ==
  ASSUME NEW S, NEW s \in Seq(S), NEW x \in S
  PROVE  LET t == Append(s, x)
         IN  /\ t \in Seq(S) /\ t # <<>> /\ Len(t) = Len(s) + 1
             /\ t[Len(s) + 1] = x
             /\ \A i \in 1..Len(s) : t[i] = s[i]
OBVIOUS

LEMMA Cutting ==
  ASSUME NEW S, NEW s \in Seq(S), NEW n \in 0..Len(s)
  PROVE  LET t == SubSeq(s, 1, n)
         IN  /\ t \in Seq(S) /\ Len(t) = n
             /\ \A i \in 1..n : t[i] = s[i]
<1>1. Len(SubSeq(s, 1, n)) = n
  OBVIOUS
<1>2. \A i \in 1..n : SubSeq(s, 1, n)[i] = s[i]
  OBVIOUS
<1>3. SubSeq(s, 1, n) \in Seq(S)
  OBVIOUS
<1>4. QED
  BY <1>1, <1>2, <1>3

\* A nonempty set of natural numbers has a least element.
LEMMA MinExists ==
  ASSUME NEW T, T \subseteq Nat, T # {}
  PROVE  \E x \in T : \A y \in T : x <= y
<1>1. PICK x \in T : \A y \in T : ~ (<<y, x>> \in OpToRel(<, Nat))
  BY NatLessThanWellFounded, WFMin, Zenon
<1>2. \A y \in T : ~ (y < x)
  BY <1>1, Zenon DEF OpToRel
<1>3. QED
  BY <1>2

\* A nonempty set of numbers up to n has a greatest element.
LEMMA MaxExists ==
  ASSUME NEW n \in Nat, NEW T, T \subseteq 0..n, T # {}
  PROVE  \E x \in T : \A y \in T : x >= y
<1> DEFINE U == {m \in 0..n : n - m \in T}
<1>1. U \subseteq Nat
  OBVIOUS
<1>2. U # {}
  <2>1. PICK y \in T : TRUE
    BY Zenon
  <2>2. n - y \in 0..n /\ n - (n - y) = y
    OBVIOUS
  <2>3. n - y \in U
    BY <2>2
  <2>4. QED
    BY <2>3, Zenon
<1> HIDE DEF U
<1>3. PICK u \in U : \A v \in U : u <= v
  BY <1>1, <1>2, MinExists, Zenon
<1> USE DEF U
<1>4. n - u \in T
  OBVIOUS
<1>5. ASSUME NEW y \in T PROVE n - u >= y
  <2>1. n - y \in 0..n /\ n - (n - y) = y
    OBVIOUS
  <2>2. n - y \in U
    BY <2>1
  <2>3. u <= n - y
    BY <1>3, <2>2
  <2>4. QED
    BY <2>3
<1>6. QED
  BY <1>4, <1>5

-----------------------------------------------------------------------------
(***************************************************************************)
(* The structural part of the inductive invariant.                         *)
(***************************************************************************)
Structure(a) ==
  /\ CrossingsNumbered(a)
  /\ StackNested(a)
  /\ GroupsDelimited(a)
  /\ TopsSeparated(a)

\* What a method that delimits no group leaves alone.
Keeps(a, b) ==
  /\ b.groupStart = a.groupStart
  /\ b.groupEnds = a.groupEnds
  /\ Len(a.crossings) <= Len(b.crossings)
  /\ \A i \in 1..a.groupStart : b.crossings[i] = a.crossings[i]

Bracketed(a) == \E i \in 1..Len(a.crossings) : a.crossings[i].markerBracketed

KeepsWitness(a, b) ==
  /\ b.sawImportMarker = a.sawImportMarker
  /\ Bracketed(b) <=> Bracketed(a)

Preserved(a, b) ==
  /\ b \in Assemblers
  /\ Structure(b)
  /\ OpenGroupTop(b)
  /\ Keeps(a, b)
  /\ KeepsWitness(a, b)

\* The highest open crossing that does not dangle is where the loop of
\* closeDanglingImports stops.
LEMMA KeptProperties ==
  ASSUME NEW a \in Assemblers, NEW keep, NEW force \in BOOLEAN
  PROVE  /\ Kept(a, keep, force) \in 0..Len(a.stack)
         /\ \A k \in 1..Len(a.stack) :
              ~Dangles(a, a.stack[k], keep, force) => k <= Kept(a, keep, force)
         /\ \/ Kept(a, keep, force) = 0
            \/ ~Dangles(a, a.stack[Kept(a, keep, force)], keep, force)
<1> DEFINE T == {0} \cup {k \in 1..Len(a.stack) : ~Dangles(a, a.stack[k], keep, force)}
<1>1. Len(a.stack) \in Nat
  BY DEF Assemblers
<1>2. T \subseteq 0..Len(a.stack) /\ T # {}
  BY <1>1
<1>3. Kept(a, keep, force) = Max(T)
  BY DEF Kept
<1> HIDE DEF T
<1>4. \E x \in T : \A y \in T : x >= y
  BY <1>1, <1>2, MaxExists, Zenon
<1>5. Max(T) \in T /\ \A y \in T : Max(T) >= y
  BY <1>4 DEF Max
<1> USE DEF T
<1>6. QED
  BY <1>1, <1>2, <1>3, <1>5

\* Fields other than the stack.
SameButStack(a, b) ==
  /\ b.functions = a.functions /\ b.varNames = a.varNames
  /\ b.crossings = a.crossings /\ b.pending = a.pending
  /\ b.groupStart = a.groupStart /\ b.groupEnds = a.groupEnds
  /\ b.sawImportMarker = a.sawImportMarker /\ b.hostState = a.hostState
  /\ b.failed = a.failed

\* Dropping crossings from the top of the stack keeps the structure.
LEMMA TruncatedStack ==
  ASSUME NEW a \in Assemblers, Structure(a), NEW k \in 0..Len(a.stack),
         NEW b, b = [a EXCEPT !.stack = SubSeq(@, 1, k)]
  PROVE  /\ b \in Assemblers
         /\ SameButStack(a, b)
         /\ Len(b.stack) = k
         /\ \A j \in 1..k : b.stack[j] = a.stack[j]
         /\ Structure(b) /\ Keeps(a, b) /\ KeepsWitness(a, b)
<1>1. a.stack \in Seq(OpenCrossing) /\ Len(a.stack) \in Nat
  BY DEF Assemblers
<1>2. /\ b.stack = SubSeq(a.stack, 1, k)
      /\ SameButStack(a, b)
  BY DEF Assemblers, SameButStack
<1>3. /\ b.stack \in Seq(OpenCrossing)
      /\ Len(b.stack) = k
      /\ \A j \in 1..k : b.stack[j] = a.stack[j]
  BY <1>1, <1>2, Cutting
<1>4. b \in Assemblers
  BY <1>3, Zenon DEF Assemblers
<1>5. StackNested(b)
  <2>1. StackNested(a)
    BY DEF Structure
  <2>2. \A j \in 1..k : j \in 1..Len(a.stack)
    BY <1>1
  <2>3. ASSUME NEW j \in 1..k
        PROVE  /\ b.stack[j].idx \in (b.groupStart + 1)..Len(b.crossings)
               /\ b.crossings[b.stack[j].idx].depth = j - 1
               /\ b.crossings[b.stack[j].idx].label = b.stack[j].label
    BY <1>2, <1>3, <2>1, <2>2, SMTT(30) DEF StackNested, SameButStack
  <2>4. ASSUME NEW i \in 1..k, NEW j \in 1..k, i < j
        PROVE  b.stack[i].idx < b.stack[j].idx
    BY <1>3, <2>1, <2>2, <2>4, SMTT(30) DEF StackNested
  <2>5. QED
    BY <1>3, <2>3, <2>4, Zenon DEF StackNested
<1>6. CrossingsNumbered(b) /\ GroupsDelimited(b) /\ TopsSeparated(b)
  BY <1>2 DEF Structure, CrossingsNumbered, GroupsDelimited, TopsSeparated, SameButStack
<1>7. Keeps(a, b) /\ KeepsWitness(a, b)
  BY <1>2 DEF Keeps, KeepsWitness, Bracketed, SameButStack, Assemblers
<1>8. QED
  BY <1>2, <1>3, <1>4, <1>5, <1>6, <1>7 DEF Structure

\* closeDanglingImports pops imports only, so an open top-level export stays.
LEMMA DanglingClosed ==
  ASSUME NEW a \in Assemblers, Structure(a), OpenGroupTop(a),
         NEW keep, NEW force \in BOOLEAN,
         NEW b, b = closeDanglingImports(a, keep, force)
  PROVE  Preserved(a, b) /\ SameButStack(a, b)
<1> DEFINE n == Kept(a, keep, force)
<1>1. /\ n \in 0..Len(a.stack)
      /\ \A k \in 1..Len(a.stack) : ~Dangles(a, a.stack[k], keep, force) => k <= n
  BY KeptProperties
<1>2. b = [a EXCEPT !.stack = SubSeq(@, 1, n)]
  BY DEF closeDanglingImports
<1> HIDE DEF n
<1>3. /\ b \in Assemblers /\ SameButStack(a, b) /\ Len(b.stack) = n
      /\ \A j \in 1..n : b.stack[j] = a.stack[j]
      /\ Structure(b) /\ Keeps(a, b) /\ KeepsWitness(a, b)
  BY <1>1, <1>2, TruncatedStack
<1>4. ASSUME NEW i \in (b.groupStart + 1)..Len(b.crossings), IsTop(b.crossings[i])
      PROVE  b.stack # <<>> /\ b.stack[1].idx = i
  <2>1. a.stack # <<>> /\ a.stack[1].idx = i
    BY <1>3, <1>4 DEF OpenGroupTop, SameButStack
  <2>2. Len(a.stack) \in Nat \ {0}
    BY <2>1, EmptyOrNot DEF Assemblers
  <2>3. ~Dangles(a, a.stack[1], keep, force)
    BY <1>3, <1>4, <2>1 DEF Dangles, IsTop, SameButStack
  <2>4. n >= 1
    BY <1>1, <2>2, <2>3
  <2>5. QED
    BY <1>1, <1>3, <2>1, <2>4, EmptyOrNot
<1>5. OpenGroupTop(b)
  BY <1>4 DEF OpenGroupTop
<1>6. QED
  BY <1>3, <1>5 DEF Preserved

\* A change of the other fields leaves the structure as it is.
LEMMA OtherFields ==
  ASSUME NEW a \in Assemblers, Structure(a), OpenGroupTop(a),
         NEW b \in Assemblers,
         b.crossings = a.crossings, b.stack = a.stack,
         b.groupStart = a.groupStart, b.groupEnds = a.groupEnds
  PROVE  /\ Structure(b) /\ OpenGroupTop(b) /\ Keeps(a, b)
         /\ Bracketed(b) <=> Bracketed(a)
<1>1. Structure(b) /\ OpenGroupTop(b)
  BY Zenon DEF Structure, CrossingsNumbered, StackNested, GroupsDelimited,
         TopsSeparated, OpenGroupTop
<1>2. Keeps(a, b)
  BY DEF Keeps, Assemblers
<1>3. QED
  BY <1>1, <1>2 DEF Bracketed

\* The innermost open crossing belongs to the group being assembled.
LEMMA TopProperties ==
  ASSUME NEW a \in Assemblers, Structure(a), a.stack # <<>>
  PROVE  /\ Len(a.stack) \in Nat \ {0}
         /\ Top(a) \in OpenCrossing
         /\ Top(a).idx \in (a.groupStart + 1)..Len(a.crossings)
         /\ Top(a).idx \in 1..Len(a.crossings)
         /\ TopCrossing(a) \in Crossing
         /\ TopCrossing(a).label = Top(a).label
         /\ a.groupStart \in Nat
<1>1. /\ a.stack \in Seq(OpenCrossing) /\ a.crossings \in Seq(Crossing)
      /\ a.groupStart \in Nat /\ Len(a.crossings) \in Nat
  BY DEF Assemblers
<1>2. Len(a.stack) \in Nat \ {0}
  BY <1>1, EmptyOrNot
<1>3. Top(a) \in OpenCrossing
  BY <1>1, <1>2, Elements DEF Top
<1>4. /\ Top(a).idx \in (a.groupStart + 1)..Len(a.crossings)
      /\ TopCrossing(a).label = Top(a).label
  BY <1>2 DEF Structure, StackNested, Top, TopCrossing
<1>5. Top(a).idx \in 1..Len(a.crossings)
  BY <1>1, <1>4
<1>6. TopCrossing(a) \in Crossing
  BY <1>1, <1>5, Elements DEF TopCrossing
<1>7. QED
  BY <1>1, <1>2, <1>3, <1>4, <1>5, <1>6

\* a with its innermost open crossing replaced by c.
Refilled(a, c, b) ==
  /\ b \in Assemblers /\ Structure(b) /\ OpenGroupTop(b) /\ Keeps(a, b)
  /\ b.stack = a.stack /\ b.pending = a.pending
  /\ b.sawImportMarker = a.sawImportMarker /\ b.failed = a.failed
  /\ Len(b.crossings) = Len(a.crossings)
  /\ b.crossings[Top(a).idx] = c
  /\ \A i \in 1..Len(a.crossings) :
       i # Top(a).idx => b.crossings[i] = a.crossings[i]

\* Filling in the innermost open crossing changes no completed group.
LEMMA TopFilled ==
  ASSUME NEW a \in Assemblers, Structure(a), OpenGroupTop(a), a.stack # <<>>,
         NEW c \in Crossing,
         c.seq = TopCrossing(a).seq, c.depth = TopCrossing(a).depth,
         c.kind = TopCrossing(a).kind, c.label = TopCrossing(a).label,
         NEW b, b = WithTop(a, c)
  PROVE  Refilled(a, c, b)
<1> DEFINE t == Top(a).idx
<1>1. /\ t \in (a.groupStart + 1)..Len(a.crossings) /\ t \in 1..Len(a.crossings)
      /\ a.groupStart \in Nat
  BY TopProperties
<1>2. a.crossings \in Seq(Crossing) /\ Len(a.crossings) \in Nat
  BY DEF Assemblers
<1> HIDE DEF t
<1>3. b = [a EXCEPT !.crossings = [a.crossings EXCEPT ![t] = c]]
  BY DEF t, WithTop
<1>4. /\ b.crossings = [a.crossings EXCEPT ![t] = c]
      /\ b.stack = a.stack /\ b.pending = a.pending /\ b.groupStart = a.groupStart
      /\ b.groupEnds = a.groupEnds /\ b.sawImportMarker = a.sawImportMarker
      /\ b.failed = a.failed
  BY <1>3 DEF Assemblers
<1>5. /\ b.crossings \in Seq(Crossing) /\ Len(b.crossings) = Len(a.crossings)
      /\ b.crossings[t] = c
      /\ \A i \in 1..Len(a.crossings) : i # t => b.crossings[i] = a.crossings[i]
  <2>1. t \in 1..Len(a.crossings)
    BY <1>1
  <2>2. /\ [a.crossings EXCEPT ![t] = c] \in Seq(Crossing)
        /\ Len([a.crossings EXCEPT ![t] = c]) = Len(a.crossings)
        /\ \A j \in 1..Len(a.crossings) : [a.crossings EXCEPT ![t] = c][j] =
             IF j = t THEN c ELSE a.crossings[j]
    BY <1>2, <2>1, Replacing
  <2>3. QED
    BY <1>4, <2>1, <2>2
<1>6. b \in Assemblers
  BY <1>3, <1>4, <1>5, Zenon DEF Assemblers
<1>7. \A i \in 1..Len(a.crossings) :
        /\ b.crossings[i].seq = a.crossings[i].seq
        /\ b.crossings[i].depth = a.crossings[i].depth
        /\ b.crossings[i].kind = a.crossings[i].kind
        /\ b.crossings[i].label = a.crossings[i].label
  BY <1>5 DEF t, TopCrossing
<1>8. CrossingsNumbered(b) /\ GroupsDelimited(b)
  BY <1>2, <1>4, <1>5, <1>7 DEF Structure, CrossingsNumbered, GroupsDelimited
<1>9. \A i \in 1..Len(a.crossings) : IsTop(b.crossings[i]) <=> IsTop(a.crossings[i])
  BY <1>7 DEF IsTop
<1>10. TopsSeparated(b)
  BY <1>4, <1>5, <1>9 DEF Structure, TopsSeparated
<1>11. OpenGroupTop(b)
  BY <1>1, <1>2, <1>4, <1>5, <1>9 DEF OpenGroupTop
<1>12. StackNested(b)
  <2>1. ASSUME NEW k \in 1..Len(a.stack) PROVE a.stack[k].idx \in 1..Len(a.crossings)
    BY <1>1, <1>2, SMTT(30) DEF Structure, StackNested
  <2>2. ASSUME NEW k \in 1..Len(a.stack)
        PROVE  /\ a.stack[k].idx \in (a.groupStart + 1)..Len(a.crossings)
               /\ b.crossings[a.stack[k].idx].depth = k - 1
               /\ b.crossings[a.stack[k].idx].label = a.stack[k].label
    <3>1. /\ b.crossings[a.stack[k].idx].depth = a.crossings[a.stack[k].idx].depth
          /\ b.crossings[a.stack[k].idx].label = a.crossings[a.stack[k].idx].label
      BY <1>7, <2>1, SMTT(30)
    <3>2. QED
      BY <3>1 DEF Structure, StackNested
  <2>3. \A j, k \in 1..Len(a.stack) : j < k => a.stack[j].idx < a.stack[k].idx
    BY DEF Structure, StackNested
  <2>4. QED
    BY <1>4, <1>5, <2>2, <2>3 DEF StackNested
<1>13. Keeps(a, b)
  BY <1>1, <1>2, <1>4, <1>5 DEF Keeps
<1>14. QED
  BY <1>4, <1>5, <1>6, <1>8, <1>10, <1>11, <1>12, <1>13 DEF Structure, t, Refilled

\* What a new crossing at the end of the array does to the array.
ArrayOf(a, c, b) ==
  /\ b.crossings \in Seq(Crossing)
  /\ Len(a.crossings) \in Nat /\ Len(b.crossings) = Len(a.crossings) + 1
  /\ \A i \in 1..Len(a.crossings) : b.crossings[i] = a.crossings[i]
  /\ b.crossings[Len(a.crossings) + 1] = c
  /\ a.groupStart \in Nat /\ a.groupStart <= Len(a.crossings)

\* Appending a crossing to crossings: what the longer array holds.
LEMMA ArrayGrown ==
  ASSUME NEW a \in Assemblers, Structure(a), NEW c \in Crossing,
         NEW b, b.crossings = Append(a.crossings, c)
  PROVE  ArrayOf(a, c, b)
<1>1. a.crossings \in Seq(Crossing) /\ Len(a.crossings) \in Nat /\ a.groupStart \in Nat
  BY DEF Assemblers
<1>2. /\ b.crossings \in Seq(Crossing)
      /\ Len(b.crossings) = Len(a.crossings) + 1
      /\ \A i \in 1..Len(a.crossings) : b.crossings[i] = a.crossings[i]
      /\ b.crossings[Len(a.crossings) + 1] = c
  BY <1>1, Appending
<1>3. a.groupStart <= Len(a.crossings)
  BY DEF Structure, GroupsDelimited
<1>4. QED
  BY <1>1, <1>2, <1>3 DEF ArrayOf

\* A bracketed crossing is there after an append if one was, or the new one is.
LEMMA BracketsGrown ==
  ASSUME NEW a \in Assemblers, Structure(a), NEW c \in Crossing,
         NEW b, b.crossings = Append(a.crossings, c)
  PROVE  Bracketed(b) <=> Bracketed(a) \/ c.markerBracketed
<1>1. /\ Len(a.crossings) \in Nat /\ Len(b.crossings) = Len(a.crossings) + 1
      /\ \A i \in 1..Len(a.crossings) : b.crossings[i] = a.crossings[i]
      /\ b.crossings[Len(a.crossings) + 1] = c
  BY ArrayGrown DEF ArrayOf
<1>2. \A i \in 1..Len(b.crossings) : i \in 1..Len(a.crossings) \/ i = Len(a.crossings) + 1
  BY <1>1
<1>3. \A i \in 1..Len(a.crossings) : i \in 1..Len(b.crossings)
  BY <1>1
<1>4. Len(a.crossings) + 1 \in 1..Len(b.crossings)
  BY <1>1
<1>5. QED
  BY <1>1, <1>2, <1>3, <1>4, Zenon DEF Bracketed

\* Two top-level exports stay separated when the new crossing is not one, or
\* when nothing was open before it.
LEMMA GrownSeparated ==
  ASSUME NEW a \in Assemblers, Structure(a), OpenGroupTop(a), NEW c \in Crossing,
         IsTop(c) => a.stack = <<>>,
         NEW b, b.crossings = Append(a.crossings, c),
         b.groupStart = a.groupStart, b.groupEnds = a.groupEnds
  PROVE  TopsSeparated(b)
<1>1. /\ Len(a.crossings) \in Nat /\ Len(b.crossings) = Len(a.crossings) + 1
      /\ \A i \in 1..Len(a.crossings) : b.crossings[i] = a.crossings[i]
      /\ b.crossings[Len(a.crossings) + 1] = c
      /\ a.groupStart \in Nat /\ a.groupStart <= Len(a.crossings)
  BY ArrayGrown DEF ArrayOf
<1>2. SUFFICES ASSUME NEW i \in 1..Len(b.crossings), NEW j \in 1..Len(b.crossings),
                      i < j, IsTop(b.crossings[i]), IsTop(b.crossings[j])
               PROVE  \E g \in 1..Len(a.groupEnds) :
                        i <= a.groupEnds[g] /\ a.groupEnds[g] < j
  BY SMTT(30) DEF TopsSeparated
<1>3. i \in 1..Len(a.crossings) /\ IsTop(a.crossings[i])
  BY <1>1, <1>2
<1>4. CASE j \in 1..Len(a.crossings)
  BY <1>1, <1>2, <1>3, <1>4 DEF Structure, TopsSeparated
<1>5. CASE j = Len(a.crossings) + 1
  <2>1. a.stack = <<>>
    BY <1>1, <1>2, <1>5
  <2>2. i <= a.groupStart
    BY <1>1, <1>3, <2>1 DEF OpenGroupTop
  <2>3. a.groupEnds \in Seq(Nat) /\ a.groupEnds # <<>>
        /\ a.groupStart = a.groupEnds[Len(a.groupEnds)]
    BY <1>1, <1>3, <2>2 DEF Structure, GroupsDelimited, Assemblers
  <2>4. Len(a.groupEnds) \in Nat \ {0}
    BY <2>3, EmptyOrNot
  <2>5. Len(a.groupEnds) \in 1..Len(a.groupEnds)
    BY <2>4
  <2>6. i <= a.groupEnds[Len(a.groupEnds)] /\ a.groupEnds[Len(a.groupEnds)] < j
    BY <1>1, <1>5, <2>2, <2>3
  <2>7. QED
    BY <2>5, <2>6
<1>6. QED
  BY <1>1, <1>2, <1>4, <1>5

\* A result run for an import with nothing open appends a crossing that is
\* already over.
LEMMA CrossingAppended ==
  ASSUME NEW a \in Assemblers, Structure(a), OpenGroupTop(a),
         NEW c \in Crossing, c.seq = Len(a.crossings), c.kind = "import",
         ~c.markerBracketed,
         NEW b, b = Appended(a, c)
  PROVE  Preserved(a, b)
<1>1. /\ b.crossings = Append(a.crossings, c) /\ b.stack = a.stack
      /\ b.groupStart = a.groupStart /\ b.groupEnds = a.groupEnds
      /\ b.sawImportMarker = a.sawImportMarker
  BY DEF Appended, Assemblers
<1>2. /\ b.crossings \in Seq(Crossing)
      /\ Len(a.crossings) \in Nat /\ Len(b.crossings) = Len(a.crossings) + 1
      /\ \A i \in 1..Len(a.crossings) : b.crossings[i] = a.crossings[i]
      /\ b.crossings[Len(a.crossings) + 1] = c
      /\ a.groupStart \in Nat /\ a.groupStart <= Len(a.crossings)
  <2>1. ArrayOf(a, c, b)
    BY <1>1, ArrayGrown, Zenon
  <2>2. QED
    BY <2>1 DEF ArrayOf
<1>11. Bracketed(b) <=> Bracketed(a)
  BY <1>1, BracketsGrown, Zenon
<1>3. b \in Assemblers
  BY <1>2, Zenon DEF Appended, Assemblers
<1>4. ~IsTop(c)
  BY DEF IsTop
<1>5. TopsSeparated(b)
  BY <1>1, <1>4, GrownSeparated
<1>6. CrossingsNumbered(b) /\ GroupsDelimited(b)
  BY <1>1, <1>2 DEF Structure, CrossingsNumbered, GroupsDelimited
<1>7. StackNested(b)
  <2>1. ASSUME NEW k \in 1..Len(a.stack)
        PROVE  a.stack[k].idx \in (a.groupStart + 1)..Len(a.crossings)
               /\ a.stack[k].idx \in 1..Len(a.crossings)
    BY <1>2, SMTT(30) DEF Structure, StackNested
  <2>2. \A i \in (a.groupStart + 1)..Len(a.crossings) :
          i \in (b.groupStart + 1)..Len(b.crossings)
    BY <1>1, <1>2
  <2>3. ASSUME NEW k \in 1..Len(a.stack)
        PROVE  /\ a.stack[k].idx \in (b.groupStart + 1)..Len(b.crossings)
               /\ b.crossings[a.stack[k].idx] = a.crossings[a.stack[k].idx]
    BY <1>2, <2>1, <2>2, Zenon
  <2>4. StackNested(a)
    BY DEF Structure
  <2>5. \A j, k \in 1..Len(b.stack) : j < k => b.stack[j].idx < b.stack[k].idx
    BY <1>1, <2>4 DEF StackNested
  <2>6. ASSUME NEW k \in 1..Len(b.stack)
        PROVE  /\ b.stack[k].idx \in (b.groupStart + 1)..Len(b.crossings)
               /\ b.crossings[b.stack[k].idx].depth = k - 1
               /\ b.crossings[b.stack[k].idx].label = b.stack[k].label
    <3>1. k \in 1..Len(a.stack) /\ b.stack[k] = a.stack[k]
      BY <1>1
    <3>2. /\ a.crossings[a.stack[k].idx].depth = k - 1
          /\ a.crossings[a.stack[k].idx].label = a.stack[k].label
      BY <2>4, <3>1, Zenon DEF StackNested
    <3>3. QED
      BY <2>3, <3>1, <3>2, Zenon
  <2>7. QED
    BY <2>5, <2>6 DEF StackNested
<1>8. OpenGroupTop(b)
  BY <1>1, <1>2, <1>4, SMTT(30) DEF OpenGroupTop
<1>9. Keeps(a, b) /\ KeepsWitness(a, b)
  BY <1>1, <1>2, <1>11 DEF Keeps, KeepsWitness
<1>10. QED
  BY <1>3, <1>5, <1>6, <1>7, <1>8, <1>9 DEF Preserved, Structure

\* An argument run for an import, a marker or a Call opens a crossing.
LEMMA CrossingOpened ==
  ASSUME NEW a \in Assemblers, Structure(a), OpenGroupTop(a),
         NEW c \in Crossing, c.seq = Len(a.crossings), c.depth = Len(a.stack),
         NEW b, b = Opened(a, c)
  PROVE  /\ b \in Assemblers
         /\ Structure(b) /\ OpenGroupTop(b) /\ Keeps(a, b)
         /\ b.sawImportMarker = a.sawImportMarker
         /\ Bracketed(b) <=> Bracketed(a) \/ c.markerBracketed
         /\ b.stack # <<>> /\ b.pending = a.pending /\ b.failed = a.failed
<1> DEFINE n == Len(a.crossings)
           m == Len(a.stack)
           o == [idx |-> n + 1, label |-> c.label]
<1>1. /\ b.crossings = Append(a.crossings, c) /\ b.stack = Append(a.stack, o)
      /\ b.groupStart = a.groupStart /\ b.groupEnds = a.groupEnds
      /\ b.sawImportMarker = a.sawImportMarker
      /\ b.pending = a.pending /\ b.failed = a.failed
  BY DEF Opened, Assemblers
<1>2. /\ b.crossings \in Seq(Crossing)
      /\ n \in Nat /\ Len(b.crossings) = n + 1
      /\ \A i \in 1..n : b.crossings[i] = a.crossings[i]
      /\ b.crossings[n + 1] = c
      /\ a.groupStart \in Nat /\ a.groupStart <= n
  <2>1. ArrayOf(a, c, b)
    BY <1>1, ArrayGrown, Zenon
  <2>2. QED
    BY <2>1 DEF ArrayOf
<1>3. Bracketed(b) <=> Bracketed(a) \/ c.markerBracketed
  BY <1>1, BracketsGrown, Zenon
<1>4. a.stack \in Seq(OpenCrossing) /\ m \in Nat
  BY DEF Assemblers
<1>5. o \in OpenCrossing
  BY <1>2 DEF OpenCrossing, Crossing, CrossingOf, Labels
<1>6. /\ b.stack \in Seq(OpenCrossing) /\ Len(b.stack) = m + 1
      /\ \A k \in 1..m : b.stack[k] = a.stack[k]
      /\ b.stack[m + 1] = o
  <2> HIDE DEF o
  <2>1. QED
    BY <1>1, <1>4, <1>5, Appending
<1>7. b \in Assemblers
  BY <1>2, <1>6, Zenon DEF Opened, Assemblers
<1>8. IsTop(c) => a.stack = <<>>
  BY <1>4, EmptyOrNot, Zenon DEF IsTop
<1>9. TopsSeparated(b)
  BY <1>1, <1>8, GrownSeparated, Zenon
<1>10. CrossingsNumbered(b) /\ GroupsDelimited(b)
  <2>1. ASSUME NEW i \in 1..Len(b.crossings) PROVE b.crossings[i].seq = i - 1
    <3>1. i \in 1..n \/ i = n + 1
      BY <1>2
    <3>2. CASE i \in 1..n
      BY <1>2, <3>2, Zenon DEF Structure, CrossingsNumbered
    <3>3. CASE i = n + 1
      <4>1. i - 1 = n /\ b.crossings[i] = c
        BY <1>2, <3>3
      <4>2. QED
        BY <4>1
    <3>4. QED
      BY <3>1, <3>2, <3>3
  <2>2. GroupsDelimited(b)
    BY <1>1, <1>2 DEF Structure, GroupsDelimited
  <2>3. QED
    BY <2>1, <2>2 DEF CrossingsNumbered
<1>11. ASSUME NEW k \in 1..m
       PROVE  /\ b.stack[k].idx \in (b.groupStart + 1)..Len(b.crossings)
              /\ b.stack[k].idx <= n
              /\ b.crossings[b.stack[k].idx].depth = k - 1
              /\ b.crossings[b.stack[k].idx].label = b.stack[k].label
  <2>1. /\ a.stack[k].idx \in (a.groupStart + 1)..n
        /\ a.crossings[a.stack[k].idx].depth = k - 1
        /\ a.crossings[a.stack[k].idx].label = a.stack[k].label
    BY DEF Structure, StackNested
  <2>2. b.stack[k] = a.stack[k]
    BY <1>6
  <2>3. a.stack[k].idx \in 1..n
    BY <1>2, <2>1, SMTT(30)
  <2>4. b.crossings[a.stack[k].idx] = a.crossings[a.stack[k].idx]
    BY <1>2, <2>3, SMTT(30)
  <2>5. a.stack[k].idx \in (b.groupStart + 1)..Len(b.crossings)
    <3> DEFINE x == a.stack[k].idx
               start == a.groupStart
    <3>1. x \in (start + 1)..n /\ n \in Nat /\ start \in Nat
      BY <1>1, <1>2, <2>1, SMTT(30) DEF Assemblers
    <3>2. b.groupStart = start /\ Len(b.crossings) = n + 1
      BY <1>1, <1>2
    <3> HIDE DEF x, start, n
    <3>3. x \in (start + 1)..(n + 1)
      BY <3>1
    <3> USE DEF x
    <3>4. QED
      BY <3>2, <3>3
  <2>6. QED
    BY <2>1, <2>2, <2>3, <2>4, <2>5
<1>12. /\ b.stack[m + 1].idx = n + 1
       /\ b.crossings[b.stack[m + 1].idx].depth = m
       /\ b.crossings[b.stack[m + 1].idx].label = b.stack[m + 1].label
  BY <1>2, <1>6
<1>13. n + 1 \in (b.groupStart + 1)..Len(b.crossings)
  BY <1>1, <1>2
<1>14. StackNested(b)
  <2>1. ASSUME NEW k \in 1..Len(b.stack)
        PROVE  /\ b.stack[k].idx \in (b.groupStart + 1)..Len(b.crossings)
               /\ b.crossings[b.stack[k].idx].depth = k - 1
               /\ b.crossings[b.stack[k].idx].label = b.stack[k].label
    <3>1. k \in 1..m \/ k = m + 1
      BY <1>4, <1>6
    <3>2. CASE k \in 1..m
      BY <1>11, <3>2, SMTT(30)
    <3>3. CASE k = m + 1
      <4>1. k - 1 = m
        BY <1>4, <3>3
      <4>2. QED
        BY <1>12, <1>13, <3>3, <4>1, Zenon
    <3>4. QED
      BY <3>1, <3>2, <3>3
  <2>2. ASSUME NEW j \in 1..Len(b.stack), NEW k \in 1..Len(b.stack), j < k
        PROVE  b.stack[j].idx < b.stack[k].idx
    <3>1. j \in 1..m /\ (k \in 1..m \/ k = m + 1)
      BY <1>4, <1>6, <2>2
    <3>2. CASE k \in 1..m
      BY <1>6, <2>2, <3>1, <3>2, Zenon DEF Structure, StackNested
    <3>3. CASE k = m + 1
      <4>1. b.stack[j].idx <= n /\ b.stack[j].idx \in (b.groupStart + 1)..Len(b.crossings)
        BY <1>11, <3>1, SMTT(30)
      <4>2. QED
        <5>1. b.stack[k].idx = n + 1
          BY <1>12, <3>3
        <5>2. n \in Nat /\ b.stack[j].idx \in Int
          BY <1>1, <1>2, <4>1, SMTT(30)
        <5>3. QED
          BY <4>1, <5>1, <5>2
    <3>4. QED
      BY <3>1, <3>2, <3>3
  <2>3. QED
    BY <2>1, <2>2 DEF StackNested
<1>15. b.stack # <<>>
  BY <1>4, <1>6, EmptyOrNot
<1>16. OpenGroupTop(b)
  <2>1. SUFFICES ASSUME NEW i \in (b.groupStart + 1)..Len(b.crossings), IsTop(b.crossings[i])
                 PROVE  b.stack[1].idx = i
    BY <1>15 DEF OpenGroupTop
  <2>2. i \in (a.groupStart + 1)..n \/ i = n + 1
    BY <1>1, <1>2
  <2>3. CASE i \in (a.groupStart + 1)..n
    <3>1. IsTop(a.crossings[i])
      BY <1>2, <2>1, <2>3
    <3>2. a.stack # <<>> /\ a.stack[1].idx = i
      BY <2>3, <3>1 DEF OpenGroupTop
    <3>3. 1 \in 1..m
      BY <1>4, <3>2, EmptyOrNot
    <3>4. QED
      BY <1>6, <3>2, <3>3
  <2>4. CASE i = n + 1
    <3>1. m = 0
      BY <1>2, <1>8, <2>1, <2>4
    <3>2. QED
      BY <1>12, <2>4, <3>1
  <2>5. QED
    BY <2>2, <2>3, <2>4
<1>17. Keeps(a, b)
  BY <1>1, <1>2 DEF Keeps
<1>18. QED
  BY <1>1, <1>3, <1>7, <1>9, <1>10, <1>14, <1>15, <1>16, <1>17 DEF Structure

-----------------------------------------------------------------------------
(***************************************************************************)
(* closeRun, from a sound assembler.                                       *)
(***************************************************************************)
Sound(a) == a \in Assemblers /\ Structure(a) /\ OpenGroupTop(a)

\* What a preserving step leaves is sound.
LEMMA PreservedIsSound ==
  ASSUME NEW a, NEW b, Preserved(a, b)
  PROVE  Sound(b)
BY DEF Preserved, Sound

\* Two preserving steps make one.
LEMMA PreservedTransitive ==
  ASSUME NEW a \in Assemblers, Structure(a), NEW b \in Assemblers, NEW c,
         Preserved(a, b), Preserved(b, c)
  PROVE  Preserved(a, c)
<1>1. Len(a.crossings) \in Nat /\ Len(b.crossings) \in Nat
      /\ a.groupStart \in Nat
  BY SMTT(30) DEF Assemblers
<1>2. c \in Assemblers /\ Structure(c) /\ OpenGroupTop(c)
  BY DEF Preserved
<1>3. Len(c.crossings) \in Nat
  BY <1>2 DEF Assemblers
<1>4. Keeps(a, c)
  BY <1>1, <1>3 DEF Preserved, Keeps
<1>5. KeepsWitness(a, c)
  BY DEF Preserved, KeepsWitness
<1>6. QED
  BY <1>2, <1>4, <1>5 DEF Preserved

\* Returning an error changes nothing else.
LEMMA FailKeeps ==
  ASSUME NEW a, Sound(a)
  PROVE  Preserved(a, Fail(a)) /\ Fail(a).failed /\ Fail(a).pending = a.pending
<1> DEFINE b == Fail(a)
<1>1. a \in Assemblers /\ Structure(a) /\ OpenGroupTop(a)
  BY DEF Sound
<1>2. /\ b \in Assemblers /\ b.failed = TRUE /\ b.pending = a.pending
      /\ b.crossings = a.crossings /\ b.stack = a.stack
      /\ b.groupStart = a.groupStart /\ b.groupEnds = a.groupEnds
      /\ b.sawImportMarker = a.sawImportMarker
  BY <1>1, Zenon DEF Fail, Assemblers
<1> HIDE DEF b
<1>3. Structure(b) /\ OpenGroupTop(b) /\ Keeps(a, b) /\ (Bracketed(b) <=> Bracketed(a))
  BY <1>1, <1>2, OtherFields, Zenon
<1>4. Preserved(a, b)
  BY <1>2, <1>3 DEF Preserved, KeepsWitness
<1>5. QED
  BY <1>2, <1>4 DEF b

\* Starting, extending or dropping the run in flight moves no crossing.
LEMMA PendingKeeps ==
  ASSUME NEW a, Sound(a), NEW r \in Run \cup {NoRun}
  PROVE  LET b == [a EXCEPT !.pending = r]
         IN  Preserved(a, b) /\ b.pending = r /\ b.failed = a.failed
<1> DEFINE b == [a EXCEPT !.pending = r]
<1>1. a \in Assemblers /\ Structure(a) /\ OpenGroupTop(a)
  BY DEF Sound
<1>2. /\ b \in Assemblers /\ b.pending = r /\ b.failed = a.failed
      /\ b.crossings = a.crossings /\ b.stack = a.stack
      /\ b.groupStart = a.groupStart /\ b.groupEnds = a.groupEnds
      /\ b.sawImportMarker = a.sawImportMarker
  BY <1>1, Zenon DEF Assemblers
<1> HIDE DEF b
<1>3. Structure(b) /\ OpenGroupTop(b) /\ Keeps(a, b) /\ (Bracketed(b) <=> Bracketed(a))
  BY <1>1, <1>2, OtherFields, Zenon
<1>4. Preserved(a, b)
  BY <1>2, <1>3 DEF Preserved, KeepsWitness
<1>5. QED
  BY <1>2, <1>4 DEF b

\* Ending an import leaves the top-level export of its group open.
LEMMA ImportPopped ==
  ASSUME NEW a, Sound(a), a.stack # <<>>, TopCrossing(a).kind = "import"
  PROVE  Preserved(a, Popped(a)) /\ Popped(a).pending = a.pending
<1> DEFINE b == Popped(a)
           k == Len(a.stack) - 1
<1>1. a \in Assemblers /\ Structure(a) /\ OpenGroupTop(a)
  BY DEF Sound
<1>2. Len(a.stack) \in Nat \ {0}
  BY <1>1, TopProperties
<1>3. b = [a EXCEPT !.stack = SubSeq(@, 1, k)] /\ k \in 0..Len(a.stack)
  BY <1>2 DEF Popped
<1>8. Len(a.stack) = 1 \/ 1 \in 1..k
  <2>1. \A n \in Nat \ {0} : n = 1 \/ 1 \in 1..(n - 1)
    OBVIOUS
  <2>2. QED
    BY <1>2, <2>1, Zenon
<1> HIDE DEF b, k
<1>4. /\ b \in Assemblers /\ SameButStack(a, b) /\ Len(b.stack) = k
      /\ \A j \in 1..k : b.stack[j] = a.stack[j]
      /\ Structure(b) /\ Keeps(a, b) /\ KeepsWitness(a, b)
  BY <1>1, <1>3, TruncatedStack
<1>5. ASSUME NEW i \in (b.groupStart + 1)..Len(b.crossings), IsTop(b.crossings[i])
      PROVE  b.stack # <<>> /\ b.stack[1].idx = i
  <2>1. a.stack[1].idx = i /\ a.crossings[i].kind = "export"
    BY <1>1, <1>4, <1>5 DEF OpenGroupTop, SameButStack, IsTop
  <2>2. Len(a.stack) # 1
    BY <2>1 DEF Top, TopCrossing
  <2>3. 1 \in 1..k
    BY <1>8, <2>2
  <2>4. b.stack # <<>>
    BY <1>4, <2>3
  <2>5. QED
    BY <1>4, <2>1, <2>3, <2>4
<1>6. OpenGroupTop(b)
  BY <1>5 DEF OpenGroupTop
<1>7. QED
  BY <1>4, <1>6 DEF Preserved, SameButStack, b

\* A value the innermost open crossing is given, other than its bracket.
LEMMA TopKeeps ==
  ASSUME NEW a, Sound(a), a.stack # <<>>, NEW c \in Crossing,
         c.seq = TopCrossing(a).seq, c.depth = TopCrossing(a).depth,
         c.kind = TopCrossing(a).kind, c.label = TopCrossing(a).label,
         c.markerBracketed = TopCrossing(a).markerBracketed
  PROVE  /\ Preserved(a, WithTop(a, c)) /\ Refilled(a, c, WithTop(a, c))
<1> DEFINE b == WithTop(a, c)
           t == Top(a).idx
<1>1. a \in Assemblers /\ Structure(a) /\ OpenGroupTop(a)
  BY DEF Sound
<1>2. t \in 1..Len(a.crossings)
  BY <1>1, TopProperties
<1>3. Refilled(a, c, b)
  BY <1>1, TopFilled, Zenon
<1> HIDE DEF b
<1>4. \A i \in 1..Len(a.crossings) :
        b.crossings[i].markerBracketed = a.crossings[i].markerBracketed
  <2>1. \A i \in 1..Len(a.crossings) :
          IF i = t THEN b.crossings[i] = c ELSE b.crossings[i] = a.crossings[i]
    BY <1>3 DEF Refilled
  <2>2. QED
    BY <2>1 DEF TopCrossing
<1>5. Bracketed(b) <=> Bracketed(a)
  BY <1>3, <1>4 DEF Bracketed, Refilled
<1>6. QED
  BY <1>3, <1>5 DEF Preserved, KeepsWitness, Refilled, b

\* Opening a crossing at the depth of the stack preserves the structure.
LEMMA OpenedKeeps ==
  ASSUME NEW a, Sound(a), NEW c \in Crossing,
         c.seq = Len(a.crossings), c.depth = Len(a.stack), c.markerBracketed = FALSE
  PROVE  Preserved(a, Opened(a, c)) /\ Opened(a, c).pending = a.pending
<1> DEFINE b == Opened(a, c)
<1>1. a \in Assemblers /\ Structure(a) /\ OpenGroupTop(a)
  BY DEF Sound
<1>2. /\ b \in Assemblers
      /\ Structure(b) /\ OpenGroupTop(b) /\ Keeps(a, b)
      /\ b.sawImportMarker = a.sawImportMarker
      /\ Bracketed(b) <=> Bracketed(a) \/ c.markerBracketed
      /\ b.pending = a.pending
  BY <1>1, CrossingOpened, ZenonT(30)
<1>3. QED
  BY <1>2 DEF Preserved, KeepsWitness

\* A new crossing, and the ways the handlers fill it in, are crossings.
LEMMA NewCrossingType ==
  ASSUME NEW a \in Assemblers, NEW kind, NEW label,
         (kind = "export" /\ label \in Exports) \/ (kind = "import" /\ label \in Imports)
  PROVE  /\ NewCrossing(a, kind, label) \in Crossing
         /\ \A v \in Seq(Vals) :
              /\ [NewCrossing(a, kind, label) EXCEPT !.args = v] \in Crossing
              /\ [NewCrossing(a, kind, label) EXCEPT !.results = v, !.hasResults = TRUE]
                   \in Crossing
         /\ [NewCrossing(a, kind, label) EXCEPT !.markerBracketed = TRUE] \in Crossing
<1>1. Len(a.crossings) \in Nat /\ Len(a.stack) \in Nat
  BY DEF Assemblers
<1>2. <<>> \in Seq(Vals)
  OBVIOUS
<1>3. QED
  BY <1>1, <1>2, Zenon DEF NewCrossing, Crossing, CrossingOf

\* closeRun on an argument run.
LEMMA ArgumentRunKeeps ==
  ASSUME NEW a, Sound(a), NEW run \in Run
  PROVE  Preserved(a, ArgumentRun(a, run)) /\ ArgumentRun(a, run).pending = a.pending
<1>1. a \in Assemblers /\ Structure(a)
  BY DEF Sound
<1>2. run.label \in Labels /\ run.values \in Seq(Vals)
  BY DEF Run
<1>3. CASE run.label \in Imports
  <2> DEFINE c == [NewCrossing(a, "import", run.label) EXCEPT !.args = run.values]
  <2>1. c \in Crossing
    BY <1>1, <1>2, <1>3, NewCrossingType, Zenon
  <2>2. /\ c.seq = Len(a.crossings) /\ c.depth = Len(a.stack)
        /\ c.markerBracketed = FALSE
    BY DEF NewCrossing
  <2>3. ArgumentRun(a, run) = Opened(a, c)
    BY <1>3 DEF ArgumentRun
  <2> HIDE DEF c
  <2>4. QED
    BY <2>1, <2>2, <2>3, OpenedKeeps, Zenon
<1>4. CASE run.label \notin Imports /\ TopHasLabel(a, run.label)
  <2> DEFINE c == [TopCrossing(a) EXCEPT !.args = run.values]
  <2>1. a.stack # <<>> /\ TopCrossing(a) \in Crossing
    BY <1>1, <1>4, TopProperties DEF TopHasLabel
  <2>2. /\ c \in Crossing
        /\ c.seq = TopCrossing(a).seq /\ c.depth = TopCrossing(a).depth
        /\ c.kind = TopCrossing(a).kind /\ c.label = TopCrossing(a).label
        /\ c.markerBracketed = TopCrossing(a).markerBracketed
    BY <1>2, <2>1, SMTT(30) DEF Crossing, CrossingOf
  <2>3. ArgumentRun(a, run) = WithTop(a, c)
    BY <1>4 DEF ArgumentRun
  <2> HIDE DEF c
  <2>4. Preserved(a, WithTop(a, c)) /\ Refilled(a, c, WithTop(a, c))
    BY <2>1, <2>2, TopKeeps
  <2>5. QED
    BY <2>3, <2>4 DEF Refilled
<1>5. CASE run.label \notin Imports /\ ~TopHasLabel(a, run.label)
  <2>1. ArgumentRun(a, run) = Fail(a)
    BY <1>5 DEF ArgumentRun
  <2>2. QED
    BY <2>1, FailKeeps
<1>6. QED
  BY <1>3, <1>4, <1>5

\* closeRun on a result run.
LEMMA ResultRunKeeps ==
  ASSUME NEW a, Sound(a), NEW run \in Run
  PROVE  Preserved(a, ResultRun(a, run)) /\ ResultRun(a, run).pending = a.pending
<1>1. a \in Assemblers /\ Structure(a) /\ OpenGroupTop(a)
  BY DEF Sound
<1>2. run.label \in Labels /\ run.values \in Seq(Vals)
  BY DEF Run
<1>3. CASE TopHasLabel(a, run.label)
  <2> DEFINE c == [TopCrossing(a) EXCEPT !.results = run.values, !.hasResults = TRUE]
             b == WithTop(a, c)
  <2>1. /\ a.stack # <<>> /\ TopCrossing(a) \in Crossing
        /\ TopCrossing(a).label = run.label
    BY <1>1, <1>3, TopProperties DEF TopHasLabel
  <2>2. /\ c \in Crossing
        /\ c.seq = TopCrossing(a).seq /\ c.depth = TopCrossing(a).depth
        /\ c.kind = TopCrossing(a).kind /\ c.label = TopCrossing(a).label
        /\ c.markerBracketed = TopCrossing(a).markerBracketed
    BY <1>2, <2>1, Zenon DEF Crossing, CrossingOf
  <2>3. FilledResults(a, run) = b
    BY DEF FilledResults
  <2>4. run.label \in Imports => c.kind = "import"
    BY <2>1, <2>2, AssemblerAssumption DEF Crossing, CrossingOf
  <2> HIDE DEF c
  <2>5. Preserved(a, b) /\ Refilled(a, c, b)
    BY <2>1, <2>2, TopKeeps
  <2> HIDE DEF b
  <2>6. /\ b \in Assemblers /\ Sound(b) /\ b.stack = a.stack /\ b.pending = a.pending
        /\ b.crossings[Top(a).idx] = c
    BY <2>5 DEF Refilled, Sound
  <2>7. TopCrossing(b) = c
    BY <2>6 DEF TopCrossing, Top
  <2>8. CASE run.label \in Imports /\ ~TopCrossing(a).markerBracketed
    <3>1. ResultRun(a, run) = Popped(b)
      BY <1>3, <2>3, <2>8 DEF ResultRun
    <3>2. Preserved(b, Popped(b)) /\ Popped(b).pending = b.pending
      BY <2>1, <2>4, <2>6, <2>7, <2>8, ImportPopped
    <3>3. Preserved(a, Popped(b))
      BY <1>1, <2>5, <2>6, <3>2, PreservedTransitive
    <3>4. QED
      BY <2>6, <3>1, <3>2, <3>3
  <2>9. CASE ~(run.label \in Imports /\ ~TopCrossing(a).markerBracketed)
    <3>1. ResultRun(a, run) = b
      BY <1>3, <2>3, <2>9 DEF ResultRun
    <3>2. QED
      BY <2>5, <2>6, <3>1
  <2>10. QED
    BY <2>8, <2>9
<1>4. CASE ~TopHasLabel(a, run.label) /\ run.label \in Imports
  <2> DEFINE c == [NewCrossing(a, "import", run.label)
                     EXCEPT !.results = run.values, !.hasResults = TRUE]
  <2>1. c \in Crossing
    BY <1>1, <1>2, <1>4, NewCrossingType, Zenon
  <2>2. c.seq = Len(a.crossings) /\ c.kind = "import" /\ ~c.markerBracketed
    BY DEF NewCrossing
  <2>3. ResultRun(a, run) = Appended(a, c)
    BY <1>4 DEF ResultRun
  <2> HIDE DEF c
  <2>4. Preserved(a, Appended(a, c))
    BY <1>1, <2>1, <2>2, CrossingAppended
  <2>5. Appended(a, c).pending = a.pending
    BY <1>1 DEF Appended, Assemblers
  <2>6. QED
    BY <2>3, <2>4, <2>5
<1>5. CASE ~TopHasLabel(a, run.label) /\ run.label \notin Imports
  <2>1. ResultRun(a, run) = Fail(a)
    BY <1>5 DEF ResultRun
  <2>2. QED
    BY <2>1, FailKeeps
<1>6. QED
  BY <1>3, <1>4, <1>5

\* closeRun preserves the structure and leaves no run in flight.
LEMMA CloseRunKeeps ==
  ASSUME NEW a, Sound(a)
  PROVE  Preserved(a, closeRun(a)) /\ closeRun(a).pending = NoRun
<1> DEFINE run == a.pending
           z == [a EXCEPT !.pending = NoRun]
           b == closeDanglingImports(z, ContinuedBy(run), FALSE)
<1>1. a \in Assemblers /\ Structure(a) /\ OpenGroupTop(a) /\ run \in Run \cup {NoRun}
  BY DEF Sound, Assemblers
<1>2. CASE run = NoRun
  <2>1. closeRun(a) = a
    BY <1>2 DEF closeRun
  <2>2. Keeps(a, a) /\ KeepsWitness(a, a)
    BY <1>1 DEF Keeps, KeepsWitness, Assemblers
  <2>3. QED
    BY <1>1, <1>2, <2>1, <2>2 DEF Preserved
<1>3. CASE run # NoRun
  <2>1. run \in Run /\ run.role \in {"arg", "ret"}
    BY <1>1, <1>3 DEF Run
  <2>2. Preserved(a, z) /\ z.pending = NoRun
    BY PendingKeeps
  <2>3. closeRun(a) = IF run.role = "arg" THEN ArgumentRun(b, run) ELSE ResultRun(b, run)
    BY <1>3 DEF closeRun
  <2> HIDE DEF run, z
  <2>4. z \in Assemblers /\ Structure(z) /\ OpenGroupTop(z)
    BY <2>2 DEF Preserved
  <2>5. Preserved(z, b) /\ SameButStack(z, b)
    BY <2>4, DanglingClosed, Zenon
  <2> HIDE DEF b
  <2>6. Sound(b) /\ b \in Assemblers /\ b.pending = NoRun
    BY <2>2, <2>5 DEF Preserved, Sound, SameButStack
  <2>7. Preserved(a, b)
    BY <1>1, <2>2, <2>4, <2>5, PreservedTransitive
  <2>8. CASE run.role = "arg"
    <3>1. Preserved(b, ArgumentRun(b, run)) /\ ArgumentRun(b, run).pending = NoRun
      BY <2>1, <2>6, ArgumentRunKeeps
    <3>2. Preserved(a, ArgumentRun(b, run))
      BY <1>1, <2>6, <2>7, <3>1, PreservedTransitive
    <3>3. QED
      BY <2>3, <2>8, <3>1, <3>2
  <2>9. CASE run.role = "ret"
    <3>1. Preserved(b, ResultRun(b, run)) /\ ResultRun(b, run).pending = NoRun
      BY <2>1, <2>6, ResultRunKeeps
    <3>2. Preserved(a, ResultRun(b, run))
      BY <1>1, <2>6, <2>7, <3>1, PreservedTransitive
    <3>3. QED
      BY <2>3, <2>9, <3>1, <3>2
  <2>10. QED
    BY <2>1, <2>8, <2>9
<1>4. QED
  BY <1>2, <1>3

-----------------------------------------------------------------------------
(***************************************************************************)
(* One lemma per kind of record. A handler may end the top-level export of *)
(* the group, which push then delimits: until it does, OpenGroupTop gives  *)
(* way to BetweenCalls.                                                    *)
(***************************************************************************)
BetweenCalls(b) == b.stack = <<>> /\ b.pending = NoRun

Witnessed(a) == a.sawImportMarker <=> Bracketed(a)

Handles(a, b) ==
  /\ b \in Assemblers
  /\ Structure(b)
  /\ Keeps(a, b)
  /\ ~b.failed => Witnessed(b)
  /\ OpenGroupTop(b) \/ (~b.failed /\ BetweenCalls(b))

\* A preserving step is one that handles its record.
LEMMA PreservedHandles ==
  ASSUME NEW a, Witnessed(a), NEW b, Preserved(a, b)
  PROVE  Handles(a, b)
BY DEF Handles, Preserved, KeepsWitness, Witnessed

\* Changes to what the structure does not mention.
LEMMA TableKeeps ==
  ASSUME NEW a, Sound(a), NEW b \in Assemblers,
         b.crossings = a.crossings, b.stack = a.stack,
         b.groupStart = a.groupStart, b.groupEnds = a.groupEnds,
         b.sawImportMarker = a.sawImportMarker
  PROVE  Preserved(a, b)
<1>1. a \in Assemblers /\ Structure(a) /\ OpenGroupTop(a)
  BY DEF Sound
<1>2. Structure(b) /\ OpenGroupTop(b) /\ Keeps(a, b) /\ (Bracketed(b) <=> Bracketed(a))
  BY <1>1, OtherFields
<1>3. QED
  BY <1>2 DEF Preserved, KeepsWitness

\* push of a Function record.
LEMMA PushFunctionKeeps ==
  ASSUME NEW a, Sound(a), NEW ev, ev.name \in Exports
  PROVE  Preserved(a, pushFunction(a, ev))
<1> DEFINE b == closeRun(a)
           c == [b EXCEPT !.functions = Append(@, ev.name)]
<1>1. Preserved(a, b)
  BY CloseRunKeeps
<1>2. pushFunction(a, ev) = IF b.failed THEN b ELSE c
  BY DEF pushFunction
<1> HIDE DEF b
<1>3. b \in Assemblers /\ Sound(b) /\ a \in Assemblers /\ Structure(a)
  BY <1>1 DEF Preserved, Sound
<1>4. b.functions \in Seq(Exports)
  BY <1>3 DEF Assemblers
<1>5. Append(b.functions, ev.name) \in Seq(Exports)
  BY <1>4, Appending
<1>6. /\ c \in Assemblers /\ c.crossings = b.crossings /\ c.stack = b.stack
      /\ c.groupStart = b.groupStart /\ c.groupEnds = b.groupEnds
      /\ c.sawImportMarker = b.sawImportMarker
  BY <1>3, <1>5, Zenon DEF Assemblers
<1> HIDE DEF c
<1>7. Preserved(b, c)
  BY <1>3, <1>6, TableKeeps
<1>8. Preserved(a, c)
  BY <1>1, <1>3, <1>7, PreservedTransitive
<1>9. QED
  BY <1>1, <1>2, <1>8

\* push of a VariableName record.
LEMMA PushVariableNameKeeps ==
  ASSUME NEW a, Sound(a), NEW ev, ev.binding \in Binding \cup {OtherBinding}
  PROVE  Preserved(a, pushVariableName(a, ev))
<1> DEFINE c == pushVariableName(a, ev)
<1>1. a \in Assemblers /\ a.varNames \in Seq(Binding \cup {OtherBinding})
  BY DEF Sound, Assemblers
<1>2. Append(a.varNames, ev.binding) \in Seq(Binding \cup {OtherBinding})
  BY <1>1, Appending
<1>3. /\ c \in Assemblers /\ c.crossings = a.crossings /\ c.stack = a.stack
      /\ c.groupStart = a.groupStart /\ c.groupEnds = a.groupEnds
      /\ c.sawImportMarker = a.sawImportMarker
  BY <1>1, <1>2, Zenon DEF Assemblers, pushVariableName
<1> HIDE DEF c
<1>4. Preserved(a, c)
  BY <1>3, TableKeeps
<1>5. QED
  BY <1>4 DEF c

\* push of a Call record: the export it opens is nested in what is open.
LEMMA PushCallKeeps ==
  ASSUME NEW a, Sound(a), NEW ev
  PROVE  Preserved(a, pushCall(a, ev))
<1> DEFINE b == closeRun(a)
           c == NewCrossing(b, "export", b.functions[ev.id])
<1>1. Preserved(a, b)
  BY CloseRunKeeps
<1>2. pushCall(a, ev) = IF b.failed THEN b
                        ELSE IF ev.id \notin DOMAIN b.functions THEN Fail(b)
                        ELSE Opened(b, c)
  BY DEF pushCall
<1> HIDE DEF b
<1>3. b \in Assemblers /\ Sound(b) /\ a \in Assemblers /\ Structure(a)
  BY <1>1 DEF Preserved, Sound
<1>4. Preserved(a, Fail(b))
  BY <1>1, <1>3, FailKeeps, PreservedTransitive
<1>5. CASE ev.id \in DOMAIN b.functions
  <2>1. b.functions[ev.id] \in Exports
    BY <1>3, <1>5, SMTT(30) DEF Assemblers
  <2>2. c \in Crossing
    BY <1>3, <2>1, NewCrossingType, Zenon
  <2>3. c.seq = Len(b.crossings) /\ c.depth = Len(b.stack) /\ c.markerBracketed = FALSE
    BY DEF NewCrossing
  <2> HIDE DEF c
  <2>4. Preserved(b, Opened(b, c))
    BY <1>3, <2>2, <2>3, OpenedKeeps, Zenon
  <2>5. Preserved(a, Opened(b, c))
    BY <1>1, <1>3, <2>4, PreservedTransitive
  <2>6. QED
    BY <1>1, <1>2, <1>4, <2>5
<1>6. CASE ev.id \notin DOMAIN b.functions
  BY <1>1, <1>2, <1>4, <1>6
<1>7. QED
  BY <1>5, <1>6

\* pushValue: a value extends the run in flight or begins one.
LEMMA PushValueKeeps ==
  ASSUME NEW a, Sound(a), NEW ev, ev.value \in Vals
  PROVE  Preserved(a, pushValue(a, ev))
<1>1. a \in Assemblers /\ Structure(a)
  BY DEF Sound
<1>2. CASE ev.id \notin DOMAIN a.varNames
  <2>1. pushValue(a, ev) = Fail(a)
    BY <1>2 DEF pushValue
  <2>2. QED
    BY <2>1, FailKeeps
<1>3. CASE ev.id \in DOMAIN a.varNames
  <2> DEFINE bind == a.varNames[ev.id]
             b == IF bind = OtherBinding \/ StartsNewRun(a.pending, bind)
                  THEN closeRun(a) ELSE a
             r == [label |-> bind.label, role |-> bind.role,
                   values |-> Append(b.pending.values, ev.value)]
             c == [b EXCEPT !.pending = r]
  <2>1. pushValue(a, ev) = IF b.failed \/ bind = OtherBinding THEN b
                           ELSE IF bind.slot # Len(b.pending.values) THEN Fail(b)
                           ELSE c
    BY <1>3 DEF pushValue
  <2>2. bind \in Binding \cup {OtherBinding}
    BY <1>1, <1>3 DEF Assemblers
  <2>3. Preserved(a, a)
    BY <1>1 DEF Preserved, Sound, Keeps, KeepsWitness, Assemblers
  <2>4. Preserved(a, b)
    BY <2>3, CloseRunKeeps
  <2> HIDE DEF b, bind
  <2>5. b \in Assemblers /\ Sound(b)
    BY <2>4 DEF Preserved, Sound
  <2>6. b.pending.values \in Seq(Vals)
    <3>1. b.pending \in Run \cup {NoRun}
      BY <2>5 DEF Assemblers
    <3>2. CASE b.pending \in Run
      BY <3>2 DEF Run
    <3>3. CASE b.pending = NoRun
      BY <3>3 DEF NoRun
    <3>4. QED
      BY <3>1, <3>2, <3>3
  <2>7. Append(b.pending.values, ev.value) \in Seq(Vals)
    BY <2>6, Appending
  <2>8. bind # OtherBinding => r \in Run
    BY <2>2, <2>7 DEF Run, Binding
  <2> HIDE DEF r
  <2>9. bind # OtherBinding => Preserved(b, c)
    BY <2>5, <2>8, PendingKeeps
  <2> HIDE DEF c
  <2>10. bind # OtherBinding => Preserved(a, c)
    BY <1>1, <2>4, <2>5, <2>9, PreservedTransitive
  <2>11. Preserved(a, Fail(b))
    BY <1>1, <2>4, <2>5, FailKeeps, PreservedTransitive
  <2>12. QED
    BY <2>1, <2>4, <2>10, <2>11
<1>4. QED
  BY <1>2, <1>3

\* A host-state record touches hostState only.
LEMMA PushHostStateKeeps ==
  ASSUME NEW a, Sound(a), NEW ev \in HostRecord
  PROVE  Preserved(a, pushHostState(a, ev))
<1> DEFINE c == [a EXCEPT !.hostState = Folded(@, ev)]
<1>1. a \in Assemblers /\ a.hostState \in HostStates
  BY DEF Sound, Assemblers
<1>2. /\ ev.record \in {"initial", "mutation"} /\ ev.initial \in InitialState
      /\ ev.mutation \in HostMutation
  BY DEF HostRecord
<1>3. Folded(a.hostState, ev) \in HostStates
  <2>1. a.hostState.mutations \in Seq(HostMutation)
    BY <1>1 DEF HostStates
  <2>2. Append(a.hostState.mutations, ev.mutation) \in Seq(HostMutation)
    BY <1>2, <2>1, Appending
  <2>3. QED
    BY <1>1, <1>2, <2>2, Zenon DEF Folded, HostStates
<1>4. /\ c \in Assemblers /\ c.crossings = a.crossings /\ c.stack = a.stack
      /\ c.groupStart = a.groupStart /\ c.groupEnds = a.groupEnds
      /\ c.sawImportMarker = a.sawImportMarker
  BY <1>1, <1>3, Zenon DEF Assemblers
<1>5. pushHostState(a, ev) = Fail(a) \/ pushHostState(a, ev) = c
  BY DEF pushHostState
<1> HIDE DEF c
<1>6. Preserved(a, c)
  BY <1>4, TableKeeps
<1>7. QED
  BY <1>5, <1>6, FailKeeps

\* After a marker the two witnesses are both there.
LEMMA MarkerHandled ==
  ASSUME NEW a, Sound(a), NEW index \in Imports,
         NEW s, s = [a EXCEPT !.sawImportMarker = TRUE],
         NEW b, b \in {openMarkedImport(s, index), closeMarkedImport(s, index)}
  PROVE  Handles(a, b)
<1>1. a \in Assemblers /\ Structure(a) /\ OpenGroupTop(a)
  BY DEF Sound
<1>2. /\ s \in Assemblers /\ s.crossings = a.crossings /\ s.stack = a.stack
      /\ s.groupStart = a.groupStart /\ s.groupEnds = a.groupEnds
      /\ s.sawImportMarker = TRUE
  BY <1>1, Zenon DEF Assemblers
<1>3. /\ Sound(s) /\ Structure(s) /\ OpenGroupTop(s)
  <2>1. Structure(s) /\ OpenGroupTop(s)
    BY <1>1, <1>2, OtherFields, Zenon
  <2>2. QED
    BY <1>2, <2>1 DEF Sound
<1>4. ASSUME NEW d, d \in Assemblers, Structure(d), OpenGroupTop(d), Keeps(s, d),
             ~d.failed => d.sawImportMarker = TRUE /\ Bracketed(d)
      PROVE  Handles(a, d)
  <2>1. Keeps(a, d)
    BY <1>2, <1>4 DEF Keeps
  <2>2. QED
    BY <1>4, <2>1 DEF Handles, Witnessed
<1>5. CASE b = openMarkedImport(s, index) /\ TopIsImport(s, index, FALSE)
  <2> DEFINE c == [TopCrossing(s) EXCEPT !.markerBracketed = TRUE]
             d == WithTop(s, c)
  <2>1. s.stack # <<>> /\ b = d
    BY <1>5 DEF TopIsImport, openMarkedImport
  <2>2. TopCrossing(s) \in Crossing /\ Top(s).idx \in 1..Len(s.crossings)
    BY <1>2, <1>3, <2>1, TopProperties, Zenon
  <2>3. /\ c \in Crossing
        /\ c.seq = TopCrossing(s).seq /\ c.depth = TopCrossing(s).depth
        /\ c.kind = TopCrossing(s).kind /\ c.label = TopCrossing(s).label
        /\ c.markerBracketed = TRUE
    BY <2>2, Zenon DEF Crossing, CrossingOf
  <2> HIDE DEF c
  <2>4. Refilled(s, c, d)
    BY <1>2, <1>3, <2>1, <2>3, TopFilled, Zenon
  <2> HIDE DEF d
  <2>5. Bracketed(d)
    BY <2>2, <2>3, <2>4 DEF Refilled, Bracketed
  <2>6. QED
    BY <1>2, <1>4, <2>1, <2>4, <2>5, Zenon DEF Refilled
<1>6. CASE b = openMarkedImport(s, index) /\ ~TopIsImport(s, index, FALSE)
  <2> DEFINE c == [NewCrossing(s, "import", index) EXCEPT !.markerBracketed = TRUE]
             d == Opened(s, c)
  <2>1. b = d
    BY <1>6 DEF openMarkedImport
  <2>2. c \in Crossing
    BY <1>2, NewCrossingType, Zenon
  <2>3. c.seq = Len(s.crossings) /\ c.depth = Len(s.stack) /\ c.markerBracketed = TRUE
    BY DEF NewCrossing
  <2> HIDE DEF c
  <2>4. /\ d \in Assemblers /\ Structure(d) /\ OpenGroupTop(d) /\ Keeps(s, d)
        /\ d.sawImportMarker = s.sawImportMarker
        /\ Bracketed(d) <=> Bracketed(s) \/ c.markerBracketed
    BY <1>2, <1>3, <2>2, <2>3, CrossingOpened, Zenon
  <2> HIDE DEF d
  <2>5. QED
    BY <1>2, <1>4, <2>1, <2>3, <2>4, Zenon
<1>7. CASE b = closeMarkedImport(s, index) /\ TopIsImport(s, index, TRUE)
  <2> DEFINE d == Popped(s)
  <2>1. /\ s.stack # <<>> /\ b = d /\ TopCrossing(s).kind = "import"
        /\ TopCrossing(s).markerBracketed = TRUE
    BY <1>7 DEF TopIsImport, closeMarkedImport
  <2>2. Preserved(s, d)
    BY <1>3, <2>1, ImportPopped, Zenon
  <2>3. Top(s).idx \in 1..Len(s.crossings)
    BY <1>2, <1>3, <2>1, TopProperties, Zenon
  <2>4. Bracketed(s)
    BY <2>1, <2>3 DEF Bracketed, TopCrossing
  <2> HIDE DEF d
  <2>5. QED
    BY <1>2, <1>4, <2>1, <2>2, <2>4, Zenon DEF Preserved, KeepsWitness
<1>8. CASE b = closeMarkedImport(s, index) /\ ~TopIsImport(s, index, TRUE)
  <2>1. b = Fail(s)
    BY <1>8 DEF closeMarkedImport
  <2>2. Preserved(s, Fail(s)) /\ Fail(s).failed
    BY <1>3, FailKeeps
  <2>3. QED
    BY <1>4, <2>1, <2>2, Zenon DEF Preserved
<1>9. QED
  BY <1>5, <1>6, <1>7, <1>8, Zenon

\* A handler that runs after closeRun handles the record as a whole.
LEMMA HandlesAfter ==
  ASSUME NEW a \in Assemblers, NEW b \in Assemblers, NEW c,
         Keeps(a, b), Handles(b, c)
  PROVE  Handles(a, c)
<1>1. Len(a.crossings) \in Nat /\ Len(b.crossings) \in Nat /\ a.groupStart \in Nat
  BY SMTT(30) DEF Assemblers
<1>2. c \in Assemblers
  BY DEF Handles
<1>3. Len(c.crossings) \in Nat
  BY <1>2 DEF Assemblers
<1>4. Keeps(a, c)
  BY <1>1, <1>3 DEF Handles, Keeps
<1>5. QED
  BY <1>4 DEF Handles

\* pushEvent: the markers keep the stack, and the witness, in step.
LEMMA PushEventHandled ==
  ASSUME NEW a, Sound(a), Witnessed(a), NEW ev,
         \/ ev.what \in {"enterImport", "leaveImport"} /\ ev.index \in Imports
         \/ ev \in HostRecord
         \/ ev.what = "other"
  PROVE  Handles(a, pushEvent(a, ev))
<1> DEFINE b == closeRun(a)
           s == [b EXCEPT !.sawImportMarker = TRUE]
           c == pushEvent(a, ev)
<1>1. Preserved(a, b)
  BY CloseRunKeeps
<1>2. ev \in HostRecord => ev.what = "hostState"
  BY DEF HostRecord
<1>3. /\ (b.failed \/ ev.what = "other") => c = b
      /\ ~b.failed /\ ev.what = "hostState" => c = pushHostState(b, ev)
      /\ ~b.failed /\ ev.what = "enterImport" => c = openMarkedImport(s, ev.index)
      /\ ~b.failed /\ ev.what = "leaveImport" => c = closeMarkedImport(s, ev.index)
  BY DEF pushEvent
<1> HIDE DEF b
<1>4. Sound(b) /\ b \in Assemblers /\ a \in Assemblers /\ Structure(a) /\ Keeps(a, b)
  BY <1>1 DEF Preserved, Sound
<1>5. CASE b.failed \/ ev.what = "other"
  BY <1>1, <1>3, <1>5, PreservedHandles
<1>6. CASE ~b.failed /\ ev \in HostRecord
  <2>1. Preserved(b, c)
    BY <1>2, <1>3, <1>4, <1>6, PushHostStateKeeps
  <2>2. Preserved(a, c)
    BY <1>1, <1>4, <2>1, PreservedTransitive
  <2>3. QED
    BY <2>2, PreservedHandles
<1>7. CASE ~b.failed /\ ev.what \in {"enterImport", "leaveImport"} /\ ev.index \in Imports
  <2>1. c \in {openMarkedImport(s, ev.index), closeMarkedImport(s, ev.index)}
    BY <1>3, <1>7
  <2> HIDE DEF s
  <2>2. s = [b EXCEPT !.sawImportMarker = TRUE]
    BY DEF s
  <2>3. Handles(b, c)
    BY <1>4, <1>7, <2>1, <2>2, MarkerHandled
  <2>4. QED
    BY <1>4, <2>3, HandlesAfter
<1>8. QED
  BY <1>5, <1>6, <1>7

\* A Return ends the innermost open export; when it was the last one open,
\* the group is over.
LEMMA PushReturnHandled ==
  ASSUME NEW a, Sound(a), Witnessed(a)
  PROVE  Handles(a, pushReturn(a))
<1> DEFINE b == closeRun(a)
           c == closeDanglingImports(b, NoLabel, FALSE)
           d == Popped(c)
           k == Len(c.stack) - 1
<1>1. Preserved(a, b) /\ b.pending = NoRun
  BY CloseRunKeeps
<1>2. pushReturn(a) = IF b.failed THEN b
                      ELSE IF c.stack = <<>> \/ TopCrossing(c).kind # "export" THEN Fail(c)
                      ELSE d
  BY Zenon DEF pushReturn
<1> HIDE DEF b
<1>3. b \in Assemblers /\ Structure(b) /\ OpenGroupTop(b) /\ a \in Assemblers /\ Structure(a)
  BY <1>1 DEF Preserved, Sound
<1>4. Preserved(b, c) /\ SameButStack(b, c)
  BY <1>3, DanglingClosed, Zenon
<1> HIDE DEF c
<1>5. /\ Preserved(a, c) /\ Sound(c) /\ c \in Assemblers /\ Structure(c) /\ OpenGroupTop(c)
      /\ c.pending = NoRun /\ c.failed = b.failed
  <2>1. Preserved(a, c)
    BY <1>1, <1>3, <1>4, PreservedTransitive
  <2>2. QED
    BY <1>1, <1>4, <2>1 DEF Preserved, Sound, SameButStack
<1>6. Handles(a, b) /\ Handles(a, Fail(c))
  <2>1. Preserved(a, Fail(c))
    BY <1>3, <1>5, FailKeeps, PreservedTransitive
  <2>2. QED
    BY <1>1, <2>1, PreservedHandles
<1>7. CASE ~b.failed /\ c.stack # <<>>
  <2>1. Len(c.stack) \in Nat \ {0}
    BY <1>5, <1>7, TopProperties
  <2>2. k \in 0..Len(c.stack) /\ d = [c EXCEPT !.stack = SubSeq(@, 1, k)]
    BY <2>1 DEF Popped
  <2>3. k = 0 \/ 1 \in 1..k
    <3>1. \A n \in Nat \ {0} : n - 1 = 0 \/ 1 \in 1..(n - 1)
      OBVIOUS
    <3>2. QED
      BY <2>1, <3>1, Zenon
  <2> HIDE DEF d, k
  <2>4. /\ d \in Assemblers /\ SameButStack(c, d) /\ Len(d.stack) = k
        /\ \A j \in 1..k : d.stack[j] = c.stack[j]
        /\ Structure(d) /\ Keeps(c, d) /\ KeepsWitness(c, d)
    BY <1>5, <2>2, TruncatedStack
  <2>5. Witnessed(d)
    BY <1>5, <2>4 DEF Preserved, KeepsWitness, Witnessed
  <2>6. ASSUME k = 0 PROVE Handles(c, d)
    <3>1. d.stack = <<>>
      BY <2>4, <2>6, EmptyOrNot DEF Assemblers
    <3>2. BetweenCalls(d) /\ ~d.failed
      BY <1>5, <1>7, <2>4, <3>1 DEF BetweenCalls, SameButStack
    <3>3. QED
      BY <2>4, <2>5, <3>2 DEF Handles
  <2>7. ASSUME 1 \in 1..k PROVE Handles(c, d)
    <3>1. d.stack # <<>> /\ d.stack[1] = c.stack[1]
      BY <2>4, <2>7
    <3>2. OpenGroupTop(d)
      BY <1>5, <2>4, <3>1 DEF OpenGroupTop, SameButStack
    <3>3. QED
      BY <2>4, <2>5, <3>2 DEF Handles
  <2>8. Handles(c, d)
    BY <2>3, <2>6, <2>7
  <2>9. Handles(a, d)
    BY <1>3, <1>5, <2>8, HandlesAfter DEF Preserved
  <2>10. QED
    BY <1>2, <1>6, <2>9
<1>8. QED
  BY <1>2, <1>6, <1>7

\* Every kind of record is handled.
LEMMA RecordHandled ==
  ASSUME NEW a, Sound(a), Witnessed(a), NEW ev \in Record
  PROVE  Handles(a, Handled(a, ev))
<1>1. CASE ev \in [t : {"Function"}, name : Exports]
  BY <1>1, PushFunctionKeeps, PreservedHandles DEF Handled
<1>2. CASE ev \in [t : {"VariableName"}, binding : Binding \cup {OtherBinding}]
  BY <1>2, PushVariableNameKeeps, PreservedHandles DEF Handled
<1>3. CASE ev \in [t : {"Value"}, id : Nat, value : Vals]
  BY <1>3, PushValueKeeps, PreservedHandles DEF Handled
<1>4. CASE ev \in [t : {"Call"}, id : Nat]
  BY <1>4, PushCallKeeps, PreservedHandles DEF Handled
<1>5. CASE ev \in [t : {"Event"}, what : {"enterImport", "leaveImport"}, index : Imports]
  BY <1>5, PushEventHandled DEF Handled
<1>6. CASE ev \in [t : {"Event"}, what : {"other"}]
  BY <1>6, PushEventHandled DEF Handled
<1>7. CASE ev \in HostRecord
  <2>1. ev.t = "Event"
    BY <1>7 DEF HostRecord
  <2>2. QED
    BY <1>7, <2>1, PushEventHandled DEF Handled
<1>8. CASE ev \in [t : {"Return", "Step", "Other"}]
  <2>1. Preserved(a, a)
    <3>1. Len(a.crossings) \in Nat
      BY DEF Sound, Assemblers
    <3>2. Keeps(a, a)
      BY <3>1 DEF Keeps
    <3>3. KeepsWitness(a, a)
      BY DEF KeepsWitness
    <3>4. QED
      BY <3>2, <3>3 DEF Preserved, Sound
  <2>2. QED
    BY <1>8, <2>1, PushReturnHandled, CloseRunKeeps, PreservedHandles DEF Handled
<1>9. QED
  BY <1>1, <1>2, <1>3, <1>4, <1>5, <1>6, <1>7, <1>8 DEF Record

-----------------------------------------------------------------------------
(***************************************************************************)
(* push and finish.                                                        *)
(***************************************************************************)
Frozen(a, b) ==
  /\ \A i \in 1..a.groupStart :
       i \in DOMAIN b.crossings /\ b.crossings[i] = a.crossings[i]
  /\ \A g \in 1..Len(a.groupEnds) :
       g \in DOMAIN b.groupEnds /\ b.groupEnds[g] = a.groupEnds[g]

Stepped(a, b) ==
  /\ b \in Assemblers
  /\ Structure(b)
  /\ OpenGroupTop(b)
  /\ ~b.failed => Settled(b) /\ Witnessed(b)
  /\ Frozen(a, b)

\* What keeps the crossings of earlier groups keeps the groups.
LEMMA KeepsFrozen ==
  ASSUME NEW a \in Assemblers, GroupsDelimited(a), NEW b \in Assemblers, Keeps(a, b)
  PROVE  Frozen(a, b)
<1>1. /\ Len(a.crossings) \in Nat /\ Len(b.crossings) \in Nat /\ a.groupStart \in Nat
      /\ DOMAIN b.crossings = 1..Len(b.crossings)
      /\ DOMAIN a.groupEnds = 1..Len(a.groupEnds)
  BY SMTT(30) DEF Assemblers
<1>2. a.groupStart <= Len(a.crossings)
  BY DEF GroupsDelimited
<1>3. QED
  BY <1>1, <1>2 DEF Keeps, Frozen

\* A record that fails ends push before noteGroupBoundary.
LEMMA FailedStepped ==
  ASSUME NEW a, Sound(a), NEW b, b.failed, OpenGroupTop(b), Handles(a, b)
  PROVE  Stepped(a, b)
<1>1. a \in Assemblers /\ GroupsDelimited(a) /\ b \in Assemblers /\ Keeps(a, b)
  BY DEF Sound, Structure, Handles
<1>2. Frozen(a, b)
  BY <1>1, KeepsFrozen
<1>3. QED
  BY <1>2 DEF Stepped, Handles

\* noteGroupBoundary delimits what is complete and nothing else.
LEMMA BoundaryNoted ==
  ASSUME NEW a, Sound(a), NEW b, Handles(a, b), ~b.failed
  PROVE  Stepped(a, noteGroupBoundary(b))
<1> DEFINE n == Len(b.crossings)
           d == [b EXCEPT !.groupEnds = Append(@, n), !.groupStart = n]
<1>1. /\ a \in Assemblers /\ GroupsDelimited(a) /\ b \in Assemblers /\ Structure(b)
      /\ Keeps(a, b) /\ Witnessed(b)
  BY DEF Sound, Structure, Handles
<1>2. Frozen(a, b)
  BY <1>1, KeepsFrozen
<1>3. /\ n \in Nat /\ b.groupStart \in Nat /\ b.groupEnds \in Seq(Nat)
      /\ b.crossings \in Seq(Crossing) /\ Len(b.groupEnds) \in Nat
      /\ b.groupStart <= n
  <2>1. b.groupStart <= n
    BY <1>1 DEF Structure, GroupsDelimited
  <2>2. /\ b.groupStart \in Nat /\ b.groupEnds \in Seq(Nat)
        /\ b.crossings \in Seq(Crossing)
    BY <1>1 DEF Assemblers
  <2>3. QED
    BY <2>1, <2>2
<1>4. CASE BetweenCalls(b) /\ n > b.groupStart
  <2>1. noteGroupBoundary(b) = d
    BY <1>4 DEF noteGroupBoundary, BetweenCalls
  <2>2. /\ Append(b.groupEnds, n) \in Seq(Nat)
        /\ Len(Append(b.groupEnds, n)) = Len(b.groupEnds) + 1
        /\ \A i \in 1..Len(b.groupEnds) : Append(b.groupEnds, n)[i] = b.groupEnds[i]
        /\ Append(b.groupEnds, n)[Len(b.groupEnds) + 1] = n
    BY <1>3, Appending
  <2> HIDE DEF n
  <2>3. /\ d \in Assemblers /\ d.groupEnds = Append(b.groupEnds, n) /\ d.groupStart = n
        /\ d.crossings = b.crossings /\ d.stack = <<>> /\ d.failed = b.failed
        /\ d.sawImportMarker = b.sawImportMarker
    BY <1>1, <1>3, <1>4, <2>2, Zenon DEF Assemblers, BetweenCalls
  <2> HIDE DEF d
  <2>4. /\ d.groupEnds \in Seq(Nat) /\ Len(d.groupEnds) = Len(b.groupEnds) + 1
        /\ \A i \in 1..Len(b.groupEnds) : d.groupEnds[i] = b.groupEnds[i]
        /\ d.groupEnds[Len(b.groupEnds) + 1] = n
        /\ Len(d.crossings) = n
    BY <2>2, <2>3 DEF n
  <2>5. CrossingsNumbered(d)
    BY <1>1, <2>3 DEF Structure, CrossingsNumbered
  <2>6. StackNested(d)
    BY <2>3 DEF StackNested
  <2>7. GroupsDelimited(d)
    <3>1. d.groupEnds # <<>> /\ d.groupStart = d.groupEnds[Len(d.groupEnds)]
      BY <1>3, <2>3, <2>4
    <3>2. \A i \in 1..Len(b.groupEnds) : b.groupEnds[i] \in 1..b.groupStart
      BY <1>1 DEF Structure, GroupsDelimited
    <3>3. \A i \in 1..Len(d.groupEnds) : i \in 1..Len(b.groupEnds) \/ i = Len(b.groupEnds) + 1
      BY <1>3, <2>4
    <3>4. ASSUME NEW i \in 1..Len(d.groupEnds) PROVE d.groupEnds[i] \in 1..d.groupStart
      BY <1>3, <1>4, <2>3, <2>4, <3>2, <3>3, SMTT(30)
    <3>5. ASSUME NEW i \in 1..Len(d.groupEnds), NEW j \in 1..Len(d.groupEnds), i < j
          PROVE  d.groupEnds[i] < d.groupEnds[j]
      <4>1. i \in 1..Len(b.groupEnds)
        BY <1>3, <2>4, <3>5
      <4>2. CASE j \in 1..Len(b.groupEnds)
        BY <1>1, <2>4, <3>5, <4>1, <4>2 DEF Structure, GroupsDelimited
      <4>3. CASE j = Len(b.groupEnds) + 1
        <5>1. d.groupEnds[j] = n
          BY <2>4, <4>3
        <5>2. d.groupEnds[i] \in 1..b.groupStart
          BY <2>4, <3>2, <4>1, Zenon
        <5>3. QED
          BY <1>3, <1>4, <5>1, <5>2, SMTT(30)
      <4>4. QED
        BY <3>3, <4>2, <4>3
    <3>6. d.groupStart <= Len(d.crossings)
      BY <1>3, <2>3, <2>4
    <3>7. QED
      BY <3>1, <3>4, <3>5, <3>6, SMTT(30) DEF GroupsDelimited
  <2>8. TopsSeparated(d)
    <3>1. \A g \in 1..Len(b.groupEnds) :
            g \in 1..Len(d.groupEnds) /\ d.groupEnds[g] = b.groupEnds[g]
      BY <1>3, <2>4
    <3>2. QED
      BY <1>1, <2>3, <3>1, SMTT(30) DEF Structure, TopsSeparated
  <2>9. OpenGroupTop(d)
    BY <1>3, <2>3, <2>4 DEF OpenGroupTop
  <2>10. Settled(d)
    BY <2>3, <2>4 DEF Settled
  <2>11. Witnessed(d)
    BY <1>1, <2>3 DEF Witnessed, Bracketed
  <2>12. Frozen(a, d)
    <3>1. \A g \in DOMAIN b.groupEnds :
            g \in DOMAIN d.groupEnds /\ d.groupEnds[g] = b.groupEnds[g]
      <4>1. /\ DOMAIN b.groupEnds = 1..Len(b.groupEnds)
            /\ DOMAIN d.groupEnds = 1..Len(d.groupEnds)
        BY <1>3, <2>4
      <4>2. \A g \in 1..Len(b.groupEnds) : g \in 1..Len(d.groupEnds)
        BY <1>3, <2>4
      <4>3. QED
        BY <2>4, <4>1, <4>2, SMTT(30)
    <3>2. QED
      BY <1>2, <2>3, <3>1 DEF Frozen
  <2>13. Stepped(a, d)
    BY <2>3, <2>5, <2>6, <2>7, <2>8, <2>9, <2>10, <2>11, <2>12 DEF Stepped, Structure
  <2>14. QED
    BY <2>1, <2>13
<1>5. CASE ~(BetweenCalls(b) /\ n > b.groupStart)
  <2>1. noteGroupBoundary(b) = b
    BY <1>5 DEF noteGroupBoundary, BetweenCalls
  <2>2. BetweenCalls(b) => b.groupStart = n
    BY <1>3, <1>5
  <2>3. Settled(b)
    BY <2>2 DEF Settled, BetweenCalls
  <2>4. OpenGroupTop(b)
    <3>1. BetweenCalls(b) => OpenGroupTop(b)
      BY <1>3, <2>2 DEF OpenGroupTop
    <3>2. QED
      BY <3>1 DEF Handles
  <2>5. QED
    BY <1>1, <1>2, <2>1, <2>3, <2>4 DEF Stepped
<1>6. QED
  BY <1>4, <1>5

\* push, with noteGroupBoundary at its end.
LEMMA PushStepped ==
  ASSUME NEW a, Sound(a), Witnessed(a), NEW ev \in Record
  PROVE  Stepped(a, push(a, ev))
<1> DEFINE b == Handled(a, ev)
<1>1. Handles(a, b)
  BY RecordHandled
<1>2. push(a, ev) = IF b.failed THEN b ELSE noteGroupBoundary(b)
  BY DEF push
<1> HIDE DEF b
<1>3. CASE b.failed
  <2>1. OpenGroupTop(b)
    BY <1>1, <1>3 DEF Handles
  <2>2. QED
    BY <1>1, <1>2, <1>3, <2>1, FailedStepped
<1>4. CASE ~b.failed
  BY <1>1, <1>2, <1>4, BoundaryNoted
<1>5. QED
  BY <1>3, <1>4

\* finish.
LEMMA FinishStepped ==
  ASSUME NEW a, Sound(a), Witnessed(a)
  PROVE  Stepped(a, finish(a))
<1> DEFINE b == closeRun(a)
           c == closeDanglingImports(b, NoLabel, TRUE)
<1>1. Preserved(a, b)
  BY CloseRunKeeps
<1>2. finish(a) = IF b.failed THEN b
                  ELSE IF c.stack # <<>> THEN Fail(c) ELSE noteGroupBoundary(c)
  BY Zenon DEF finish
<1> HIDE DEF b
<1>3. b \in Assemblers /\ Structure(b) /\ OpenGroupTop(b) /\ a \in Assemblers /\ Structure(a)
  BY <1>1 DEF Preserved, Sound
<1>4. Preserved(b, c) /\ SameButStack(b, c)
  BY <1>3, DanglingClosed, Zenon
<1> HIDE DEF c
<1>5. Preserved(a, c)
  BY <1>1, <1>3, <1>4, PreservedTransitive
<1>6. Sound(c) /\ c \in Assemblers /\ c.failed = b.failed
  BY <1>4, <1>5 DEF Preserved, Sound, SameButStack
<1>7. Preserved(a, Fail(c)) /\ Fail(c).failed
  BY <1>3, <1>5, <1>6, FailKeeps, PreservedTransitive
<1>8. CASE b.failed
  <2>1. Handles(a, b) /\ OpenGroupTop(b)
    BY <1>1, <1>3, PreservedHandles
  <2>2. QED
    BY <1>2, <1>8, <2>1, FailedStepped
<1>9. CASE ~b.failed /\ c.stack # <<>>
  <2>1. Handles(a, Fail(c)) /\ OpenGroupTop(Fail(c))
    BY <1>7, PreservedHandles DEF Preserved
  <2>2. QED
    BY <1>2, <1>7, <1>9, <2>1, FailedStepped
<1>10. CASE ~b.failed /\ c.stack = <<>>
  <2>1. Handles(a, c)
    BY <1>5, PreservedHandles
  <2>2. QED
    BY <1>2, <1>6, <1>10, <2>1, BoundaryNoted
<1>11. QED
  BY <1>8, <1>9, <1>10

-----------------------------------------------------------------------------
(***************************************************************************)
(* finish fails when an exported call has not returned, or when the run in *)
(* flight belongs to no open call.                                         *)
(***************************************************************************)

\* Crossings of the same kinds at the same places.
LEMMA SameOpen ==
  ASSUME NEW a, NEW b, b.stack = a.stack,
         \A k \in 1..Len(a.stack) :
           b.crossings[a.stack[k].idx].kind = a.crossings[a.stack[k].idx].kind
  PROVE  ExportOpen(b) <=> ExportOpen(a)
BY SMTT(30) DEF ExportOpen

\* closeDanglingImports ends no exported call; forced, it leaves nothing else.
LEMMA DanglingExports ==
  ASSUME NEW a, Sound(a), NEW keep, NEW force \in BOOLEAN,
         NEW b, b = closeDanglingImports(a, keep, force)
  PROVE  /\ ExportOpen(b) <=> ExportOpen(a)
         /\ force /\ keep = NoLabel /\ b.stack # <<>> => ExportOpen(b)
<1> DEFINE n == Kept(a, keep, force)
<1>1. a \in Assemblers /\ Structure(a) /\ Len(a.stack) \in Nat
  BY DEF Sound, Assemblers
<1>2. /\ n \in 0..Len(a.stack)
      /\ \A k \in 1..Len(a.stack) : ~Dangles(a, a.stack[k], keep, force) => k <= n
      /\ n = 0 \/ ~Dangles(a, a.stack[n], keep, force)
  BY <1>1, KeptProperties
<1>3. b = [a EXCEPT !.stack = SubSeq(@, 1, n)]
  BY DEF closeDanglingImports
<1> HIDE DEF n
<1>4. /\ b \in Assemblers /\ b.crossings = a.crossings /\ Len(b.stack) = n
      /\ \A j \in 1..n : b.stack[j] = a.stack[j]
  BY <1>1, <1>2, <1>3, TruncatedStack DEF SameButStack
<1>5. \A j \in 1..n : j \in 1..Len(a.stack)
  BY <1>1, <1>2
<1>6. ASSUME ExportOpen(b) PROVE ExportOpen(a)
  BY <1>4, <1>5, <1>6 DEF ExportOpen
<1>7. ASSUME ExportOpen(a) PROVE ExportOpen(b)
  <2>1. PICK k \in 1..Len(a.stack) : a.crossings[a.stack[k].idx].kind = "export"
    BY <1>7 DEF ExportOpen
  <2>2. ~Dangles(a, a.stack[k], keep, force)
    BY <2>1 DEF Dangles
  <2>3. k \in 1..n
    BY <1>1, <1>2, <2>2
  <2>4. QED
    BY <1>4, <2>1, <2>3 DEF ExportOpen
<1>8. ASSUME force, keep = NoLabel, b.stack # <<>> PROVE ExportOpen(b)
  <2>1. n \in 1..n /\ n \in 1..Len(a.stack)
    <3>1. n # 0
      BY <1>4, <1>8, EmptyOrNot, Zenon DEF Assemblers
    <3>2. QED
      BY <1>1, <1>2, <3>1
  <2>2. \/ a.crossings[a.stack[n].idx].kind # "import"
        \/ a.stack[n].label = NoLabel
    BY <1>2, <1>8, <2>1 DEF Dangles
  <2>3. /\ a.crossings[a.stack[n].idx] \in Crossing
        /\ a.crossings[a.stack[n].idx].label = a.stack[n].label
    <3>1. /\ a.stack[n].idx \in (a.groupStart + 1)..Len(a.crossings)
          /\ a.crossings[a.stack[n].idx].label = a.stack[n].label
      BY <1>1, <2>1 DEF Structure, StackNested
    <3>2. a.crossings \in Seq(Crossing) /\ a.groupStart \in Nat
      BY <1>1 DEF Assemblers
    <3>3. a.stack[n].idx \in 1..Len(a.crossings)
      BY <3>1, <3>2
    <3>4. QED
      BY <3>1, <3>2, <3>3, Elements
  <2>4. a.crossings[a.stack[n].idx].kind = "export"
    BY <2>2, <2>3, AssemblerAssumption DEF Crossing, CrossingOf
  <2>5. QED
    BY <1>4, <2>1, <2>4 DEF ExportOpen
<1>9. QED
  BY <1>6, <1>7, <1>8

\* An import that is opened, appended, filled in or ended is no exported call.
LEMMA ImportExports ==
  ASSUME NEW a, Sound(a), NEW c, c.kind = "import"
  PROVE  /\ ExportOpen(Opened(a, c)) <=> ExportOpen(a)
         /\ ExportOpen(Appended(a, c)) <=> ExportOpen(a)
<1> DEFINE o == Opened(a, c)
           p == Appended(a, c)
           cs == Append(a.crossings, c)
           open == [idx |-> Len(a.crossings) + 1, label |-> c.label]
<1>1. /\ a.stack \in Seq(OpenCrossing) /\ a.crossings \in Seq(Crossing)
      /\ Len(a.stack) \in Nat /\ Len(a.crossings) \in Nat /\ a.groupStart \in Nat
  BY DEF Sound, Assemblers
<1>2. \A k \in 1..Len(a.stack) : a.stack[k].idx \in 1..Len(a.crossings)
  BY <1>1, SMTT(30) DEF Sound, Structure, StackNested
<1>3. /\ o.crossings = cs /\ o.stack = Append(a.stack, open)
      /\ p.crossings = cs /\ p.stack = a.stack
  BY DEF Opened, Appended, Sound, Assemblers
<1>4. /\ \A i \in 1..Len(a.crossings) : cs[i] = a.crossings[i]
      /\ cs[Len(a.crossings) + 1] = c
  BY <1>1, Appending
<1> HIDE DEF o, p, cs, open
<1>5. \A k \in 1..Len(a.stack) : cs[a.stack[k].idx] = a.crossings[a.stack[k].idx]
  BY <1>2, <1>4
<1>6. ExportOpen(p) <=> ExportOpen(a)
  BY <1>3, <1>5, SameOpen
<1>7. /\ Len(o.stack) = Len(a.stack) + 1
      /\ \A k \in 1..Len(a.stack) : o.stack[k] = a.stack[k]
      /\ o.stack[Len(a.stack) + 1].idx = Len(a.crossings) + 1
  <2>1. open.idx = Len(a.crossings) + 1
    BY DEF open
  <2>2. QED
    BY <1>1, <1>3, <2>1
<1>8. ASSUME ExportOpen(o) PROVE ExportOpen(a)
  <2>1. PICK k \in 1..(Len(a.stack) + 1) : o.crossings[o.stack[k].idx].kind = "export"
    BY <1>7, <1>8 DEF ExportOpen
  <2>2. k # Len(a.stack) + 1
    BY <1>3, <1>4, <1>7, <2>1
  <2>3. k \in 1..Len(a.stack)
    BY <1>1, <2>2
  <2>4. QED
    BY <1>3, <1>5, <1>7, <2>1, <2>3, SMTT(30) DEF ExportOpen
<1>9. ASSUME ExportOpen(a) PROVE ExportOpen(o)
  <2>1. PICK k \in 1..Len(a.stack) : a.crossings[a.stack[k].idx].kind = "export"
    BY <1>9 DEF ExportOpen
  <2>2. k \in 1..Len(o.stack)
    BY <1>1, <1>7
  <2>3. QED
    BY <1>3, <1>5, <1>7, <2>1, <2>2 DEF ExportOpen
<1>10. QED
  BY <1>6, <1>8, <1>9 DEF o, p

LEMMA TopExports ==
  ASSUME NEW a, Sound(a), a.stack # <<>>
  PROVE  /\ \A c \in Crossing :
              c.kind = TopCrossing(a).kind => (ExportOpen(WithTop(a, c)) <=> ExportOpen(a))
         /\ TopCrossing(a).kind = "import" => (ExportOpen(Popped(a)) <=> ExportOpen(a))
<1> DEFINE t == Top(a).idx
<1>1. a \in Assemblers /\ Structure(a)
  BY DEF Sound
<1>2. /\ Len(a.stack) \in Nat \ {0} /\ t \in 1..Len(a.crossings)
      /\ a.stack \in Seq(OpenCrossing) /\ a.crossings \in Seq(Crossing)
  BY <1>1, TopProperties, Zenon DEF Assemblers
<1>3. TopCrossing(a) = a.crossings[t]
  BY DEF TopCrossing
<1>4. ASSUME NEW c \in Crossing, c.kind = TopCrossing(a).kind
      PROVE  ExportOpen(WithTop(a, c)) <=> ExportOpen(a)
  <2> DEFINE b == WithTop(a, c)
  <2>1. b.stack = a.stack /\ b.crossings = [a.crossings EXCEPT ![t] = c]
    BY <1>1 DEF WithTop, Assemblers
  <2> HIDE DEF b, t
  <2>2. \A i : [a.crossings EXCEPT ![t] = c][i].kind = a.crossings[i].kind
               \/ i \notin 1..Len(a.crossings)
    BY <1>2, <1>3, <1>4
  <2>3. \A k \in 1..Len(a.stack) : a.stack[k].idx \in 1..Len(a.crossings)
    <3>1. Len(a.crossings) \in Nat /\ a.groupStart \in Nat
      BY <1>1 DEF Assemblers
    <3>2. QED
      BY <1>1, <3>1 DEF Structure, StackNested
  <2>4. \A k \in 1..Len(a.stack) :
          b.crossings[a.stack[k].idx].kind = a.crossings[a.stack[k].idx].kind
    BY <2>1, <2>2, <2>3
  <2>5. QED
    BY <2>1, <2>4, SameOpen, Zenon DEF b
<1>5. ASSUME TopCrossing(a).kind = "import" PROVE ExportOpen(Popped(a)) <=> ExportOpen(a)
  <2> DEFINE b == Popped(a)
             n == Len(a.stack) - 1
  <2>1. b = [a EXCEPT !.stack = SubSeq(@, 1, n)] /\ n \in 0..Len(a.stack)
    BY <1>2 DEF Popped
  <2>2. \A k \in 1..Len(a.stack) : k # Len(a.stack) => k \in 1..n
    BY <1>2
  <2>3. \A k \in 1..n : k \in 1..Len(a.stack)
    BY <1>2
  <2>4. a.crossings[a.stack[Len(a.stack)].idx].kind # "export"
    BY <1>5 DEF TopCrossing, Top
  <2> HIDE DEF b, n
  <2>5. /\ b.crossings = a.crossings /\ Len(b.stack) = n
        /\ \A j \in 1..n : b.stack[j] = a.stack[j]
    BY <1>1, <2>1, TruncatedStack DEF SameButStack
  <2>6. ASSUME ExportOpen(b) PROVE ExportOpen(a)
    BY <2>3, <2>5, <2>6 DEF ExportOpen
  <2>7. ASSUME ExportOpen(a) PROVE ExportOpen(b)
    <3>1. PICK k \in 1..Len(a.stack) : a.crossings[a.stack[k].idx].kind = "export"
      BY <2>7 DEF ExportOpen
    <3>2. k # Len(a.stack)
      BY <2>4, <3>1
    <3>3. k \in 1..n
      BY <2>2, <3>2
    <3>4. QED
      BY <2>5, <3>1, <3>3 DEF ExportOpen
  <2>8. QED
    BY <2>6, <2>7 DEF b
<1>6. QED
  BY <1>4, <1>5

\* closeRun opens and ends imports only.
LEMMA RunExports ==
  ASSUME NEW a, Sound(a), NEW run \in Run
  PROVE  /\ ExportOpen(ArgumentRun(a, run)) <=> ExportOpen(a)
         /\ ExportOpen(ResultRun(a, run)) <=> ExportOpen(a)
<1>1. a \in Assemblers /\ Structure(a)
  BY DEF Sound
<1>2. run.label \in Labels /\ run.values \in Seq(Vals)
  BY DEF Run
<1>3. ExportOpen(Fail(a)) <=> ExportOpen(a)
  <2>1. Fail(a).stack = a.stack /\ Fail(a).crossings = a.crossings
    BY <1>1 DEF Fail, Assemblers
  <2>2. QED
    BY <2>1, SameOpen
<1>4. ExportOpen(ArgumentRun(a, run)) <=> ExportOpen(a)
  <2>1. CASE run.label \in Imports
    <3> DEFINE c == [NewCrossing(a, "import", run.label) EXCEPT !.args = run.values]
    <3>1. ArgumentRun(a, run) = Opened(a, c) /\ c.kind = "import"
      BY <2>1 DEF ArgumentRun, NewCrossing
    <3> HIDE DEF c
    <3>2. QED
      BY <3>1, ImportExports
  <2>2. CASE run.label \notin Imports /\ TopHasLabel(a, run.label)
    <3> DEFINE c == [TopCrossing(a) EXCEPT !.args = run.values]
    <3>1. a.stack # <<>> /\ TopCrossing(a) \in Crossing
      BY <1>1, <2>2, TopProperties DEF TopHasLabel
    <3>2. c \in Crossing /\ c.kind = TopCrossing(a).kind
      BY <1>2, <3>1, SMTT(30) DEF Crossing, CrossingOf
    <3>3. ArgumentRun(a, run) = WithTop(a, c)
      BY <2>2 DEF ArgumentRun
    <3> HIDE DEF c
    <3>4. QED
      BY <3>1, <3>2, <3>3, TopExports
  <2>3. CASE run.label \notin Imports /\ ~TopHasLabel(a, run.label)
    BY <1>3, <2>3 DEF ArgumentRun
  <2>4. QED
    BY <2>1, <2>2, <2>3
<1>5. ExportOpen(ResultRun(a, run)) <=> ExportOpen(a)
  <2>1. CASE TopHasLabel(a, run.label)
    <3> DEFINE c == [TopCrossing(a) EXCEPT !.results = run.values, !.hasResults = TRUE]
               b == WithTop(a, c)
    <3>1. a.stack # <<>> /\ TopCrossing(a) \in Crossing /\ TopCrossing(a).label = run.label
      BY <1>1, <2>1, TopProperties DEF TopHasLabel
    <3>2. /\ c \in Crossing
          /\ c.seq = TopCrossing(a).seq /\ c.depth = TopCrossing(a).depth
          /\ c.kind = TopCrossing(a).kind /\ c.label = TopCrossing(a).label
          /\ c.markerBracketed = TopCrossing(a).markerBracketed
      BY <1>2, <3>1, Zenon DEF Crossing, CrossingOf
    <3>3. run.label \in Imports => c.kind = "import"
      BY <3>1, <3>2, AssemblerAssumption DEF Crossing, CrossingOf
    <3>4. FilledResults(a, run) = b
      BY DEF FilledResults
    <3> HIDE DEF c
    <3>5. ExportOpen(b) <=> ExportOpen(a)
      BY <3>1, <3>2, TopExports
    <3>6. Preserved(a, b) /\ Refilled(a, c, b)
      BY <3>1, <3>2, TopKeeps
    <3> HIDE DEF b
    <3>7. Sound(b) /\ b.stack = a.stack /\ TopCrossing(b) = c
      BY <3>6 DEF Refilled, Sound, TopCrossing, Top
    <3>8. ResultRun(a, run) = b
            \/ (run.label \in Imports /\ ResultRun(a, run) = Popped(b))
      BY <2>1, <3>4 DEF ResultRun
    <3>9. run.label \in Imports => (ExportOpen(Popped(b)) <=> ExportOpen(b))
      BY <3>1, <3>3, <3>7, TopExports
    <3>10. QED
      BY <3>5, <3>8, <3>9
  <2>2. CASE ~TopHasLabel(a, run.label) /\ run.label \in Imports
    <3> DEFINE c == [NewCrossing(a, "import", run.label)
                       EXCEPT !.results = run.values, !.hasResults = TRUE]
    <3>1. ResultRun(a, run) = Appended(a, c) /\ c.kind = "import"
      BY <2>2 DEF ResultRun, NewCrossing
    <3> HIDE DEF c
    <3>2. QED
      BY <3>1, ImportExports
  <2>3. CASE ~TopHasLabel(a, run.label) /\ run.label \notin Imports
    BY <1>3, <2>3 DEF ResultRun
  <2>4. QED
    BY <2>1, <2>2, <2>3
<1>6. QED
  BY <1>4, <1>5

LEMMA CloseRunExports ==
  ASSUME NEW a, Sound(a)
  PROVE  ExportOpen(closeRun(a)) <=> ExportOpen(a)
<1> DEFINE run == a.pending
           z == [a EXCEPT !.pending = NoRun]
           b == closeDanglingImports(z, ContinuedBy(run), FALSE)
<1>1. CASE run = NoRun
  BY <1>1 DEF closeRun
<1>2. CASE run # NoRun
  <2>1. run \in Run
    BY <1>2 DEF Sound, Assemblers
  <2>2. Preserved(a, z) /\ z.stack = a.stack /\ z.crossings = a.crossings
    BY PendingKeeps, Zenon DEF Sound, Assemblers
  <2>3. closeRun(a) = IF run.role = "arg" THEN ArgumentRun(b, run) ELSE ResultRun(b, run)
    BY <1>2 DEF closeRun
  <2> HIDE DEF run, z
  <2>4. Sound(z) /\ (ExportOpen(z) <=> ExportOpen(a))
    BY <2>2, PreservedIsSound, SameOpen
  <2>5. ExportOpen(b) <=> ExportOpen(z)
    BY <2>4, DanglingExports, Zenon
  <2>6. Preserved(z, b)
    BY <2>4, DanglingClosed, Zenon DEF Sound
  <2> HIDE DEF b
  <2>7. Sound(b)
    BY <2>6, PreservedIsSound
  <2>8. QED
    BY <2>1, <2>3, <2>4, <2>5, <2>7, RunExports
<1>3. QED
  BY <1>1, <1>2

\* What a finish that succeeds, and one that fails, say of the open calls.
LEMMA FinishOutcome ==
  ASSUME NEW a, Sound(a)
  PROVE  /\ ~finish(a).failed => ~ExportOpen(a)
         /\ finish(a).failed => ExportOpen(a) \/ closeRun(a).failed
<1> DEFINE b == closeRun(a)
           c == closeDanglingImports(b, NoLabel, TRUE)
<1>1. finish(a) = IF b.failed THEN b
                  ELSE IF c.stack # <<>> THEN Fail(c) ELSE noteGroupBoundary(c)
  BY Zenon DEF finish
<1>2. Sound(b)
  BY CloseRunKeeps, PreservedIsSound
<1>3. ExportOpen(b) <=> ExportOpen(a)
  BY CloseRunExports
<1> HIDE DEF b
<1>4. /\ ExportOpen(c) <=> ExportOpen(b)
      /\ c.stack # <<>> => ExportOpen(c)
  BY <1>2, DanglingExports, Zenon
<1>5. Preserved(b, c) /\ SameButStack(b, c)
  BY <1>2, DanglingClosed, Zenon DEF Sound
<1> HIDE DEF c
<1>6. c \in Assemblers /\ c.failed = b.failed
  BY <1>5 DEF Preserved, SameButStack
<1>7. Fail(c).failed
  BY <1>6 DEF Fail, Assemblers
<1>8. noteGroupBoundary(c).failed = c.failed
  BY <1>6 DEF noteGroupBoundary, Assemblers
<1>9. c.stack = <<>> => ~ExportOpen(c)
  BY DEF ExportOpen
<1>10. QED
  BY <1>1, <1>3, <1>4, <1>6, <1>7, <1>8, <1>9 DEF b

\* A new assembler is sound.
LEMMA NewAssemblerSound ==
  /\ Sound(newAssembler)
  /\ Witnessed(newAssembler)
  /\ Settled(newAssembler)
  /\ ~newAssembler.failed
<1> DEFINE a == newAssembler
<1>1. a \in Assemblers
  <2>1. NilHostState \in HostStates
    BY DEF HostStates, NilHostState, EmptyInitial, InitialState
  <2>2. <<>> \in Seq(Exports) /\ <<>> \in Seq(Binding \cup {OtherBinding})
    OBVIOUS
  <2>3. <<>> \in Seq(Crossing) /\ <<>> \in Seq(OpenCrossing) /\ <<>> \in Seq(Nat)
    OBVIOUS
  <2> HIDE DEF NilHostState, HostStates, Crossing, OpenCrossing, Binding, OtherBinding
  <2>4. QED
    BY <2>1, <2>2, <2>3 DEF newAssembler, Assemblers
<1>2. /\ a.crossings = <<>> /\ a.stack = <<>> /\ a.groupEnds = <<>>
      /\ a.groupStart = 0 /\ a.sawImportMarker = FALSE /\ a.failed = FALSE
  BY DEF newAssembler
<1> HIDE DEF a
<1>3. CrossingsNumbered(a) /\ StackNested(a) /\ GroupsDelimited(a)
  <2>1. CrossingsNumbered(a)
    BY <1>2 DEF CrossingsNumbered
  <2>2. StackNested(a)
    BY <1>2 DEF StackNested
  <2>3. GroupsDelimited(a)
    BY <1>2 DEF GroupsDelimited
  <2>4. QED
    BY <2>1, <2>2, <2>3
<1>4. TopsSeparated(a) /\ OpenGroupTop(a) /\ Settled(a)
  BY <1>2 DEF TopsSeparated, OpenGroupTop, Settled
<1>5. Witnessed(a)
  BY <1>2 DEF Witnessed, Bracketed
<1>6. Sound(a) /\ Witnessed(a) /\ Settled(a) /\ ~a.failed
  BY <1>1, <1>2, <1>3, <1>4, <1>5 DEF Sound, Structure
<1>7. QED
  BY <1>6 DEF a
==============================================================================
