---------------------------- MODULE RuntimeProofs ----------------------------
(***************************************************************************)
(* Proofs about the life of module instances, for every finite set of      *)
(* instances and names, any number of callers and closers and every        *)
(* embedding program: first the inductive invariant and that every step of *)
(* a goroutine, a watcher or a context keeps it, then, with the facts on   *)
(* finite sets that only the initial states and the slice need, what       *)
(* follows of it.                                                          *)
(***************************************************************************)
EXTENDS Runtime, TLAPS

Closing == {"set", "delete", "release"}
Calling == {"enter", "run", "leave", "check"}
SweepStages == {"lock", "sweep", "sweep release"}

ModuleStages == {"idle", "register", "attach", "done", "failed"} \cup Closing \cup Calling
CallerStages == {"idle", "done"} \cup Closing \cup Calling
CloserStages == {"idle", "done"} \cup Closing \cup SweepStages

ExitStates == {Open} \cup [code : Nat, flag : {ResourceClosed, ResourceNotClosed}]

Stages == ModuleStages \cup CallerStages \cup CloserStages
Results == [kind : {"none", "ok", "trap", "exit", "closed"}, code : Nat]
ProcStates == [at : Stages, on : Modules \cup {Nil}, stage : {"section", "function"}, code : Nat,
               then : {"done", "failed", "check", "leave"}, result : Results]

Stores == [list : Modules \cup {Nil}, names : [Names -> Modules \cup {Nil}], allocated : BOOLEAN, cap : Nat]

\* The types of the state.
TypeOK ==
  /\ program \in Programs
  /\ runtimeClosed \in BOOLEAN
  /\ store \in Stores
  /\ mux \in BOOLEAN
  /\ next \in [Modules -> Modules \cup {Nil}]
  /\ prev \in [Modules -> Modules \cup {Nil}]
  /\ exit \in [Modules -> ExitStates]
  /\ resources \in [Modules -> SUBSET {"fs", "notifier", "code"}]
  /\ proc \in [Goroutines -> ProcStates]
  /\ cancelled \in [Goroutines -> Nat]
  /\ watcher \in [Watchers -> [at : {"none", "watching", "decided", "delete", "gone"}, stop : BOOLEAN]]

\* Where a goroutine is, and the instance it is on.  An instance someone is on
\* has left "idle", so that nobody closes one before its instantiation begins.
GoroutineInv(p) ==
  /\ p \in Modules => /\ On(p) = p
                      /\ proc[p].at \in ModuleStages
                      /\ proc[p].stage = "function" => proc[p].at \notin {"idle", "register", "attach"}
                      /\ At(p, "idle") => IsOpen(p)
  /\ p \in Callers => /\ proc[p].at \in CallerStages
                      /\ proc[p].then # "failed"
                      /\ ~At(p, "idle") => On(p) \in Modules /\ ~At(On(p), "idle")
  /\ p \in Closers => /\ proc[p].at \in CloserStages
                      /\ proc[p].then = "done"
                      /\ proc[p].at \in Closing \cup {"sweep release"} => On(p) \in Modules /\ ~At(On(p), "idle")
  /\ At(p, "idle") => proc[p].result = NoResult
  /\ proc[p].at \in {"delete", "release", "sweep release"} => ~IsOpen(On(p))

WatcherInv(w) ==
  /\ ~Watches(w, "none") => ~At(w[1], "idle")
  /\ Watches(w, "delete") => ~IsOpen(On(w[1]))

ProcInv == /\ \A p \in Goroutines : GoroutineInv(p)
           /\ \A w \in Watchers : WatcherInv(w)

\* One sweep at the most, under the mux, and the name map is gone after it.
MuxInv ==
  /\ mux = \E p \in Closers : proc[p].at \in {"sweep", "sweep release"}
  /\ \A p, r \in Closers : proc[p].at \in SweepStages /\ proc[r].at \in SweepStages => p = r
  /\ Sweeping => runtimeClosed
  /\ store.allocated = (~runtimeClosed \/ Sweeping)

\* The list is q[1], ..., q[n], doubly linked; what is not in it has no links.
In(m, n, q) == \E i \in 1..n : q[i] = m

Linked(n, q) ==
  /\ n \in Nat
  /\ q \in [1..n -> Modules]
  /\ \A i, j \in 1..n : q[i] = q[j] => i = j
  /\ store.list = IF n = 0 THEN Nil ELSE q[1]
  /\ \A i \in 1..n : next[q[i]] = IF i = n THEN Nil ELSE q[i + 1]
  /\ \A i \in 1..n : prev[q[i]] = IF i = 1 THEN Nil ELSE q[i - 1]
  /\ \A m \in Modules : ~In(m, n, q) => next[m] = Nil /\ prev[m] = Nil

\* It holds registered instances only, and all of those that are open.
Holds(n, q) ==
  /\ \A m \in Modules : In(m, n, q) => Registered(m)
  /\ \A m \in Modules : Registered(m) /\ IsOpen(m) => In(m, n, q)

Named(n, q) == \A k \in Bound(store.names) : In(store.names[k], n, q) /\ Name[store.names[k]] = k

\* A sweep has closed what it has passed.
Passed(n, q, i) == \A j \in 1..i : ~IsOpen(q[j])

Swept(n, q) ==
  \A p \in Closers :
    /\ At(p, "sweep") => \E i \in 0..n : /\ On(p) = IF i = n THEN Nil ELSE q[i + 1]
                                         /\ Passed(n, q, i)
    /\ At(p, "sweep release") => \E i \in 1..n : On(p) = q[i] /\ Passed(n, q, i)

Registry(n, q) == Linked(n, q) /\ Holds(n, q) /\ Named(n, q) /\ Swept(n, q)

RegistryInv ==
  /\ store.allocated => \E n \in Nat : \E q \in [1..n -> Modules] : Registry(n, q)
  /\ ~store.allocated => /\ store.list = Nil
                         /\ Bound(store.names) = {}
                         /\ store.cap = 0
                         /\ \A m \in Modules : Registered(m) => ~IsOpen(m)

\* Files outlive a close only until the winner of the close, or the next check
\* of the exit code, lets them go.
Reported(p) ==
  /\ ~IsOpen(On(p))
  /\ proc[p].result.code = exit[On(p)].code
  /\ "fs" \notin resources[On(p)] \/ Releasing(On(p))

ResourceInv ==
  /\ \A m \in Modules : exit[m].flag = ResourceClosed => "fs" \notin resources[m] \/ Releasing(m)
  /\ \A p \in Modules \cup Callers : proc[p].result.kind = "closed" => Reported(p)

IInv == TypeOK /\ ProcInv /\ MuxInv /\ RegistryInv /\ ResourceInv
-----------------------------------------------------------------------------
(* What registering and deleting do to the list. *)

Prepend(m, n, q) == [i \in 1..(n + 1) |-> IF i = 1 THEN m ELSE q[i - 1]]
Without(j, n, q) == [i \in 1..(n - 1) |-> IF i < j THEN q[i] ELSE q[i + 1]]

LEMMA RegisterLinks ==
  ASSUME TypeOK, NEW m \in Modules, NEW n \in Nat, NEW q \in [1..n -> Modules], Linked(n, q),
         ~In(m, n, q), registerModule(m)
  PROVE  /\ Prepend(m, n, q) \in [1..(n + 1) -> Modules]
         /\ Linked(n + 1, Prepend(m, n, q))'
         /\ \A x \in Modules : In(x, n + 1, Prepend(m, n, q)) <=> x = m \/ In(x, n, q)
<1> DEFINE t == Prepend(m, n, q)
<1>1. /\ t \in [1..(n + 1) -> Modules]
      /\ t[1] = m
      /\ \A i \in 2..(n + 1) : t[i] = q[i - 1] /\ i - 1 \in 1..n
      /\ \A i \in 1..n : t[i + 1] = q[i] /\ i + 1 \in 2..(n + 1)
  BY DEF Prepend
<1>2. /\ store'.list = m
      /\ \A x \in Modules : next'[x] = IF x = m THEN store.list ELSE next[x]
      /\ \A x \in Modules : prev'[x] = IF x = store.list THEN m ELSE prev[x]
  BY DEF registerModule, TypeOK
<1> HIDE DEF t
<1>3. ASSUME NEW x \in Modules PROVE In(x, n + 1, t) <=> x = m \/ In(x, n, q)
  <2>1. ASSUME In(x, n + 1, t), x # m PROVE In(x, n, q)
    <3>1. PICK i \in 1..(n + 1) : t[i] = x
      BY <2>1 DEF In
    <3>2. i \in 2..(n + 1)
      BY <1>1, <2>1, <3>1
    <3> QED BY <1>1, <3>1, <3>2 DEF In
  <2>2. ASSUME x = m PROVE In(x, n + 1, t)
    BY <1>1, <2>2 DEF In
  <2>3. ASSUME In(x, n, q) PROVE In(x, n + 1, t)
    <3>1. PICK i \in 1..n : q[i] = x
      BY <2>3 DEF In
    <3>2. i + 1 \in 1..(n + 1) /\ t[i + 1] = x
      BY <1>1, <3>1
    <3> QED BY <3>2 DEF In
  <2> QED BY <2>1, <2>2, <2>3
<1>4. \A i \in 1..n : q[i] # m
  BY DEF In
<1>5. \A i, j \in 1..(n + 1) : t[i] = t[j] => i = j
  <2> SUFFICES ASSUME NEW i \in 1..(n + 1), NEW j \in 1..(n + 1), t[i] = t[j] PROVE i = j
    OBVIOUS
  <2>1. CASE i = 1
    BY <1>1, <1>4, <2>1
  <2>2. CASE j = 1
    BY <1>1, <1>4, <2>2
  <2>3. CASE i # 1 /\ j # 1
    <3>1. i \in 2..(n + 1) /\ j \in 2..(n + 1)
      BY <2>3
    <3>2. q[i - 1] = q[j - 1] /\ i - 1 \in 1..n /\ j - 1 \in 1..n
      BY <1>1, <3>1
    <3>3. i - 1 = j - 1
      BY <3>2 DEF Linked
    <3> QED BY <3>3
  <2> QED BY <2>1, <2>2, <2>3
<1>6. ASSUME NEW i \in 1..(n + 1) PROVE next'[t[i]] = IF i = n + 1 THEN Nil ELSE t[i + 1]
  <2>1. CASE i = 1
    <3>1. next'[t[i]] = store.list
      BY <1>1, <1>2, <2>1
    <3>2. n # 0 => t[2] = q[1]
      BY <1>1
    <3> QED BY <2>1, <3>1, <3>2 DEF Linked
  <2>2. CASE i # 1
    <3>1. i \in 2..(n + 1) /\ i - 1 \in 1..n /\ t[i] = q[i - 1]
      BY <1>1, <2>2
    <3>2. t[i] \in Modules /\ t[i] # m
      BY <1>4, <3>1
    <3>3. next'[t[i]] = next[q[i - 1]]
      BY <1>2, <3>1, <3>2
    <3>4. next[q[i - 1]] = IF i - 1 = n THEN Nil ELSE q[(i - 1) + 1]
      BY <3>1 DEF Linked
    <3>5. i # n + 1 => i \in 1..n /\ t[i + 1] = q[i]
      BY <1>1
    <3> QED BY <3>3, <3>4, <3>5
  <2> QED BY <2>1, <2>2
<1>7. ASSUME NEW i \in 1..(n + 1) PROVE prev'[t[i]] = IF i = 1 THEN Nil ELSE t[i - 1]
  <2>1. CASE i = 1
    <3>1. m # store.list
      BY <1>4, RuntimeAssumption DEF Linked
    <3>2. prev[m] = Nil
      BY DEF Linked
    <3> QED BY <1>1, <1>2, <2>1, <3>1, <3>2
  <2>2. CASE i = 2
    <3>1. 1 \in 1..n /\ t[2] = q[1] /\ store.list = q[1]
      BY <1>1, <2>2 DEF Linked
    <3> QED BY <1>1, <1>2, <2>2, <3>1
  <2>3. CASE i > 2
    <3>1. i - 1 \in 1..n /\ 1 \in 1..n /\ t[i] = q[i - 1] /\ i - 1 # 1
      BY <1>1, <2>3
    <3>2. q[i - 1] # q[1] /\ store.list = q[1]
      BY <3>1 DEF Linked
    <3>3. prev'[t[i]] = prev[q[i - 1]]
      BY <1>2, <3>1, <3>2
    <3>4. prev[q[i - 1]] = q[(i - 1) - 1]
      BY <3>1 DEF Linked
    <3>5. i - 1 \in 2..(n + 1) /\ t[i - 1] = q[(i - 1) - 1]
      BY <1>1, <2>3
    <3> QED BY <2>3, <3>3, <3>4, <3>5
  <2> QED BY <2>1, <2>2, <2>3
<1>8. ASSUME NEW x \in Modules, ~In(x, n + 1, t) PROVE next'[x] = Nil /\ prev'[x] = Nil
  <2>1. x # m /\ ~In(x, n, q)
    BY <1>3, <1>8
  <2>2. x # store.list
    BY <2>1, RuntimeAssumption DEF Linked, In
  <2> QED BY <1>2, <2>1, <2>2 DEF Linked
<1>9. store'.list = IF n + 1 = 0 THEN Nil ELSE t[1]
  BY <1>1, <1>2
<1>10. Linked(n + 1, t)'
  BY <1>1, <1>5, <1>6, <1>7, <1>8, <1>9 DEF Linked
<1> QED BY <1>1, <1>3, <1>10 DEF t

LEMMA DeleteLinks ==
  ASSUME TypeOK, NEW m \in Modules, NEW n \in Nat, NEW q \in [1..n -> Modules], Linked(n, q),
         deleteModule(m)
  PROVE  \E k \in Nat : \E t \in [1..k -> Modules] :
           Linked(k, t)' /\ \A x \in Modules : In(x, k, t) <=> In(x, n, q) /\ x # m
<1>1. /\ store'.list = IF store.list = m THEN next[m] ELSE store.list
      /\ \A x \in Modules : next'[x] = IF x = m THEN Nil ELSE IF x = prev[m] THEN next[m] ELSE next[x]
      /\ \A x \in Modules : prev'[x] = IF x = m THEN Nil ELSE IF x = next[m] THEN prev[m] ELSE prev[x]
  BY DEF deleteModule, Unlink, ReleaseName, TypeOK
<1>2. CASE ~In(m, n, q)
  <2>1. next[m] = Nil /\ prev[m] = Nil
    BY <1>2 DEF Linked
  <2>2. store.list # m
    BY <1>2, RuntimeAssumption DEF Linked, In
  <2>3. \A x \in Modules : next'[x] = next[x] /\ prev'[x] = prev[x]
    BY <1>1, <2>1, RuntimeAssumption
  <2>4. Linked(n, q)'
    <3>1. store'.list = IF n = 0 THEN Nil ELSE q[1]
      BY <1>1, <2>2 DEF Linked
    <3>2. ASSUME NEW i \in 1..n PROVE /\ next'[q[i]] = IF i = n THEN Nil ELSE q[i + 1]
                                      /\ prev'[q[i]] = IF i = 1 THEN Nil ELSE q[i - 1]
      BY <2>3 DEF Linked
    <3>3. \A x \in Modules : ~In(x, n, q) => next'[x] = Nil /\ prev'[x] = Nil
      BY <2>3 DEF Linked
    <3>4. \A i, j \in 1..n : q[i] = q[j] => i = j
      BY DEF Linked
    <3> QED BY <3>1, <3>2, <3>3, <3>4, Zenon DEF Linked
  <2> QED BY <1>2, <2>4
<1>3. CASE In(m, n, q)
  <2>1. PICK j \in 1..n : q[j] = m
    BY <1>3 DEF In
  <2> DEFINE t == Without(j, n, q)
  <2>2. /\ n - 1 \in Nat
        /\ t \in [1..(n - 1) -> Modules]
        /\ \A i \in 1..(n - 1) : i < j => t[i] = q[i]
        /\ \A i \in 1..(n - 1) : i >= j => t[i] = q[i + 1]
        /\ \A i \in 1..(n - 1) : i \in 1..n /\ i + 1 \in 1..n
    BY DEF Without
  <2> HIDE DEF t
  <2>3. \A i, k \in 1..n : q[i] = q[k] => i = k
    BY DEF Linked
  <2>4. /\ next[m] = IF j = n THEN Nil ELSE q[j + 1]
        /\ prev[m] = IF j = 1 THEN Nil ELSE q[j - 1]
    BY <2>1 DEF Linked
  <2>5. ASSUME NEW x \in Modules PROVE In(x, n - 1, t) <=> In(x, n, q) /\ x # m
    <3>1. ASSUME In(x, n - 1, t) PROVE In(x, n, q) /\ x # m
      <4>1. PICK i \in 1..(n - 1) : t[i] = x
        BY <3>1 DEF In
      <4>2. CASE i < j
        BY <2>1, <2>2, <2>3, <4>1, <4>2 DEF In
      <4>3. CASE i >= j
        BY <2>1, <2>2, <2>3, <4>1, <4>3 DEF In
      <4> QED BY <4>2, <4>3
    <3>2. ASSUME In(x, n, q), x # m PROVE In(x, n - 1, t)
      <4>1. PICK i \in 1..n : q[i] = x
        BY <3>2 DEF In
      <4>2. CASE i < j
        <5>1. i \in 1..(n - 1) /\ t[i] = x
          BY <2>2, <4>1, <4>2
        <5> QED BY <5>1 DEF In
      <4>3. CASE i > j
        <5>1. i - 1 \in 1..(n - 1) /\ i - 1 >= j /\ (i - 1) + 1 = i
          BY <4>3
        <5>2. t[i - 1] = x
          BY <2>2, <4>1, <5>1
        <5> QED BY <5>1, <5>2 DEF In
      <4> QED BY <2>1, <3>2, <4>1, <4>2, <4>3
    <3> QED BY <3>1, <3>2
  <2>6. \A i, k \in 1..(n - 1) : t[i] = t[k] => i = k
    <3> SUFFICES ASSUME NEW i \in 1..(n - 1), NEW k \in 1..(n - 1), t[i] = t[k] PROVE i = k
      OBVIOUS
    <3>1. CASE i < j /\ k < j
      BY <2>2, <2>3, <3>1
    <3>2. CASE i >= j /\ k >= j
      BY <2>2, <2>3, <3>2
    <3>3. CASE i < j /\ k >= j
      BY <2>2, <2>3, <3>3
    <3>4. CASE i >= j /\ k < j
      BY <2>2, <2>3, <3>4
    <3> QED BY <3>1, <3>2, <3>3, <3>4
  <2>7. store'.list = IF n - 1 = 0 THEN Nil ELSE t[1]
    <3>1. CASE j = 1
      <4>1. store.list = m
        BY <2>1, <3>1 DEF Linked
      <4>2. n - 1 # 0 => t[1] = q[2]
        BY <2>2, <3>1
      <4> QED BY <1>1, <2>4, <3>1, <4>1, <4>2
    <3>2. CASE j # 1
      <4>1. 1 \in 1..n /\ 1 \in 1..(n - 1) /\ 1 < j /\ store.list = q[1]
        BY <3>2 DEF Linked
      <4>2. q[1] # m /\ t[1] = q[1]
        BY <2>1, <2>2, <2>3, <4>1
      <4> QED BY <1>1, <4>1, <4>2
    <3> QED BY <3>1, <3>2
  <2>8. ASSUME NEW i \in 1..(n - 1) PROVE next'[t[i]] = IF i = n - 1 THEN Nil ELSE t[i + 1]
    <3>1. CASE i < j - 1
      <4>1. /\ t[i] = q[i] /\ t[i + 1] = q[i + 1] /\ i # n - 1
            /\ i \in 1..n /\ i # n /\ i # j /\ j - 1 \in 1..n /\ i # j - 1 /\ j # 1
        BY <2>2, <3>1
      <4>2. q[i] # m /\ q[i] # prev[m]
        BY <2>1, <2>3, <2>4, <4>1
      <4>3. next[q[i]] = q[i + 1]
        BY <4>1 DEF Linked
      <4> QED BY <1>1, <4>1, <4>2, <4>3
    <3>2. CASE i = j - 1
      <4>1. t[i] = q[i] /\ i \in 1..n /\ i # j /\ prev[m] = q[i]
        BY <2>2, <2>4, <3>2
      <4>2. q[i] # m
        BY <2>1, <2>3, <4>1
      <4>3. next'[t[i]] = next[m]
        BY <1>1, <4>1, <4>2
      <4>4. i # n - 1 => t[i + 1] = q[j + 1]
        BY <2>2, <3>2
      <4> QED BY <2>4, <3>2, <4>3, <4>4
    <3>3. CASE i >= j
      <4>1. /\ t[i] = q[i + 1] /\ i + 1 \in 1..n /\ i + 1 # j
            /\ j # 1 => j - 1 \in 1..n /\ i + 1 # j - 1
            /\ i # n - 1 => t[i + 1] = q[(i + 1) + 1]
        BY <2>2, <3>3
      <4>2. q[i + 1] # m /\ q[i + 1] # prev[m] /\ q[i + 1] \in Modules
        BY <2>1, <2>3, <2>4, <4>1, RuntimeAssumption
      <4>3. next[q[i + 1]] = IF i + 1 = n THEN Nil ELSE q[(i + 1) + 1]
        BY <4>1 DEF Linked
      <4> QED BY <1>1, <4>1, <4>2, <4>3
    <3> QED BY <3>1, <3>2, <3>3
  <2>9. ASSUME NEW i \in 1..(n - 1) PROVE prev'[t[i]] = IF i = 1 THEN Nil ELSE t[i - 1]
    <3>1. CASE i < j
      <4>1. /\ t[i] = q[i] /\ i \in 1..n /\ i # j
            /\ j # n => j + 1 \in 1..n /\ i # j + 1
            /\ i # 1 => t[i - 1] = q[i - 1]
        BY <2>2, <3>1
      <4>2. q[i] # m /\ q[i] # next[m] /\ q[i] \in Modules
        BY <2>1, <2>3, <2>4, <4>1, RuntimeAssumption
      <4>3. prev[q[i]] = IF i = 1 THEN Nil ELSE q[i - 1]
        BY <4>1 DEF Linked
      <4> QED BY <1>1, <4>1, <4>2, <4>3
    <3>2. CASE i = j
      <4>1. t[i] = q[j + 1] /\ j + 1 \in 1..n /\ next[m] = q[j + 1]
        BY <2>2, <2>4, <3>2
      <4>2. q[j + 1] # m /\ q[j + 1] \in Modules
        BY <2>1, <2>3, <4>1
      <4>3. prev'[t[i]] = prev[m]
        BY <1>1, <4>1, <4>2
      <4>4. i # 1 => t[i - 1] = q[j - 1]
        BY <2>2, <3>2
      <4> QED BY <2>4, <3>2, <4>3, <4>4
    <3>3. CASE i > j
      <4>1. /\ t[i] = q[i + 1] /\ i + 1 \in 1..n /\ i + 1 # j /\ i # 1
            /\ j # n => j + 1 \in 1..n /\ i + 1 # j + 1
            /\ t[i - 1] = q[(i - 1) + 1] /\ (i - 1) + 1 = i
        BY <2>2, <3>3
      <4>2. q[i + 1] # m /\ q[i + 1] # next[m] /\ q[i + 1] \in Modules
        BY <2>1, <2>3, <2>4, <4>1, RuntimeAssumption
      <4>3. prev[q[i + 1]] = q[(i + 1) - 1] /\ (i + 1) - 1 = i
        BY <4>1 DEF Linked
      <4> QED BY <1>1, <4>1, <4>2, <4>3
    <3> QED BY <3>1, <3>2, <3>3
  <2>10. ASSUME NEW x \in Modules, ~In(x, n - 1, t) PROVE next'[x] = Nil /\ prev'[x] = Nil
    <3>1. CASE x = m
      BY <1>1, <3>1
    <3>2. CASE x # m
      <4>1. ~In(x, n, q)
        BY <2>5, <2>10, <3>2
      <4>2. next[x] = Nil /\ prev[x] = Nil
        BY <4>1 DEF Linked
      <4>3. x # prev[m]
        <5>1. j # 1 => j - 1 \in 1..n
          OBVIOUS
        <5> QED BY <2>4, <4>1, <5>1, RuntimeAssumption DEF In
      <4>4. x # next[m]
        <5>1. j # n => j + 1 \in 1..n
          OBVIOUS
        <5> QED BY <2>4, <4>1, <5>1, RuntimeAssumption DEF In
      <4> QED BY <1>1, <3>2, <4>2, <4>3, <4>4
    <3> QED BY <3>1, <3>2
  <2>11. Linked(n - 1, t)'
    BY <2>2, <2>6, <2>7, <2>8, <2>9, <2>10 DEF Linked
  <2> QED BY <2>2, <2>5, <2>11
<1> QED BY <1>2, <1>3
-----------------------------------------------------------------------------
(* What a step leaves alone. *)

\* Only goroutine p moves.
Moves(p) == \A x \in Goroutines : x # p => proc'[x] = proc[x]

\* An exit code, once it is there, stays.
ExitKept == \A m \in Modules : ~IsOpen(m) => exit'[m] = exit[m]

\* Nobody closes an instance that is still idle.
IdleKept == \A m \in Modules : exit'[m] # exit[m] => ~At(m, "idle")

LEMMA Disjoint ==
  /\ \A x : ~(x \in Modules /\ x \in Callers) /\ ~(x \in Modules /\ x \in Closers) /\ ~(x \in Callers /\ x \in Closers)
  /\ Nil \notin Modules
BY RuntimeAssumption

LEMMA WatcherOwner ==
  ASSUME NEW w \in Watchers
  PROVE  w[1] \in Modules \cup Callers /\ w[1] \in Goroutines /\ w[1] \notin Closers
<1>1. w[1] \in Modules \cup Callers
  BY DEF Watchers
<1> QED BY <1>1, Disjoint DEF Goroutines

LEMMA SetExit ==
  ASSUME TypeOK, NEW m \in Modules, NEW c \in Nat, NEW f \in {ResourceClosed, ResourceNotClosed},
         setExitCode(m, c, f)
  PROVE  /\ exit' \in [Modules -> ExitStates]
         /\ ExitKept
         /\ exit'[m] # Open
         /\ \A x \in Modules : x # m => exit'[x] = exit[x]
         /\ IsOpen(m) => exit'[m] = [code |-> c, flag |-> f]
BY Zenon DEF TypeOK, setExitCode, ExitKept, IsOpen, ExitStates, Open, ResourceClosed, ResourceNotClosed

\* The instance of a goroutine that is on one.
LEMMA OnModule ==
  ASSUME TypeOK, ProcInv, NEW p \in Goroutines
  PROVE  /\ p \in Modules => On(p) = p
         /\ p \in Callers /\ ~At(p, "idle") => On(p) \in Modules /\ ~At(On(p), "idle")
         /\ proc[p].at \in Closing \cup Calling \cup {"sweep release"} => On(p) \in Modules /\ ~At(On(p), "idle")
<1>1. GoroutineInv(p)
  BY DEF ProcInv
<1>2. p \in Modules \/ p \in Callers \/ p \in Closers
  BY DEF Goroutines
<1> QED BY <1>1, <1>2, Zenon DEF GoroutineInv, At, On, Closing, Calling, CloserStages, SweepStages

LEMMA ProcMoves ==
  ASSUME TypeOK, TypeOK', ProcInv, NEW p \in Goroutines, Moves(p), ExitKept, IdleKept,
         GoroutineInv(p)', ~At(p, "idle")',
         p \notin Closers /\ ~At(p, "idle") => On(p)' = On(p),
         \A w \in Watchers : watcher'[w].at = watcher[w].at \/ (w[1] = p /\ watcher'[w].at = "watching")
  PROVE  ProcInv'
<1>1. ASSUME NEW x \in Goroutines, x # p PROVE GoroutineInv(x)'
  <2>1. proc'[x] = proc[x] /\ GoroutineInv(x)
    BY <1>1 DEF Moves, ProcInv
  <2>2. \A m \in Modules : ~At(m, "idle") => ~At(m, "idle")'
    BY DEF Moves, At, Goroutines
  <2>3. x \in Modules => (At(x, "idle")' => IsOpen(x)')
    BY <2>1, Zenon DEF GoroutineInv, At, IsOpen, IdleKept
  <2>4. (proc[x].at \in {"delete", "release", "sweep release"} => ~IsOpen(On(x)))'
    BY <2>1, OnModule, Zenon DEF GoroutineInv, On, IsOpen, ExitKept, Closing
  <2> QED BY <2>1, <2>2, <2>3, <2>4, Zenon DEF GoroutineInv, At, On
<1>2. ASSUME NEW w \in Watchers PROVE WatcherInv(w)'
  <2>1. WatcherInv(w) /\ w[1] \in Modules \cup Callers /\ w[1] \in Goroutines /\ w[1] \notin Closers
    BY WatcherOwner DEF ProcInv
  <2>2. CASE w[1] = p /\ watcher'[w].at = "watching"
    BY <2>2 DEF WatcherInv, Watches
  <2>3. CASE watcher'[w].at = watcher[w].at
    <3>1. ~Watches(w, "none") => ~At(w[1], "idle")
      BY <2>1 DEF WatcherInv
    <3>2. ~At(w[1], "idle") => ~At(w[1], "idle")' /\ On(w[1])' = On(w[1])
      BY <2>1 DEF Moves, At, On
    <3>3. ~At(w[1], "idle") => On(w[1]) \in Modules
      BY <2>1, OnModule, Zenon
    <3> QED BY <2>1, <2>3, <3>1, <3>2, <3>3 DEF WatcherInv, Watches, IsOpen, ExitKept
  <2> QED BY <2>2, <2>3
<1> QED BY <1>1, <1>2 DEF ProcInv

LEMMA ProcStays ==
  ASSUME TypeOK, ProcInv, proc' = proc, ExitKept, IdleKept,
         \A w \in Watchers : watcher'[w].at # watcher[w].at =>
                               watcher[w].at # "none" /\ (watcher'[w].at = "delete" => ~IsOpen(On(w[1]))')
  PROVE  ProcInv'
<1>1. ASSUME NEW x \in Goroutines PROVE GoroutineInv(x)'
  <2>1. GoroutineInv(x)
    BY DEF ProcInv
  <2>2. x \in Modules => (At(x, "idle")' => IsOpen(x)')
    BY <2>1 DEF GoroutineInv, At, IsOpen, IdleKept
  <2>3. (proc[x].at \in {"delete", "release", "sweep release"} => ~IsOpen(On(x)))'
    BY <2>1, OnModule, Zenon DEF GoroutineInv, On, IsOpen, ExitKept, Closing
  <2> QED BY <2>1, <2>2, <2>3, Zenon DEF GoroutineInv, At, On
<1>2. ASSUME NEW w \in Watchers PROVE WatcherInv(w)'
  <2>1. WatcherInv(w) /\ w[1] \in Modules \cup Callers /\ w[1] \in Goroutines
    BY WatcherOwner DEF ProcInv
  <2>2. ~At(w[1], "idle") => On(w[1]) \in Modules
    BY <2>1, OnModule, Zenon
  <2>3. At(w[1], "idle")' = At(w[1], "idle") /\ On(w[1])' = On(w[1])
    BY DEF At, On
  <2> QED BY <2>1, <2>2, <2>3 DEF WatcherInv, Watches, IsOpen, ExitKept
<1> QED BY <1>1, <1>2 DEF ProcInv

LEMMA MuxFrame ==
  ASSUME MuxInv, runtimeClosed' = runtimeClosed, mux' = mux, store'.allocated = store.allocated,
         \A p \in Closers : /\ proc'[p].at \in SweepStages <=> proc[p].at \in SweepStages
                            /\ proc'[p].at = "lock" <=> proc[p].at = "lock"
  PROVE  MuxInv'
<1>1. \A p \in Closers : proc'[p].at \in {"sweep", "sweep release"} <=> proc[p].at \in {"sweep", "sweep release"}
  BY Zenon DEF SweepStages
<1>2. Sweeping' <=> Sweeping
  BY Zenon DEF Sweeping, SweepStages
<1>3. (\E p \in Closers : proc[p].at \in {"sweep", "sweep release"})'
        <=> \E p \in Closers : proc[p].at \in {"sweep", "sweep release"}
  BY <1>1, Zenon
<1> QED BY <1>2, <1>3, Zenon DEF MuxInv

LEMMA RegistryFrame ==
  ASSUME TypeOK, RegistryInv, UNCHANGED registry, ExitKept,
         \A m \in Modules : Registered(m)' <=> Registered(m),
         \A p \in Closers : proc'[p].at \in {"sweep", "sweep release"} => proc'[p] = proc[p]
  PROVE  RegistryInv'
<1> USE DEF registry
<1>1. \A m \in Modules : IsOpen(m)' => IsOpen(m)
  BY Zenon DEF ExitKept, IsOpen
<1>2. CASE store.allocated
  <2>0. PICK n \in Nat : \E q \in [1..n -> Modules] : Registry(n, q)
    BY <1>2, Zenon DEF RegistryInv
  <2>1. PICK q \in [1..n -> Modules] : Registry(n, q)
    BY <2>0, Zenon
  <2>2. Linked(n, q)'
    BY <2>1, Zenon DEF Registry, Linked
  <2>3. Holds(n, q)'
    BY <1>1, <2>1, Zenon DEF Registry, Holds
  <2>4. Named(n, q)'
    BY <2>1, Zenon DEF Registry, Named, Bound
  <2>5. \A i \in 0..n : Passed(n, q, i) => Passed(n, q, i)'
    <3> SUFFICES ASSUME NEW i \in 0..n, Passed(n, q, i), NEW j \in 1..i PROVE ~IsOpen(q[j])'
      BY Zenon DEF Passed
    <3>1. j \in 1..n
      BY ONLY n \in Nat, i \in 0..n, j \in 1..i
    <3>2. q[j] \in Modules /\ ~IsOpen(q[j])
      BY <3>1, Zenon DEF Passed
    <3> QED BY <3>2, Zenon DEF IsOpen, ExitKept
  <2>6. Swept(n, q)'
    <3> SUFFICES ASSUME NEW p \in Closers
                 PROVE  /\ (At(p, "sweep") => \E i \in 0..n : /\ On(p) = IF i = n THEN Nil ELSE q[i + 1]
                                                              /\ Passed(n, q, i))'
                        /\ (At(p, "sweep release") => \E i \in 1..n : On(p) = q[i] /\ Passed(n, q, i))'
      BY Zenon DEF Swept
    <3>1. /\ At(p, "sweep") => \E i \in 0..n : On(p) = (IF i = n THEN Nil ELSE q[i + 1]) /\ Passed(n, q, i)
          /\ At(p, "sweep release") => \E i \in 1..n : On(p) = q[i] /\ Passed(n, q, i)
      BY <2>1, Zenon DEF Registry, Swept
    <3>2. \A i \in 1..n : i \in 0..n
      BY ONLY n \in Nat
    <3>3. ASSUME At(p, "sweep")' PROVE (\E i \in 0..n : On(p) = (IF i = n THEN Nil ELSE q[i + 1]) /\ Passed(n, q, i))'
      <4>1. At(p, "sweep") /\ On(p)' = On(p)
        BY <3>3, Zenon DEF At, On
      <4> QED BY <2>5, <3>1, <4>1, Zenon
    <3>4. ASSUME At(p, "sweep release")' PROVE (\E i \in 1..n : On(p) = q[i] /\ Passed(n, q, i))'
      <4>1. At(p, "sweep release") /\ On(p)' = On(p)
        BY <3>4, Zenon DEF At, On
      <4> QED BY <2>5, <3>1, <3>2, <4>1, Zenon
    <3> QED BY <3>3, <3>4, Zenon
  <2> QED BY <1>2, <2>2, <2>3, <2>4, <2>6, Zenon DEF RegistryInv, Registry
<1>3. CASE ~store.allocated
  BY <1>1, <1>3, Zenon DEF RegistryInv, Bound
<1> QED BY <1>2, <1>3, Zenon

LEMMA ReleasingMoves ==
  ASSUME TypeOK, TypeOK', NEW p \in Goroutines, Moves(p),
         \/ proc[p].at \notin {"delete", "release", "sweep release"}
         \/ proc'[p].at \in {"delete", "release", "sweep release"} /\ On(p)' = On(p)
         \/ On(p) \in Modules /\ "fs" \notin resources'[On(p)],
         NEW m \in Modules, Releasing(m)
  PROVE  Releasing(m)' \/ "fs" \notin resources'[m]
<1>1. PICK x \in Goroutines : On(x) = m /\ proc[x].at \in {"delete", "release", "sweep release"}
  BY Zenon DEF Releasing
<1>2. CASE x = p
  BY <1>1, <1>2, Zenon DEF Releasing, On
<1>3. CASE x # p
  BY <1>1, <1>3, Zenon DEF Releasing, On, Moves
<1> QED BY <1>2, <1>3, Zenon

LEMMA ResourceFrame ==
  ASSUME TypeOK, TypeOK', ProcInv, ResourceInv, ExitKept,
         \A m \in Modules : "fs" \in resources'[m] => "fs" \in resources[m] \/ IsOpen(m)',
         \A m \in Modules : Releasing(m) => Releasing(m)' \/ "fs" \notin resources'[m],
         \A m \in Modules : IsOpen(m) /\ exit'[m].flag = ResourceClosed => Releasing(m)',
         \A x \in Modules \cup Callers : proc'[x].result.kind = "closed" =>
             \/ proc'[x].result = proc[x].result /\ On(x)' = On(x)
             \/ Reported(x)'
  PROVE  ResourceInv'
<1>1. ASSUME NEW m \in Modules, ~IsOpen(m), "fs" \notin resources[m] \/ Releasing(m)
      PROVE  "fs" \notin resources'[m] \/ Releasing(m)'
  BY <1>1 DEF ExitKept, IsOpen
<1>2. ASSUME NEW m \in Modules, exit'[m].flag = ResourceClosed PROVE "fs" \notin resources'[m] \/ Releasing(m)'
  <2>1. CASE IsOpen(m)
    BY <1>2, <2>1
  <2>2. CASE ~IsOpen(m)
    <3>1. exit[m].flag = ResourceClosed
      BY <1>2, <2>2 DEF ExitKept
    <3> QED BY <1>1, <2>2, <3>1 DEF ResourceInv
  <2> QED BY <2>1, <2>2
<1>3. ASSUME NEW x \in Modules \cup Callers, proc'[x].result.kind = "closed" PROVE Reported(x)'
  <2>1. CASE Reported(x)'
    BY <2>1
  <2>2. CASE proc'[x].result = proc[x].result /\ On(x)' = On(x)
    <3>1. Reported(x)
      BY <1>3, <2>2 DEF ResourceInv
    <3>2. x \in Goroutines /\ ~At(x, "idle")
      <4>1. x \in Goroutines
        BY DEF Goroutines
      <4>2. At(x, "idle") => proc[x].result = NoResult
        BY <4>1, Zenon DEF ProcInv, GoroutineInv
      <4> QED BY <1>3, <2>2, <4>1, <4>2 DEF NoResult
    <3>3. PICK m \in Modules : m = On(x)
      BY <3>2, OnModule, Zenon
    <3>4. exit'[m] = exit[m] /\ ~IsOpen(m)
      BY <3>1, <3>3 DEF Reported, ExitKept
    <3>5. "fs" \notin resources'[m] \/ Releasing(m)'
      BY <1>1, <3>1, <3>3, <3>4 DEF Reported
    <3>6. proc'[x].result.code = exit[m].code /\ On(x)' = m
      BY <2>2, <3>1, <3>3 DEF Reported
    <3> QED BY <3>4, <3>5, <3>6, Zenon DEF Reported, IsOpen, Releasing
  <2> QED BY <1>3, <2>1, <2>2
<1> QED BY <1>2, <1>3 DEF ResourceInv

\* A goroutine that is not sweeping, and registers nothing, leaves the registry alone.
LEMMA Ordinary ==
  ASSUME IInv, TypeOK', NEW p \in Goroutines, Moves(p), ExitKept, UNCHANGED <<runtimeClosed, mux, registry>>,
         proc[p].at \notin SweepStages, proc'[p].at \notin SweepStages,
         p \in Modules => (Registered(p)' <=> Registered(p))
  PROVE  MuxInv' /\ RegistryInv'
<1>1. \A x \in Closers : x \in Goroutines /\ (x # p => proc'[x] = proc[x])
  BY DEF Goroutines, Moves
<1>2. MuxInv'
  <2>1. store' = store /\ runtimeClosed' = runtimeClosed /\ mux' = mux
    BY DEF registry
  <2>2. \A x \in Closers : /\ proc'[x].at \in SweepStages <=> proc[x].at \in SweepStages
                           /\ proc'[x].at = "lock" <=> proc[x].at = "lock"
    BY <1>1, Zenon DEF SweepStages
  <2> QED BY <2>1, <2>2, MuxFrame DEF IInv
<1>3. RegistryInv'
  <2>1. \A m \in Modules : Registered(m)' <=> Registered(m)
    BY DEF Goroutines, Moves, Registered, At
  <2>2. \A x \in Closers : proc'[x].at \in {"sweep", "sweep release"} => proc'[x] = proc[x]
    BY <1>1, Zenon DEF SweepStages
  <2> QED BY <2>1, <2>2, RegistryFrame, Zenon DEF IInv
<1> QED BY <1>2, <1>3

\* Where goroutine p, at one stage of a call or a close, can be.
LEMMA StageOf ==
  ASSUME IInv, NEW p \in Goroutines
  PROVE  /\ p \in Modules => p \notin Callers /\ p \notin Closers /\ proc[p].at \in ModuleStages
         /\ p \in Callers => p \notin Modules /\ p \notin Closers /\ proc[p].at \in CallerStages
         /\ p \in Closers => p \notin Modules /\ p \notin Callers /\ proc[p].at \in CloserStages /\ proc[p].then = "done"
         /\ p \in Modules \/ p \in Callers \/ p \in Closers
         /\ proc[p] \in ProcStates
BY Disjoint, Zenon DEF IInv, TypeOK, ProcInv, GoroutineInv, Goroutines

LEMMA MoveFacts ==
  ASSUME TypeOK, NEW p \in Goroutines, NEW r \in ProcStates, proc' = [proc EXCEPT ![p] = r]
  PROVE  proc' \in [Goroutines -> ProcStates] /\ Moves(p) /\ proc'[p] = r
BY DEF TypeOK, Moves

LEMMA GotoFacts ==
  ASSUME TypeOK, NEW p \in Goroutines, NEW v \in Stages, Goto(p, v)
  PROVE  /\ proc' \in [Goroutines -> ProcStates]
         /\ Moves(p)
         /\ proc'[p].at = v
         /\ proc'[p].on = proc[p].on /\ proc'[p].stage = proc[p].stage
         /\ proc'[p].code = proc[p].code /\ proc'[p].then = proc[p].then /\ proc'[p].result = proc[p].result
<1> DEFINE r == [proc[p] EXCEPT !.at = v]
<1>1. proc[p] \in ProcStates
  BY DEF TypeOK
<1>2. /\ r \in ProcStates
      /\ r.at = v /\ r.on = proc[p].on /\ r.stage = proc[p].stage
      /\ r.code = proc[p].code /\ r.then = proc[p].then /\ r.result = proc[p].result
  BY <1>1 DEF ProcStates
<1>3. proc' = [proc EXCEPT ![p] = r]
  BY DEF Goto
<1> HIDE DEF r
<1> QED BY <1>2, <1>3, MoveFacts, Zenon

\* Goroutine p, on instance m, is somewhere it may be.
Placed(p, m) ==
  /\ proc[p].on = m
  /\ proc[p].at \notin SweepStages \cup {"idle"}
  /\ p \in Modules => /\ proc[p].at \in ModuleStages
                      /\ proc[p].stage = "function" => proc[p].at \notin {"register", "attach"}
  /\ p \in Callers => proc[p].at \in CallerStages /\ proc[p].then # "failed"
  /\ p \in Closers => proc[p].at \in CloserStages /\ proc[p].then = "done"
  /\ proc[p].at \in {"delete", "release"} => ~IsOpen(m)

LEMMA PlacedInv ==
  ASSUME IInv, TypeOK', NEW p \in Goroutines, NEW m \in Modules, Moves(p),
         Placed(p, m)', p \in Modules => m = p, At(m, "idle") => m = p
  PROVE  GoroutineInv(p)' /\ ~At(p, "idle")'
<1>1. ~At(p, "idle")' /\ proc'[p].at # "idle"
  BY DEF Placed, At
<1>2. ~At(m, "idle")'
  <2>1. CASE m = p
    BY <1>1, <2>1
  <2>2. CASE m # p
    BY <2>2 DEF Moves, At, Goroutines
  <2> QED BY <2>1, <2>2
<1>3. On(p)' = m
  BY DEF Placed, On
<1>4. proc'[p].at # "sweep release"
  BY Zenon DEF Placed, SweepStages
<1>5. (p \in Modules => /\ On(p) = p
                        /\ proc[p].at \in ModuleStages
                        /\ proc[p].stage = "function" => proc[p].at \notin {"idle", "register", "attach"}
                        /\ At(p, "idle") => IsOpen(p))'
  BY <1>1, <1>3 DEF Placed
<1>6. On(p)' \in Modules /\ (~At(On(p), "idle"))'
  BY <1>2, <1>3 DEF At, On
<1>7. (proc[p].at \in {"delete", "release", "sweep release"} => ~IsOpen(On(p)))'
  BY <1>3, <1>4, Zenon DEF Placed, IsOpen, On
<1> QED BY <1>1, <1>5, <1>6, <1>7, Zenon DEF Placed, GoroutineInv

\* A step of goroutine p that is no sweep and registers nothing.
LEMMA OrdinaryStep ==
  ASSUME IInv, TypeOK', NEW p \in Goroutines, NEW m \in Modules, Moves(p), ExitKept, IdleKept,
         UNCHANGED <<runtimeClosed, mux, registry>>,
         Placed(p, m)', p \in Modules => m = p, At(m, "idle") => m = p,
         proc[p].at \notin SweepStages, ~At(p, "idle") => On(p) = m,
         p \in Modules => (Registered(p)' <=> Registered(p)),
         \A w \in Watchers : watcher'[w].at = watcher[w].at \/ (w[1] = p /\ watcher'[w].at = "watching"),
         \A x \in Modules : "fs" \in resources'[x] => "fs" \in resources[x] \/ IsOpen(x)',
         proc[p].at \in {"delete", "release"} => proc'[p].at \in {"delete", "release"} \/ "fs" \notin resources'[m],
         \A x \in Modules : IsOpen(x) /\ exit'[x].flag = ResourceClosed => x = m /\ proc'[p].at = "delete",
         p \notin Closers /\ proc'[p].result.kind = "closed" =>
            Reported(p)' \/ (proc'[p].result = proc[p].result /\ ~At(p, "idle"))
  PROVE  IInv'
<1> USE DEF IInv
<1>1. On(p)' = m /\ proc'[p].at \notin SweepStages
  BY Zenon DEF Placed, On
<1>2. ProcInv'
  <2>1. GoroutineInv(p)' /\ ~At(p, "idle")'
    BY PlacedInv
  <2>2. p \notin Closers /\ ~At(p, "idle") => On(p)' = On(p)
    BY <1>1
  <2> QED BY <2>1, <2>2, ProcMoves, Zenon
<1>3. MuxInv' /\ RegistryInv'
  BY <1>1, Ordinary
<1>4. ASSUME NEW x \in Modules, Releasing(x) PROVE Releasing(x)' \/ "fs" \notin resources'[x]
  <2>1. proc[p].at \in {"delete", "release"} => ~At(p, "idle")
    BY DEF At
  <2>2. \/ proc[p].at \notin {"delete", "release", "sweep release"}
        \/ proc'[p].at \in {"delete", "release", "sweep release"} /\ On(p)' = On(p)
        \/ On(p) \in Modules /\ "fs" \notin resources'[On(p)]
    BY <1>1, <2>1, Zenon DEF SweepStages
  <2> QED BY <1>4, <2>2, ReleasingMoves, Zenon
<1>5. ASSUME NEW x \in Modules, IsOpen(x), exit'[x].flag = ResourceClosed PROVE Releasing(x)'
  <2>1. x = m /\ proc'[p].at = "delete"
    BY <1>5
  <2> QED BY <1>1, <2>1, Zenon DEF Releasing
<1>6. ASSUME NEW x \in Modules \cup Callers, proc'[x].result.kind = "closed"
      PROVE  (proc'[x].result = proc[x].result /\ On(x)' = On(x)) \/ Reported(x)'
  <2>1. x \in Goroutines /\ x \notin Closers
    BY Disjoint DEF Goroutines
  <2>2. CASE x = p
    BY <1>1, <1>6, <2>1, <2>2
  <2>3. CASE x # p
    BY <2>1, <2>3 DEF Moves, On
  <2> QED BY <2>2, <2>3
<1>7. ResourceInv'
  BY <1>4, <1>5, <1>6, ResourceFrame, Zenon
<1> QED BY <1>2, <1>3, <1>7
-----------------------------------------------------------------------------
(* Closing an instance. *)

\* A goroutine at a stage of a call or a close is on an instance.
LEMMA Busy ==
  ASSUME IInv, NEW p \in Goroutines, proc[p].at \in Closing \cup Calling
  PROVE  /\ On(p) \in Modules /\ ~At(On(p), "idle")
         /\ p \in Modules => On(p) = p
         /\ proc[p].at \notin SweepStages /\ ~At(p, "idle")
         /\ proc[p].at \in Calling => p \notin Closers
<1>1. proc[p].at \notin SweepStages /\ ~At(p, "idle")
  BY Zenon DEF SweepStages, Closing, Calling, At
<1>2. proc[p].at \in Calling => p \notin Closers
  BY StageOf, Zenon DEF CloserStages, Closing, Calling, SweepStages
<1> QED BY <1>1, <1>2, OnModule, Zenon DEF IInv

LEMMA SetStep ==
  ASSUME IInv, NEW p \in Goroutines, Set(p)
  PROVE  IInv'
<1> USE DEF IInv
<1>1. proc[p].at = "set"
  BY DEF Set, At
<1>2. PICK m \in Modules : m = On(p)
  BY <1>1, Busy DEF Closing
<1>3. /\ ~At(m, "idle") /\ (p \in Modules => m = p)
      /\ proc[p].at \notin SweepStages /\ ~At(p, "idle")
  BY <1>1, <1>2, Busy DEF Closing
<1>4. proc[p].then \in {"done", "failed", "check", "leave"} /\ proc[p].code \in Nat
  BY StageOf DEF ProcStates
<1>5. /\ exit' \in [Modules -> ExitStates]
      /\ ExitKept
      /\ exit'[m] # Open
      /\ \A x \in Modules : x # m => exit'[x] = exit[x]
  BY <1>2, <1>4, SetExit, Zenon DEF Set
<1> DEFINE v == IF IsOpen(m) THEN "delete" ELSE proc[p].then
<1>6. v \in Stages /\ Goto(p, v)
  BY <1>2, <1>4 DEF Stages, ModuleStages, CallerStages, CloserStages, Closing, Calling, Set
<1> HIDE DEF v
<1>7. /\ proc' \in [Goroutines -> ProcStates] /\ Moves(p)
      /\ proc'[p].at = v /\ proc'[p].on = m /\ proc'[p].stage = proc[p].stage
      /\ proc'[p].then = proc[p].then /\ proc'[p].result = proc[p].result
  BY <1>2, <1>6, GotoFacts DEF On
<1>8. TypeOK'
  BY <1>5, <1>7 DEF Set, registry, TypeOK
<1>9. v \in {"delete", "done", "failed", "check", "leave"} /\ (v = "delete" \/ v = proc[p].then)
  BY <1>4 DEF v
<1>10. Placed(p, m)'
  <2>1. v \notin SweepStages \cup {"idle"} /\ v \in ModuleStages /\ v \notin {"register", "attach"}
    BY <1>9, Zenon DEF SweepStages, ModuleStages, Closing, Calling
  <2>2. p \in Callers => v \in CallerStages /\ proc[p].then # "failed"
    BY <1>9, Zenon DEF ProcInv, GoroutineInv, CallerStages, Closing, Calling
  <2>3. p \in Closers => v \in CloserStages /\ proc[p].then = "done"
    BY <1>9, StageOf DEF CloserStages, Closing
  <2> QED BY <1>5, <1>7, <2>1, <2>2, <2>3 DEF Placed, IsOpen
<1>11. p \in Modules => (Registered(p)' <=> Registered(p))
  BY <1>1, <1>7, <1>9 DEF Registered, At
<1>12. IdleKept
  BY <1>3, <1>5 DEF IdleKept
<1>13. \A x \in Modules : IsOpen(x) /\ exit'[x].flag = ResourceClosed => x = m /\ proc'[p].at = "delete"
  BY <1>5, <1>7 DEF v, IsOpen, Open, ResourceClosed
<1>14. resources' = resources /\ watcher' = watcher /\ UNCHANGED <<runtimeClosed, mux, registry>>
  BY DEF Set
<1> QED BY <1>1, <1>2, <1>3, <1>5, <1>7, <1>8, <1>10, <1>11, <1>12, <1>13, <1>14, OrdinaryStep, Zenon

LEMMA ReleaseStep ==
  ASSUME IInv, NEW p \in Goroutines, Release(p)
  PROVE  IInv'
<1> USE DEF IInv
<1>1. proc[p].at = "release"
  BY DEF Release, At
<1>2. PICK m \in Modules : m = On(p)
  BY <1>1, Busy DEF Closing
<1>3. /\ ~At(m, "idle") /\ (p \in Modules => m = p)
      /\ proc[p].at \notin SweepStages /\ ~At(p, "idle")
  BY <1>1, <1>2, Busy DEF Closing
<1>4. proc[p].then \in {"done", "failed", "check", "leave"}
  BY StageOf DEF ProcStates
<1> DEFINE v == proc[p].then
<1>5. v \in Stages /\ Goto(p, v)
  BY <1>4 DEF Stages, ModuleStages, CallerStages, CloserStages, Closing, Calling, Release
<1> HIDE DEF v
<1>6. /\ proc' \in [Goroutines -> ProcStates] /\ Moves(p)
      /\ proc'[p].at = v /\ proc'[p].on = m /\ proc'[p].stage = proc[p].stage
      /\ proc'[p].then = proc[p].then /\ proc'[p].result = proc[p].result
  BY <1>2, <1>5, GotoFacts DEF On
<1>7. resources' \in [Modules -> SUBSET {"fs", "notifier", "code"}] /\ resources'[m] = {}
      /\ \A x \in Modules : resources'[x] \subseteq resources[x]
  BY <1>2 DEF Release, ensureResourcesClosed, TypeOK
<1>8. TypeOK'
  BY <1>6, <1>7 DEF Release, registry, TypeOK
<1>9. Placed(p, m)'
  <2>1. v \notin SweepStages \cup {"idle"} /\ v \in ModuleStages /\ v \notin {"register", "attach", "delete", "release"}
    BY <1>4, Zenon DEF v, SweepStages, ModuleStages, Closing, Calling
  <2>2. p \in Callers => v \in CallerStages /\ proc[p].then # "failed"
    BY <1>4, Zenon DEF v, ProcInv, GoroutineInv, CallerStages, Closing, Calling
  <2>3. p \in Closers => v \in CloserStages /\ proc[p].then = "done"
    BY <1>4, StageOf DEF v, CloserStages, Closing
  <2> QED BY <1>6, <2>1, <2>2, <2>3 DEF Placed
<1>10. p \in Modules => (Registered(p)' <=> Registered(p))
  BY <1>1, <1>4, <1>6 DEF Registered, At, v
<1>11. exit' = exit /\ watcher' = watcher /\ UNCHANGED <<runtimeClosed, mux, registry>>
  BY DEF Release
<1>12. ExitKept /\ IdleKept /\ \A x \in Modules : ~(IsOpen(x) /\ exit'[x].flag = ResourceClosed)
  BY <1>11 DEF ExitKept, IdleKept, IsOpen, Open, ResourceClosed
<1> QED BY <1>2, <1>3, <1>6, <1>7, <1>8, <1>9, <1>10, <1>11, <1>12, OrdinaryStep, Zenon

LEMMA ExitStays ==
  ASSUME exit' = exit
  PROVE  /\ ExitKept /\ IdleKept
         /\ \A x \in Modules : ~(IsOpen(x) /\ exit'[x].flag = ResourceClosed)
BY DEF ExitKept, IdleKept, IsOpen, Open, ResourceClosed
-----------------------------------------------------------------------------
(* Calling a function of an instance. *)

\* A goroutine in a call moves on within it, or to close the instance and come back.
LEMMA CallStep ==
  ASSUME IInv, TypeOK', NEW p \in Goroutines, Moves(p), proc[p].at \in Calling,
         UNCHANGED <<runtimeClosed, mux, registry, exit>>,
         proc'[p].at \in Calling \cup {"set", "done"} \/ (p \in Modules /\ proc'[p].at \in {"failed", "register"}),
         proc'[p].at = "register" => proc[p].stage = "section",
         proc'[p].on = proc[p].on, proc'[p].stage = proc[p].stage,
         p \in Callers => proc'[p].then \in {proc[p].then, "check", "leave"},
         \A w \in Watchers : watcher'[w].at = watcher[w].at \/ (w[1] = p /\ watcher'[w].at = "watching"),
         \A x \in Modules : resources'[x] \subseteq resources[x],
         proc'[p].result.kind = "closed" => Reported(p)' \/ proc'[p].result = proc[p].result
  PROVE  IInv'
<1> USE DEF IInv
<1>1. PICK m \in Modules : m = On(p)
  BY Busy, Zenon
<1>2. /\ ~At(m, "idle") /\ (p \in Modules => m = p)
      /\ proc[p].at \notin SweepStages /\ ~At(p, "idle") /\ p \notin Closers
  BY <1>1, Busy
<1>3. proc'[p].on = m
  BY <1>1 DEF On
<1>4. Placed(p, m)'
  <2>1. /\ proc'[p].at \notin SweepStages \cup {"idle"}
        /\ proc'[p].at \in ModuleStages /\ (p \in Callers => proc'[p].at \in CallerStages)
        /\ proc'[p].at \notin {"attach", "delete", "release"}
        /\ proc'[p].stage = "function" => proc'[p].at # "register"
    BY Disjoint, Zenon DEF SweepStages, ModuleStages, CallerStages, Closing, Calling
  <2>2. p \in Callers => proc'[p].then # "failed"
    BY ZenonT(30) DEF ProcInv, GoroutineInv
  <2> QED BY <1>2, <1>3, <2>1, <2>2, Zenon DEF Placed
<1>5. p \in Modules => (Registered(p)' <=> Registered(p))
  BY DEF Registered, At, Calling
<1>6. ExitKept /\ IdleKept /\ \A x \in Modules : ~(IsOpen(x) /\ exit'[x].flag = ResourceClosed)
  BY ExitStays
<1>7. proc[p].at \notin {"delete", "release"}
  BY DEF Calling
<1> QED BY <1>1, <1>2, <1>4, <1>5, <1>6, <1>7, OrdinaryStep, Zenon

LEMMA EnterStep ==
  ASSUME IInv, NEW p \in Goroutines, Enter(p)
  PROVE  IInv'
<1>1. TypeOK /\ proc[p] \in ProcStates /\ proc[p].at = "enter" /\ cancelled[p] \in Nat
  BY StageOf DEF Enter, At, IInv, TypeOK
<1>2. UNCHANGED <<program, runtimeClosed, mux, registry, exit, resources, cancelled>>
  BY DEF Enter
<1>3. CASE ensureTermination /\ cancelled[p] # 0
  <2> DEFINE r == [proc[p] EXCEPT !.at = "set", !.code = cancelled[p], !.then = "check", !.result = Ok]
  <2>1. /\ r \in ProcStates
        /\ r.at = "set" /\ r.on = proc[p].on /\ r.stage = proc[p].stage /\ r.then = "check" /\ r.result = Ok
    BY <1>1, Zenon DEF ProcStates, Stages, ModuleStages, Closing, Ok, Results
  <2>2. proc' = [proc EXCEPT ![p] = r] /\ watcher' = watcher
    BY <1>1, <1>3, Zenon DEF Enter, TypeOK
  <2> HIDE DEF r
  <2>3. /\ proc' \in [Goroutines -> ProcStates] /\ Moves(p)
        /\ proc'[p] = r
    BY <1>1, <2>1, <2>2, MoveFacts, Zenon
  <2>4. TypeOK'
    BY <1>1, <1>2, <2>2, <2>3 DEF registry, TypeOK
  <2> QED BY <1>1, <1>2, <2>1, <2>2, <2>3, <2>4, CallStep DEF Calling, Ok
<1>4. CASE ~(ensureTermination /\ cancelled[p] # 0)
  <2>1. Goto(p, "run") /\ "run" \in Stages
    BY <1>4 DEF Enter, Stages, ModuleStages, Calling
  <2>2. /\ proc' \in [Goroutines -> ProcStates] /\ Moves(p)
        /\ proc'[p].at = "run" /\ proc'[p].on = proc[p].on /\ proc'[p].stage = proc[p].stage
        /\ proc'[p].then = proc[p].then /\ proc'[p].result = proc[p].result
    BY <1>1, <2>1, GotoFacts
  <2>3. /\ watcher' \in [Watchers -> [at : {"none", "watching", "decided", "delete", "gone"}, stop : BOOLEAN]]
        /\ \A w \in Watchers : watcher'[w].at = watcher[w].at \/ (w[1] = p /\ watcher'[w].at = "watching")
    <3>1. CASE ensureTermination
      <4> DEFINE v == <<p, proc[p].stage>>
                 W == [at : {"none", "watching", "decided", "delete", "gone"}, stop : BOOLEAN]
      <4>1. watcher' = [watcher EXCEPT ![v] = [watcher[v] EXCEPT !.at = "watching"]] /\ v[1] = p
        BY <1>4, <3>1 DEF Enter
      <4>2. watcher \in [Watchers -> W]
        BY <1>1 DEF TypeOK
      <4> HIDE DEF v
      <4>3. ASSUME NEW w \in Watchers
            PROVE  watcher'[w] \in W /\ (watcher'[w].at = watcher[w].at \/ (w[1] = p /\ watcher'[w].at = "watching"))
        BY <4>1, <4>2
      <4> QED BY <4>1, <4>2, <4>3, Zenon
    <3>2. CASE ~ensureTermination
      BY <1>1, <1>4, <3>2 DEF Enter, TypeOK
    <3> QED BY <3>1, <3>2
  <2>4. TypeOK'
    BY <1>1, <1>2, <2>2, <2>3 DEF registry, TypeOK
  <2> QED BY <1>1, <1>2, <2>2, <2>3, <2>4, CallStep, Zenon DEF Calling
<1> QED BY <1>3, <1>4

LEMMA GuestEndsStep ==
  ASSUME IInv, NEW p \in Modules \cup Callers, GuestEnds(p)
  PROVE  IInv'
<1>1. TypeOK /\ p \in Goroutines /\ proc[p] \in ProcStates /\ proc[p].at = "run"
  BY StageOf, Zenon DEF GuestEnds, At, IInv, Goroutines
<1>2. UNCHANGED <<program, runtimeClosed, mux, registry, exit, resources, cancelled, watcher>>
  BY Zenon DEF GuestEnds
<1>3. CASE \E r \in {Ok, Trapped} : proc' = [proc EXCEPT ![p].at = "leave", ![p].result = r]
  <2>1. PICK o \in {Ok, Trapped} : proc' = [proc EXCEPT ![p].at = "leave", ![p].result = o]
    BY <1>3, Zenon
  <2> DEFINE r == [proc[p] EXCEPT !.at = "leave", !.result = o]
  <2>2. /\ r \in ProcStates
        /\ r.at = "leave" /\ r.on = proc[p].on /\ r.stage = proc[p].stage /\ r.then = proc[p].then
        /\ r.result.kind # "closed"
    <3>1. o \in Results /\ o.kind # "closed" /\ "leave" \in Stages
      BY DEF Ok, Trapped, Results, Stages, ModuleStages, Calling
    <3> QED BY <1>1, <3>1, Zenon DEF ProcStates
  <2>3. proc' = [proc EXCEPT ![p] = r]
    BY <1>1, <2>1, Zenon DEF TypeOK
  <2> HIDE DEF r
  <2>4. proc' \in [Goroutines -> ProcStates] /\ Moves(p) /\ proc'[p] = r
    BY <1>1, <2>2, <2>3, MoveFacts, Zenon
  <2>5. TypeOK'
    BY <1>1, <1>2, <2>4 DEF registry, TypeOK
  <2> QED BY <1>1, <1>2, <2>2, <2>4, <2>5, CallStep DEF Calling
<1>4. CASE \E c \in GuestCodes :
             proc' = [proc EXCEPT ![p].at = "set", ![p].code = c, ![p].then = "leave", ![p].result = Exited(c)]
  <2>1. PICK c \in GuestCodes :
             proc' = [proc EXCEPT ![p].at = "set", ![p].code = c, ![p].then = "leave", ![p].result = Exited(c)]
    BY <1>4, Zenon
  <2> DEFINE r == [proc[p] EXCEPT !.at = "set", !.code = c, !.then = "leave", !.result = Exited(c)]
  <2>2. /\ r \in ProcStates
        /\ r.at = "set" /\ r.on = proc[p].on /\ r.stage = proc[p].stage /\ r.then = "leave"
        /\ r.result.kind # "closed"
    <3>1. /\ c \in Nat /\ Exited(c) \in Results /\ Exited(c).kind # "closed"
          /\ "set" \in Stages
      BY DEF Exited, GuestCodes, Results, Stages, ModuleStages, Closing
    <3> QED BY <1>1, <3>1, Zenon DEF ProcStates
  <2>3. proc' = [proc EXCEPT ![p] = r]
    BY <1>1, <2>1, Zenon DEF TypeOK
  <2> HIDE DEF r
  <2>4. proc' \in [Goroutines -> ProcStates] /\ Moves(p) /\ proc'[p] = r
    BY <1>1, <2>2, <2>3, MoveFacts, Zenon
  <2>5. TypeOK'
    BY <1>1, <1>2, <2>4 DEF registry, TypeOK
  <2> QED BY <1>1, <1>2, <2>2, <2>4, <2>5, CallStep DEF Calling
<1> QED BY <1>3, <1>4, Zenon DEF GuestEnds

\* A check that finds the instance closed leaves its files closed, or to the winner of the close.
LEMMA FailIfClosedFacts ==
  ASSUME IInv, NEW m \in Modules, FailIfClosed(m)
  PROVE  /\ resources' \in [Modules -> SUBSET {"fs", "notifier", "code"}]
         /\ \A x \in Modules : resources'[x] \subseteq resources[x]
         /\ ~IsOpen(m) => "fs" \notin resources'[m] \/ Releasing(m)
<1>1. exit[m] \in ExitStates /\ resources \in [Modules -> SUBSET {"fs", "notifier", "code"}]
  BY DEF IInv, TypeOK
<1>2. CASE exit[m].flag = ResourceNotClosed
  BY <1>1, <1>2 DEF FailIfClosed
<1>3. CASE exit[m].flag # ResourceNotClosed
  <2>1. resources' = resources
    BY <1>3 DEF FailIfClosed
  <2>2. ~IsOpen(m) => exit[m].flag = ResourceClosed
    BY <1>1, <1>3 DEF ExitStates, IsOpen
  <2> QED BY <1>1, <2>1, <2>2 DEF IInv, ResourceInv
<1> QED BY <1>2, <1>3

LEMMA ReportedAfter ==
  ASSUME TypeOK, TypeOK', NEW p \in Goroutines, NEW m \in Modules, Moves(p), proc[p].at \in Calling,
         exit' = exit, ~IsOpen(m), proc'[p].on = m, proc'[p].result = WasClosed(exit[m].code),
         "fs" \notin resources'[m] \/ Releasing(m)
  PROVE  Reported(p)'
<1>1. "fs" \notin resources'[m] \/ Releasing(m)'
  BY ReleasingMoves, Zenon DEF Calling
<1>2. On(p)' = m /\ proc'[p].result.code = exit[m].code
  BY DEF On, WasClosed
<1> QED BY <1>1, <1>2, Zenon DEF Reported, IsOpen, Releasing

LEMMA CheckExitCodeStep ==
  ASSUME IInv, NEW p \in Goroutines, CheckExitCode(p)
  PROVE  IInv'
<1>1. TypeOK /\ proc[p] \in ProcStates /\ proc[p].at = "run"
  BY StageOf DEF CheckExitCode, At, IInv
<1>2. UNCHANGED <<program, runtimeClosed, mux, registry, exit, cancelled, watcher>>
  BY DEF CheckExitCode
<1>3. PICK m \in Modules : m = On(p)
  BY <1>1, Busy DEF Calling
<1>4. /\ resources' \in [Modules -> SUBSET {"fs", "notifier", "code"}]
      /\ \A x \in Modules : resources'[x] \subseteq resources[x]
      /\ ~IsOpen(m) /\ ("fs" \notin resources'[m] \/ Releasing(m))
  BY <1>3, FailIfClosedFacts DEF CheckExitCode
<1> DEFINE r == [proc[p] EXCEPT !.at = "leave", !.result = WasClosed(exit[m].code)]
<1>5. exit[m].code \in Nat
  BY <1>1 DEF TypeOK, ExitStates, Open
<1>6. /\ r \in ProcStates
      /\ r.at = "leave" /\ r.on = proc[p].on /\ r.stage = proc[p].stage /\ r.then = proc[p].then
      /\ r.result = WasClosed(exit[m].code)
  BY <1>1, <1>5, Zenon DEF ProcStates, Stages, ModuleStages, Calling, WasClosed, Results
<1>7. proc' = [proc EXCEPT ![p] = r]
  BY <1>1, <1>3, Zenon DEF TypeOK, CheckExitCode
<1> HIDE DEF r
<1>8. proc' \in [Goroutines -> ProcStates] /\ Moves(p) /\ proc'[p] = r
  BY <1>1, <1>6, <1>7, MoveFacts, Zenon
<1>9. TypeOK'
  BY <1>1, <1>2, <1>4, <1>8 DEF registry, TypeOK
<1>10. Reported(p)'
  BY <1>1, <1>2, <1>3, <1>4, <1>6, <1>8, <1>9, ReportedAfter, Zenon DEF Calling, On
<1> QED BY <1>1, <1>2, <1>4, <1>6, <1>8, <1>9, <1>10, CallStep, Zenon DEF Calling

LEMMA LeaveStep ==
  ASSUME IInv, NEW p \in Goroutines, Leave(p)
  PROVE  IInv'
<1>1. TypeOK /\ proc[p] \in ProcStates /\ proc[p].at = "leave"
  BY StageOf DEF Leave, At, IInv
<1>2. UNCHANGED <<program, runtimeClosed, mux, registry, exit, resources, cancelled>>
  BY DEF Leave
<1>3. Goto(p, "check") /\ "check" \in Stages
  BY DEF Leave, Stages, ModuleStages, Calling
<1>4. /\ proc' \in [Goroutines -> ProcStates] /\ Moves(p)
      /\ proc'[p].at = "check" /\ proc'[p].on = proc[p].on /\ proc'[p].stage = proc[p].stage
      /\ proc'[p].then = proc[p].then /\ proc'[p].result = proc[p].result
  BY <1>1, <1>3, GotoFacts
<1>5. /\ watcher' \in [Watchers -> [at : {"none", "watching", "decided", "delete", "gone"}, stop : BOOLEAN]]
      /\ \A w \in Watchers : watcher'[w].at = watcher[w].at
  <2> DEFINE v == <<p, proc[p].stage>>
             W == [at : {"none", "watching", "decided", "delete", "gone"}, stop : BOOLEAN]
  <2>1. watcher' = [watcher EXCEPT ![v] = [watcher[v] EXCEPT !.stop = ensureTermination]]
    BY DEF Leave
  <2>2. watcher \in [Watchers -> W] /\ ensureTermination \in BOOLEAN
    BY <1>1, RuntimeAssumption DEF TypeOK, ensureTermination
  <2> HIDE DEF v
  <2>3. ASSUME NEW w \in Watchers PROVE watcher'[w] \in W /\ watcher'[w].at = watcher[w].at
    BY <2>1, <2>2
  <2> QED BY <2>1, <2>2, <2>3, Zenon
<1>6. TypeOK'
  BY <1>1, <1>2, <1>4, <1>5 DEF registry, TypeOK
<1> QED BY <1>1, <1>2, <1>4, <1>5, <1>6, CallStep DEF Calling

\* Where a call with result r leaves its goroutine.
LEMMA AfterCallFacts ==
  ASSUME IInv, NEW p \in Goroutines, proc[p].at = "check", NEW r \in Results
  PROVE  LET a == AfterCall(p, r)
         IN /\ a \in ProcStates
            /\ a.on = proc[p].on /\ a.stage = proc[p].stage /\ a.result = r
            /\ a.at \in {"set", "done"} \/ (p \in Modules /\ a.at \in {"failed", "register"})
            /\ a.at = "register" => proc[p].stage = "section"
            /\ p \in Callers => a.then = proc[p].then
<1>1. proc[p] \in ProcStates /\ (p \in Modules \/ p \in Callers) /\ ~(p \in Modules /\ p \in Callers)
  BY StageOf, Busy DEF Calling
<1>2. {"done", "register", "failed", "set"} \subseteq Stages
  BY DEF Stages, ModuleStages, Closing
<1> DEFINE at(where) == [proc[p] EXCEPT !.at = where, !.result = r]
           closeThen(where) == [at("set") EXCEPT !.code = 0, !.then = where]
<1>3. ASSUME NEW v \in Stages
      PROVE  /\ at(v) \in ProcStates /\ at(v).at = v /\ at(v).result = r
             /\ at(v).on = proc[p].on /\ at(v).stage = proc[p].stage /\ at(v).then = proc[p].then
  BY <1>1, Zenon DEF ProcStates
<1>4. ASSUME NEW v \in {"done", "failed"}
      PROVE  /\ closeThen(v) \in ProcStates /\ closeThen(v).at = "set" /\ closeThen(v).result = r
             /\ closeThen(v).on = proc[p].on /\ closeThen(v).stage = proc[p].stage
  BY <1>1, <1>2, Zenon DEF ProcStates
<1>5. CASE p \in Callers
  <2>1. AfterCall(p, r) = at("done")
    BY <1>1, <1>5 DEF AfterCall
  <2> HIDE DEF at
  <2> QED BY <1>2, <1>3, <1>5, <2>1
<1>6. CASE p \in Modules /\ proc[p].stage = "section"
  <2>1. AfterCall(p, r) = at(IF r = Ok THEN "register" ELSE "failed")
    BY <1>1, <1>6 DEF AfterCall
  <2> HIDE DEF at
  <2> QED BY <1>1, <1>2, <1>3, <1>6, <2>1
<1>7. CASE p \in Modules /\ proc[p].stage = "function"
  <2>1. AfterCall(p, r) = IF r = Ok THEN at("done")
                          ELSE closeThen(IF r \in {Exited(0), WasClosed(0)} THEN "done" ELSE "failed")
    BY <1>1, <1>7 DEF AfterCall
  <2> HIDE DEF at, closeThen
  <2> QED BY <1>1, <1>2, <1>3, <1>4, <1>7, <2>1
<1> QED BY <1>1, <1>5, <1>6, <1>7, Zenon DEF ProcStates

LEMMA CheckStep ==
  ASSUME IInv, NEW p \in Goroutines, Check(p)
  PROVE  IInv'
<1>1. TypeOK /\ proc[p] \in ProcStates /\ proc[p].at = "check"
  BY StageOf DEF Check, At, IInv
<1>2. UNCHANGED <<program, runtimeClosed, mux, registry, exit, cancelled, watcher>>
  BY DEF Check
<1>3. PICK m \in Modules : m = On(p)
  BY <1>1, Busy DEF Calling
<1> DEFINE closed == proc[p].result = Ok /\ ~IsOpen(m)
           r == IF closed THEN WasClosed(exit[m].code) ELSE proc[p].result
           a == AfterCall(p, r)
<1>4. /\ resources' \in [Modules -> SUBSET {"fs", "notifier", "code"}]
      /\ \A x \in Modules : resources'[x] \subseteq resources[x]
      /\ closed => "fs" \notin resources'[m] \/ Releasing(m)
  <2>1. CASE proc[p].result = Ok \/ program.engine = "interpreter"
    <3>1. FailIfClosed(m)
      BY <1>3, <2>1 DEF Check
    <3> QED BY <3>1, FailIfClosedFacts
  <2>2. CASE ~(proc[p].result = Ok \/ program.engine = "interpreter")
    <3>1. resources' = resources
      BY <2>2 DEF Check
    <3> QED BY <1>1, <2>2, <3>1 DEF TypeOK
  <2> QED BY <2>1, <2>2
<1>5. r \in Results
  <2>1. exit[m].code \in Nat
    BY <1>1, SMTT(30) DEF TypeOK, ExitStates, Open
  <2> QED BY <1>1, <2>1 DEF ProcStates, WasClosed, Results
<1>6. proc' = [proc EXCEPT ![p] = a]
  BY <1>3 DEF Check
<1> HIDE DEF r
<1>7. /\ a \in ProcStates
      /\ a.on = proc[p].on /\ a.stage = proc[p].stage /\ a.result = r
      /\ a.at \in {"set", "done"} \/ (p \in Modules /\ a.at \in {"failed", "register"})
      /\ a.at = "register" => proc[p].stage = "section"
      /\ p \in Callers => a.then = proc[p].then
  BY <1>1, <1>5, AfterCallFacts
<1> HIDE DEF a
<1>8. proc' \in [Goroutines -> ProcStates] /\ Moves(p) /\ proc'[p] = a
  BY <1>1, <1>6, <1>7, MoveFacts, Zenon
<1>9. TypeOK'
  BY <1>1, <1>2, <1>4, <1>8 DEF registry, TypeOK
<1>10. proc'[p].result.kind = "closed" => Reported(p)' \/ proc'[p].result = proc[p].result
  <2>1. CASE closed
    <3>1. r = WasClosed(exit[m].code)
      BY <2>1 DEF r
    <3> QED BY <1>1, <1>2, <1>3, <1>4, <1>7, <1>8, <1>9, <2>1, <3>1, ReportedAfter, Zenon DEF Calling, On
  <2>2. CASE ~closed
    BY <1>7, <1>8, <2>2, Zenon DEF r
  <2> QED BY <2>1, <2>2
<1> QED BY <1>1, <1>2, <1>4, <1>7, <1>8, <1>9, <1>10, CallStep, Zenon DEF Calling
-----------------------------------------------------------------------------
(* Deleting an instance from the registry. *)

LEMMA LargerOfTwo ==
  ASSUME NEW a \in Nat, NEW b \in Nat
  PROVE  Larger(a, b) \in Nat /\ Larger(a, b) >= b
BY DEF Larger

\* The names in use are counted by a number, there being finitely many names
\* (proved as BoundSize in RuntimeProofs).
Counted == \A names \in [Names -> Modules \cup {Nil}] : Cardinality(Bound(names)) \in Nat

\* After the sweep the map that deleteModule could shrink has no capacity, so
\* that it is not allocated again.
LEMMA DeleteStore ==
  ASSUME Counted, IInv, NEW m \in Modules, deleteModule(m)
  PROVE  /\ store' \in Stores
         /\ next' \in [Modules -> Modules \cup {Nil}] /\ prev' \in [Modules -> Modules \cup {Nil}]
         /\ store'.allocated = store.allocated
         /\ ~store.allocated => store'.cap = 0 /\ store'.list = Nil
         /\ \A k \in Names : store'.names[k] = IF k = Name[m] THEN Nil ELSE store.names[k]
<1> DEFINE s == [store EXCEPT !.list = IF @ = m THEN next[m] ELSE @]
<1>1. store \in Stores /\ next \in [Modules -> Modules \cup {Nil}] /\ prev \in [Modules -> Modules \cup {Nil}]
  BY DEF IInv, TypeOK
<1>2. s \in Stores /\ s.names = store.names /\ s.allocated = store.allocated /\ s.cap = store.cap
      /\ s.list = IF store.list = m THEN next[m] ELSE store.list
  BY <1>1 DEF Stores
<1>3. store' = IF Name[m] = Nil THEN s ELSE ReleaseName(m, s)
  BY DEF deleteModule
<1> HIDE DEF s
<1>4. next' \in [Modules -> Modules \cup {Nil}] /\ prev' \in [Modules -> Modules \cup {Nil}]
  BY <1>1 DEF deleteModule, Unlink
<1>5. ~store.allocated => s.cap = 0 /\ s.list = Nil /\ Bound(s.names) = {}
  BY <1>2, RuntimeAssumption DEF IInv, RegistryInv
<1>6. CASE Name[m] = Nil
  BY <1>2, <1>3, <1>4, <1>5, <1>6, RuntimeAssumption
<1>7. CASE Name[m] # Nil
  <2> DEFINE names == [s.names EXCEPT ![Name[m]] = Nil]
             newCap == Larger(Cardinality(Bound(names)), ShrinkThreshold)
             shrink == newCap * 2 <= s.cap
  <2>1. Name[m] \in Names /\ s.names \in [Names -> Modules \cup {Nil}] /\ s.cap \in Nat /\ s.allocated \in BOOLEAN
    BY <1>2, <1>7, RuntimeAssumption DEF Stores
  <2>2. names \in [Names -> Modules \cup {Nil}]
        /\ \A k \in Names : names[k] = IF k = Name[m] THEN Nil ELSE s.names[k]
    BY <2>1
  <2>3. store' = [s EXCEPT !.names = names, !.allocated = s.allocated \/ shrink,
                           !.cap = IF shrink THEN newCap ELSE s.cap]
    BY <1>3, <1>7 DEF ReleaseName
  <2> HIDE DEF names
  <2>4. newCap \in Nat /\ newCap >= ShrinkThreshold /\ ShrinkThreshold \in Nat \ {0}
    BY <2>2, LargerOfTwo, RuntimeAssumption, Zenon DEF Counted
  <2> HIDE DEF newCap
  <2>5. shrink \in BOOLEAN /\ (s.cap = 0 => ~shrink)
    BY <2>1, <2>4
  <2> HIDE DEF shrink
  <2>6. store' \in Stores /\ store'.names = names /\ store'.list = s.list
        /\ store'.allocated = (s.allocated \/ shrink) /\ store'.cap = IF shrink THEN newCap ELSE s.cap
    BY <1>2, <2>1, <2>2, <2>3, <2>4, <2>5, Zenon DEF Stores
  <2> QED BY <1>2, <1>4, <1>5, <2>1, <2>2, <2>5, <2>6, Zenon
<1> QED BY <1>6, <1>7, Zenon

LEMMA DeleteRegistry ==
  ASSUME Counted, IInv, NEW m \in Modules, ~IsOpen(m), deleteModule(m), exit' = exit,
         \A x \in Modules : Registered(x)' <=> Registered(x),
         \A p \in Closers : proc'[p].at \notin {"sweep", "sweep release"}
  PROVE  RegistryInv'
<1>1. /\ store' \in Stores
      /\ store'.allocated = store.allocated
      /\ ~store.allocated => store'.cap = 0 /\ store'.list = Nil
      /\ \A k \in Names : store'.names[k] = IF k = Name[m] THEN Nil ELSE store.names[k]
  BY DeleteStore, Zenon
<1>2. \A x \in Modules : IsOpen(x)' <=> IsOpen(x)
  BY Zenon DEF IsOpen
<1>3. CASE store.allocated
  <2>0. PICK n \in Nat : \E q \in [1..n -> Modules] : Registry(n, q)
    BY <1>3, Zenon DEF IInv, RegistryInv
  <2>1. PICK q \in [1..n -> Modules] : Registry(n, q)
    BY <2>0, Zenon
  <2>2. PICK k \in Nat : \E t \in [1..k -> Modules] :
           Linked(k, t)' /\ \A x \in Modules : In(x, k, t) <=> In(x, n, q) /\ x # m
    BY <2>1, DeleteLinks, ZenonT(30) DEF Registry, IInv
  <2>3. PICK t \in [1..k -> Modules] :
           Linked(k, t)' /\ \A x \in Modules : In(x, k, t) <=> In(x, n, q) /\ x # m
    BY <2>2, Zenon
  <2>4. Holds(k, t)'
    BY <1>2, <2>1, <2>3, Zenon DEF Registry, Holds
  <2>5. ASSUME NEW j \in Bound(store.names)' PROVE In(store'.names[j], k, t) /\ Name[store'.names[j]] = j
    <3>1. j \in Names /\ store'.names[j] # Nil
      BY Zenon DEF Bound
    <3>2. j # Name[m] /\ store'.names[j] = store.names[j] /\ j \in Bound(store.names)
      BY <1>1, <3>1, Zenon DEF Bound
    <3>3. In(store.names[j], n, q) /\ Name[store.names[j]] = j
      BY <2>1, <3>2, Zenon DEF Registry, Named
    <3>4. store.names[j] \in Modules
      BY <3>2, <3>1, Zenon DEF IInv, TypeOK, Stores
    <3> QED BY <2>3, <3>2, <3>3, <3>4, Zenon
  <2>6. Named(k, t)'
    BY <2>5, Zenon DEF Named
  <2>7. Swept(k, t)'
    BY Zenon DEF Swept, At
  <2> QED BY <1>1, <1>3, <2>3, <2>4, <2>6, <2>7, Zenon DEF RegistryInv, Registry
<1>4. CASE ~store.allocated
  <2>1. Bound(store.names)' = {}
    BY <1>1, <1>4, Zenon DEF Bound, IInv, RegistryInv
  <2>2. \A x \in Modules : Registered(x)' => ~IsOpen(x)'
    BY <1>2, <1>4, Zenon DEF IInv, RegistryInv
  <2> QED BY <1>1, <1>4, <2>1, <2>2, Zenon DEF RegistryInv
<1> QED BY <1>3, <1>4, Zenon

LEMMA NoSweep ==
  ASSUME IInv, ~mux
  PROVE  \A p \in Closers : proc[p].at \notin {"sweep", "sweep release"}
BY Zenon DEF IInv, MuxInv

LEMMA DeleteStep ==
  ASSUME Counted, IInv, NEW p \in Goroutines, Delete(p)
  PROVE  IInv'
<1> USE DEF IInv
<1>1. proc[p].at = "delete" /\ ~mux
  BY DEF Delete, At, deleteModule
<1>2. PICK m \in Modules : m = On(p)
  BY <1>1, Busy DEF Closing
<1>3. /\ ~At(m, "idle") /\ (p \in Modules => m = p) /\ ~IsOpen(m) /\ deleteModule(m)
  BY <1>1, <1>2, Busy, Zenon DEF Closing, ProcInv, GoroutineInv, Delete
<1>4. Goto(p, "release") /\ "release" \in Stages
  BY DEF Delete, Stages, ModuleStages, Closing
<1>5. /\ proc' \in [Goroutines -> ProcStates] /\ Moves(p)
      /\ proc'[p].at = "release" /\ proc'[p].on = m /\ proc'[p].stage = proc[p].stage
      /\ proc'[p].then = proc[p].then /\ proc'[p].result = proc[p].result
  BY <1>2, <1>4, GotoFacts DEF On
<1>6. UNCHANGED <<program, runtimeClosed, mux, exit, resources, cancelled, watcher>>
  BY DEF Delete
<1>7. TypeOK'
  BY <1>3, <1>5, <1>6, DeleteStore DEF TypeOK
<1>8. ExitKept /\ IdleKept /\ \A x \in Modules : ~(IsOpen(x) /\ exit'[x].flag = ResourceClosed)
  BY <1>6, ExitStays
<1>9. Placed(p, m)'
  <2>1. "release" \notin SweepStages \cup {"idle", "register", "attach"}
        /\ "release" \in ModuleStages /\ "release" \in CallerStages /\ "release" \in CloserStages
    BY DEF SweepStages, ModuleStages, CallerStages, CloserStages, Closing
  <2>2. (p \in Callers => proc[p].then # "failed") /\ (p \in Closers => proc[p].then = "done")
    BY Zenon DEF ProcInv, GoroutineInv
  <2> QED BY <1>3, <1>5, <1>6, <2>1, <2>2 DEF Placed, IsOpen
<1>10. ProcInv'
  <2>1. GoroutineInv(p)' /\ ~At(p, "idle")'
    BY <1>3, <1>5, <1>7, <1>9, PlacedInv
  <2>2. On(p)' = On(p)
    BY <1>2, <1>5 DEF On
  <2> QED BY <1>5, <1>6, <1>7, <1>8, <2>1, <2>2, ProcMoves, Zenon
<1>11. \A x \in Closers : x \in Goroutines /\ (x # p => proc'[x] = proc[x])
  BY <1>5 DEF Goroutines, Moves
<1>12. MuxInv'
  <2>1. \A x \in Closers : /\ proc'[x].at \in SweepStages <=> proc[x].at \in SweepStages
                           /\ proc'[x].at = "lock" <=> proc[x].at = "lock"
    BY <1>1, <1>5, <1>11, Zenon DEF SweepStages
  <2> QED BY <1>3, <1>6, <2>1, DeleteStore, MuxFrame
<1>13. RegistryInv'
  <2>1. \A x \in Modules : Registered(x)' <=> Registered(x)
    BY <1>1, <1>5 DEF Registered, At, Moves, Goroutines
  <2>2. \A x \in Closers : proc'[x].at \notin {"sweep", "sweep release"}
    BY <1>1, <1>5, <1>11, NoSweep, Zenon
  <2> QED BY <1>3, <1>6, <2>1, <2>2, DeleteRegistry, Zenon
<1>14. ResourceInv'
  <2>1. \A x \in Modules : Releasing(x) => Releasing(x)' \/ "fs" \notin resources'[x]
    BY <1>2, <1>5, <1>7, ReleasingMoves, Zenon DEF On
  <2>2. \A x \in Modules \cup Callers : proc'[x].result = proc[x].result /\ On(x)' = On(x)
    BY <1>2, <1>5 DEF Moves, On, Goroutines
  <2> QED BY <1>6, <1>7, <1>8, <2>1, <2>2, ResourceFrame
<1> QED BY <1>7, <1>10, <1>12, <1>13, <1>14
-----------------------------------------------------------------------------
(* The watcher of a call. *)

\* A watcher moves, and nothing but exit and the registry moves with it.
LEMMA WatchFacts ==
  ASSUME TypeOK, NEW w \in Watchers, NEW v \in {"decided", "delete", "gone"}, Watch(w, v)
  PROVE  /\ watcher' \in [Watchers -> [at : {"none", "watching", "decided", "delete", "gone"}, stop : BOOLEAN]]
         /\ watcher'[w].at = v
         /\ \A x \in Watchers : x # w => watcher'[x] = watcher[x]
BY DEF TypeOK, Watch

LEMMA QuietProc ==
  ASSUME IInv, TypeOK', proc' = proc, ExitKept, resources' = resources,
         \A x \in Modules : ~(IsOpen(x) /\ exit'[x].flag = ResourceClosed)
  PROVE  /\ ResourceInv'
         /\ \A x \in Modules : Registered(x)' <=> Registered(x)
<1> USE DEF IInv
<1>1. \A x \in Modules : Releasing(x)' <=> Releasing(x)
  BY DEF Releasing, On
<1>2. \A x \in Modules \cup Callers : proc'[x].result = proc[x].result /\ On(x)' = On(x)
  BY DEF On
<1>3. ResourceInv'
  BY <1>1, <1>2, ResourceFrame
<1> QED BY <1>3 DEF Registered, At

LEMMA QuietRegistry ==
  ASSUME IInv, proc' = proc, ExitKept, UNCHANGED <<runtimeClosed, mux, registry>>,
         \A x \in Modules : Registered(x)' <=> Registered(x)
  PROVE  MuxInv' /\ RegistryInv'
<1>1. store' = store /\ runtimeClosed' = runtimeClosed /\ mux' = mux
  BY DEF registry
<1>2. MuxInv'
  BY <1>1, MuxFrame DEF IInv
<1>3. RegistryInv'
  BY RegistryFrame DEF IInv
<1> QED BY <1>2, <1>3

LEMMA WakeStep ==
  ASSUME IInv, NEW w \in Watchers, Wake(w)
  PROVE  IInv'
<1> USE DEF IInv
<1>1. PICK v \in {"decided", "gone"} : Watch(w, v)
  BY DEF Wake
<1>2. /\ watcher' \in [Watchers -> [at : {"none", "watching", "decided", "delete", "gone"}, stop : BOOLEAN]]
      /\ watcher'[w].at = v
      /\ \A x \in Watchers : x # w => watcher'[x] = watcher[x]
  BY <1>1, WatchFacts
<1>3. UNCHANGED <<program, runtimeClosed, registry, mux, exit, resources, proc, cancelled>>
  BY DEF Wake
<1>4. TypeOK'
  BY <1>2, <1>3 DEF registry, TypeOK
<1>5. ExitKept /\ IdleKept /\ \A x \in Modules : ~(IsOpen(x) /\ exit'[x].flag = ResourceClosed)
  BY <1>3, ExitStays
<1>6. ProcInv'
  <2>1. watcher[w].at = "watching"
    BY DEF Wake, Watches
  <2> QED BY <1>1, <1>2, <1>3, <1>5, <2>1, ProcStays
<1>7. ResourceInv' /\ \A x \in Modules : Registered(x)' <=> Registered(x)
  BY <1>3, <1>4, <1>5, QuietProc
<1>8. MuxInv' /\ RegistryInv'
  BY <1>3, <1>5, <1>7, QuietRegistry
<1> QED BY <1>4, <1>6, <1>7, <1>8

\* The instance a watcher is to close.
LEMMA WatchedModule ==
  ASSUME IInv, NEW w \in Watchers, ~Watches(w, "none")
  PROVE  On(w[1]) \in Modules /\ ~At(On(w[1]), "idle") /\ w[1] \in Goroutines
<1>1. w[1] \in Goroutines /\ (w[1] \in Modules \/ w[1] \in Callers) /\ ~At(w[1], "idle")
  BY WatcherOwner DEF IInv, ProcInv, WatcherInv
<1>2. /\ w[1] \in Modules => On(w[1]) = w[1]
      /\ w[1] \in Callers /\ ~At(w[1], "idle") => On(w[1]) \in Modules /\ ~At(On(w[1]), "idle")
  BY <1>1, OnModule, Zenon DEF IInv
<1> QED BY <1>1, <1>2

LEMMA CloseOnContextDoneStep ==
  ASSUME IInv, NEW w \in Watchers, CloseOnContextDone(w)
  PROVE  IInv'
<1> USE DEF IInv
<1>1. watcher[w].at = "decided" /\ ~Watches(w, "none")
  BY DEF CloseOnContextDone, Watches
<1>2. PICK m \in Modules : m = On(w[1]) /\ ~At(m, "idle")
  BY <1>1, WatchedModule
<1>3. cancelled[w[1]] \in Nat
  BY <1>1, WatchedModule DEF TypeOK
<1>4. /\ exit' \in [Modules -> ExitStates]
      /\ ExitKept
      /\ exit'[m] # Open
      /\ \A x \in Modules : x # m => exit'[x] = exit[x]
      /\ IsOpen(m) => exit'[m] = [code |-> cancelled[w[1]], flag |-> ResourceNotClosed]
  BY <1>2, <1>3, SetExit, Zenon DEF CloseOnContextDone
<1>5. PICK v \in {"delete", "gone"} : Watch(w, v)
  BY DEF CloseOnContextDone
<1>6. /\ watcher' \in [Watchers -> [at : {"none", "watching", "decided", "delete", "gone"}, stop : BOOLEAN]]
      /\ watcher'[w].at = v
      /\ \A x \in Watchers : x # w => watcher'[x] = watcher[x]
  BY <1>5, WatchFacts
<1>7. UNCHANGED <<program, runtimeClosed, registry, mux, resources, proc, cancelled>>
  BY DEF CloseOnContextDone
<1>8. TypeOK'
  BY <1>4, <1>6, <1>7 DEF registry, TypeOK
<1>9. IdleKept /\ \A x \in Modules : ~(IsOpen(x) /\ exit'[x].flag = ResourceClosed)
  <2>1. IdleKept
    BY <1>2, <1>4 DEF IdleKept
  <2>2. ASSUME NEW x \in Modules, IsOpen(x), exit'[x].flag = ResourceClosed PROVE FALSE
    <3>1. CASE x = m
      <4>1. exit'[m] = [code |-> cancelled[w[1]], flag |-> ResourceNotClosed]
        BY <1>4, <2>2, <3>1 DEF IsOpen
      <4>2. exit'[m].flag = ResourceNotClosed
        BY <4>1
      <4> QED BY <2>2, <3>1, <4>2, Zenon DEF ResourceClosed, ResourceNotClosed
    <3>2. CASE x # m
      BY <1>4, <2>2, <3>2 DEF IsOpen, Open, ResourceClosed
    <3> QED BY <3>1, <3>2
  <2> QED BY <2>1, <2>2
<1>10. ProcInv'
  <2>1. ~IsOpen(On(w[1]))'
    <3>1. On(w[1])' = m
      BY <1>2, <1>7 DEF On
    <3> QED BY <1>4, <3>1 DEF IsOpen
  <2> QED BY <1>1, <1>4, <1>6, <1>7, <1>9, <2>1, ProcStays
<1>11. ResourceInv' /\ \A x \in Modules : Registered(x)' <=> Registered(x)
  BY <1>4, <1>7, <1>8, <1>9, QuietProc, Zenon
<1>12. MuxInv' /\ RegistryInv'
  BY <1>4, <1>7, <1>11, QuietRegistry, Zenon
<1> QED BY <1>8, <1>10, <1>11, <1>12

LEMMA WatcherDeletesStep ==
  ASSUME Counted, IInv, NEW w \in Watchers, WatcherDeletes(w)
  PROVE  IInv'
<1> USE DEF IInv
<1>1. watcher[w].at = "delete" /\ ~Watches(w, "none") /\ Watches(w, "delete") /\ ~mux
  BY DEF WatcherDeletes, Watches, deleteModule
<1>2. PICK m \in Modules : m = On(w[1])
  BY <1>1, WatchedModule
<1>3. ~IsOpen(m) /\ deleteModule(m)
  BY <1>1, <1>2 DEF ProcInv, WatcherInv, WatcherDeletes
<1>4. /\ watcher' \in [Watchers -> [at : {"none", "watching", "decided", "delete", "gone"}, stop : BOOLEAN]]
      /\ watcher'[w].at = "gone"
      /\ \A x \in Watchers : x # w => watcher'[x] = watcher[x]
  BY WatchFacts DEF WatcherDeletes
<1>5. UNCHANGED <<program, runtimeClosed, mux, exit, resources, proc, cancelled>>
  BY DEF WatcherDeletes
<1>6. TypeOK'
  BY <1>3, <1>4, <1>5, DeleteStore DEF TypeOK
<1>7. ExitKept /\ IdleKept /\ \A x \in Modules : ~(IsOpen(x) /\ exit'[x].flag = ResourceClosed)
  BY <1>5, ExitStays
<1>8. ProcInv'
  BY <1>1, <1>4, <1>5, <1>7, ProcStays
<1>9. ResourceInv' /\ \A x \in Modules : Registered(x)' <=> Registered(x)
  BY <1>5, <1>6, <1>7, QuietProc
<1>10. MuxInv'
  BY <1>3, <1>5, DeleteStore, MuxFrame
<1>11. RegistryInv'
  <2>1. \A x \in Closers : proc'[x].at \notin {"sweep", "sweep release"}
    BY <1>1, <1>5, NoSweep, Zenon
  <2> QED BY <1>3, <1>5, <1>9, <2>1, DeleteRegistry, Zenon
<1> QED BY <1>6, <1>8, <1>9, <1>10, <1>11

LEMMA CancelStep ==
  ASSUME IInv, NEW p, Cancel(p)
  PROVE  IInv'
<1> USE DEF IInv
<1>1. UNCHANGED <<program, runtimeClosed, registry, mux, exit, resources, proc, watcher>>
  BY DEF Cancel
<1>2. cancelled' \in [Goroutines -> Nat]
  <2>1. PICK c \in {ExitCodeContextCanceled, ExitCodeDeadlineExceeded} : cancelled' = [cancelled EXCEPT ![p] = c]
    BY Zenon DEF Cancel
  <2>2. c \in Nat /\ cancelled \in [Goroutines -> Nat]
    BY DEF ExitCodeContextCanceled, ExitCodeDeadlineExceeded, TypeOK
  <2> QED BY <2>1, <2>2, Zenon
<1>3. TypeOK'
  BY <1>1, <1>2 DEF registry, TypeOK
<1>4. ExitKept /\ IdleKept /\ \A x \in Modules : ~(IsOpen(x) /\ exit'[x].flag = ResourceClosed)
  BY <1>1, ExitStays
<1>5. ProcInv'
  BY <1>1, <1>4, ProcStays, Zenon
<1>6. ResourceInv' /\ \A x \in Modules : Registered(x)' <=> Registered(x)
  BY <1>1, <1>3, <1>4, QuietProc
<1>7. MuxInv' /\ RegistryInv'
  BY <1>1, <1>4, <1>6, QuietRegistry
<1> QED BY <1>3, <1>5, <1>6, <1>7
-----------------------------------------------------------------------------
(* Instantiating, and taking an instance in hand. *)

LEMMA InstantiateStep ==
  ASSUME IInv, NEW m \in Modules, Instantiate(m)
  PROVE  IInv'
<1> USE DEF IInv
<1>1. m \in Goroutines /\ proc[m].at = "idle" /\ At(m, "idle")
  BY DEF Instantiate, At, Goroutines
<1>2. /\ proc[m].stage = "section" /\ IsOpen(m) /\ m \notin Callers /\ m \notin Closers
      /\ On(m) = m /\ proc[m].result = NoResult
  BY <1>1, StageOf, Zenon DEF ProcInv, GoroutineInv, ProcStates
<1>3. PICK v \in {"enter", "register"} : Goto(m, v)
  BY DEF Instantiate
<1>4. v \in Stages
  BY DEF Stages, ModuleStages, Calling
<1>5. /\ proc' \in [Goroutines -> ProcStates] /\ Moves(m)
      /\ proc'[m].at = v /\ proc'[m].on = m /\ proc'[m].stage = proc[m].stage
      /\ proc'[m].then = proc[m].then /\ proc'[m].result = proc[m].result
  BY <1>1, <1>2, <1>3, <1>4, GotoFacts, Zenon DEF On
<1>6. UNCHANGED <<program, runtimeClosed, registry, mux, exit, cancelled, watcher>>
  BY DEF Instantiate
<1>7. resources' \in [Modules -> SUBSET {"fs", "notifier", "code"}]
      /\ \A x \in Modules : x # m => resources'[x] = resources[x]
  BY DEF Instantiate, TypeOK
<1>8. TypeOK'
  BY <1>5, <1>6, <1>7 DEF registry, TypeOK
<1>9. ExitKept /\ IdleKept /\ \A x \in Modules : ~(IsOpen(x) /\ exit'[x].flag = ResourceClosed)
  BY <1>6, ExitStays
<1>10. Placed(m, m)'
  BY <1>2, <1>5, Zenon DEF Placed, SweepStages, ModuleStages, Calling
<1>11. ~Registered(m) /\ ~Registered(m)'
  BY <1>1, <1>2, <1>5 DEF Registered, At
<1>12. \A x \in Modules : "fs" \in resources'[x] => "fs" \in resources[x] \/ IsOpen(x)'
  BY <1>2, <1>6, <1>7, Zenon DEF IsOpen
<1>13. proc'[m].result.kind # "closed"
  BY <1>2, <1>5 DEF NoResult
<1>14. proc[m].at \notin SweepStages \cup {"delete", "release"}
  BY <1>1 DEF SweepStages
<1> QED BY <1>1, <1>2, <1>5, <1>6, <1>8, <1>9, <1>10, <1>11, <1>12, <1>13, <1>14, OrdinaryStep, Zenon

LEMMA AttachStep ==
  ASSUME IInv, NEW m \in Modules, Attach(m)
  PROVE  IInv'
<1> USE DEF IInv
<1>1. m \in Goroutines /\ proc[m].at = "attach" /\ ~At(m, "idle")
  BY DEF Attach, At, Goroutines
<1>2. On(m) = m /\ proc[m] \in ProcStates
  BY <1>1, StageOf, OnModule, Zenon
<1>3. PICK v \in {"enter", "done"} : proc' = [proc EXCEPT ![m].at = v, ![m].stage = "function"]
  BY Zenon DEF Attach
<1> DEFINE r == [proc[m] EXCEPT !.at = v, !.stage = "function"]
<1>4. v \in Stages
  BY DEF Stages, ModuleStages, Calling
<1>5. r \in ProcStates /\ r.at = v /\ r.on = m /\ r.stage = "function" /\ r.result = proc[m].result
  BY <1>2, <1>4, Zenon DEF ProcStates, On
<1>6. proc' = [proc EXCEPT ![m] = r]
  BY <1>1, <1>3, Zenon DEF TypeOK
<1> HIDE DEF r
<1>7. proc' \in [Goroutines -> ProcStates] /\ Moves(m) /\ proc'[m] = r
  BY <1>1, <1>5, <1>6, MoveFacts, Zenon
<1>8. UNCHANGED <<program, runtimeClosed, registry, mux, exit, cancelled, watcher>>
  BY DEF Attach
<1>9. resources' \in [Modules -> SUBSET {"fs", "notifier", "code"}]
      /\ \A x \in Modules : "fs" \in resources'[x] => "fs" \in resources[x]
  <2>1. resources' = [resources EXCEPT ![m] = resources[m] \cup {"notifier", "code"}]
    BY DEF Attach
  <2>2. resources \in [Modules -> SUBSET {"fs", "notifier", "code"}]
    BY DEF TypeOK
  <2> QED BY <2>1, <2>2
<1>10. TypeOK'
  BY <1>7, <1>8, <1>9 DEF registry, TypeOK
<1>11. ExitKept /\ IdleKept /\ \A x \in Modules : ~(IsOpen(x) /\ exit'[x].flag = ResourceClosed)
  BY <1>8, ExitStays
<1>12. Placed(m, m)'
  BY <1>5, <1>7, Disjoint, Zenon DEF Placed, SweepStages, ModuleStages, Calling
<1>13. Registered(m) /\ Registered(m)'
  BY <1>1, <1>5, <1>7 DEF Registered, At
<1>14. proc[m].at \notin SweepStages \cup {"delete", "release"}
  BY <1>1 DEF SweepStages
<1> QED BY <1>1, <1>2, <1>5, <1>7, <1>8, <1>9, <1>10, <1>11, <1>12, <1>13, <1>14, OrdinaryStep, Zenon

\* An instance a program can have in hand is no longer idle.
LEMMA ObtainableFacts ==
  ASSUME IInv, NEW m \in Modules, Obtainable(m)
  PROVE  ~At(m, "idle")
<1>1. CASE At(m, "done")
  BY <1>1 DEF At
<1>2. CASE \E n \in Names : store.names[n] = m
  <2>1. PICK k \in Names : store.names[k] = m
    BY <1>2
  <2>2. k \in Bound(store.names)
    BY <2>1, Disjoint DEF Bound
  <2>3. store.allocated
    BY <2>2 DEF IInv, RegistryInv
  <2>4. PICK n \in Nat : \E q \in [1..n -> Modules] : Registry(n, q)
    BY <2>3 DEF IInv, RegistryInv
  <2>5. PICK q \in [1..n -> Modules] : Registry(n, q)
    BY <2>4
  <2>6. Registered(m)
    BY <2>1, <2>2, <2>5 DEF Registry, Named, Holds
  <2>7. proc[m].stage = "function" => proc[m].at # "idle"
    BY Zenon DEF IInv, ProcInv, GoroutineInv, Goroutines
  <2> QED BY <2>6, <2>7 DEF Registered, At
<1> QED BY <1>1, <1>2 DEF Obtainable

LEMMA CallStarts ==
  ASSUME IInv, NEW p \in Callers, Call(p)
  PROVE  IInv'
<1> USE DEF IInv
<1>1. p \in Goroutines /\ proc[p].at = "idle" /\ At(p, "idle") /\ p \notin Modules /\ p \notin Closers
  BY Disjoint DEF Call, At, Goroutines
<1>2. proc[p] \in ProcStates /\ proc[p].result = NoResult /\ proc[p].then # "failed"
  BY <1>1, StageOf, Zenon DEF ProcInv, GoroutineInv
<1>3. PICK m \in Modules : Obtainable(m) /\ proc' = [proc EXCEPT ![p].at = "enter", ![p].on = m]
  BY Zenon DEF Call
<1> DEFINE r == [proc[p] EXCEPT !.at = "enter", !.on = m]
<1>4. "enter" \in Stages
  BY DEF Stages, ModuleStages, Calling
<1>5. r \in ProcStates /\ r.at = "enter" /\ r.on = m /\ r.then = proc[p].then /\ r.result = proc[p].result
  BY <1>2, <1>4, Zenon DEF ProcStates
<1>6. proc' = [proc EXCEPT ![p] = r]
  BY <1>1, <1>3, Zenon DEF TypeOK
<1> HIDE DEF r
<1>7. proc' \in [Goroutines -> ProcStates] /\ Moves(p) /\ proc'[p] = r
  BY <1>1, <1>5, <1>6, MoveFacts, Zenon
<1>8. UNCHANGED <<program, runtimeClosed, registry, mux, exit, resources, cancelled, watcher>>
  BY DEF Call
<1>9. TypeOK'
  BY <1>7, <1>8 DEF registry, TypeOK
<1>10. ExitKept /\ IdleKept /\ \A x \in Modules : ~(IsOpen(x) /\ exit'[x].flag = ResourceClosed)
  BY <1>8, ExitStays
<1>11. Placed(p, m)'
  BY <1>1, <1>2, <1>5, <1>7, Zenon DEF Placed, SweepStages, CallerStages, Calling
<1>12. ~At(m, "idle")
  BY <1>3, ObtainableFacts
<1>13. proc[p].at \notin SweepStages \cup {"delete", "release"} /\ proc'[p].result.kind # "closed"
  <2>1. proc[p].at \notin SweepStages \cup {"delete", "release"}
    BY <1>1 DEF SweepStages
  <2>2. proc'[p].result = NoResult
    BY <1>2, <1>5, <1>7, Zenon
  <2>3. NoResult.kind # "closed"
    BY DEF NoResult
  <2> QED BY <2>1, <2>2, <2>3, Zenon
<1> QED BY <1>1, <1>7, <1>8, <1>9, <1>10, <1>11, <1>12, <1>13, OrdinaryStep, Zenon

LEMMA CloseModuleStep ==
  ASSUME IInv, NEW p \in Closers, CloseModule(p)
  PROVE  IInv'
<1> USE DEF IInv
<1>1. p \in Goroutines /\ proc[p].at = "idle" /\ At(p, "idle") /\ p \notin Modules /\ p \notin Callers
  BY Disjoint DEF CloseModule, At, Goroutines
<1>2. proc[p] \in ProcStates
  BY <1>1, StageOf
<1>3. PICK m \in Modules :
           Obtainable(m) /\ proc' = [proc EXCEPT ![p].at = "set", ![p].on = m, ![p].code = 1, ![p].then = "done"]
  BY Zenon DEF CloseModule
<1> DEFINE r == [proc[p] EXCEPT !.at = "set", !.on = m, !.code = 1, !.then = "done"]
<1>4. "set" \in Stages
  BY DEF Stages, ModuleStages, Closing
<1>5. r \in ProcStates /\ r.at = "set" /\ r.on = m /\ r.then = "done"
  BY <1>2, <1>4, Zenon DEF ProcStates
<1>6. proc' = [proc EXCEPT ![p] = r]
  BY <1>1, <1>3, Zenon DEF TypeOK
<1> HIDE DEF r
<1>7. proc' \in [Goroutines -> ProcStates] /\ Moves(p) /\ proc'[p] = r
  BY <1>1, <1>5, <1>6, MoveFacts, Zenon
<1>8. UNCHANGED <<program, runtimeClosed, registry, mux, exit, resources, cancelled, watcher>>
  BY DEF CloseModule
<1>9. TypeOK'
  BY <1>7, <1>8 DEF registry, TypeOK
<1>10. ExitKept /\ IdleKept /\ \A x \in Modules : ~(IsOpen(x) /\ exit'[x].flag = ResourceClosed)
  BY <1>8, ExitStays
<1>11. Placed(p, m)'
  BY <1>1, <1>5, <1>7, Zenon DEF Placed, SweepStages, CloserStages, Closing
<1>12. ~At(m, "idle")
  BY <1>3, ObtainableFacts
<1>13. proc[p].at \notin SweepStages \cup {"delete", "release"}
  BY <1>1 DEF SweepStages
<1> QED BY <1>1, <1>7, <1>8, <1>9, <1>10, <1>11, <1>12, <1>13, OrdinaryStep, Zenon

LEMMA RegisterStore ==
  ASSUME Counted, TypeOK, NEW m \in Modules, registerModule(m)
  PROVE  /\ store' \in Stores
         /\ next' \in [Modules -> Modules \cup {Nil}] /\ prev' \in [Modules -> Modules \cup {Nil}]
         /\ store'.allocated = store.allocated
         /\ \A k \in Names : store'.names[k] = IF k = Name[m] THEN m ELSE store.names[k]
<1>1. store \in Stores /\ next \in [Modules -> Modules \cup {Nil}] /\ prev \in [Modules -> Modules \cup {Nil}]
  BY DEF TypeOK
<1>2. next' \in [Modules -> Modules \cup {Nil}] /\ prev' \in [Modules -> Modules \cup {Nil}]
  BY <1>1 DEF registerModule, Stores
<1> DEFINE names == IF Name[m] = Nil THEN store.names ELSE [store.names EXCEPT ![Name[m]] = m]
           cap == IF Name[m] = Nil THEN store.cap ELSE Larger(store.cap, Cardinality(Bound(store.names)) + 1)
<1>3. store.names \in [Names -> Modules \cup {Nil}] /\ store.cap \in Nat
  BY <1>1 DEF Stores
<1>4. store' = [store EXCEPT !.list = m, !.names = names, !.cap = cap]
  BY DEF registerModule
<1>5. cap \in Nat
  <2>1. Cardinality(Bound(store.names)) + 1 \in Nat
    BY <1>3 DEF Counted
  <2> QED BY <1>3, <2>1, LargerOfTwo, Zenon
<1>6. names \in [Names -> Modules \cup {Nil}]
      /\ \A k \in Names : names[k] = IF k = Name[m] THEN m ELSE store.names[k]
  BY <1>3, RuntimeAssumption
<1> HIDE DEF names, cap
<1>7. store' \in Stores /\ store'.allocated = store.allocated /\ store'.names = names
  BY <1>1, <1>4, <1>5, <1>6, Zenon DEF Stores
<1> QED BY <1>2, <1>6, <1>7

LEMMA RegisterRegistry ==
  ASSUME Counted, IInv, NEW m \in Modules, ~Registered(m), Registrable(m), registerModule(m), exit' = exit,
         Registered(m)', \A x \in Modules : x # m => (Registered(x)' <=> Registered(x)),
         \A p \in Closers : proc'[p].at \notin {"sweep", "sweep release"}
  PROVE  RegistryInv'
<1>1. TypeOK /\ store.allocated
  BY Zenon DEF IInv, Registrable
<1>2. /\ store'.allocated = store.allocated
      /\ \A k \in Names : store'.names[k] = IF k = Name[m] THEN m ELSE store.names[k]
  BY <1>1, RegisterStore, Zenon
<1>3. PICK n \in Nat : \E q \in [1..n -> Modules] : Registry(n, q)
  BY <1>1, Zenon DEF IInv, RegistryInv
<1>4. PICK q \in [1..n -> Modules] : Registry(n, q)
  BY <1>3, Zenon
<1>5. ~In(m, n, q) /\ Linked(n, q)
  BY <1>4, Zenon DEF Registry, Holds
<1> DEFINE t == Prepend(m, n, q)
<1>6. /\ t \in [1..(n + 1) -> Modules]
      /\ Linked(n + 1, t)'
      /\ \A x \in Modules : In(x, n + 1, t) <=> x = m \/ In(x, n, q)
  BY <1>1, <1>5, RegisterLinks, Zenon
<1> HIDE DEF t
<1>7. Holds(n + 1, t)'
  BY <1>4, <1>6, Zenon DEF Registry, Holds, IsOpen
<1>8. ASSUME NEW j \in Bound(store.names)' PROVE In(store'.names[j], n + 1, t) /\ Name[store'.names[j]] = j
  <2>1. j \in Names /\ store'.names[j] # Nil
    BY Zenon DEF Bound
  <2>2. CASE j = Name[m]
    BY <1>2, <1>6, <2>1, <2>2, Zenon
  <2>3. CASE j # Name[m]
    <3>1. store'.names[j] = store.names[j] /\ j \in Bound(store.names)
      BY <1>2, <2>1, <2>3, Zenon DEF Bound
    <3>2. store.names[j] \in Modules
      BY <1>1, <2>1, <3>1, Zenon DEF TypeOK, Stores
    <3> QED BY <1>4, <1>6, <3>1, <3>2, Zenon DEF Registry, Named
  <2> QED BY <2>2, <2>3, Zenon
<1>9. Named(n + 1, t)'
  BY <1>8, Zenon DEF Named
<1>10. Swept(n + 1, t)'
  BY Zenon DEF Swept, At
<1>11. n + 1 \in Nat
  BY ONLY n \in Nat
<1> QED BY <1>1, <1>2, <1>6, <1>7, <1>9, <1>10, <1>11, Zenon DEF RegistryInv, Registry

LEMMA RegisterStep ==
  ASSUME Counted, IInv, NEW m \in Modules, Register(m)
  PROVE  IInv'
<1> USE DEF IInv
<1>1. m \in Goroutines /\ proc[m].at = "register" /\ ~At(m, "idle") /\ ~mux
  BY DEF Register, At, Goroutines
<1>2. On(m) = m /\ proc[m] \in ProcStates /\ m \notin Callers /\ m \notin Closers
  BY <1>1, StageOf, OnModule, Zenon
<1>3. proc[m].stage = "section" /\ ~Registered(m)
  BY <1>1, <1>2, Zenon DEF ProcInv, GoroutineInv, ProcStates, Registered, At
<1>4. UNCHANGED <<program, runtimeClosed, mux, exit, resources, cancelled, watcher>>
  BY DEF Register
<1>5. ExitKept /\ IdleKept /\ \A x \in Modules : ~(IsOpen(x) /\ exit'[x].flag = ResourceClosed)
  BY <1>4, ExitStays
<1>6. CASE Registrable(m)
  <2>1. registerModule(m) /\ Goto(m, "attach") /\ "attach" \in Stages
    BY <1>6 DEF Register, Stages, ModuleStages
  <2>2. /\ proc' \in [Goroutines -> ProcStates] /\ Moves(m)
        /\ proc'[m].at = "attach" /\ proc'[m].on = m /\ proc'[m].stage = "section"
        /\ proc'[m].result = proc[m].result
    BY <1>1, <1>2, <1>3, <2>1, GotoFacts DEF On
  <2>3. TypeOK'
    BY <1>4, <2>1, <2>2, RegisterStore, Zenon DEF TypeOK
  <2>4. Placed(m, m)'
    BY <1>2, <2>2 DEF Placed, SweepStages, ModuleStages
  <2>5. ProcInv'
    <3>1. GoroutineInv(m)' /\ ~At(m, "idle")'
      BY <1>1, <2>2, <2>3, <2>4, PlacedInv, Zenon
    <3>2. On(m)' = On(m)
      BY <1>2, <2>2 DEF On
    <3> QED BY <1>1, <1>4, <1>5, <2>2, <2>3, <3>1, <3>2, ProcMoves, Zenon
  <2>6. \A x \in Closers : x \in Goroutines /\ proc'[x] = proc[x]
    BY <1>2, <2>2 DEF Goroutines, Moves
  <2>7. MuxInv'
    BY <1>4, <2>1, <2>6, RegisterStore, MuxFrame
  <2>8. RegistryInv'
    <3>1. Registered(m)' /\ \A x \in Modules : x # m => (Registered(x)' <=> Registered(x))
      BY <2>2 DEF Registered, At, Moves, Goroutines
    <3>2. \A x \in Closers : proc'[x].at \notin {"sweep", "sweep release"}
      BY <1>1, <2>6, NoSweep, Zenon
    <3> QED BY <1>3, <1>4, <1>6, <2>1, <3>1, <3>2, RegisterRegistry, Zenon
  <2>9. ResourceInv'
    <3>1. \A x \in Modules : Releasing(x) => Releasing(x)' \/ "fs" \notin resources'[x]
      BY <1>1, <2>2, <2>3, ReleasingMoves, Zenon
    <3>2. \A x \in Modules \cup Callers : proc'[x].result = proc[x].result /\ On(x)' = On(x)
      BY <1>2, <2>2 DEF Moves, On, Goroutines
    <3> QED BY <1>4, <1>5, <2>3, <3>1, <3>2, ResourceFrame, Zenon
  <2> QED BY <2>3, <2>5, <2>7, <2>8, <2>9
<1>7. CASE ~Registrable(m)
  <2> DEFINE r == [proc[m] EXCEPT !.at = "set", !.code = 0, !.then = "failed"]
  <2>1. "set" \in Stages
    BY DEF Stages, ModuleStages, Closing
  <2>2. r \in ProcStates /\ r.at = "set" /\ r.on = m /\ r.stage = "section" /\ r.result = proc[m].result
    BY <1>2, <1>3, <2>1, Zenon DEF ProcStates, On
  <2>3. proc' = [proc EXCEPT ![m] = r] /\ UNCHANGED registry
    BY <1>1, <1>7, Zenon DEF Register, TypeOK
  <2> HIDE DEF r
  <2>4. proc' \in [Goroutines -> ProcStates] /\ Moves(m) /\ proc'[m] = r
    BY <1>1, <2>2, <2>3, MoveFacts, Zenon
  <2>5. TypeOK'
    BY <1>4, <2>3, <2>4 DEF registry, TypeOK
  <2>6. Placed(m, m)'
    BY <1>2, <2>2, <2>4, Zenon DEF Placed, SweepStages, ModuleStages, Closing
  <2>7. ~Registered(m)'
    BY <2>2, <2>4 DEF Registered, At
  <2>8. proc[m].at \notin SweepStages \cup {"delete", "release"}
    BY <1>1 DEF SweepStages
  <2> QED BY <1>1, <1>2, <1>3, <1>4, <1>5, <2>2, <2>3, <2>4, <2>5, <2>6, <2>7, <2>8, OrdinaryStep, Zenon
<1> QED BY <1>6, <1>7
-----------------------------------------------------------------------------
(* Closing the runtime. *)

LEMMA CloserMoves ==
  ASSUME IInv, TypeOK', NEW p \in Closers, Moves(p), ExitKept, IdleKept, watcher' = watcher,
         proc'[p].at \in {"done", "lock", "sweep", "sweep release"}, proc'[p].then = "done",
         proc'[p].at = "sweep release" =>
            \E m \in Modules : proc'[p].on = m /\ ~At(m, "idle") /\ exit'[m] # Open
  PROVE  /\ ProcInv'
         /\ \A x \in Modules : Registered(x)' <=> Registered(x)
         /\ \A x \in Modules \cup Callers : proc'[x].result = proc[x].result /\ On(x)' = On(x)
<1> USE DEF IInv
<1>1. p \in Goroutines /\ p \notin Modules /\ p \notin Callers
  BY Disjoint, Zenon DEF Goroutines
<1>2. \A x \in Modules \cup Callers : x \in Goroutines /\ x # p /\ proc'[x] = proc[x]
  BY <1>1, Zenon DEF Goroutines, Moves
<1>3. ~At(p, "idle")'
  BY Zenon DEF At
<1>4. proc'[p].at = "sweep release" => (On(p) \in Modules /\ ~At(On(p), "idle") /\ ~IsOpen(On(p)))'
  <2> SUFFICES ASSUME proc'[p].at = "sweep release"
               PROVE  (On(p) \in Modules /\ ~At(On(p), "idle") /\ ~IsOpen(On(p)))'
    BY Zenon
  <2>1. PICK m \in Modules : proc'[p].on = m /\ ~At(m, "idle") /\ exit'[m] # Open
    BY Zenon
  <2>2. On(p)' = m /\ ~At(m, "idle")'
    BY <1>2, <2>1, Zenon DEF On, At
  <2> QED BY <2>1, <2>2, Zenon DEF IsOpen, At
<1>5. GoroutineInv(p)'
  <2>1. proc'[p].at \in CloserStages /\ proc'[p].at \notin Closing /\ proc'[p].at # "idle"
        /\ proc'[p].at \notin {"delete", "release"}
    BY Zenon DEF CloserStages, SweepStages, Closing
  <2> QED BY <1>1, <1>3, <1>4, <2>1, Zenon DEF GoroutineInv
<1>6. ProcInv'
  BY <1>1, <1>3, <1>5, ProcMoves, Zenon
<1> QED BY <1>2, <1>6, Zenon DEF Registered, At, On

LEMMA CloseRuntimeStep ==
  ASSUME IInv, NEW p \in Closers, CloseRuntime(p)
  PROVE  IInv'
<1> USE DEF IInv
<1>1. p \in Goroutines /\ proc[p].at = "idle"
  BY DEF Goroutines, CloseRuntime, At
<1>2. proc[p].then = "done"
  BY <1>1, StageOf
<1> DEFINE v == IF runtimeClosed THEN "done" ELSE "lock"
<1>3. Goto(p, v) /\ v \in Stages
  BY DEF CloseRuntime, Stages, CloserStages, SweepStages
<1> HIDE DEF v
<1>4. /\ proc' \in [Goroutines -> ProcStates] /\ Moves(p)
      /\ proc'[p].at = v /\ proc'[p].then = "done"
  BY <1>1, <1>2, <1>3, GotoFacts, Zenon
<1>5. UNCHANGED <<program, registry, mux, exit, resources, cancelled, watcher>> /\ runtimeClosed' = TRUE
  BY DEF CloseRuntime
<1>6. TypeOK'
  BY <1>4, <1>5 DEF registry, TypeOK
<1>7. ExitKept /\ IdleKept /\ \A x \in Modules : ~(IsOpen(x) /\ exit'[x].flag = ResourceClosed)
  BY <1>5, ExitStays
<1>8. v \in {"done", "lock"}
  BY DEF v
<1>9. /\ ProcInv'
      /\ \A x \in Modules : Registered(x)' <=> Registered(x)
      /\ \A x \in Modules \cup Callers : proc'[x].result = proc[x].result /\ On(x)' = On(x)
  BY <1>4, <1>5, <1>6, <1>7, <1>8, CloserMoves, Zenon
<1>10. \A x \in Closers : x # p => proc'[x] = proc[x]
  BY <1>4 DEF Goroutines, Moves
<1>11. MuxInv'
  <2>1. store' = store /\ mux' = mux
    BY <1>5 DEF registry
  <2>2. mux' = (\E x \in Closers : proc[x].at \in {"sweep", "sweep release"})'
    <3>1. \A x \in Closers : proc'[x].at \in {"sweep", "sweep release"} <=> proc[x].at \in {"sweep", "sweep release"}
      BY <1>1, <1>4, <1>8, <1>10, Zenon
    <3> QED BY <2>1, <3>1, Zenon DEF MuxInv
  <2>3. CASE runtimeClosed
    <3>1. \A x \in Closers : proc'[x].at \in SweepStages <=> proc[x].at \in SweepStages
      BY <1>1, <1>4, <1>10, <2>3, Zenon DEF v, SweepStages
    <3>2. Sweeping' <=> Sweeping
      BY <3>1, Zenon DEF Sweeping, SweepStages
    <3> QED BY <1>5, <2>1, <2>2, <2>3, <3>1, <3>2, Zenon DEF MuxInv
  <2>4. CASE ~runtimeClosed
    <3>1. ~Sweeping /\ store.allocated
      BY <2>4, Zenon DEF MuxInv
    <3>2. \A x \in Closers : proc'[x].at \in SweepStages => x = p
      BY <1>10, <3>1, Zenon DEF Sweeping, SweepStages
    <3>3. Sweeping'
      BY <1>4, <2>4, Zenon DEF Sweeping, v
    <3> QED BY <1>5, <2>1, <2>2, <3>1, <3>2, <3>3, Zenon DEF MuxInv
  <2> QED BY <2>3, <2>4
<1>12. RegistryInv'
  <2>1. \A x \in Closers : proc'[x].at \in {"sweep", "sweep release"} => proc'[x] = proc[x]
    BY <1>4, <1>8, <1>10, Zenon
  <2> QED BY <1>5, <1>7, <1>9, <2>1, RegistryFrame, Zenon
<1>13. ResourceInv'
  <2>1. \A x \in Modules : Releasing(x) => Releasing(x)' \/ "fs" \notin resources'[x]
    BY <1>1, <1>4, <1>6, ReleasingMoves, Zenon
  <2> QED BY <1>5, <1>6, <1>7, <1>9, <2>1, ResourceFrame, Zenon
<1> QED BY <1>6, <1>9, <1>11, <1>12, <1>13

\* The registry while its one sweep goes on.
LEMMA SweepRegistry ==
  ASSUME IInv, UNCHANGED registry, ExitKept, store.allocated,
         \A x \in Modules : Registered(x)' <=> Registered(x),
         NEW n \in Nat, NEW q \in [1..n -> Modules], Registry(n, q), Swept(n, q)'
  PROVE  RegistryInv'
<1> USE DEF registry
<1>1. \A m \in Modules : IsOpen(m)' => IsOpen(m)
  BY DEF ExitKept, IsOpen
<1>2. Linked(n, q)'
  BY Zenon DEF Registry, Linked
<1>3. Holds(n, q)'
  BY <1>1 DEF Registry, Holds
<1>4. Named(n, q)'
  BY Zenon DEF Registry, Named, Bound
<1> QED BY <1>2, <1>3, <1>4 DEF RegistryInv, Registry

\* It is a sweep of p only, and has the registry it found.
LEMMA SweepAlone ==
  ASSUME IInv, NEW p \in Closers, proc[p].at \in SweepStages
  PROVE  /\ p \in Goroutines
         /\ store.allocated /\ runtimeClosed
         /\ \A x \in Closers : x # p => proc[x].at \notin SweepStages
         /\ \E n \in Nat : \E q \in [1..n -> Modules] : Registry(n, q)
         /\ proc[p].then = "done"
<1>1. Sweeping
  BY Zenon DEF Sweeping, SweepStages
<1>2. store.allocated /\ runtimeClosed /\ \A x \in Closers : x # p => proc[x].at \notin SweepStages
  BY <1>1, Zenon DEF IInv, MuxInv
<1>3. \E n \in Nat : \E q \in [1..n -> Modules] : Registry(n, q)
  BY <1>2 DEF IInv, RegistryInv
<1>4. p \in Goroutines
  BY DEF Goroutines
<1> QED BY <1>2, <1>3, <1>4, StageOf

LEMMA SweptAfter ==
  ASSUME IInv, NEW p \in Closers, proc[p].at \in SweepStages, Moves(p),
         NEW n \in Nat, NEW q \in [1..n -> Modules],
         \/ /\ proc'[p].at = "sweep"
            /\ \E i \in 0..n : proc'[p].on = (IF i = n THEN Nil ELSE q[i + 1]) /\ Passed(n, q, i)'
         \/ /\ proc'[p].at = "sweep release"
            /\ \E i \in 1..n : proc'[p].on = q[i] /\ Passed(n, q, i)'
  PROVE  Swept(n, q)'
<1>1. ASSUME NEW x \in Closers, x # p PROVE proc'[x].at \notin {"sweep", "sweep release"}
  BY <1>1, SweepAlone, Zenon DEF Moves, Goroutines, SweepStages
<1>2. /\ (At(p, "sweep") => \E i \in 0..n : On(p) = (IF i = n THEN Nil ELSE q[i + 1]) /\ Passed(n, q, i))'
      /\ (At(p, "sweep release") => \E i \in 1..n : On(p) = q[i] /\ Passed(n, q, i))'
  BY Zenon DEF At, On
<1> QED BY <1>1, <1>2, Zenon DEF Swept, At

LEMMA SweepMux ==
  ASSUME IInv, NEW p \in Closers, proc[p].at \in SweepStages, Moves(p), runtimeClosed' = runtimeClosed,
         store' = store, mux' = TRUE, proc'[p].at \in {"sweep", "sweep release"}
  PROVE  MuxInv'
<1>1. \A x \in Closers : x # p => proc'[x].at \notin SweepStages
  BY SweepAlone, Zenon DEF Moves, Goroutines
<1>2. Sweeping' /\ (\E x \in Closers : proc[x].at \in {"sweep", "sweep release"})'
  BY Zenon DEF Sweeping
<1> QED BY <1>1, <1>2, SweepAlone, Zenon DEF MuxInv

LEMMA SweepStartStep ==
  ASSUME IInv, NEW p \in Closers, SweepStart(p)
  PROVE  IInv'
<1> USE DEF IInv
<1>1. proc[p].at = "lock" /\ proc[p].at \in SweepStages
  BY DEF SweepStart, At, SweepStages
<1>2. p \in Goroutines /\ store.allocated /\ proc[p].then = "done" /\ proc[p] \in ProcStates
  BY <1>1, SweepAlone, StageOf
<1>3. PICK n \in Nat : \E q \in [1..n -> Modules] : Registry(n, q)
  BY <1>1, SweepAlone
<1>4. PICK q \in [1..n -> Modules] : Registry(n, q)
  BY <1>3
<1> DEFINE r == [proc[p] EXCEPT !.at = "sweep", !.on = store.list]
<1>5. r \in ProcStates /\ r.at = "sweep" /\ r.on = store.list /\ r.then = "done"
  <2>1. "sweep" \in Stages /\ store.list \in Modules \cup {Nil}
    BY DEF Stages, CloserStages, SweepStages, TypeOK, Stores
  <2> QED BY <1>2, <2>1, Zenon DEF ProcStates
<1>6. proc' = [proc EXCEPT ![p] = r]
  BY <1>2, Zenon DEF SweepStart, TypeOK
<1> HIDE DEF r
<1>7. proc' \in [Goroutines -> ProcStates] /\ Moves(p) /\ proc'[p] = r
  BY <1>2, <1>5, <1>6, MoveFacts, Zenon
<1>8. UNCHANGED <<program, runtimeClosed, registry, exit, resources, cancelled, watcher>> /\ mux' = TRUE
  BY DEF SweepStart
<1>9. TypeOK'
  BY <1>7, <1>8 DEF registry, TypeOK
<1>10. ExitKept /\ IdleKept /\ \A x \in Modules : ~(IsOpen(x) /\ exit'[x].flag = ResourceClosed)
  BY <1>8, ExitStays
<1>11. /\ ProcInv'
       /\ \A x \in Modules : Registered(x)' <=> Registered(x)
       /\ \A x \in Modules \cup Callers : proc'[x].result = proc[x].result /\ On(x)' = On(x)
  BY <1>5, <1>7, <1>8, <1>9, <1>10, CloserMoves, Zenon
<1>12. MuxInv'
  BY <1>1, <1>5, <1>7, <1>8, SweepMux, Zenon DEF registry
<1>13. Swept(n, q)'
  <2>1. 0 \in 0..n /\ Passed(n, q, 0)'
    BY DEF Passed
  <2>2. proc'[p].on = IF 0 = n THEN Nil ELSE q[0 + 1]
    BY <1>4, <1>5, <1>7 DEF Registry, Linked
  <2> QED BY <1>1, <1>5, <1>7, <2>1, <2>2, SweptAfter, Zenon
<1>14. RegistryInv'
  BY <1>2, <1>4, <1>8, <1>10, <1>11, <1>13, SweepRegistry, Zenon
<1>15. ResourceInv'
  <2>1. \A x \in Modules : Releasing(x) => Releasing(x)' \/ "fs" \notin resources'[x]
    BY <1>1, <1>2, <1>7, <1>9, ReleasingMoves, Zenon
  <2> QED BY <1>8, <1>9, <1>10, <1>11, <2>1, ResourceFrame, Zenon
<1> QED BY <1>9, <1>11, <1>12, <1>14, <1>15

\* Where a sweep stands in the list.
LEMMA SweepAt ==
  ASSUME IInv, NEW p \in Closers, proc[p].at = "sweep", NEW n \in Nat, NEW q \in [1..n -> Modules], Registry(n, q)
  PROVE  \E i \in 0..n : proc[p].on = (IF i = n THEN Nil ELSE q[i + 1]) /\ Passed(n, q, i)
BY Zenon DEF Registry, Swept, At, On

LEMMA SweepSetStep ==
  ASSUME IInv, NEW p \in Closers, SweepSet(p)
  PROVE  IInv'
<1> USE DEF IInv
<1>1. proc[p].at = "sweep" /\ proc[p].at \in SweepStages /\ proc[p].on # Nil
  BY Zenon DEF SweepSet, At, On, SweepStages
<1>2. p \in Goroutines /\ store.allocated /\ proc[p].then = "done" /\ proc[p] \in ProcStates
  BY <1>1, SweepAlone, StageOf
<1>3. PICK n \in Nat : \E q \in [1..n -> Modules] : Registry(n, q)
  BY <1>1, SweepAlone
<1>4. PICK q \in [1..n -> Modules] : Registry(n, q)
  BY <1>3
<1>5. PICK i \in 0..n : proc[p].on = (IF i = n THEN Nil ELSE q[i + 1]) /\ Passed(n, q, i)
  BY <1>1, <1>4, SweepAt
<1>6. i # n /\ i + 1 \in 1..n /\ i + 1 \in 0..n
  BY <1>1, <1>5
<1>7. PICK m \in Modules : m = proc[p].on /\ m = q[i + 1]
  BY <1>5, <1>6
<1>8. Registered(m) /\ ~At(m, "idle")
  <2>1. Registered(m)
    BY <1>4, <1>6, <1>7 DEF Registry, Holds, In
  <2>2. proc[m].stage = "function" => proc[m].at # "idle"
    BY Zenon DEF ProcInv, GoroutineInv, Goroutines
  <2> QED BY <2>1, <2>2 DEF Registered, At
<1>9. /\ exit' \in [Modules -> ExitStates]
      /\ ExitKept
      /\ exit'[m] # Open
      /\ \A x \in Modules : x # m => exit'[x] = exit[x]
  BY <1>7, SetExit, Zenon DEF SweepSet, On
<1> DEFINE r == IF IsOpen(m) THEN [proc[p] EXCEPT !.at = "sweep release"] ELSE [proc[p] EXCEPT !.on = next[m]]
<1>10. /\ r \in ProcStates /\ r.then = "done"
       /\ r.at = IF IsOpen(m) THEN "sweep release" ELSE "sweep"
       /\ r.on = IF IsOpen(m) THEN m ELSE next[m]
  <2>1. "sweep release" \in Stages /\ next[m] \in Modules \cup {Nil}
    BY DEF Stages, CloserStages, SweepStages, TypeOK
  <2> QED BY <1>1, <1>2, <1>7, <2>1, Zenon DEF ProcStates
<1>11. proc' = [proc EXCEPT ![p] = r]
  BY <1>7, Zenon DEF SweepSet, On
<1> HIDE DEF r
<1>12. proc' \in [Goroutines -> ProcStates] /\ Moves(p) /\ proc'[p] = r
  BY <1>2, <1>10, <1>11, MoveFacts, Zenon
<1>13. UNCHANGED <<program, runtimeClosed, registry, mux, resources, cancelled, watcher>>
  BY Zenon DEF SweepSet
<1>14. TypeOK'
  BY <1>9, <1>12, <1>13 DEF registry, TypeOK
<1>15. IdleKept
  BY <1>8, <1>9 DEF IdleKept
<1>16. /\ ProcInv'
       /\ \A x \in Modules : Registered(x)' <=> Registered(x)
       /\ \A x \in Modules \cup Callers : proc'[x].result = proc[x].result /\ On(x)' = On(x)
  BY <1>8, <1>9, <1>10, <1>12, <1>13, <1>14, <1>15, CloserMoves, Zenon
<1>17. MuxInv'
  <2>1. mux = TRUE
    BY <1>1, Zenon DEF MuxInv
  <2> QED BY <1>1, <1>10, <1>12, <1>13, <2>1, SweepMux, Zenon DEF registry
<1>18. Swept(n, q)'
  <2>1. Passed(n, q, i + 1)'
    <3> SUFFICES ASSUME NEW j \in 1..(i + 1) PROVE ~IsOpen(q[j])'
      BY DEF Passed
    <3>1. CASE j = i + 1
      BY <1>7, <1>9, <3>1 DEF IsOpen
    <3>2. CASE j # i + 1
      <4>1. j \in 1..i /\ j \in 1..n
        BY ONLY n \in Nat, i \in 0..n, j \in 1..(i + 1), <3>2
      <4>2. q[j] \in Modules /\ ~IsOpen(q[j])
        BY <1>5, <4>1 DEF Passed
      <4> QED BY <1>9, <4>2 DEF IsOpen, ExitKept
    <3> QED BY <3>1, <3>2
  <2>2. CASE IsOpen(m)
    BY <1>1, <1>6, <1>7, <1>10, <1>12, <2>1, <2>2, SweptAfter, Zenon
  <2>3. CASE ~IsOpen(m)
    <3>1. next[m] = IF i + 1 = n THEN Nil ELSE q[(i + 1) + 1]
      BY <1>4, <1>6, <1>7, Zenon DEF Registry, Linked
    <3> QED BY <1>1, <1>6, <1>10, <1>12, <2>1, <2>3, <3>1, SweptAfter, Zenon
  <2> QED BY <2>2, <2>3
<1>19. RegistryInv'
  BY <1>2, <1>4, <1>9, <1>13, <1>16, <1>18, SweepRegistry, Zenon
<1>20. ResourceInv'
  <2>1. \A x \in Modules : Releasing(x) => Releasing(x)' \/ "fs" \notin resources'[x]
    BY <1>1, <1>2, <1>12, <1>14, ReleasingMoves, Zenon
  <2>2. ASSUME NEW x \in Modules, IsOpen(x), exit'[x].flag = ResourceClosed PROVE Releasing(x)'
    <3>1. x = m
      BY <1>9, <2>2 DEF IsOpen, Open, ResourceClosed
    <3> QED BY <1>2, <1>10, <1>12, <2>2, <3>1, Zenon DEF Releasing, On
  <2> QED BY <1>9, <1>13, <1>14, <1>16, <2>1, <2>2, ResourceFrame, Zenon
<1> QED BY <1>14, <1>16, <1>17, <1>19, <1>20, Zenon

LEMMA SweepReleaseStep ==
  ASSUME IInv, NEW p \in Closers, SweepRelease(p)
  PROVE  IInv'
<1> USE DEF IInv
<1>1. proc[p].at = "sweep release" /\ proc[p].at \in SweepStages
  BY Zenon DEF SweepRelease, At, SweepStages
<1>2. p \in Goroutines /\ store.allocated /\ proc[p].then = "done" /\ proc[p] \in ProcStates
  BY <1>1, SweepAlone, StageOf, Zenon
<1>3. PICK n \in Nat : \E q \in [1..n -> Modules] : Registry(n, q)
  BY <1>1, SweepAlone, Zenon
<1>4. PICK q \in [1..n -> Modules] : Registry(n, q)
  BY <1>3
<1>5. PICK i \in 1..n : proc[p].on = q[i] /\ Passed(n, q, i)
  BY <1>1, <1>4, Zenon DEF Registry, Swept, At, On
<1>6. PICK m \in Modules : m = proc[p].on /\ m = q[i]
  BY <1>5
<1> DEFINE r == [proc[p] EXCEPT !.at = "sweep", !.on = next[m]]
<1>7. r \in ProcStates /\ r.then = "done" /\ r.at = "sweep" /\ r.on = next[m]
  <2>1. "sweep" \in Stages /\ next[m] \in Modules \cup {Nil}
    BY DEF Stages, CloserStages, SweepStages, TypeOK
  <2> QED BY <1>2, <2>1, Zenon DEF ProcStates
<1>8. proc' = [proc EXCEPT ![p] = r]
  BY <1>2, <1>6, Zenon DEF SweepRelease, On, TypeOK
<1> HIDE DEF r
<1>9. proc' \in [Goroutines -> ProcStates] /\ Moves(p) /\ proc'[p] = r
  BY <1>2, <1>7, <1>8, MoveFacts, Zenon
<1>10. UNCHANGED <<program, runtimeClosed, registry, mux, exit, cancelled, watcher>>
  BY Zenon DEF SweepRelease
<1>11. resources' \in [Modules -> SUBSET {"fs", "notifier", "code"}] /\ resources'[m] = {}
       /\ \A x \in Modules : resources'[x] \subseteq resources[x]
  BY <1>6, Zenon DEF SweepRelease, ensureResourcesClosed, TypeOK, On
<1>12. TypeOK'
  BY <1>9, <1>10, <1>11 DEF registry, TypeOK
<1>13. ExitKept /\ IdleKept /\ \A x \in Modules : ~(IsOpen(x) /\ exit'[x].flag = ResourceClosed)
  BY <1>10, ExitStays
<1>14. /\ ProcInv'
       /\ \A x \in Modules : Registered(x)' <=> Registered(x)
       /\ \A x \in Modules \cup Callers : proc'[x].result = proc[x].result /\ On(x)' = On(x)
  BY <1>7, <1>9, <1>10, <1>12, <1>13, CloserMoves, Zenon
<1>15. MuxInv'
  <2>1. mux = TRUE
    BY <1>1, Zenon DEF MuxInv
  <2> QED BY <1>1, <1>7, <1>9, <1>10, <2>1, SweepMux, Zenon DEF registry
<1>16. Swept(n, q)'
  <2>1. Passed(n, q, i)'
    BY <1>5, <1>10 DEF Passed, IsOpen
  <2>2. next[m] = IF i = n THEN Nil ELSE q[i + 1]
    BY <1>4, <1>6, Zenon DEF Registry, Linked
  <2>3. i \in 0..n
    BY ONLY n \in Nat, i \in 1..n
  <2> QED BY <1>1, <1>7, <1>9, <2>1, <2>2, <2>3, SweptAfter, Zenon
<1>17. RegistryInv'
  BY <1>2, <1>4, <1>10, <1>13, <1>14, <1>16, SweepRegistry, Zenon
<1>18. ResourceInv'
  <2>1. \A x \in Modules : Releasing(x) => Releasing(x)' \/ "fs" \notin resources'[x]
    BY <1>2, <1>6, <1>9, <1>11, <1>12, ReleasingMoves, Zenon DEF On
  <2> QED BY <1>11, <1>12, <1>13, <1>14, <2>1, ResourceFrame, Zenon
<1> QED BY <1>12, <1>14, <1>15, <1>17, <1>18, Zenon

LEMMA SweepEndStep ==
  ASSUME IInv, NEW p \in Closers, SweepEnd(p)
  PROVE  IInv'
<1> USE DEF IInv
<1>1. proc[p].at = "sweep" /\ proc[p].at \in SweepStages /\ proc[p].on = Nil
  BY DEF SweepEnd, At, On, SweepStages
<1>2. p \in Goroutines /\ store.allocated /\ runtimeClosed /\ proc[p].then = "done"
  BY <1>1, SweepAlone
<1>3. PICK n \in Nat : \E q \in [1..n -> Modules] : Registry(n, q)
  BY <1>1, SweepAlone
<1>4. PICK q \in [1..n -> Modules] : Registry(n, q)
  BY <1>3
<1>5. PICK i \in 0..n : proc[p].on = (IF i = n THEN Nil ELSE q[i + 1]) /\ Passed(n, q, i)
  BY <1>1, <1>4, SweepAt
<1>6. i = n
  <2>1. i # n => i + 1 \in 1..n
    OBVIOUS
  <2> QED BY <1>1, <1>5, <2>1, Disjoint
<1>7. ASSUME NEW m \in Modules, Registered(m) PROVE ~IsOpen(m)
  <2>1. IsOpen(m) => In(m, n, q)
    BY <1>4, <1>7 DEF Registry, Holds
  <2> QED BY <1>5, <1>6, <2>1 DEF In, Passed
<1>8. Goto(p, "done") /\ "done" \in Stages
  BY DEF SweepEnd, Stages, ModuleStages
<1>9. /\ proc' \in [Goroutines -> ProcStates] /\ Moves(p)
      /\ proc'[p].at = "done" /\ proc'[p].then = "done"
  BY <1>2, <1>8, GotoFacts
<1>10. /\ UNCHANGED <<program, runtimeClosed, next, prev, exit, resources, cancelled, watcher>>
       /\ mux' = FALSE
       /\ store' = [list |-> Nil, names |-> [k \in Names |-> Nil], allocated |-> FALSE, cap |-> 0]
  BY DEF SweepEnd
<1>11. store' \in Stores /\ store'.list = Nil /\ Bound(store.names)' = {} /\ ~store'.allocated /\ store'.cap = 0
  BY <1>10 DEF Stores, Bound
<1>12. TypeOK'
  BY <1>9, <1>10, <1>11, Zenon DEF TypeOK
<1>13. ExitKept /\ IdleKept /\ \A x \in Modules : ~(IsOpen(x) /\ exit'[x].flag = ResourceClosed)
  BY <1>10, ExitStays
<1>14. /\ ProcInv'
       /\ \A x \in Modules : Registered(x)' <=> Registered(x)
       /\ \A x \in Modules \cup Callers : proc'[x].result = proc[x].result /\ On(x)' = On(x)
  BY <1>9, <1>10, <1>12, <1>13, CloserMoves, Zenon
<1>15. MuxInv'
  <2>1. \A x \in Closers : proc'[x].at \notin SweepStages
    BY <1>1, <1>9, SweepAlone, Zenon DEF Moves, Goroutines, SweepStages
  <2>2. ~Sweeping' /\ ~(\E x \in Closers : proc[x].at \in {"sweep", "sweep release"})'
    BY <2>1, Zenon DEF Sweeping, SweepStages
  <2>3. store'.allocated = FALSE
    BY <1>10
  <2> QED BY <1>2, <1>10, <2>1, <2>2, <2>3, Zenon DEF MuxInv
<1>16. RegistryInv'
  <2>1. \A m \in Modules : Registered(m)' => ~IsOpen(m)'
    BY <1>7, <1>10, <1>14, Zenon DEF IsOpen
  <2> QED BY <1>11, <2>1, Zenon DEF RegistryInv
<1>17. ResourceInv'
  <2>1. \A x \in Modules : Releasing(x) => Releasing(x)' \/ "fs" \notin resources'[x]
    BY <1>1, <1>2, <1>9, <1>12, ReleasingMoves, Zenon
  <2> QED BY <1>10, <1>12, <1>13, <1>14, <2>1, ResourceFrame, Zenon
<1> QED BY <1>12, <1>14, <1>15, <1>16, <1>17, Zenon
-----------------------------------------------------------------------------
(* The theorems. *)

LEMMA InitInv == Init => IInv
<1> SUFFICES ASSUME Init PROVE IInv
  OBVIOUS
<1>1. /\ \A p \in Goroutines : /\ proc[p] \in ProcStates
                               /\ proc[p].at = "idle" /\ proc[p].then = "done" /\ proc[p].result = NoResult
                               /\ proc[p].on = (IF p \in Modules THEN p ELSE Nil)
                               /\ p \in Modules => proc[p].stage = "section"
      /\ proc \in [Goroutines -> ProcStates]
  <2>1. "idle" \in Stages /\ NoResult \in Results
    BY DEF Stages, ModuleStages, NoResult, Results
  <2> QED BY <2>1 DEF Init, ProcStates
<1>2. /\ store \in Stores /\ store.list = Nil /\ store.allocated = TRUE
      /\ Bound(store.names) = {}
  BY RuntimeAssumption DEF Init, Stores, Bound
<1>3. TypeOK
  BY <1>1, <1>2, Zenon DEF Init, TypeOK, ExitStates
<1>4. ProcInv
  <2>1. ASSUME NEW p \in Goroutines PROVE GoroutineInv(p)
    <3>1. p \in Modules => exit[p] = Open
      BY DEF Init
    <3> QED BY <1>1, <3>1, Zenon
            DEF GoroutineInv, At, On, IsOpen, ModuleStages, CallerStages, CloserStages, Closing
  <2>2. ASSUME NEW w \in Watchers PROVE WatcherInv(w)
    BY DEF Init, WatcherInv, Watches
  <2> QED BY <2>1, <2>2 DEF ProcInv
<1>5. MuxInv
  <2>1. \A p \in Closers : proc[p].at \notin SweepStages
    BY <1>1, Zenon DEF SweepStages, Goroutines
  <2>2. ~Sweeping /\ ~(\E p \in Closers : proc[p].at \in {"sweep", "sweep release"})
    BY <2>1, Zenon DEF Sweeping, SweepStages
  <2>3. mux = FALSE /\ runtimeClosed = FALSE
    BY DEF Init
  <2> QED BY <1>2, <2>1, <2>2, <2>3, Zenon DEF MuxInv
<1>6. RegistryInv
  <2> DEFINE q == [i \in 1..0 |-> Nil]
  <2>1. q \in [1..0 -> Modules] /\ 0 \in Nat
    OBVIOUS
  <2> HIDE DEF q
  <2>2. \A m \in Modules : next[m] = Nil /\ prev[m] = Nil /\ ~Registered(m)
    BY <1>1 DEF Init, Registered, At, Goroutines
  <2>3. Linked(0, q)
    <3>1. \A i \in 1..0 : FALSE
      OBVIOUS
    <3> QED BY <1>2, <2>1, <2>2, <3>1 DEF Linked
  <2>4. \A m \in Modules : ~In(m, 0, q)
    BY DEF In
  <2>5. Holds(0, q) /\ Named(0, q)
    BY <1>2, <2>2, <2>4, Zenon DEF Holds, Named
  <2>6. Swept(0, q)
    BY <1>1, Zenon DEF Swept, At, Goroutines
  <2> QED BY <1>2, <2>1, <2>3, <2>5, <2>6, Zenon DEF RegistryInv, Registry
<1>7. ResourceInv
  <2>1. \A m \in Modules : exit[m] = Open
    BY DEF Init
  <2>2. \A m \in Modules : exit[m].flag # ResourceClosed
    BY <2>1 DEF Open, ResourceClosed
  <2>3. \A p \in Modules \cup Callers : proc[p].result.kind # "closed"
    BY <1>1 DEF Goroutines, NoResult
  <2> QED BY <2>2, <2>3, Zenon DEF ResourceInv
<1> QED BY <1>3, <1>4, <1>5, <1>6, <1>7 DEF IInv

LEMMA NextInv == Counted /\ IInv /\ [Next]_vars => IInv'
<1> SUFFICES ASSUME Counted, IInv, [Next]_vars PROVE IInv'
  OBVIOUS
<1>1. ASSUME NEW p \in Goroutines, Proceed(p) PROVE IInv'
  BY <1>1, SetStep, DeleteStep, ReleaseStep, EnterStep, CheckExitCodeStep, LeaveStep, CheckStep,
     RegisterStep, AttachStep, SweepStartStep, SweepSetStep, SweepReleaseStep, SweepEndStep
  DEF Proceed
<1>2. ASSUME NEW p \in Modules \cup Callers, GuestEnds(p) PROVE IInv'
  BY <1>2, GuestEndsStep
<1>3. ASSUME NEW w \in Watchers, WatcherSteps(w) PROVE IInv'
  BY <1>3, WakeStep, CloseOnContextDoneStep, WatcherDeletesStep DEF WatcherSteps
<1>4. ASSUME NEW m \in Modules \cap program.runs, Instantiate(m) PROVE IInv'
  BY <1>4, InstantiateStep
<1>5. ASSUME NEW p \in Callers \cap program.runs, Call(p) PROVE IInv'
  BY <1>5, CallStarts
<1>6. ASSUME NEW p \in Closers \cap program.runs, CloseModule(p) \/ CloseRuntime(p) PROVE IInv'
  BY <1>6, CloseModuleStep, CloseRuntimeStep
<1>7. ASSUME NEW p \in program.ends, Cancel(p) PROVE IInv'
  BY <1>7, CancelStep
<1>8. CASE UNCHANGED vars
  <2> USE DEF IInv
  <2>1. UNCHANGED <<program, runtimeClosed, registry, mux, exit, resources, proc, cancelled, watcher>>
    BY <1>8 DEF vars, registry
  <2>2. TypeOK'
    BY <2>1 DEF registry, TypeOK
  <2>3. ExitKept /\ IdleKept /\ \A x \in Modules : ~(IsOpen(x) /\ exit'[x].flag = ResourceClosed)
    BY <2>1, ExitStays
  <2>4. ProcInv'
    BY <2>1, <2>3, ProcStays
  <2>5. ResourceInv' /\ \A x \in Modules : Registered(x)' <=> Registered(x)
    BY <2>1, <2>2, <2>3, QuietProc
  <2>6. MuxInv' /\ RegistryInv'
    BY <2>1, <2>3, <2>5, QuietRegistry
  <2> QED BY <2>2, <2>4, <2>5, <2>6
<1> QED BY <1>1, <1>2, <1>3, <1>4, <1>5, <1>6, <1>7, <1>8, Zenon DEF Next

INSTANCE FiniteSetTheorems

-----------------------------------------------------------------------------
(* Induction over the natural numbers, from the least element of a set. *)

Below == {ss \in Nat \X Nat : ss[1] < ss[2]}

LEMMA LeastNat ==
  ASSUME NEW T \in SUBSET Nat, T # {}
  PROVE  \E m \in T : \A k \in T : m <= k
<1>1. IsWellFoundedOn(Below, Nat)
  BY NatLessThanWellFounded DEF OpToRel, Below
<1>2. PICK x \in T : \A y \in T : ~ (<<y, x>> \in Below)
  BY <1>1, WFMin, Zenon
<1>3. ASSUME NEW y \in T PROVE x <= y
  <2>1. x \in Nat /\ y \in Nat /\ ~(<<y, x>> \in Below)
    BY <1>2
  <2>2. y < x => <<y, x>> \in Below
    BY <2>1 DEF Below
  <2> QED BY <2>1, <2>2
<1> QED BY <1>3

LEMMA Induction ==
  ASSUME NEW T \in SUBSET Nat, 0 \in T, \A n \in T : n + 1 \in T
  PROVE  T = Nat
<1> SUFFICES ASSUME T # Nat PROVE FALSE
  OBVIOUS
<1>1. PICK m \in Nat \ T : \A k \in Nat \ T : m <= k
  BY LeastNat, Zenon
<1>2. m # 0 /\ m - 1 \in Nat
  OBVIOUS
<1>3. m - 1 \in T
  BY <1>1, <1>2
<1>4. (m - 1) + 1 = m
  OBVIOUS
<1> QED BY <1>3, <1>4
-----------------------------------------------------------------------------
(* What RegistryConsistent reads off the list. *)

\* An injective list of instances is no longer than there are instances.
LEMMA ListFits ==
  ASSUME NEW n \in Nat, NEW q \in [1..n -> Modules], \A i, j \in 1..n : q[i] = q[j] => i = j
  PROVE  n <= Cardinality(Modules) /\ Cardinality(Modules) \in Nat
<1>1. q \in Injection(1..n, Modules)
  BY DEF Injection, IsInjective
<1>2. Cardinality(1..n) = n
  BY FS_Interval
<1>3. IsFiniteSet(Modules)
  BY RuntimeAssumption
<1> QED BY <1>1, <1>2, <1>3, FS_Injection, FS_CardinalityType

\* Following next from the head visits the list and ends.
LEMMA ChainIsList ==
  ASSUME NEW n \in Nat, NEW q \in [1..n -> Modules], \A i, j \in 1..n : q[i] = q[j] => i = j,
         store.list = IF n = 0 THEN Nil ELSE q[1],
         \A i \in 1..n : next[q[i]] = IF i = n THEN Nil ELSE q[i + 1]
  PROVE  Chain = [i \in 0..Cardinality(Modules) |-> IF i < n THEN q[i + 1] ELSE Nil]
<1> DEFINE C == Cardinality(Modules)
           F(f) == [i \in 0..C |-> IF i = 0 THEN store.list ELSE IF f[i - 1] = Nil THEN Nil ELSE next[f[i - 1]]]
           g == [i \in 0..C |-> IF i < n THEN q[i + 1] ELSE Nil]
<1>1. C \in Nat /\ n <= C
  BY ListFits, Zenon
<1> HIDE DEF C
<1>2. Chain = CHOOSE f : f = F(f)
  BY DEF Chain, C
<1>3. g = F(g)
  <2>1. ASSUME NEW i \in 0..C PROVE g[i] = F(g)[i]
    <3>1. CASE i = 0
      BY <1>1, <3>1
    <3>2. CASE i # 0 /\ i <= n
      <4>1. i - 1 \in 0..C /\ i \in 1..n /\ i - 1 < n /\ (i - 1) + 1 = i
        BY <1>1, <3>2
      <4>2. g[i - 1] = q[i] /\ q[i] \in Modules
        BY <4>1
      <4>3. q[i] # Nil
        BY <4>2, RuntimeAssumption
      <4>4. F(g)[i] = next[q[i]]
        BY <3>2, <4>2, <4>3
      <4> QED BY <1>1, <4>1, <4>4
    <3>3. CASE i > n
      <4>1. i - 1 \in 0..C /\ ~(i - 1 < n)
        BY <1>1, <3>3
      <4>2. g[i - 1] = Nil
        BY <4>1
      <4> QED BY <1>1, <3>3, <4>2
    <3>4. i = 0 \/ (i # 0 /\ i <= n) \/ i > n
      BY <1>1
    <3> HIDE DEF F, g
    <3> QED BY <3>1, <3>2, <3>3, <3>4, Zenon
  <2> QED BY <2>1
<1> DEFINE h == CHOOSE f : f = F(f)
<1>4. h = F(h)
  BY <1>3, Zenon
<1> HIDE DEF h, g
<1>5. \A k \in Nat : k \in 0..C => h[k] = g[k]
  <2> DEFINE T == {k \in Nat : k \in 0..C => h[k] = g[k]}
  <2>1. 0 \in T
    BY <1>1, <1>3, <1>4
  <2>2. ASSUME NEW k \in T PROVE k + 1 \in T
    <3> SUFFICES ASSUME k + 1 \in 0..C PROVE h[k + 1] = g[k + 1]
      OBVIOUS
    <3>1. k \in 0..C /\ (k + 1) - 1 = k /\ k + 1 # 0
      BY <1>1
    <3>2. h[k] = g[k]
      BY <3>1
    <3>3. h[k + 1] = IF h[k] = Nil THEN Nil ELSE next[h[k]]
      BY <1>4, <3>1
    <3>4. g[k + 1] = IF g[k] = Nil THEN Nil ELSE next[g[k]]
      BY <1>3, <3>1
    <3> QED BY <3>2, <3>3, <3>4
  <2>3. T \in SUBSET Nat
    OBVIOUS
  <2> HIDE DEF T
  <2>4. T = Nat
    BY <2>1, <2>2, <2>3, Induction, SMTT(30)
  <2> QED BY <2>4 DEF T
<1>6. h = [i \in 0..C |-> h[i]]
  BY <1>4
<1>7. \A i \in 0..C : h[i] = g[i]
  BY <1>1, <1>5
<1> QED BY <1>2, <1>6, <1>7, Zenon DEF h, g, C

LEMMA ListedIsList ==
  ASSUME TypeOK, NEW n \in Nat, NEW q \in [1..n -> Modules], Linked(n, q)
  PROVE  /\ Chain[Cardinality(Modules)] = Nil
         /\ Listed = {m \in Modules : In(m, n, q)}
<1> DEFINE C == Cardinality(Modules)
           g == [i \in 0..C |-> IF i < n THEN q[i + 1] ELSE Nil]
<1>1. C \in Nat /\ n <= C
  BY ListFits DEF Linked
<1> HIDE DEF C
<1>2. Chain = g
  BY ChainIsList, SMTT(30) DEF Linked, C
<1>3. Chain[C] = Nil
  BY <1>1, <1>2
<1>4. ASSUME NEW m \in Listed PROVE m \in Modules /\ In(m, n, q)
  <2>1. PICK i \in 0..C : m = g[i] /\ m # Nil
    BY <1>2 DEF Listed
  <2>2. i < n /\ i + 1 \in 1..n
    BY <1>1, <2>1
  <2> QED BY <2>1, <2>2 DEF In
<1>5. ASSUME NEW m \in Modules, In(m, n, q) PROVE m \in Listed
  <2>1. PICK i \in 1..n : q[i] = m
    BY <1>5 DEF In
  <2>2. i - 1 \in 0..C /\ i - 1 < n /\ (i - 1) + 1 = i
    BY <1>1
  <2>3. g[i - 1] = m /\ m # Nil
    BY <2>1, <2>2, RuntimeAssumption
  <2>4. DOMAIN Chain = 0..C
    BY <1>2
  <2> HIDE DEF g
  <2> QED BY <1>2, <2>2, <2>3, <2>4 DEF Listed
<1> QED BY <1>3, <1>4, <1>5 DEF C

LEMMA RegistryGivesConsistent ==
  ASSUME TypeOK, RegistryInv
  PROVE  RegistryConsistent
<1>1. CASE store.allocated
  <2>0. PICK n \in Nat : \E q \in [1..n -> Modules] : Registry(n, q)
    BY <1>1 DEF RegistryInv
  <2>1. PICK q \in [1..n -> Modules] : Registry(n, q)
    BY <2>0
  <2>2. Linked(n, q) /\ Holds(n, q) /\ Named(n, q)
    BY <2>1 DEF Registry
  <2>3. /\ Chain[Cardinality(Modules)] = Nil
        /\ Listed = {m \in Modules : In(m, n, q)}
    BY <2>2, ListedIsList
  <2>4. store.list # Nil => prev[store.list] = Nil
    BY <2>2, RuntimeAssumption DEF Linked
  <2>5. ASSUME NEW m \in Listed, next[m] # Nil PROVE prev[next[m]] = m
    <3>1. PICK i \in 1..n : q[i] = m
      BY <2>3 DEF In
    <3>2. i # n /\ next[m] = q[i + 1]
      BY <2>2, <2>5, <3>1, Zenon DEF Linked
    <3>3. i + 1 \in 1..n /\ (i + 1) - 1 = i /\ i + 1 # 1
      BY <3>2
    <3>4. prev[q[i + 1]] = q[(i + 1) - 1]
      BY <2>2, <3>3 DEF Linked
    <3> QED BY <3>1, <3>2, <3>3, <3>4
  <2>6. \A m \in Modules : Registered(m) /\ IsOpen(m) => m \in Listed
    BY <2>2, <2>3 DEF Holds
  <2>7. \A k \in Bound(store.names) : store.names[k] \in Listed /\ Name[store.names[k]] = k
    BY <2>2, <2>3 DEF Named, Bound, TypeOK, Stores
  <2> QED BY <2>3, <2>4, <2>5, <2>6, <2>7, Zenon DEF RegistryConsistent
<1>2. CASE ~store.allocated
  <2> DEFINE q == [i \in 1..0 |-> Nil]
  <2>1. store.list = Nil
    BY <1>2 DEF RegistryInv
  <2>2. q \in [1..0 -> Modules] /\ 0 \in Nat
    OBVIOUS
  <2> HIDE DEF q
  <2>3. Chain = [i \in 0..Cardinality(Modules) |-> IF i < 0 THEN q[i + 1] ELSE Nil]
    <3>1. \A i, j \in 1..0 : q[i] = q[j] => i = j
      OBVIOUS
    <3>2. store.list = IF 0 = 0 THEN Nil ELSE q[1]
      BY <2>1
    <3>3. \A i \in 1..0 : next[q[i]] = IF i = 0 THEN Nil ELSE q[i + 1]
      OBVIOUS
    <3> QED BY ONLY <2>2, <3>1, <3>2, <3>3, ChainIsList, Zenon
  <2>4. Cardinality(Modules) \in Nat
    BY RuntimeAssumption, FS_CardinalityType
  <2>5. \A i \in 0..Cardinality(Modules) : Chain[i] = Nil
    BY <2>3, <2>4
  <2>6. Listed = {}
    BY <2>3, <2>5 DEF Listed
  <2>7. Chain[Cardinality(Modules)] = Nil
    BY <2>4, <2>5
  <2> QED BY <1>2, <2>1, <2>6, <2>7, Zenon DEF RegistryConsistent, RegistryInv
<1> QED BY <1>1, <1>2
-----------------------------------------------------------------------------
LEMMA BoundSize ==
  ASSUME NEW names \in [Names -> Modules \cup {Nil}]
  PROVE  Cardinality(Bound(names)) \in Nat
<1>1. Bound(names) \in SUBSET Names
  BY DEF Bound
<1>2. IsFiniteSet(Names)
  BY RuntimeAssumption
<1>3. IsFiniteSet(Bound(names))
  BY <1>1, <1>2, FS_Subset
<1> QED BY <1>3, FS_CardinalityType


\* The inductive invariant holds whatever the goroutines, watchers and contexts do.
THEOREM RuntimeInvariant == Spec => []IInv
<1>1. Init => IInv
  BY InitInv
<1>2. IInv /\ [Next]_vars => IInv'
  BY NextInv, BoundSize DEF Counted
<1> QED BY <1>1, <1>2, PTL DEF Spec

\* The store's list stays a well-formed doubly linked list of the registered
\* instances, and names lead into it, for any number of goroutines that
\* register, close and sweep (registerModule, deleteModule).
THEOREM RegistryAlwaysConsistent == Spec => []RegistryConsistent
<1>1. IInv => RegistryConsistent
  BY RegistryGivesConsistent DEF IInv
<1> QED BY <1>1, RuntimeInvariant, PTL

\* Nothing puts a closed runtime's store back into use, and what was registered
\* in it is closed (Store.CloseWithExitCode).
THEOREM CloseAlwaysFinal == Spec => []CloseIsFinal
<1>1. IInv => CloseIsFinal
  BY Zenon DEF IInv, MuxInv, RegistryInv, CloseIsFinal
<1> QED BY <1>1, RuntimeInvariant, PTL

\* A call that failed because its instance closed reports the code of the first
\* close, and leaves no file open that nobody is about to close
\* (setExitCode, FailIfClosed).
THEOREM ExitAlwaysReported == Spec => []ExitReported
<1>1. IInv => ExitReported
  BY DEF IInv, ResourceInv, Reported, ExitReported
<1> QED BY <1>1, RuntimeInvariant, PTL
=============================================================================
