------------------------------- MODULE Runtime -------------------------------
(***************************************************************************)
(* The life of module instances in a runtime (runtime.go,                  *)
(* internal/wasm/store.go, store_module_list.go, module_instance.go and    *)
(* the engines' call entry).                                               *)
(*                                                                         *)
(* Goroutines instantiate modules, call them and close them, or close the  *)
(* runtime.  An instance is in the store's linked list and, when it is     *)
(* named, in the name map; both are guarded by the store's mux.  The first *)
(* to swap an exit code into an instance closes it, without the mux.  With *)
(* WithCloseOnContextDone every call has a watcher that closes the         *)
(* instance when the call's context is done and leaves its resources to    *)
(* the next check of the exit code.                                        *)
(***************************************************************************)
EXTENDS Integers, FiniteSets

CONSTANTS Modules,          \* the instances, each with the goroutine that instantiates it
          Callers, Closers, \* goroutines that call, and that close an instance or the runtime
          Nil,
          Names,
          Name,             \* an instance's name, or Nil
          Programs,         \* the embedding programs (see program)
          ShrinkThreshold   \* nameToModuleShrinkThreshold

ASSUME RuntimeAssumption ==
    /\ IsFiniteSet(Modules) /\ IsFiniteSet(Names)
    /\ Modules \cap Callers = {} /\ Modules \cap Closers = {} /\ Callers \cap Closers = {}
    /\ Name \in [Modules -> Names \cup {Nil}]
    /\ Nil \notin Modules \cup Names
    /\ \A p \in Programs : p.closeOnContextDone \in BOOLEAN
    /\ ShrinkThreshold \in Nat \ {0}

Goroutines == Modules \cup Callers \cup Closers

\* Exit codes: success, a failure, and the two a context's end stands for.
ExitCodeContextCanceled == 2
ExitCodeDeadlineExceeded == 3
GuestCodes == {0, 1}

Open == [code |-> 0, flag |-> "open"]
ResourceClosed == "closed"
ResourceNotClosed == "not closed"

VARIABLES program,          \* the goroutines it runs, the instances with a start section and with a
                            \* start function, the contexts that may end, the engine, and whether
                            \* WithCloseOnContextDone is set
          runtimeClosed,    \* runtime.closed is set
          store,            \* moduleList, nameToModule (and whether it is nil) and nameToModuleCap
          mux,              \* Store.CloseWithExitCode holds the mux
          next, prev,       \* the links of the instances
          exit,             \* ModuleInstance.Closed
          resources,        \* what an instance still holds
          proc,             \* the goroutines
          cancelled,        \* how a goroutine's context ended, 0 for not yet
          watcher           \* the goroutines CloseModuleOnCanceledOrTimeout spawned

registry == <<store, next, prev>>
vars == <<program, runtimeClosed, store, mux, next, prev, exit, resources, proc, cancelled, watcher>>

Watchers == (Modules \X {"section", "function"}) \cup (Callers \X {"function"})

NoResult == [kind |-> "none", code |-> 0]
Ok == [kind |-> "ok", code |-> 0]
Trapped == [kind |-> "trap", code |-> 0]
Exited(c) == [kind |-> "exit", code |-> c]    \* by its own proc_exit
WasClosed(c) == [kind |-> "closed", code |-> c]    \* FailIfClosed's error

Init ==
    /\ program \in Programs
    /\ runtimeClosed = FALSE
    /\ store = [list |-> Nil, names |-> [n \in Names |-> Nil], allocated |-> TRUE, cap |-> ShrinkThreshold]
    /\ mux = FALSE
    /\ next = [m \in Modules |-> Nil]
    /\ prev = [m \in Modules |-> Nil]
    /\ exit = [m \in Modules |-> Open]
    /\ resources = [m \in Modules |-> {}]
    /\ proc = [p \in Goroutines |-> [at |-> "idle", on |-> IF p \in Modules THEN p ELSE Nil,
                                     stage |-> IF p \in Modules THEN "section" ELSE "function",
                                     code |-> 0, then |-> "done", result |-> NoResult]]
    /\ cancelled = [p \in Goroutines |-> 0]
    /\ watcher = [w \in Watchers |-> [at |-> "none", stop |-> FALSE]]

ensureTermination == program.closeOnContextDone

At(p, at) == proc[p].at = at
On(p) == proc[p].on
Goto(p, at) == proc' = [proc EXCEPT ![p].at = at]
IsOpen(m) == exit[m] = Open
-----------------------------------------------------------------------------
(* The store's registry. *)

Bound(names) == {n \in Names : names[n] # Nil}

Larger(a, b) == IF a >= b THEN a ELSE b

registerModule(m) ==
    /\ store' = [store EXCEPT !.list = m,
                              !.names = IF Name[m] = Nil THEN @ ELSE [@ EXCEPT ![Name[m]] = m],
                              !.cap = IF Name[m] = Nil THEN @ ELSE Larger(@, Cardinality(Bound(store.names)) + 1)]
    /\ next' = [next EXCEPT ![m] = store.list]
    /\ prev' = [x \in Modules |-> IF x = store.list THEN m ELSE prev[x]]

Registrable(m) == store.allocated /\ (Name[m] # Nil => store.names[Name[m]] = Nil)

\* Releases the name and shrinks the map it was in.
ReleaseName(m, s) ==
    LET names == [s.names EXCEPT ![Name[m]] = Nil]
        newCap == Larger(Cardinality(Bound(names)), ShrinkThreshold)
        shrink == newCap * 2 <= s.cap
    IN [s EXCEPT !.names = names,
                 !.allocated = @ \/ shrink,
                 !.cap = IF shrink THEN newCap ELSE @]

\* Mutant of Unlink: the next node keeps its pointer to the removed one.
UnlinkForward(m) ==
    /\ next' = [x \in Modules |-> IF x = m THEN Nil ELSE IF x = prev[m] THEN next[m] ELSE next[x]]
    /\ prev' = [prev EXCEPT ![m] = Nil]

Unlink(m) ==
    /\ next' = [x \in Modules |-> IF x = m THEN Nil ELSE IF x = prev[m] THEN next[m] ELSE next[x]]
    /\ prev' = [x \in Modules |-> IF x = m THEN Nil ELSE IF x = next[m] THEN prev[m] ELSE prev[x]]

deleteModule(m) ==
    /\ ~mux
    /\ Unlink(m)
    /\ LET s == [store EXCEPT !.list = IF @ = m THEN next[m] ELSE @]
       IN store' = IF Name[m] = Nil THEN s ELSE ReleaseName(m, s)
-----------------------------------------------------------------------------
(* Closing an instance. *)

\* Mutant of setExitCode: a plain store where the code compares and swaps.
setExitCodeAlways(m, code, flag) ==
    exit' = [exit EXCEPT ![m] = [code |-> code, flag |-> flag]]

setExitCode(m, code, flag) ==
    exit' = [exit EXCEPT ![m] = IF @ = Open THEN [code |-> code, flag |-> flag] ELSE @]

ensureResourcesClosed(m) == resources' = [resources EXCEPT ![m] = {}]

\* The error FailIfClosed returns, and the closure of resources it takes over
\* from a watcher.
FailIfClosed(m) ==
    resources' = IF exit[m].flag = ResourceNotClosed THEN [resources EXCEPT ![m] = {}] ELSE resources

\* CloseWithExitCode: swap in the exit code, leave the registry, let the
\* resources go.  The goroutine goes on at then.
Set(p) ==
    /\ At(p, "set")
    /\ setExitCode(On(p), proc[p].code, ResourceClosed)
    /\ Goto(p, IF IsOpen(On(p)) THEN "delete" ELSE proc[p].then)
    /\ UNCHANGED <<program, runtimeClosed, registry, mux, resources, cancelled, watcher>>

Delete(p) ==
    /\ At(p, "delete")
    /\ deleteModule(On(p))
    /\ Goto(p, "release")
    /\ UNCHANGED <<program, runtimeClosed, mux, exit, resources, cancelled, watcher>>

Release(p) ==
    /\ At(p, "release")
    /\ ensureResourcesClosed(On(p))
    /\ Goto(p, proc[p].then)
    /\ UNCHANGED <<program, runtimeClosed, registry, mux, exit, cancelled, watcher>>
-----------------------------------------------------------------------------
(* Calling a function of an instance. *)

Enter(p) ==
    /\ At(p, "enter")
    /\ IF ensureTermination /\ cancelled[p] # 0
       THEN /\ proc' = [proc EXCEPT ![p].at = "set", ![p].code = cancelled[p], ![p].then = "check", ![p].result = Ok]
            /\ UNCHANGED watcher
       ELSE /\ Goto(p, "run")
            /\ watcher' = IF ensureTermination
                          THEN [watcher EXCEPT ![<<p, proc[p].stage>>].at = "watching"] ELSE watcher
    /\ UNCHANGED <<program, runtimeClosed, registry, mux, exit, resources, cancelled>>

\* The guest returns, traps or calls proc_exit; nothing makes it.
GuestEnds(p) ==
    /\ At(p, "run")
    /\ \/ \E r \in {Ok, Trapped} : proc' = [proc EXCEPT ![p].at = "leave", ![p].result = r]
       \/ \E c \in GuestCodes :
              proc' = [proc EXCEPT ![p].at = "set", ![p].code = c, ![p].then = "leave", ![p].result = Exited(c)]
    /\ UNCHANGED <<program, runtimeClosed, registry, mux, exit, resources, cancelled, watcher>>

\* The check at the head of every loop, when it fails.
CheckExitCode(p) ==
    /\ At(p, "run")
    /\ ensureTermination
    /\ ~IsOpen(On(p))
    /\ FailIfClosed(On(p))
    /\ proc' = [proc EXCEPT ![p].at = "leave", ![p].result = WasClosed(exit[On(p)].code)]
    /\ UNCHANGED <<program, runtimeClosed, registry, mux, exit, cancelled, watcher>>

\* The first deferred function: done() closes the watcher's channel.
Leave(p) ==
    /\ At(p, "leave")
    /\ watcher' = [watcher EXCEPT ![<<p, proc[p].stage>>].stop = ensureTermination]
    /\ Goto(p, "check")
    /\ UNCHANGED <<program, runtimeClosed, registry, mux, exit, resources, cancelled>>

\* Where the goroutine goes on after a call with result r.
AfterCall(p, r) ==
    LET at(where) == [proc[p] EXCEPT !.at = where, !.result = r]
        closeThen(where) == [at("set") EXCEPT !.code = 0, !.then = where]
    IN CASE p \in Callers -> at("done")
         [] p \in Modules /\ proc[p].stage = "section" -> at(IF r = Ok THEN "register" ELSE "failed")
         [] p \in Modules /\ proc[p].stage = "function" ->
                IF r = Ok THEN at("done")
                ELSE closeThen(IF r \in {Exited(0), WasClosed(0)} THEN "done" ELSE "failed")

\* The second: a call that did not fail otherwise fails if the instance closed.
\* The interpreter asks on the way out of a panic too, and then reports the panic.
Check(p) ==
    /\ At(p, "check")
    /\ LET r == proc[p].result
           asks == r = Ok \/ program.engine = "interpreter"
       IN /\ IF asks THEN FailIfClosed(On(p)) ELSE UNCHANGED resources
          /\ proc' = [proc EXCEPT ![p] =
                         AfterCall(p, IF r = Ok /\ ~IsOpen(On(p)) THEN WasClosed(exit[On(p)].code) ELSE r)]
    /\ UNCHANGED <<program, runtimeClosed, registry, mux, exit, cancelled, watcher>>
-----------------------------------------------------------------------------
(* The watcher of a call. *)

Watches(w, at) == watcher[w].at = at
Watch(w, at) == watcher' = [watcher EXCEPT ![w].at = at]

\* Its select: a channel closed by the time it runs wins over the context.
Wake(w) ==
    /\ Watches(w, "watching")
    /\ cancelled[w[1]] # 0 \/ watcher[w].stop
    /\ Watch(w, IF watcher[w].stop THEN "gone" ELSE "decided")
    /\ UNCHANGED <<program, runtimeClosed, registry, mux, exit, resources, proc, cancelled>>

\* Mutant of CloseOnContextDone: only a cancelled context closes the instance.
CloseOnCancel(w) ==
    LET m == On(w[1]) IN
    /\ Watches(w, "decided")
    /\ IF cancelled[w[1]] = ExitCodeContextCanceled
       THEN /\ setExitCode(m, cancelled[w[1]], ResourceNotClosed)
            /\ Watch(w, IF IsOpen(m) THEN "delete" ELSE "gone")
       ELSE Watch(w, "gone") /\ UNCHANGED exit
    /\ UNCHANGED <<program, runtimeClosed, registry, mux, resources, proc, cancelled>>

CloseOnContextDone(w) ==
    LET m == On(w[1]) IN
    /\ Watches(w, "decided")
    /\ setExitCode(m, cancelled[w[1]], ResourceNotClosed)
    /\ Watch(w, IF IsOpen(m) THEN "delete" ELSE "gone")
    /\ UNCHANGED <<program, runtimeClosed, registry, mux, resources, proc, cancelled>>

WatcherDeletes(w) ==
    /\ Watches(w, "delete")
    /\ deleteModule(On(w[1]))
    /\ Watch(w, "gone")
    /\ UNCHANGED <<program, runtimeClosed, mux, exit, resources, proc, cancelled>>
-----------------------------------------------------------------------------
(* Instantiating. *)

\* The runtime's check, then Store.instantiate, which builds the instance with
\* its file system and goes on to its start section.  An attempt that fails in
\* either leaves nothing behind and takes no step.
Instantiate(m) ==
    /\ At(m, "idle")
    /\ ~runtimeClosed
    /\ resources' = [resources EXCEPT ![m] = {"fs"}]
    /\ Goto(m, IF m \in program.section THEN "enter" ELSE "register")
    /\ UNCHANGED <<program, runtimeClosed, registry, mux, exit, cancelled, watcher>>

Register(m) ==
    /\ At(m, "register")
    /\ ~mux
    /\ IF Registrable(m)
       THEN registerModule(m) /\ Goto(m, "attach")
       ELSE /\ proc' = [proc EXCEPT ![m].at = "set", ![m].code = 0, ![m].then = "failed"]
            /\ UNCHANGED registry
    /\ UNCHANGED <<program, runtimeClosed, mux, exit, resources, cancelled, watcher>>

\* The close notifier and the code closer come after the registration.
Attach(m) ==
    /\ At(m, "attach")
    /\ resources' = [resources EXCEPT ![m] = @ \cup {"notifier", "code"}]
    /\ proc' = [proc EXCEPT ![m].at = IF m \in program.function THEN "enter" ELSE "done", ![m].stage = "function"]
    /\ UNCHANGED <<program, runtimeClosed, registry, mux, exit, cancelled, watcher>>

\* An instance a program can have in hand: what an instantiation returned, or
\* what Runtime.Module finds under a name.
Obtainable(m) == At(m, "done") \/ (~mux /\ \E n \in Names : store.names[n] = m)

Call(p) ==
    /\ At(p, "idle")
    /\ \E m \in Modules : Obtainable(m) /\ proc' = [proc EXCEPT ![p].at = "enter", ![p].on = m]
    /\ UNCHANGED <<program, runtimeClosed, registry, mux, exit, resources, cancelled, watcher>>

CloseModule(p) ==
    /\ At(p, "idle")
    /\ \E m \in Modules :
           Obtainable(m) /\ proc' = [proc EXCEPT ![p].at = "set", ![p].on = m, ![p].code = 1, ![p].then = "done"]
    /\ UNCHANGED <<program, runtimeClosed, registry, mux, exit, resources, cancelled, watcher>>

\* A context that ends after its goroutine is through with it changes nothing.
Cancel(p) ==
    /\ cancelled[p] = 0
    /\ proc[p].at \notin {"done", "failed"}
    /\ \E c \in {ExitCodeContextCanceled, ExitCodeDeadlineExceeded} : cancelled' = [cancelled EXCEPT ![p] = c]
    /\ UNCHANGED <<program, runtimeClosed, registry, mux, exit, resources, proc, watcher>>
-----------------------------------------------------------------------------
(* Closing the runtime. *)

CloseRuntime(p) ==
    /\ At(p, "idle")
    /\ runtimeClosed' = TRUE
    /\ Goto(p, IF runtimeClosed THEN "done" ELSE "lock")
    /\ UNCHANGED <<program, registry, mux, exit, resources, cancelled, watcher>>

\* Store.CloseWithExitCode closes the instances along the list, holding mux.
SweepStart(p) ==
    /\ At(p, "lock")
    /\ ~mux
    /\ mux' = TRUE
    /\ proc' = [proc EXCEPT ![p].at = "sweep", ![p].on = store.list]
    /\ UNCHANGED <<program, runtimeClosed, registry, exit, resources, cancelled, watcher>>

SweepSet(p) ==
    /\ At(p, "sweep")
    /\ On(p) # Nil
    /\ setExitCode(On(p), 0, ResourceClosed)
    /\ proc' = [proc EXCEPT ![p] = IF IsOpen(On(p)) THEN [@ EXCEPT !.at = "sweep release"]
                                   ELSE [@ EXCEPT !.on = next[On(p)]]]
    /\ UNCHANGED <<program, runtimeClosed, registry, mux, resources, cancelled, watcher>>

SweepRelease(p) ==
    /\ At(p, "sweep release")
    /\ ensureResourcesClosed(On(p))
    /\ proc' = [proc EXCEPT ![p].at = "sweep", ![p].on = next[On(p)]]
    /\ UNCHANGED <<program, runtimeClosed, registry, mux, exit, cancelled, watcher>>

\* Mutant of SweepEnd: the capacity survives the map it is the capacity of.
SweepEndKeepingCap(p) ==
    /\ At(p, "sweep")
    /\ On(p) = Nil
    /\ mux' = FALSE
    /\ store' = [list |-> Nil, names |-> [n \in Names |-> Nil], allocated |-> FALSE, cap |-> store.cap]
    /\ Goto(p, "done")
    /\ UNCHANGED <<program, runtimeClosed, next, prev, exit, resources, cancelled, watcher>>

SweepEnd(p) ==
    /\ At(p, "sweep")
    /\ On(p) = Nil
    /\ mux' = FALSE
    /\ store' = [list |-> Nil, names |-> [n \in Names |-> Nil], allocated |-> FALSE, cap |-> 0]
    /\ Goto(p, "done")
    /\ UNCHANGED <<program, runtimeClosed, next, prev, exit, resources, cancelled, watcher>>
-----------------------------------------------------------------------------
\* What a goroutine does of its own accord once it is under way.
Proceed(p) ==
    \/ Set(p) \/ Delete(p) \/ Release(p)
    \/ Enter(p) \/ CheckExitCode(p) \/ Leave(p) \/ Check(p)
    \/ p \in Modules /\ (Register(p) \/ Attach(p))
    \/ p \in Closers /\ (SweepStart(p) \/ SweepSet(p) \/ SweepRelease(p) \/ SweepEnd(p))

WatcherSteps(w) == Wake(w) \/ CloseOnContextDone(w) \/ WatcherDeletes(w)

Next ==
    \/ \E p \in Goroutines : Proceed(p)
    \/ \E p \in Modules \cup Callers : GuestEnds(p)
    \/ \E w \in Watchers : WatcherSteps(w)
    \/ \E m \in Modules \cap program.runs : Instantiate(m)
    \/ \E p \in Callers \cap program.runs : Call(p)
    \/ \E p \in Closers \cap program.runs : CloseModule(p) \/ CloseRuntime(p)
    \/ \E p \in program.ends : Cancel(p)

\* Some goroutine or watcher that is under way runs.  No step repeats (a guest
\* that loops is one that takes no step), so that each of them gets its turn.
Scheduled == (\E p \in Goroutines : Proceed(p)) \/ (\E w \in Watchers : WatcherSteps(w))

Spec == Init /\ [][Next]_vars /\ WF_vars(Scheduled)
-----------------------------------------------------------------------------
(* What is checked. *)

\* The nodes from moduleList along next.
Chain == LET at[i \in 0..Cardinality(Modules)] ==
                 IF i = 0 THEN store.list ELSE IF at[i - 1] = Nil THEN Nil ELSE next[at[i - 1]]
         IN at

Listed == {Chain[i] : i \in DOMAIN Chain} \ {Nil}

Registered(m) == At(m, "attach") \/ proc[m].stage = "function"

Sweeping == \E p \in Closers : proc[p].at \in {"lock", "sweep", "sweep release"}

\* Whatever order goroutines and watchers register, close and sweep in, the
\* list is a well-formed doubly linked list that holds every registered
\* instance still open, and a bound name leads to a listed instance of that
\* name (registerModule, deleteModule).
RegistryConsistent ==
    /\ Chain[Cardinality(Modules)] = Nil
    /\ store.list # Nil => prev[store.list] = Nil
    /\ \A m \in Listed : next[m] # Nil => prev[next[m]] = m
    /\ \A m \in Modules : Registered(m) /\ IsOpen(m) => m \in Listed
    /\ \A n \in Bound(store.names) : store.names[n] \in Listed /\ Name[store.names[n]] = n

\* Once the runtime has closed, no instance is left open in it: the ones it
\* found are closed, and neither an instantiation nor a close under way puts
\* the store back into use (Store.CloseWithExitCode, registerModule, and the
\* map deleteModule may allocate).
CloseIsFinal ==
    runtimeClosed /\ ~Sweeping =>
        /\ ~store.allocated
        /\ \A m \in Modules : Registered(m) => ~IsOpen(m)

\* The goroutine that won the close of m has yet to release its resources.
Releasing(m) ==
    \E p \in Goroutines : On(p) = m /\ proc[p].at \in {"delete", "release", "sweep release"}

\* A call that failed because its instance is closed reports the code it was
\* closed with, by whoever came first, and by then the instance's files are
\* closed or their closer is on its way (setExitCode, FailIfClosed).
ExitReported ==
    \A p \in Modules \cup Callers :
        proc[p].result.kind = "closed" =>
            /\ ~IsOpen(On(p))
            /\ proc[p].result.code = exit[On(p)].code
            /\ "fs" \notin resources[On(p)] \/ Releasing(On(p))

\* p is in a call, or closing what the call ran in, though its context ended.
Overdue(p) ==
    /\ ensureTermination
    /\ cancelled[p] # 0
    /\ proc[p].at \in {"enter", "run", "leave", "check", "set", "delete", "release"}

\* With WithCloseOnContextDone no call outlives its context for good, not even
\* the call of a guest that loops forever, whoever else closes the instance or
\* the runtime meanwhile (closeModuleOnCanceledOrTimeout, the loop checks).
CancelledCallsReturn == []<>(\A p \in Modules \cup Callers : ~Overdue(p))
=============================================================================
