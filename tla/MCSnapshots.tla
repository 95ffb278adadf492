----------------------------- MODULE MCSnapshots -----------------------------
(* Instances of Snapshots for TLC. *)
EXTENDS Snapshots

MCState(mem, g, tab) ==
    [memory |-> mem, globals |-> <<[type |-> 1, lo |-> g, hi |-> 0]>>, tables |-> <<tab>>]

\* A memory that is rewritten, grows and shares pages; a table that changes; a
\* reference to another module's function.
MCExecutions ==
    {<<MCState(<<1>>, 0, <<-1, 0>>), MCState(<<2>>, 1, <<1, 0>>),
       MCState(<<3, 2>>, 1, <<1, -1>>)>>,
     <<MCState(<<1, 3>>, 0, <<0>>), MCState(<<3, 3>>, 2, <<-2>>)>>}

\* --cas-share-system has an effect only with --cas-system.
MCOptions ==
    {[system |-> FALSE, promote |-> FALSE, inline |-> FALSE, every |-> 2],
     [system |-> FALSE, promote |-> FALSE, inline |-> TRUE, every |-> 1],
     [system |-> TRUE, promote |-> TRUE, inline |-> FALSE, every |-> 1],
     [system |-> TRUE, promote |-> FALSE, inline |-> TRUE, every |-> 1]}

MCSymmetry == Permutations(Procs)
=============================================================================
