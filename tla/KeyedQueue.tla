----------------------------- MODULE KeyedQueue -----------------------------
(* Abstract: what a set of ordered lanes promises. Whoever joins a line is   *)
(* served after everyone who joined it before, one at a time; a line that is *)
(* shut serves out the one at its head and turns the others away.            *)
EXTENDS Naturals, Sequences

CONSTANTS Lines, Items

VARIABLES line,   \* who is served, followed by who waits
          shut

queueVars == <<line, shut>>

QueueInit ==
  /\ line = [l \in Lines |-> <<>>]
  /\ shut = {}

Join(l, i) ==
  /\ l \notin shut
  /\ line' = [line EXCEPT ![l] = Append(@, i)]
  /\ UNCHANGED shut

Served(l) ==
  /\ line[l] # <<>>
  /\ line' = [line EXCEPT ![l] = Tail(@)]
  /\ UNCHANGED shut

\* Lines are shut together.
Shut(ls) ==
  /\ shut' = shut \cup ls
  /\ line' = [l \in Lines |-> IF l \in ls /\ line[l] # <<>> THEN <<Head(line[l])>> ELSE line[l]]

QueueNext ==
  \/ \E l \in Lines : Served(l) \/ \E i \in Items : Join(l, i)
  \/ \E ls \in SUBSET Lines : Shut(ls)

QueueSpec == QueueInit /\ [][QueueNext]_queueVars
=============================================================================
