--------------------------- MODULE LastWriterWins ---------------------------
(***************************************************************************)
(* What the cache promises its readers (components/data_server/cache/      *)
(* cache.h): for each item the value of the newest mutation that was       *)
(* admitted, whatever the order in which mutations arrive.  An item is a   *)
(* key of the key/value map, or a pair of a key and a value of the set     *)
(* map.  Nothing is said of tombstones, deleted-node indexes or locks: the *)
(* store remembers only, per item, a horizon, the commit time at or below  *)
(* which every mutation of that item is ignored.                           *)
(***************************************************************************)
EXTENDS Integers

CONSTANTS Items,    \* what a mutation addresses
          Contents, \* what an update can store
          NULL,     \* the content of an item that has none
          Times     \* logical commit times of mutations and of clean-ups

VARIABLES visible,  \* [Items -> Contents \cup {NULL}], what a reader gets
          horizon   \* [Items -> Int], newest commit time each item has seen

lwwVars == <<visible, horizon>>

LwwInit ==
    /\ visible = [i \in Items |-> NULL]
    /\ horizon = [i \in Items |-> 0]

\* At once, each item of S that has seen nothing as recent as t takes content
\* c (NULL for a deletion); the others ignore the mutation.
Mutate(S, c, t) ==
    /\ visible' = [i \in Items |-> IF i \in S /\ horizon[i] < t
                                   THEN c ELSE visible[i]]
    /\ horizon' = [i \in Items |-> IF i \in S /\ horizon[i] < t
                                   THEN t ELSE horizon[i]]

\* A clean-up at t changes no reader's view and closes every item up to t.
Advance(t) ==
    /\ visible' = visible
    /\ horizon' = [i \in Items |-> IF horizon[i] < t THEN t ELSE horizon[i]]

LwwNext ==
    \/ \E S \in SUBSET Items, c \in Contents \cup {NULL}, t \in Times :
          Mutate(S, c, t)
    \/ \E t \in Times : Advance(t)

LwwSpec == LwwInit /\ [][LwwNext]_lwwVars
=============================================================================
