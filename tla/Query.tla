------------------------------- MODULE Query -------------------------------
(***************************************************************************)
(* The query language over sets: the scanner's tokens arrive one by one,   *)
(* the shift-reduce parser builds a tree, the tree is laid out in post     *)
(* order with a stack of nodes, and evaluated with a stack of sets.        *)
(***************************************************************************)
EXTENDS Integers, Sequences, SequencesExt, FiniteSetsExt

CONSTANTS Keys, Data,   \* the sets of the database
          MaxTokens

QueryAssumption == MaxTokens \in Nat

Ops == {"|", "&", "-"}
Starts == Keys \cup {"(", "ERROR"}   \* tokens that can begin an expression
Tokens == Starts \cup Ops \cup {")"}

VARIABLES tokens,   \* what was scanned; the last one is the lookahead
          symbols,  \* the parser's stack: tokens, and exps with their nodes
          nodes,    \* the nodes made so far
          ast,      \* Driver::ast_, 0 for none
          status, todo, order, sets, phase

vars == <<tokens, symbols, nodes, ast, status, todo, order, sets, phase>>

Init ==
    /\ tokens \in {<<t>> : t \in Tokens \cup {"EOF"}}
    /\ symbols = <<>> /\ nodes = <<>> /\ ast = 0 /\ status = "ok"
    /\ todo = <<>> /\ order = <<>> /\ sets = <<>> /\ phase = "parse"

-----------------------------------------------------------------------------
(* The parser *)

ahead == Last(tokens)
Exp(n) == [sym |-> "exp", node |-> n]
Token(t) == [sym |-> t, node |-> 0]
Top(n) == IF Len(symbols) >= n THEN symbols[Len(symbols) - n + 1] ELSE Token("BOTTOM")
TopIs(n, S) == Top(n).sym \in S
Popped(n) == SubSeq(symbols, 1, Len(symbols) - n)

Operation == TopIs(1, {"exp"}) /\ TopIs(2, Ops)
Juxtaposed == TopIs(1, {"exp"}) /\ TopIs(2, {"exp"})

\* Mutant: an operator does not end the operation before it.
ShiftsOp == TopIs(1, {"exp"})

\* %left: an operator ends the operation before it.
CanShiftOp == TopIs(1, {"exp"}) /\ ~Operation

CanShift ==
    \/ ahead \in Starts
    \/ ahead \in Ops /\ CanShiftOp
    \/ ahead = ")" /\ TopIs(1, {"exp"}) /\ TopIs(2, {"("})

Scan ==
    /\ \E t \in Tokens \cup {"EOF"} :
          /\ Len(tokens) < MaxTokens \/ t = "EOF"
          /\ tokens' = Append(tokens, t)
    /\ UNCHANGED <<ast, status, todo, order, sets, phase>>

\* make_VAR, and the reductions of a VAR to a term and to an exp
ShiftVar ==
    /\ phase = "parse" /\ ahead \in Keys
    /\ nodes' = Append(nodes, [op |-> "VAR", key |-> ahead, left |-> 0, right |-> 0])
    /\ symbols' = Append(symbols, Exp(Len(nodes')))
    /\ Scan

Shift ==
    /\ phase = "parse" /\ CanShift /\ ahead \notin Keys \cup {"ERROR"}
    /\ symbols' = IF ahead = ")" THEN Append(Popped(2), Top(1)) ELSE Append(symbols, Token(ahead))
    /\ UNCHANGED nodes /\ Scan

\* exp: exp UNION exp and its kin
ReduceOperation ==
    /\ phase = "parse" /\ Operation /\ ~CanShift
    /\ nodes' = Append(nodes, [op |-> Top(2).sym, key |-> "", left |-> Top(3).node, right |-> Top(1).node])
    /\ symbols' = Append(Popped(3), Exp(Len(nodes')))
    /\ UNCHANGED <<tokens, ast, status, todo, order, sets, phase>>

\* query: query exp
ReduceQuery ==
    /\ phase = "parse" /\ Len(symbols) = 1 /\ TopIs(1, {"exp"}) /\ ~CanShift
    /\ ast' = Top(1).node /\ symbols' = <<>>
    /\ UNCHANGED <<tokens, nodes, status, todo, order, sets, phase>>

Accept ==
    /\ phase = "parse" /\ symbols = <<>> /\ ahead = "EOF"
    /\ phase' = "keys"
    /\ UNCHANGED <<tokens, symbols, nodes, ast, status, todo, order, sets>>

MissingOperator == Juxtaposed /\ ~CanShift

Invalid == ahead = "ERROR"

\* Mutant: the operators do not associate.
ChainStuck == Operation /\ ahead \in Ops

Stuck ==
    /\ ~CanShift /\ ~Operation /\ ~Juxtaposed
    /\ symbols = <<>> => ahead # "EOF"
    /\ Len(symbols) = 1 => ~TopIs(1, {"exp"})

\* SetError: a missing operator, an invalid token, or Parser::error
ParseFails ==
    /\ phase = "parse"
    /\ MissingOperator \/ Invalid \/ Stuck
    /\ status' = "error" /\ phase' = "done"
    /\ UNCHANGED <<tokens, symbols, nodes, ast, todo, order, sets>>

-----------------------------------------------------------------------------
(* Evaluation *)

\* The lookups ask for the keys of the root before they evaluate the tree.  Without
\* tokens there is no root, and the server crashes.
KeysOfRoot ==
    /\ phase = "keys"
    /\ \/ ast = 0 /\ phase' = "crashed" /\ UNCHANGED todo
       \/ ast # 0 /\ phase' = "order" /\ todo' = <<ast>>
    /\ UNCHANGED <<tokens, symbols, nodes, ast, status, order, sets>>

Children(n) == (IF nodes[n].left = 0 THEN <<>> ELSE <<nodes[n].left>>)
               \o (IF nodes[n].right = 0 THEN <<>> ELSE <<nodes[n].right>>)

\* One round of PostOrderTraversal
Traverse ==
    /\ phase = "order" /\ todo # <<>>
    /\ order' = Append(order, Last(todo))
    /\ todo' = Front(todo) \o Children(Last(todo))
    /\ UNCHANGED <<tokens, symbols, nodes, ast, status, sets, phase>>

Reversed ==
    /\ phase = "order" /\ todo = <<>>
    /\ order' = Reverse(order) /\ phase' = "compute"
    /\ UNCHANGED <<tokens, symbols, nodes, ast, status, todo, sets>>

Apply(op, left, right) ==
    CASE op = "|" -> left \cup right
      [] op = "&" -> left \cap right
      [] op = "-" -> left \ right

WithoutOperands(stack) == SubSeq(stack, 1, Len(stack) - 2)

\* One round of Compute: ASTStackVisitor::Visit
Visit ==
    /\ phase = "compute" /\ order # <<>>
    /\ order' = Tail(order)
    /\ LET node == nodes[Head(order)]
       IN sets' = IF node.op = "VAR" THEN Append(sets, Data[node.key])
                  ELSE Append(WithoutOperands(sets), Apply(node.op, sets[Len(sets) - 1], Last(sets)))
    /\ UNCHANGED <<tokens, symbols, nodes, ast, status, todo, phase>>

Computed ==
    /\ phase = "compute" /\ order = <<>> /\ phase' = "done"
    /\ UNCHANGED <<tokens, symbols, nodes, ast, status, todo, order, sets>>

Next ==
    \/ ShiftVar \/ Shift \/ ReduceOperation \/ ReduceQuery \/ Accept \/ ParseFails
    \/ KeysOfRoot \/ Traverse \/ Reversed \/ Visit \/ Computed

Spec == Init /\ [][Next]_vars

\* Driver::GetResult
GetResult == IF sets = <<>> THEN {} ELSE Last(sets)

\* Mutant: only the operands that are keys themselves.
OwnKeys == [n \in DOMAIN nodes |->
    IF nodes[n].op = "VAR" THEN {nodes[n].key}
    ELSE {nodes[c].key : c \in {nodes[n].left, nodes[n].right}} \ {""}]

\* Keys() of every node
KeysOf ==
    LET keys[n \in DOMAIN nodes] ==
            IF nodes[n].op = "VAR" THEN {nodes[n].key}
            ELSE keys[nodes[n].left] \cup keys[nodes[n].right]
    IN keys

-----------------------------------------------------------------------------
(* What a query means: the last operator outside of parentheses is applied last. *)

Depth(i, k) == Quantify(i .. k, LAMBDA j : tokens[j] = "(") - Quantify(i .. k, LAMBDA j : tokens[j] = ")")

Malformed == [ok |-> FALSE]

Meaning ==
    LET len == Len(tokens) - 1
        meaning[i \in 1 .. len + 1, j \in 0 .. len] ==
            LET outer == {k \in i .. j : tokens[k] \in Ops /\ Depth(i, k) = 0}
                k == Max(outer)
            IN CASE i <= j /\ outer # {} ->
                      LET l == meaning[i, k - 1]
                          r == meaning[k + 1, j]
                      IN IF l.ok /\ r.ok THEN [ok |-> TRUE, set |-> Apply(tokens[k], l.set, r.set)]
                         ELSE Malformed
                 [] i = j /\ tokens[i] \in Keys -> [ok |-> TRUE, set |-> Data[tokens[i]]]
                 [] i < j /\ outer = {} /\ tokens[i] = "(" /\ tokens[j] = ")" -> meaning[i + 1, j - 1]
                 [] OTHER -> Malformed
    IN meaning[1, len]

-----------------------------------------------------------------------------
(* Properties *)

\* Operators find their operands: every id is a node that has been built, and one
\* set is left when the evaluation ends.
TypeOK ==
    /\ Len(tokens) \in 1 .. MaxTokens + 1
    /\ ToSet(tokens) \subseteq Tokens \cup {"EOF"}
    /\ ast \in 0 .. Len(nodes) /\ status \in {"ok", "error"}
    /\ ToSet(todo) \cup ToSet(order) \subseteq DOMAIN nodes
    /\ phase = "done" => Len(sets) <= 1
    /\ phase \in {"parse", "keys", "order", "compute", "done", "crashed"}

\* A query that is parsed gives the set it means: operators of equal precedence apply
\* from left to right, parentheses first, and no operand is taken for another on
\* the way through the two stacks.
ResultIsMeant == phase = "done" /\ status = "ok" => Meaning.ok /\ GetResult = Meaning.set

\* The server crashes in a query of blanks only: one with a token that is parsed has
\* a root.  (A query that is empty is not parsed.)
CrashesWithoutTokens == phase = "crashed" => tokens = <<"EOF">>

\* A token is misplaced where no query can have it after the tokens before it.
Misplaced(i) ==
    LET afterExp == i > 1 /\ tokens[i - 1] \in Keys \cup {")"}
    IN \/ tokens[i] = "ERROR"
       \/ tokens[i] \in Starts /\ afterExp
       \/ tokens[i] \in Ops \cup {")"} /\ ~afterExp
       \/ tokens[i] = ")" /\ Depth(1, i) < 0
       \/ tokens[i] = "EOF" /\ i > 1 /\ (~afterExp \/ Depth(1, i) > 0)

\* A query is rejected only for a token that is misplaced; what precedes it is no
\* reason, however deeply it is nested.
RejectedForAToken == status = "error" => \E i \in DOMAIN tokens : Misplaced(i)

\* GetKeyValueSet is called for Keys() of the tree before it is evaluated: every set
\* the evaluation reads is among them.
KeysCoverEvaluation ==
    phase = "compute" =>
        /\ \A i \in DOMAIN order : nodes[order[i]].op = "VAR" => nodes[order[i]].key \in KeysOf[ast]
        /\ KeysOf[ast] = ToSet(tokens) \cap Keys
=============================================================================
