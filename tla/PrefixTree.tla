---------------------------- MODULE PrefixTree -----------------------------
(***************************************************************************)
(* PrefixTree<K, V> (prefixtree.hh): a node has a value and a map from     *)
(* keys to child nodes, a HashMap, which is the dictionary that HashMap's  *)
(* IsDictionary makes of it: what the map moves when it grows are pointers *)
(* to nodes.  Nodes are numbered in the order of their creation, 0 is the  *)
(* root; a handle is a node.  words is the tree's promise: the value last  *)
(* inserted for every path of keys.                                        *)
(***************************************************************************)
EXTENDS Naturals, Sequences, FiniteSets

CONSTANTS Keys, Values, None,
          MaxNodes      \* bound

VARIABLES nodes,   \* for every node its children, [some keys -> nodes], and its value
          words    \* [paths -> node and value]

vars == <<nodes, words>>

Node(children, v) == [children |-> children, value |-> v]
NoChildren == [k \in {} |-> None]
Init == /\ nodes = [n \in {0} |-> Node(NoChildren, None)]
        /\ words = [p \in {<<>>} |-> [node |-> 0, value |-> None]]

(* get: the child under a key, None if there is none. *)
Child(k, start) ==
    IF k \in DOMAIN nodes[start].children THEN nodes[start].children[k] ELSE None

WithChild(node, k, n) ==
    Node([j \in DOMAIN node.children \cup {k} |-> IF j = k THEN n ELSE node.children[j]], node.value)

(* The node of path p is n now and should have the value v. *)
Promised(p, n, v) == words' = [q \in DOMAIN words \cup {p} |->
                                  IF q = p THEN [node |-> n, value |-> v] ELSE words[q]]
(* setValue by the handle of path p. *)
SetValue(n, p, v) == /\ nodes' = [nodes EXCEPT ![n] = Node(nodes[n].children, v)]
                     /\ Promised(p, n, v)

(* insert behind path p, by the handle an earlier insert returned: a new   *)
(* child, or the value of the one there.                                   *)
Insert(k, p, v) ==
    LET start == words[p].node
        new == Cardinality(DOMAIN nodes)
    IN  IF Child(k, start) # None THEN SetValue(Child(k, start), Append(p, k), v)
        ELSE /\ nodes' = [n \in DOMAIN nodes \cup {new} |->
                             IF n = new THEN Node(NoChildren, v)
                             ELSE IF n = start THEN WithChild(nodes[n], k, new) ELSE nodes[n]]
             /\ Promised(Append(p, k), new, v)

Next == \E p \in DOMAIN words, v \in Values :
            \/ SetValue(words[p].node, p, v)
            \/ \E k \in Keys : /\ Cardinality(DOMAIN nodes) < MaxNodes \/ Append(p, k) \in DOMAIN words
                              /\ Insert(k, p, v)
Spec == Init /\ [][Next]_vars
-----------------------------------------------------------------------------
TypeOK ==
    /\ DOMAIN nodes = 0 .. Cardinality(DOMAIN nodes) - 1 /\ IsFiniteSet(DOMAIN nodes)
    /\ \A n \in DOMAIN nodes : /\ nodes[n] = Node(nodes[n].children, nodes[n].value)
                               /\ DOMAIN nodes[n].children \subseteq Keys
                               /\ nodes[n].children \in [DOMAIN nodes[n].children -> DOMAIN nodes]
    /\ words \in [DOMAIN words -> [node : DOMAIN nodes, value : Values \cup {None}]]
    /\ DOMAIN words \subseteq Seq(Keys) /\ <<>> \in DOMAIN words /\ words[<<>>].node = 0

(* Following a path with get ends at the node its insertion returned, with *)
(* the value set last, and nowhere if nothing was inserted there; handles  *)
(* stay good while nodes get children (prefixtree.hh:71).                  *)
PathsFound ==
    /\ \A p \in DOMAIN words :
          /\ nodes[words[p].node].value = words[p].value
          /\ p # <<>> => \E q \in DOMAIN words, k \in Keys : p = Append(q, k)
          /\ \A k \in Keys : Child(k, words[p].node) =
                IF Append(p, k) \in DOMAIN words THEN words[Append(p, k)].node ELSE None
    /\ \A p, q \in DOMAIN words : words[p].node = words[q].node => p = q

IInv == TypeOK /\ PathsFound
=============================================================================
