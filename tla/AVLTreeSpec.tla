----------------------------- MODULE AVLTreeSpec -----------------------------
(***************************************************************************)
(* One tree of an order book under every sequence of insertions and        *)
(* deletions of orders, against the set of the orders it should hold.      *)
(***************************************************************************)
EXTENDS AVLTree, FiniteSets

CONSTANTS
  TreePrices,   \* prices of the orders
  TreeTimes     \* timestamps of the orders

ASSUME TreePricesAssumption == TreePrices \subseteq Int
ASSUME TreeTimesAssumption == TreeTimes \subseteq Int

VARIABLES
  root,         \* tree->root
  is_buy_tree,  \* tree->is_buy_tree, set by avl_create
  held          \* reference: the set of orders the tree is meant to hold

vars == <<root, is_buy_tree, held>>

\* An order is identified with its key.
Keys == TreePrices \X TreeTimes

\* avl_create
Init == root = Nil /\ is_buy_tree \in BOOLEAN /\ held = {}

Insert(k) ==
  /\ root' = avl_insert(root, is_buy_tree, k[1], k[2], k)
  /\ held' = held \cup {k}
  /\ UNCHANGED is_buy_tree

Delete(k) ==
  /\ root' = avl_delete_order(root, is_buy_tree, k[1], k[2])
  /\ held' = held \ {k}
  /\ UNCHANGED is_buy_tree

Next == \E k \in Keys : Insert(k) \/ Delete(k)

Spec == Init /\ [][Next]_vars

-----------------------------------------------------------------------------
KeyLess(k, l) == k[1] < l[1] \/ (k[1] = l[1] /\ k[2] < l[2])

RECURSIVE Nodes(_)
\* The nodes of a tree.
Nodes(node) ==
  IF IsNil(node) THEN {} ELSE {node} \cup Nodes(node.left) \cup Nodes(node.right)

RECURSIVE RealHeight(_)
RealHeight(node) ==
  IF IsNil(node) THEN 0
  ELSE LET l == RealHeight(node.left)
           r == RealHeight(node.right)
       IN 1 + (IF l > r THEN l ELSE r)

\* After any insertions and deletions the rotations leave every node with its
\* true height and with subtrees whose heights differ by at most one, which is
\* what the README's O(log n) rests on.
Balanced ==
  \A n \in Nodes(root) :
    /\ n.height = RealHeight(n)
    /\ RealHeight(n.left) - RealHeight(n.right) \in -1..1

\* avl_inorder_traverse visits exactly the orders that were inserted and not
\* deleted, each once, by ascending key.
TraversalIsSorted ==
  LET s == avl_inorder_traverse(root)
  IN /\ {s[i] : i \in DOMAIN s} = held
     /\ \A i \in 1..(Len(s) - 1) : KeyLess(s[i], s[i + 1])

\* A node's key is the key of the order it points to: delete_node copies the
\* successor's key and its order together.
KeyIsOrdersKey == \A n \in Nodes(root) : <<n.price, n.timestamp>> = n.order

\* avl_find_min and avl_find_max return the least and the greatest order.
ExtremesFound ==
  held # {} =>
    /\ avl_find_min(root) \in held
    /\ avl_find_max(root) \in held
    /\ \A k \in held : ~KeyLess(k, avl_find_min(root))
                       /\ ~KeyLess(avl_find_max(root), k)
=============================================================================
