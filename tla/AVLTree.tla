------------------------------- MODULE AVLTree -------------------------------
(***************************************************************************)
(* The balanced tree of src/trading_engine/avl_tree.c, as operators on     *)
(* values.  A node is a record; the null pointer is a record of height 0,  *)
(* which is what get_height returns for it.  The functions of the source   *)
(* rewrite nodes in place and return the new root of the subtree: here     *)
(* they return the rewritten subtree.                                      *)
(***************************************************************************)
EXTENDS Integers, Sequences

Nil == [height |-> 0]

IsNil(node) == node.height = 0

\* Ascending price, then ascending timestamp, in both trees.
compare_nodes(price1, timestamp1, price2, timestamp2, is_buy_tree) ==
  IF price1 # price2
  THEN IF is_buy_tree
       THEN IF price1 > price2 THEN 1 ELSE -1
       ELSE IF price1 < price2 THEN -1 ELSE 1
  ELSE IF timestamp1 < timestamp2 THEN -1
       ELSE IF timestamp1 > timestamp2 THEN 1 ELSE 0

get_height(node) == node.height

get_balance(node) ==
  IF IsNil(node) THEN 0 ELSE get_height(node.left) - get_height(node.right)

create_node(price, timestamp, order) ==
  [price |-> price, timestamp |-> timestamp, order |-> order,
   left |-> Nil, right |-> Nil, height |-> 1]

\* The node with its height recomputed from its children.
UpdateHeight(node) ==
  LET l == get_height(node.left)
      r == get_height(node.right)
  IN [node EXCEPT !.height = (IF l > r THEN l ELSE r) + 1]

right_rotate(y) ==
  LET x == y.left
      lowered == UpdateHeight([y EXCEPT !.left = x.right])
  IN UpdateHeight([x EXCEPT !.right = lowered])

\* Mutation: the inner subtree is lost.
left_rotate_Losing(x) ==
  LET y == x.right
      lowered == UpdateHeight([x EXCEPT !.right = Nil])
  IN UpdateHeight([y EXCEPT !.left = lowered])

left_rotate(x) ==
  LET y == x.right
      lowered == UpdateHeight([x EXCEPT !.right = y.left])
  IN UpdateHeight([y EXCEPT !.left = lowered])

\* Mutation: no double rotation on the left.
RebalanceInsert_NoLeftRight(node, price, timestamp, is_buy_tree) ==
  LET balance == get_balance(node)
      CmpWith(child) == compare_nodes(price, timestamp, child.price,
                                      child.timestamp, is_buy_tree)
  IN CASE balance > 1 -> right_rotate(node)
       [] balance < -1 /\ CmpWith(node.right) > 0 -> left_rotate(node)
       [] balance < -1 /\ CmpWith(node.right) < 0 ->
            left_rotate([node EXCEPT !.right = right_rotate(@)])
       [] OTHER -> node

\* The rotations of insert_node: which one is decided by where the new key
\* went, compared with the key of the child on the heavy side.
RebalanceInsert(node, price, timestamp, is_buy_tree) ==
  LET balance == get_balance(node)
      CmpWith(child) == compare_nodes(price, timestamp, child.price,
                                      child.timestamp, is_buy_tree)
  IN CASE balance > 1 /\ CmpWith(node.left) < 0 -> right_rotate(node)
       [] balance < -1 /\ CmpWith(node.right) > 0 -> left_rotate(node)
       [] balance > 1 /\ CmpWith(node.left) > 0 ->
            right_rotate([node EXCEPT !.left = left_rotate(@)])
       [] balance < -1 /\ CmpWith(node.right) < 0 ->
            left_rotate([node EXCEPT !.right = right_rotate(@)])
       [] OTHER -> node

RECURSIVE insert_node(_, _, _, _, _)
\* A key the tree already holds leaves the tree as it is.
insert_node(node, price, timestamp, order, is_buy_tree) ==
  IF IsNil(node) THEN create_node(price, timestamp, order)
  ELSE
    LET cmp == compare_nodes(price, timestamp, node.price, node.timestamp,
                             is_buy_tree)
        Into(child) == insert_node(child, price, timestamp, order, is_buy_tree)
        grown == IF cmp < 0 THEN [node EXCEPT !.left = Into(@)]
                            ELSE [node EXCEPT !.right = Into(@)]
    IN IF cmp = 0 THEN node
       ELSE RebalanceInsert(UpdateHeight(grown), price, timestamp, is_buy_tree)

RECURSIVE find_min_node(_)
find_min_node(node) ==
  IF IsNil(node) \/ IsNil(node.left) THEN node ELSE find_min_node(node.left)

\* Mutation: one step to the right, not all of them.
find_max_node_OneStep(node) ==
  IF IsNil(node) \/ IsNil(node.right) THEN node ELSE node.right

RECURSIVE find_max_node(_)
find_max_node(node) ==
  IF IsNil(node) \/ IsNil(node.right) THEN node ELSE find_max_node(node.right)

\* The rotations of delete_node: decided by the balance of the heavy child.
RebalanceDelete(root) ==
  LET balance == get_balance(root)
  IN CASE balance > 1 /\ get_balance(root.left) >= 0 -> right_rotate(root)
       [] balance > 1 /\ get_balance(root.left) < 0 ->
            right_rotate([root EXCEPT !.left = left_rotate(@)])
       [] balance < -1 /\ get_balance(root.right) <= 0 -> left_rotate(root)
       [] balance < -1 /\ get_balance(root.right) > 0 ->
            left_rotate([root EXCEPT !.right = right_rotate(@)])
       [] OTHER -> root

\* Mutation: the order is not copied with its key.
CopyData_KeyOnly(root, from) ==
  [root EXCEPT !.price = from.price, !.timestamp = from.timestamp]

\* root with the data of another node.
CopyData(root, from) ==
  [root EXCEPT !.price = from.price, !.timestamp = from.timestamp,
               !.order = from.order]

RECURSIVE delete_node(_, _, _, _)
\* A node with one child becomes a copy of it; one with two children takes
\* the data of its successor, which is then deleted from the right subtree.
delete_node(root, price, timestamp, is_buy_tree) ==
  IF IsNil(root) THEN Nil
  ELSE
    LET cmp == compare_nodes(price, timestamp, root.price, root.timestamp,
                             is_buy_tree)
        succ == find_min_node(root.right)
        cut ==
          CASE cmp < 0 ->
                 [root EXCEPT !.left =
                    delete_node(@, price, timestamp, is_buy_tree)]
            [] cmp > 0 ->
                 [root EXCEPT !.right =
                    delete_node(@, price, timestamp, is_buy_tree)]
            [] cmp = 0 /\ IsNil(root.left) -> root.right
            [] cmp = 0 /\ ~IsNil(root.left) /\ IsNil(root.right) -> root.left
            [] OTHER ->
                 [CopyData(root, succ) EXCEPT !.right =
                    delete_node(@, succ.price, succ.timestamp, is_buy_tree)]
    IN IF IsNil(cut) THEN Nil ELSE RebalanceDelete(UpdateHeight(cut))

RECURSIVE inorder_traverse_helper(_)
\* The orders in the sequence in which the traversal calls back.
inorder_traverse_helper(node) ==
  IF IsNil(node) THEN <<>>
  ELSE inorder_traverse_helper(node.left) \o <<node.order>>
         \o inorder_traverse_helper(node.right)

-----------------------------------------------------------------------------
(* The functions of avl_tree.h.  A tree is its root.                       *)

avl_is_empty(root) == IsNil(root)

avl_insert(root, is_buy_tree, price, timestamp, order) ==
  insert_node(root, price, timestamp, order, is_buy_tree)

avl_delete_order(root, is_buy_tree, price, timestamp) ==
  delete_node(root, price, timestamp, is_buy_tree)

avl_find_min(root) == find_min_node(root).order

avl_find_max(root) == find_max_node(root).order

avl_inorder_traverse(root) == inorder_traverse_helper(root)
=============================================================================
