--------------------------- MODULE MCRedBlackTree ---------------------------
(* Small instances of RedBlackTree.                                        *)
EXTENDS RedBlackTree

\* a node is ten times its key plus the number of the copy
MCKey(x) == x \div 10
=============================================================================
