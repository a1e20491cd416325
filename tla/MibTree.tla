------------------------------ MODULE MibTree ------------------------------
(***************************************************************************)
(* The object tree of the SNMP agent (core/snmp/mib_structs.c): sorted     *)
(* index lists, the search of GET and SET, and the expansion of GETNEXT    *)
(* with its stack of right children.                                       *)
(*                                                                         *)
(* A node is [kind, group, kids]: an array node "AR" (ROM or RAM), a list  *)
(* root "LR", an external node "EX" or a scalar "SC"; "group" names the    *)
(* access functions of the node and kids is the sequence of its            *)
(* [objid, nptr] pairs, cut at maxlength for an array.  The count of a     *)
(* list root is the length of kids.  Object identifiers are sequences of   *)
(* naturals, without the bound LWIP_SNMP_OBJ_ID_LEN.                       *)
(***************************************************************************)
EXTENDS Naturals, Sequences, FiniteSets, SequencesExt

prefix == <<1, 3, 6, 1>>

Node(kind, group, kids) == [kind |-> kind, group |-> group, kids |-> kids]
NULL == Node("NULL", "noleafs", <<>>)
ArrayNode(ids, nodes) ==
    Node("AR", "noleafs", [i \in DOMAIN ids |-> [objid |-> ids[i], nptr |-> nodes[i]]])
Scalar(group) == Node("SC", group, <<>>)

(* The first element of kids that satisfies a test, 0 when there is none.  *)
FirstOf(S) == IF S = {} THEN 0 ELSE CHOOSE i \in S : \A j \in S : i <= j

(* IP addresses and their index form: an address is the sequence of its    *)
(* components; a netmask component is 0 or 1 (0x00 or 0xff).               *)
snmp_iptooid(ip) == ip
snmp_oidtoip(ident, n) == SubSeq(ident, 1, n)
network(ip, mask) == [i \in DOMAIN ip |-> ip[i] * mask[i]]
isany(ip) == \A i \in DOMAIN ip : ip[i] = 0

-----------------------------------------------------------------------------
(* Index lists: pool is [nodes, roots], what is left of MEMP_SNMP_NODE and *)
(* MEMP_SNMP_ROOTNODE.                                                     *)

(* Insertion in ascending order; "at" is the position of the inserted or   *)
(* present node, 0 when no node could be allocated.                        *)
InsertBefore(rn, i, objid, pool) ==
    IF i <= Len(rn.kids) /\ rn.kids[i].objid = objid THEN [rn |-> rn, at |-> i, pool |-> pool]
    ELSE IF pool.nodes = 0 THEN [rn |-> rn, at |-> 0, pool |-> pool]
    ELSE [rn |-> [rn EXCEPT !.kids = InsertAt(@, i, [objid |-> objid, nptr |-> NULL])],
          at |-> i, pool |-> [pool EXCEPT !.nodes = @ - 1]]
snmp_mib_node_insert(rn, objid, pool) ==
    InsertBefore(rn, Min({Len(rn.kids) + 1} \cup {i \in DOMAIN rn.kids : rn.kids[i].objid >= objid}),
                 objid, pool)

(* The deletion mark: 0 not found, 1 deletable, 2 two or more children.    *)
Kid(rn, objid) == FirstOf({k \in DOMAIN rn.kids : rn.kids[k].objid = objid})
FoundLoose(rn, i) == [at |-> i, fc |-> IF i = 0 THEN 0 ELSE 1]
Found(rn, i) ==
    [at |-> i, fc |-> IF i = 0 THEN 0 ELSE IF Len(rn.kids[i].nptr.kids) > 1 THEN 2 ELSE 1]
snmp_mib_node_find_loose(rn, objid) == FoundLoose(rn, Kid(rn, objid))
snmp_mib_node_find(rn, objid) == Found(rn, Kid(rn, objid))

snmp_mib_node_delete(rn, i, pool) ==
    [rn   |-> [rn EXCEPT !.kids = RemoveAt(@, i)],
     pool |-> [nodes |-> pool.nodes + 1,
               roots |-> pool.roots + IF rn.kids[i].nptr.kind = "LR" THEN 1 ELSE 0]]

(* The loop over the levels of an index in the snmp_insert_*idx_tree       *)
(* functions.  When a node cannot be allocated the loop goes on with the   *)
(* next level in the same list; when a list root cannot, it stops.         *)
RECURSIVE InsertIndex(_, _, _, _)
Grafted(ins, sub) ==
    [ins EXCEPT !.rn.kids[ins.at].nptr = sub.rn, !.pool = sub.pool]
InsertBelow(ins, old, idx, group) ==
    IF old # NULL THEN Grafted(ins, InsertIndex(old, Tail(idx), group, ins.pool))
    ELSE IF ins.pool.roots = 0 THEN ins
    ELSE Grafted(ins, InsertIndex(Node("LR", IF Len(idx) = 2 THEN group ELSE "noleafs", <<>>),
                                  Tail(idx), group, [ins.pool EXCEPT !.roots = @ - 1]))
InsertLevel(ins, idx, group) ==
    IF Len(idx) = 1 THEN ins
    ELSE IF ins.at = 0 THEN InsertIndex(ins.rn, Tail(idx), group, ins.pool)
    ELSE InsertBelow(ins, ins.rn.kids[ins.at].nptr, idx, group)
InsertIndex(rn, idx, group, pool) ==
    InsertLevel(snmp_mib_node_insert(rn, Head(idx), pool), idx, group)

(* The two loops of the snmp_delete_*idx_tree functions: mark the nodes    *)
(* down the path (an unknown level drops all marks, a node with more       *)
(* children drops those above it), then delete the marked ones, deepest    *)
(* first.                                                                  *)
RECURSIVE DeleteIndex(_, _, _)
Deleted(d) == [rn |-> d.rn, found |-> TRUE, mark |-> TRUE, pool |-> d.pool]
DeleteAbove(rn, f, sub) ==
    IF ~ sub.found THEN [sub EXCEPT !.rn = rn]
    ELSE IF sub.mark /\ f.fc = 1
    THEN Deleted(snmp_mib_node_delete([rn EXCEPT !.kids[f.at].nptr = sub.rn], f.at, sub.pool))
    ELSE [sub EXCEPT !.rn = [rn EXCEPT !.kids[f.at].nptr = sub.rn], !.mark = FALSE]
DeleteLevel(rn, f, idx, pool) ==
    IF f.fc = 0 THEN [rn |-> rn, found |-> FALSE, mark |-> FALSE, pool |-> pool]
    ELSE IF Len(idx) = 1 \/ rn.kids[f.at].nptr = NULL
    THEN Deleted(snmp_mib_node_delete(rn, f.at, pool))
    ELSE DeleteAbove(rn, f, DeleteIndex(rn.kids[f.at].nptr, Tail(idx), pool))
DeleteIndex(rn, idx, pool) ==
    DeleteLevel(rn, snmp_mib_node_find(rn, Head(idx)), idx, pool)

-----------------------------------------------------------------------------
(* The search of GET and SET: the node whose access functions serve the    *)
(* name, with the identifiers left at the leaf.                            *)
NoNode == [node |-> NULL, rest |-> <<>>]

RECURSIVE snmp_search_tree(_, _)
snmp_search_tree(node, ident) ==
    LET i == FirstOf({k \in DOMAIN node.kids : node.kids[k].objid = Head(ident)})
    IN  IF node.kind = "SC"
        THEN IF ident = <<0>> THEN [node |-> node, rest |-> ident] ELSE NoNode
        ELSE IF ident = <<>> THEN NoNode
        ELSE IF i = 0 THEN NoNode
        ELSE IF node.kids[i].nptr = NULL THEN [node |-> node, rest |-> ident]
        ELSE snmp_search_tree(node.kids[i].nptr, Tail(ident))

(* A table without entries; an external node is never one (tree_levels is  *)
(* not 0).                                                                 *)
empty_table_never(node) == FALSE
empty_table(node) == node.kind \in {"AR", "LR"} /\ node.kids = <<>>

(* The right neighbour of kid i pushed on the node stack: the next kid     *)
(* that is no empty table.                                                 *)
RightChild(node, i) ==
    LET j == FirstOf({k \in (i + 1)..Len(node.kids) : ~ empty_table(node.kids[k].nptr)})
    IN  IF j = 0 THEN [r_ptr |-> NULL, r_id |-> 0]
        ELSE [r_ptr |-> node.kids[j].nptr, r_id |-> node.kids[j].objid]

(* GETNEXT: descend along ident, remembering right children; once ident is *)
(* exhausted or overtaken complete with the leftmost leaf (which pushes    *)
(* nothing); at a dead end climb to the last right child, trimming one     *)
(* identifier per stack entry.                                             *)
NoOid == [node |-> NULL, oid |-> <<>>]

RECURSIVE ExpandNode(_, _, _, _)
ClimbTo(stack) == Max({0} \cup {k \in DOMAIN stack : stack[k].r_ptr # NULL})
Climb(oid, stack) ==
    LET k == ClimbTo(stack)
        n == Len(oid) - (Len(stack) - k + 1)
    IN  IF k = 0 THEN NoOid
        ELSE ExpandNode(stack[k].r_ptr, <<>>, Append(SubSeq(oid, 1, n), stack[k].r_id),
                        SubSeq(stack, 1, k - 1))
At_(node, oid, k) == Append(oid, node.kids[k].objid)
Leftmost(node, j, oid, stack) ==
    IF j = 0 THEN Climb(oid, stack)
    ELSE IF node.kids[j].nptr = NULL THEN [node |-> node, oid |-> At_(node, oid, j)]
    ELSE ExpandNode(node.kids[j].nptr, <<>>, At_(node, oid, j), stack)
Descend(node, i, ident, oid, stack) ==
    IF i = 0 THEN Climb(oid, stack)
    ELSE IF node.kids[i].nptr # NULL
    THEN ExpandNode(node.kids[i].nptr,
                    IF node.kids[i].objid = Head(ident) THEN Tail(ident) ELSE <<>>,
                    At_(node, oid, i), Append(stack, RightChild(node, i)))
    ELSE IF node.kids[i].objid > Head(ident) THEN [node |-> node, oid |-> At_(node, oid, i)]
    ELSE IF i < Len(node.kids) THEN [node |-> node, oid |-> At_(node, oid, i + 1)]
    ELSE Climb(oid, stack)
ExpandNode(node, ident, oid, stack) ==
    CASE node.kind = "NULL" -> NoOid
      [] node.kind = "SC" -> IF ident # <<>> THEN Climb(oid, stack)
                             ELSE [node |-> node, oid |-> Append(oid, 0)]
      [] node.kind \notin {"NULL", "SC"} /\ ident = <<>> ->
            Leftmost(node, FirstOf({k \in DOMAIN node.kids : ~ empty_table(node.kids[k].nptr)}), oid, stack)
      [] OTHER ->
            Descend(node, FirstOf({k \in DOMAIN node.kids : node.kids[k].objid >= Head(ident)}),
                    ident, oid, stack)
snmp_expand_tree(node, ident, oidret) == ExpandNode(node, ident, oidret, <<>>)

snmp_iso_prefix_tst(ident) == Len(ident) > 3 /\ SubSeq(ident, 1, 4) = prefix

(* Expansion accepts identifiers not above the prefix, component by        *)
(* component.                                                              *)
snmp_iso_prefix_expand(ident) ==
    \A i \in 1..(IF Len(ident) < 4 THEN Len(ident) ELSE 4) : ident[i] <= prefix[i]

=============================================================================
