--------------------------- MODULE SequentialTree ---------------------------
(***************************************************************************)
(* Tree_sequential.c: the file tree for one thread.  A folder knows its    *)
(* parent and its name, and its parent's map knows it by that name: a call *)
(* that leaves the two apart is only noticed by a later one.  The memory   *)
(* of a folder is in the domain of node as long as it is not freed.        *)
(***************************************************************************)
EXTENDS Sequences, SequencesExt, Functions, FiniteSets, TLC

CONSTANTS Address, Name,
          NULL,
          MaxLength      \* of the paths that are arguments

Paths == UNION {[1..k -> Name] : k \in 0..MaxLength}

Calls ==
    [op : {"list", "create", "remove"}, path : Paths]
      \cup [op : {"move"}, source : Paths, target : Paths]

VARIABLES node,      \* the folders by address: parent, name, children
          root,
          last       \* the latest call and what it returned

vars == <<node, root, last>>

hmap_get(a, name) ==
    IF name \in DOMAIN node[a].children THEN node[a].children[name] ELSE NULL

\* The folder that a path leads to from another, or NULL.
process_path(from, path) ==
    FoldLeft(LAMBDA a, name : IF a = NULL THEN NULL ELSE hmap_get(a, name), from, path)

node_new(parent, name) == [parent |-> parent, name |-> name, children |-> <<>>]

Linked(children, name, a) == children @@ (name :> a)
Unlinked(children, name) == Restrict(children, DOMAIN children \ {name})

NoCall == [op |-> "none"]
Result(code) == [code |-> code, names |-> {}]

tree_new ==
    /\ root \in Address
    /\ node = root :> node_new(NULL, NULL)
    /\ last = [call |-> NoCall, result |-> Result("none")]

Returns(c, code) == last' = [call |-> c, result |-> Result(code)] /\ UNCHANGED root

Fails(c, code) == Returns(c, code) /\ UNCHANGED node

tree_list(c) ==
    /\ c.op = "list"
    /\ LET a == process_path(root, c.path)
       IN  IF a = NULL THEN Returns(c, "NULL")
           ELSE /\ last' = [call |-> c, result |->
                              [code |-> "names", names |-> DOMAIN node[a].children]]
                /\ UNCHANGED root
    /\ UNCHANGED node

tree_create(c) ==
    /\ c.op = "create"
    /\ LET parent == process_path(root, Front(c.path))
           name   == Last(c.path)
       IN  IF c.path = <<>> THEN Fails(c, "EEXIST")
           ELSE IF parent = NULL THEN Fails(c, "ENOENT")
           ELSE IF hmap_get(parent, name) # NULL THEN Fails(c, "EEXIST")
           ELSE /\ \E a \in Address \ DOMAIN node :
                     node' = [node EXCEPT ![parent].children = Linked(@, name, a)]
                               @@ (a :> node_new(parent, name))
                /\ Returns(c, "OK")

tree_remove(c) ==
    /\ c.op = "remove"
    /\ LET parent == process_path(root, Front(c.path))
           child  == hmap_get(parent, Last(c.path))
       IN  IF c.path = <<>> THEN Fails(c, "EBUSY")
           ELSE IF parent = NULL THEN Fails(c, "ENOENT")
           ELSE IF child = NULL THEN Fails(c, "ENOENT")
           ELSE IF node[child].children # <<>> THEN Fails(c, "ENOTEMPTY")
           ELSE /\ node' = [a \in DOMAIN node \ {child} |->
                              IF a = parent
                              THEN [node[a] EXCEPT !.children = Unlinked(@, node[child].name)]
                              ELSE node[a]]
                /\ Returns(c, "OK")

\* Out of the map of its parent, under its own name; into the new parent's;
\* then the folder's own name and parent.
Transferred_slip(source, parent, name) ==
    LET out == [node EXCEPT ![node[source].parent].children =
                              Unlinked(@, node[source].name)]
    IN  [out EXCEPT ![parent].children = Linked(@, name, source),
                    ![source].name = name]
Transferred(source, parent, name) ==
    LET out == [node EXCEPT ![node[source].parent].children =
                              Unlinked(@, node[source].name)]
    IN  [out EXCEPT ![parent].children = Linked(@, name, source),
                    ![source].name = name,
                    ![source].parent = parent]

\* Both walks begin at the folder that the paths share.
tree_move(c) ==
    /\ c.op = "move"
    /\ LET to     == Front(c.target)
           common == LongestCommonPrefix({c.source, to})
           Beyond(path) == SubSeq(path, Len(common) + 1, Len(path))
           shared == process_path(root, common)
           source == process_path(shared, Beyond(c.source))
           parent == process_path(shared, Beyond(to))
       IN  IF c.source = <<>> THEN Fails(c, "EBUSY")
           ELSE IF c.target = <<>> THEN Fails(c, "EEXIST")
           ELSE IF NULL \in {shared, source, parent} THEN Fails(c, "ENOENT")
           ELSE IF hmap_get(parent, Last(c.target)) # NULL THEN Fails(c, "EEXIST")
           ELSE IF IsPrefix(c.source, c.target) THEN Fails(c, "EBADMOVE")
           ELSE node' = Transferred(source, parent, Last(c.target)) /\ Returns(c, "OK")

Next == \E c \in Calls : tree_list(c) \/ tree_create(c) \/ tree_remove(c) \/ tree_move(c)

Spec == tree_new /\ [][Next]_vars

-----------------------------------------------------------------------------
\* The folders that can be reached, by their paths, depth after depth.
Depth[k \in 0..Cardinality(Address) - 1] ==
    IF k = 0 THEN {<<<<>>, root>>}
    ELSE UNION {{<<Append(f[1], name), node[f[2]].children[name]>> :
                   name \in DOMAIN node[f[2]].children} : f \in Depth[k - 1]}
Tree == {f[1] : f \in UNION {Depth[k] : k \in DOMAIN Depth}}

Promise == INSTANCE FileTree WITH
    Thread <- {}, InitialPaths <- {<<>>}, Workloads <- {<<>>},
    paths <- Tree, call <- <<>>, status <- <<>>, readings <- <<>>, answer <- <<>>

\* Every call, after whatever calls came before it, does and answers what the
\* concurrent tree does at the instant of the same call, and no folder is lost
\* that was not freed.  Of a move below itself that has yet another fault the
\* sequential tree reports the other one.
AgreesWithFileTree ==
    [][last'.call # NoCall =>
       LET c == last'.call
           before == Tree
           after  == Tree'
           refusal == Promise!Refusal(c, before)
       IN  /\ Cardinality(DOMAIN node') = Cardinality(after)
           /\ IF last'.result.code = "OK"
              THEN refusal = {} /\ after = Promise!After(c, before)
              ELSE /\ after = before
                   /\ refusal \in {{last'.result}, {Promise!Result("EBADMOVE")}}]_vars
=============================================================================
