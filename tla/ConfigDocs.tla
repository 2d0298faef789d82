----------------------------- MODULE ConfigDocs -----------------------------
(***************************************************************************)
(* Configuration documents and their data model, as the tree algorithms of *)
(* the library see them (edit_config.c, with_defaults.c, xmldiff.c).       *)
(*                                                                         *)
(* A document is the sequence of its elements in document order.  An       *)
(* element has the path of its names from the root; a step of the path is  *)
(* <<name, key>>, where key is the value of the key leaf of a list entry,  *)
(* the value of a leaf-list item, and "" otherwise (also for a list entry  *)
(* that has no key).  Two elements are the same for NETCONF when their     *)
(* paths are equal: this is what matching_elements decides with the names, *)
(* the keys and, for a leaf-list, the text.  The attributes op, ins, ref   *)
(* and tag are operation, insert, key/value and wd:default of the XML.     *)
(***************************************************************************)
EXTENDS Integers, Sequences, SequencesExt, FiniteSetsExt

CONSTANTS
  Kind,        \* name -> "container", "leaf", "list" or "leaf-list"
  Children,    \* name (or "module") -> sequence of the names below it
  KeyOf,       \* name of a list -> name of its key leaf
  Default,     \* name of a leaf with a default -> its default value
  CaseOf,      \* name of a node of a choice -> <<choice, case>>
  DefaultCase, \* choices with a default case -> that case
  UserOrdered  \* lists and leaf-lists that are ordered-by user

Documents ==
  Seq([path : Seq(Seq(STRING)), val : STRING, op : STRING, ins : STRING, ref : STRING, tag : BOOLEAN])
Node(p, v) == [path |-> p, val |-> v, op |-> "", ins |-> "", ref |-> "", tag |-> FALSE]

Name(p) == Last(p)[1]
Parent(p) == Front(p)

\* the names with the namespaces, and the keys or the text
matching_elements(p, q) == p = q

\* find_element_equiv: p has an equivalent in doc
Has(doc, p) == \E i \in DOMAIN doc : matching_elements(doc[i].path, p)
At(doc, p) == doc[Min({i \in DOMAIN doc : doc[i].path = p})]
Paths(doc) == {doc[i].path : i \in DOMAIN doc}

Subtree(doc, p) == SelectSeq(doc, LAMBDA n : IsPrefix(p, n.path))
\* edit_delete: the element goes with all below it
Without(doc, p) == SelectSeq(doc, LAMBDA n : ~IsPrefix(p, n.path))

ChildPaths(doc, p) ==
  LET kids == SelectSeq(doc, LAMBDA n : Len(n.path) = Len(p) + 1 /\ IsPrefix(p, n.path))
  IN  [i \in DOMAIN kids |-> kids[i].path]

Put(doc, i, nodes) == SubSeq(doc, 1, i) \o nodes \o SubSeq(doc, i + 1, Len(doc))
FirstOf(doc, p) == Min({i \in DOMAIN doc : doc[i].path = p})
LastOf(doc, p) == IF p = <<>> THEN Len(doc) ELSE Max({i \in DOMAIN doc : IsPrefix(p, doc[i].path)})

\* xmlAddChild, xmlAddPrevSibling, xmlAddNextSibling
AddChild(doc, parent, nodes) == Put(doc, LastOf(doc, parent), nodes)
AddPrev(doc, p, nodes) == Put(doc, FirstOf(doc, p) - 1, nodes)
AddNext(doc, p, nodes) == Put(doc, LastOf(doc, p), nodes)

\* get_keys: the key leaf of a list entry
KeyPath(p) == Append(p, <<KeyOf[Name(p)], "">>)

\* is_key
IsKey(p) ==
  /\ Len(p) > 1
  /\ Name(Parent(p)) \in DOMAIN KeyOf
  /\ KeyOf[Name(Parent(p))] = Name(p)

IsText(name) == Kind[name] \in {"leaf", "leaf-list"}

\* what a document says: its elements and their values, in no order
Contents(doc) == {<<doc[i].path, doc[i].val>> : i \in DOMAIN doc}

\* the instances of the list name in parent, in their order
Instances(doc, parent, name) ==
  SelectSeq(ChildPaths(doc, parent), LAMBDA p : Name(p) = name)
=============================================================================
