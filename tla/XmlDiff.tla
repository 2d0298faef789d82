------------------------------ MODULE XmlDiff -------------------------------
(***************************************************************************)
(* transapi/xmldiff.c: the differences between two documents, walked along *)
(* the data model.  A record tells the element in the old and in the new   *)
(* document (<<>> for none) and the set of its flags.  A result has the    *)
(* flags a level returns to its caller and the records of all below it.    *)
(***************************************************************************)
EXTENDS ConfigDocs

NoElement == <<>>

Record(old, new, op) == [old |-> old, new |-> new, op |-> op]
Unchanged == [op |-> {}, recs |-> {}]

\* the flags that make the parent part of a chain
Below == {"add", "rem", "mod", "reorder", "chain"}

\* xmldiff_add_diff_recursive: the element and all below it
Whole(doc, p, op) ==
  {IF op = "add" THEN Record(NoElement, q, {op}) ELSE Record(q, NoElement, {op}) :
     q \in Paths(Subtree(doc, p))}

leaf_diff(old, new, p) ==
  CASE ~Has(old, p) -> [op |-> {"add"}, recs |-> {Record(NoElement, p, {"add"})}]
    [] ~Has(new, p) -> [op |-> {"rem"}, recs |-> {Record(p, NoElement, {"rem"})}]
    [] At(old, p).val # At(new, p).val -> [op |-> {"mod"}, recs |-> {Record(p, p, {"mod"})}]
    [] OTHER -> Unchanged

\* mutant: the instances that came or went are not passed over
MovedAll(old, new, parent, name) ==
  LET olds == Instances(old, parent, name)
      news == Instances(new, parent, name)
  IN  {Record(olds[i], news[i], {"sibling"}) :
         i \in {i \in DOMAIN olds : i \in DOMAIN news /\ olds[i] # news[i]}}

\* The instances in both documents, compared in pairs: one record for each
\* place where another instance now stands.
Moved(old, new, parent, name) ==
  LET olds == SelectSeq(Instances(old, parent, name), LAMBDA p : Has(new, p))
      news == SelectSeq(Instances(new, parent, name), LAMBDA p : Has(old, p))
  IN  IF name \notin UserOrdered THEN {}
      ELSE {Record(olds[i], news[i], {"sibling"}) :
              i \in {i \in DOMAIN olds : i \in DOMAIN news /\ olds[i] # news[i]}}

\* what the removed and the added instances, then the moves, make of the
\* flags and records gathered so far
Gathered(s, old, new, parent, name) ==
  LET added == SelectSeq(Instances(new, parent, name), LAMBDA p : ~Has(old, p))
      moved == Moved(old, new, parent, name)
  IN  [op |-> (IF added # <<>> THEN {"add"} ELSE s.op)
              \cup (IF moved # {} THEN {"sibling"} ELSE {}),
       recs |-> s.recs \cup UNION {Whole(new, added[i], "add") : i \in DOMAIN added} \cup moved]

Removed(s, old, p) == [op |-> {"rem"}, recs |-> s.recs \cup Whole(old, p, "rem")]

xmldiff_leaflist(old, new, parent, name) ==
  LET rem == FoldLeft(LAMBDA s, p : IF Has(new, p) THEN s ELSE Removed(s, old, p),
                      Unchanged, Instances(old, parent, name))
  IN  Gathered(rem, old, new, parent, name)

RECURSIVE xmldiff_recursive(_, _, _, _)

\* the flags and records of the children of the element p of both documents
Inside(old, new, p) ==
  LET rs == {xmldiff_recursive(old, new, p, Children[Name(p)][i]) :
               i \in DOMAIN Children[Name(p)]}
  IN  [ops |-> {r.op : r \in rs}, recs |-> UNION {r.recs : r \in rs}]

\* The record of a matching instance has the flags gathered over the list so
\* far, those of the instances before it included.
Matched(s, old, new, p) ==
  LET in == Inside(old, new, p)
      item == UNION in.ops
      op == s.op \cup (IF "sibling" \in item THEN {"reorder"} ELSE {})
                 \cup (IF item \cap Below # {} THEN {"chain"} ELSE {})
  IN  IF item = {} THEN s ELSE [op |-> op, recs |-> s.recs \cup in.recs \cup {Record(p, p, op)}]

xmldiff_list(old, new, parent, name) ==
  LET rem == FoldLeft(LAMBDA s, p : IF Has(new, p) THEN Matched(s, old, new, p)
                                    ELSE Removed(s, old, p),
                      Unchanged, Instances(old, parent, name))
  IN  Gathered(rem, old, new, parent, name)

container_diff(old, new, p) ==
  LET own == IF ~Has(old, p) THEN {"add"} ELSE IF ~Has(new, p) THEN {"rem"} ELSE {}
      in == Inside(old, new, p)
      op == own \cup (IF \E o \in in.ops : "sibling" \in o THEN {"reorder"} ELSE {})
                \cup (IF own = {} /\ \E o \in in.ops : o \cap Below # {} THEN {"chain"} ELSE {})
  IN  IF op = {} THEN Unchanged
      ELSE [op |-> op,
            recs |-> in.recs \cup {Record(IF Has(old, p) THEN p ELSE NoElement,
                                          IF Has(new, p) THEN p ELSE NoElement, op)}]

xmldiff_recursive(old, new, parent, name) ==
  LET p == Append(parent, <<name, "">>)
      inst == Instances(old, parent, name) \o Instances(new, parent, name)
  IN  CASE inst = <<>> -> Unchanged
        [] inst # <<>> /\ Kind[name] = "leaf" -> leaf_diff(old, new, p)
        [] inst # <<>> /\ Kind[name] = "container" -> container_diff(old, new, p)
        [] inst # <<>> /\ Kind[name] = "list" -> xmldiff_list(old, new, parent, name)
        [] inst # <<>> /\ Kind[name] = "leaf-list" -> xmldiff_leaflist(old, new, parent, name)

xmldiff_diff(old, new) ==
  UNION {xmldiff_recursive(old, new, <<>>, Children["module"][i]).recs :
           i \in DOMAIN Children["module"]}
=============================================================================
