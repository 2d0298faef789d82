----------------------------- MODULE EditConfig -----------------------------
(***************************************************************************)
(* An <edit-config> on one datastore: ncdflt_edit_remove_default, then     *)
(* edit_config of datastore/edit_config.c on a copy of the target, which   *)
(* ncds_file_editconfig puts in the place of the target when it succeeds;  *)
(* then the documents transapi_running_changed compares, and what is       *)
(* stored once the defaults are taken out again.                           *)
(*                                                                         *)
(* The operations are done one element at a time, in the order of the      *)
(* document: todo holds the elements of the current phase that are left.   *)
(* Edits are those the phases can take one by one: no operation stands     *)
(* below a delete or a remove, and an item of a leaf-list has its value.   *)
(***************************************************************************)
EXTENDS WithDefaults, XmlDiff

CONSTANTS
  Configs,           \* the configurations an edit may find
  Requests,          \* [edit, defop, mode, denied]: the edit, its default operation,
                     \* the basic with-defaults mode, what access control refuses
  QualifiedDefaults  \* defaults whose value attribute is in the YIN namespace

VARIABLES
  case,    \* the request and the configuration it found
  config,  \* the working copy
  edit,    \* what is left of the edit
  todo,    \* elements of the phase still to be done
  pc,      \* the phase
  err,     \* the error of the reply
  target,  \* the datastore
  diff     \* the differences reported to transAPI

vars == <<case, config, edit, todo, pc, err, target, diff>>

OpPaths(doc, op) ==
  LET ns == SelectSeq(doc, LAMBDA n : n.op = op) IN [i \in DOMAIN ns |-> ns[i].path]

Permit(p, access) == <<p, access>> \notin case.denied

\* A working state of edit_operations: the two documents, the error, whether
\* the list of keys was freed with it, and whether pointers were used that
\* nothing had set.
State(c, e) == [config |-> c, edit |-> e, err |-> "", freed |-> FALSE, wild |-> FALSE]
Fail(s, e) == [s EXCEPT !.err = e]
Unless(s, Op(_)) == IF s.err # "" THEN s ELSE Op(s)

\* get_default_value asks for a qualified attribute, YIN has none
get_default_value(p) ==
  IF Name(p) \in QualifiedDefaults THEN Default[Name(p)] ELSE "none"

\* an operation above p in the edit
Above(p, ops) == \E i \in DOMAIN edit : edit[i].op \in ops /\ IsStrictPrefix(edit[i].path, p)

check_edit_ops_hierarchy(p, op) ==
  CASE op \in {"delete", "remove"} ->
         case.defop # "replace" /\ ~Above(p, {"bad", "create", "replace"})
    [] op \in {"create", "replace"} -> ~Above(p, {"bad", "delete", "remove"})
    [] OTHER -> TRUE

(***************************************************************************)
(* edit_create and what it calls.                                          *)
(***************************************************************************)

\* The element p of the edit below parent: what is copied into the
\* configuration, with the operations of the elements below it.
CopyOf(doc, p, parent) ==
  LET sub == Subtree(doc, p)
  IN  [i \in DOMAIN sub |->
         [sub[i] EXCEPT !.path = parent \o SubSeq(@, Len(p), Len(@)),
                        !.op = IF sub[i].path = p THEN "" ELSE @]]

\* the value of a key attribute: a position, 0 for a key, -1 for neither
Positions == [p1 |-> 1, p2 |-> 2]
parse_instance_predicate(ref) ==
  CASE ref \in DOMAIN Positions -> Positions[ref]
    [] ref = "malformed" -> -1
    [] OTHER -> 0

Found(p) == [at |-> p, err |-> "", wild |-> FALSE]
NotFound(e) == [at |-> <<>>, err |-> e, wild |-> FALSE]

\* The instance an insert before or after refers to.  Only a key sets the
\* prefix, the name and the value that are read and freed for any predicate.
get_ref_list(doc, n, parent) ==
  LET all == Instances(doc, parent, Name(n.path))
      pos == parse_instance_predicate(n.ref)
      p == Append(parent, <<Name(n.path), n.ref>>)
      found == CASE n.ref = "" -> NotFound("missing-attribute")
                 [] n.ref # "" /\ pos > 0 /\ pos <= Len(all) -> Found(all[pos])
                 [] n.ref # "" /\ pos = 0 /\ Has(doc, p) -> Found(p)
                 [] OTHER -> NotFound("bad-attribute")
  IN  [found EXCEPT !.wild = pos # 0]

get_ref_leaflist(doc, n, parent) ==
  LET p == Append(parent, <<Name(n.path), n.ref>>)
  IN  CASE n.ref = "" -> NotFound("missing-attribute")
        [] n.ref # "" /\ Has(doc, p) -> Found(p)
        [] OTHER -> NotFound("bad-attribute")

RefOf(doc, n, parent) ==
  IF Kind[Name(n.path)] = "list" THEN get_ref_list(doc, n, parent)
  ELSE get_ref_leaflist(doc, n, parent)

\* is the element p to be put before the first instance only
InUserList(p) == Len(p) > 0 /\ Name(p) \in UserOrdered

AddFirst(doc, parent, name, nodes) ==
  LET kids == ChildPaths(doc, parent)
      same == Instances(doc, parent, name)
  IN  CASE kids = <<>> -> AddChild(doc, parent, nodes)
        [] kids # <<>> /\ ~InUserList(parent) -> AddPrev(doc, Head(kids), nodes)
        [] kids # <<>> /\ InUserList(parent) /\ same # <<>> -> AddPrev(doc, Head(same), nodes)
        [] OTHER -> AddChild(doc, parent, nodes)

\* The error path frees the list of keys that edit_operations frees again.
edit_create_lists(s, p, parent) ==
  LET n == At(s.edit, p)
      copy == CopyOf(s.edit, p, parent)
      nodes == [copy EXCEPT ![1].ins = ""]
      ref == RefOf(s.config, n, parent)
      looked == [s EXCEPT !.wild = @ \/ ref.wild]
  IN  CASE n.ins \in {"", "last"} -> [s EXCEPT !.config = AddChild(@, parent, nodes)]
        [] n.ins = "first" -> [s EXCEPT !.config = AddFirst(@, parent, Name(p), nodes)]
        [] n.ins \in {"before", "after"} /\ ref.err # "" -> [Fail(looked, ref.err) EXCEPT !.freed = TRUE]
        [] n.ins = "before" /\ ref.err = "" -> [looked EXCEPT !.config = AddPrev(@, ref.at, nodes)]
        [] n.ins = "after" /\ ref.err = "" -> [looked EXCEPT !.config = AddNext(@, ref.at, nodes)]
        [] OTHER -> [Fail(s, "operation-failed") EXCEPT !.freed = TRUE]

\* the elements below parent that are of another case than the one called name
OtherCases(doc, parent, name) ==
  SelectSeq(ChildPaths(doc, parent),
            LAMBDA q : /\ name \in DOMAIN CaseOf /\ Name(q) \in DOMAIN CaseOf
                       /\ CaseOf[Name(q)][1] = CaseOf[name][1]
                       /\ CaseOf[Name(q)] # CaseOf[name])

\* mutant: the other cases stay
KeepOtherCases(s, parent, name) == s

edit_choice_clean(s, parent, name) ==
  FoldLeft(LAMBDA acc, q :
             IF acc.err # "" THEN acc
             ELSE IF ~Permit(q, "delete") THEN Fail(acc, "access-denied")
             ELSE [acc EXCEPT !.config = Without(@, q)],
           s, OtherCases(s.config, parent, name))

edit_create_routine(s, p, parent) ==
  [s EXCEPT !.config = AddChild(@, parent, CopyOf(s.edit, p, parent))]

\* A missing parent is copied without its children: a list entry loses its
\* key.  The result has the path of the parent in s.config.
edit_create_recursively(s, p) ==
  LET up[k \in 0..Len(p)] ==
        LET q == SubSeq(p, 1, k)
            kl == IF k > 0 /\ Kind[Name(q)] = "list" THEN <<Name(q), "">> ELSE Last(q)
        IN  IF k = 0 \/ Has(s.config, q) THEN [s |-> s, at |-> q]
            ELSE IF case.defop = "none" /\ At(s.edit, q).op = ""
            THEN [s |-> Fail(s, "data-missing"), at |-> q]
            ELSE IF k > 1 /\ ~Permit(Parent(q), "create")
            THEN [s |-> Fail(s, "access-denied"), at |-> q]
            ELSE LET above == up[k - 1]
                     at == Append(above.at, kl)
                 IN  IF above.s.err # "" THEN above
                     ELSE [s |-> [above.s EXCEPT
                                    !.config = AddChild(@, above.at,
                                                 <<[At(s.edit, q) EXCEPT !.path = at]>>)],
                           at |-> at]
  IN  up[Len(p)]

\* The element is put where its parent now is.
CreateBelow(s, p, at) ==
  CASE Name(p) \in UserOrdered -> edit_create_lists(s, p, at)
    [] Name(p) \notin UserOrdered /\ Name(p) \in DOMAIN CaseOf ->
         Unless(edit_choice_clean(s, at, Name(p)), LAMBDA clean : edit_create_routine(clean, p, at))
    [] OTHER -> edit_create_routine(s, p, at)

CreateIn(par, p) ==
  Unless(Unless(par.s, LAMBDA s : CreateBelow(s, p, par.at)),
         LAMBDA made : [made EXCEPT !.edit = Without(@, p)])

edit_create(s, p) ==
  IF ~Permit(p, "create") THEN Fail(s, "access-denied")
  ELSE CreateIn(edit_create_recursively(s, Parent(p)), p)

(***************************************************************************)
(* edit_remove, edit_replace, edit_merge.                                  *)
(***************************************************************************)
edit_remove(s, p) ==
  IF Has(s.config, p) /\ ~Permit(p, "delete") THEN Fail(s, "access-denied")
  ELSE [s EXCEPT !.config = Without(@, p), !.edit = Without(@, p)]

\* the elements without element children are to be removed or updated
edit_replace_nacmcheck(s, p) ==
  \A i \in DOMAIN s.config :
    LET q == s.config[i].path
    IN  IsPrefix(p, q) /\ ChildPaths(s.config, q) = <<>> =>
          Permit(q, IF Has(s.edit, q) THEN "update" ELSE "delete")

edit_replace(s, p) ==
  IF Has(s.config, p) /\ ~edit_replace_nacmcheck(s, p) THEN Fail(s, "access-denied")
  ELSE edit_create([s EXCEPT !.config = Without(@, p)], p)

\* mutant: an entry that is there already keeps its place
MergeWithoutMove(s, p) == s

\* an entry of a user-ordered list that is there already is moved
edit_merge_lists(s, p) ==
  LET n == At(s.edit, p)
      nodes == Subtree(s.config, p)
      rest == Without(s.config, p)
      ref == RefOf(s.config, n, Parent(p))
      looked == [s EXCEPT !.wild = @ \/ ref.wild]
      kids == ChildPaths(s.config, Parent(p))
  IN  IF Name(p) \notin UserOrdered \/ n.ins = "" \/ s.err # "" THEN s
      ELSE CASE n.ins = "last" -> [s EXCEPT !.config = AddChild(rest, Parent(p), nodes)]
             [] n.ins = "first" ->
                  IF Head(kids) = p THEN s
                  ELSE [s EXCEPT !.config = AddFirst(rest, Parent(p), Name(p), nodes)]
             [] n.ins \in {"before", "after"} /\ ref.err # "" -> Fail(looked, ref.err)
             [] n.ins \in {"before", "after"} /\ ref.at = p -> looked
             [] n.ins = "before" /\ Has(rest, ref.at) -> [looked EXCEPT !.config = AddPrev(rest, ref.at, nodes)]
             [] n.ins = "after" /\ Has(rest, ref.at) -> [looked EXCEPT !.config = AddNext(rest, ref.at, nodes)]
             [] OTHER -> Fail(s, "operation-failed")

\* the text of a leaf replaces the old one; an item of a leaf-list stays
MergeText(s, p) ==
  LET i == FirstOf(s.config, p)
      access == IF Kind[Name(p)] = "leaf-list" THEN "create" ELSE "update"
  IN  IF ~IsText(Name(p)) \/ s.err # "" THEN s
      ELSE IF ~Permit(p, access) THEN Fail(s, "access-denied")
      ELSE [s EXCEPT !.config[i].val = At(s.edit, p).val]

\* One element q below the merged one, both trees walked from the top: what
\* is missing is created, what is there gets its text and its place.
MergeElement(s, q) ==
  IF s.err # "" \/ ~Has(s.edit, q) \/ IsKey(q) THEN s
  ELSE IF ~Has(s.config, q) THEN edit_create(s, q)
  ELSE Unless(edit_merge_lists(MergeText(s, q), q),
              LAMBDA moved : edit_choice_clean(moved, Parent(q), Name(q)))

edit_merge_recursively(s, p) ==
  LET below == SelectSeq(Subtree(s.edit, p), LAMBDA n : n.path # p)
  IN  FoldLeft(LAMBDA acc, n : MergeElement(acc, n.path), MergeText(s, p), below)

\* A child of the merged element itself: when missing it is appended as it
\* stands in the edit, its attributes included.
MergeChild(s, p, q) ==
  IF s.err # "" \/ IsKey(q) THEN s
  ELSE Unless(IF Has(s.config, q) THEN edit_merge_lists(edit_merge_recursively(s, q), q)
              ELSE IF ~Permit(q, "create") THEN Fail(s, "access-denied")
              ELSE [s EXCEPT !.config = AddChild(@, p, Subtree(s.edit, q))],
              LAMBDA there : edit_choice_clean(there, p, Name(q)))

\* The text of the merged element itself: another text is added to the old.
MergeOwnText(s, p) ==
  LET i == FirstOf(s.config, p)
      old == s.config[i].val
      new == At(s.edit, p).val
  IN  IF ~IsText(Name(p)) THEN s
      ELSE IF old = new THEN MergeText(s, p)
      ELSE IF ~Permit(p, "create") THEN Fail(s, "access-denied")
      ELSE [s EXCEPT !.config[i].val = old \o new]

edit_merge(s, p) ==
  IF ~Has(s.config, p) THEN edit_create(s, p)
  ELSE Unless(FoldLeft(LAMBDA acc, q : MergeChild(acc, p, q),
                       MergeOwnText(s, p), ChildPaths(s.edit, p)),
              LAMBDA all : [all EXCEPT !.edit = Without(@, p)])

\* delete: the check found the element, an earlier operation may have
\* removed it since
edit_delete(s, p) ==
  IF ~Has(s.config, p) THEN Fail(s, "data-missing")
  ELSE IF ~Permit(p, "delete") THEN Fail(s, "access-denied")
  ELSE [s EXCEPT !.config = Without(@, p), !.edit = Without(@, p)]

(***************************************************************************)
(* The actions.                                                            *)
(***************************************************************************)
Init ==
  /\ \E c \in Configs, r \in Requests :
       case = [config |-> c, edit |-> r.edit, defop |-> r.defop, mode |-> r.mode, denied |-> r.denied]
  /\ config = case.config
  /\ target = case.config
  /\ edit = case.edit
  /\ todo = <<>>
  /\ pc = "tagged"
  /\ err = ""
  /\ diff = {}

\* The working copy is dropped.
Failed(e) ==
  /\ pc' = "failed"
  /\ err' = e
  /\ UNCHANGED <<case, config, edit, todo, target, diff>>

Enter(phase, op) ==
  /\ pc' = phase
  /\ todo' = OpPaths(edit, op)
  /\ UNCHANGED <<case, config, edit, err, target, diff>>

\* defaults in the edit (ncds_apply_rpc, before the datastore is called)
Tagged ==
  /\ pc = "tagged"
  /\ IF DefaultTagsRight(edit)
     THEN /\ edit' = ncdflt_edit_remove_default(edit)
          /\ pc' = "keys"
          /\ UNCHANGED <<case, config, todo, err, target, diff>>
     ELSE Failed("invalid-value")

KeysPresent(doc) ==
  \A i \in DOMAIN doc :
    LET p == doc[i].path
    IN  Name(p) \in DOMAIN KeyOf => Has(doc, KeyPath(p))

check_list_keys ==
  /\ pc = "keys"
  /\ IF KeysPresent(edit) THEN Enter("check_delete", "delete") ELSE Failed("missing-element")

\* check_edit_ops(NC_CHECK_EDIT_DELETE)
CheckDelete ==
  /\ pc = "check_delete"
  /\ todo # <<>>
  /\ LET p == Head(todo)
         valid == case.mode = "all" /\ get_default_value(p) = At(edit, p).val
     IN  IF ~check_edit_ops_hierarchy(p, "delete") THEN Failed("operation-failed")
         ELSE IF ~Has(config, p) /\ ~valid THEN Failed("data-missing")
         ELSE /\ edit' = IF Has(config, p) THEN edit ELSE Without(edit, p)
              /\ todo' = Tail(todo)
              /\ UNCHANGED <<case, config, pc, err, target, diff>>

CheckDeleteDone ==
  /\ pc = "check_delete"
  /\ todo = <<>>
  /\ Enter("check_create", "create")

\* check_edit_ops(NC_CHECK_EDIT_CREATE)
CheckCreate ==
  /\ pc = "check_create"
  /\ todo # <<>>
  /\ LET p == Head(todo)
         def == IF case.mode = "trim" THEN get_default_value(p) ELSE "none"
     IN  IF ~check_edit_ops_hierarchy(p, "create") THEN Failed("operation-failed")
         ELSE IF Has(config, p) /\ def # At(edit, p).val
         THEN Failed(IF def = "none" THEN "data-exists" ELSE "data-missing")
         ELSE /\ config' = Without(config, p)
              /\ todo' = Tail(todo)
              /\ UNCHANGED <<case, edit, pc, err, target, diff>>

\* the operation in force above p, the default operation at the top
SupremeOp(doc, p) ==
  LET ops == {k \in 1..(Len(p) - 1) : At(doc, SubSeq(p, 1, k)).op # ""}
  IN  IF ops = {} THEN (IF case.defop = "none" THEN "" ELSE case.defop)
      ELSE At(doc, SubSeq(p, 1, Max(ops))).op

\* an operation that repeats the one above it is dropped
Compacted(doc) ==
  [i \in DOMAIN doc |->
     IF doc[i].op = SupremeOp(doc, doc[i].path) THEN [doc[i] EXCEPT !.op = ""] ELSE doc[i]]

compact_edit_operations ==
  /\ pc = "check_create"
  /\ todo = <<>>
  /\ IF OpPaths(edit, "bad") # <<>> THEN Failed("operation-failed")
     ELSE /\ edit' = Compacted(edit)
          /\ pc' = IF case.defop = "replace" THEN "replace_all" ELSE "delete"
          /\ todo' = IF case.defop = "replace" THEN <<>> ELSE OpPaths(edit', "delete")
          /\ UNCHANGED <<case, config, err, target, diff>>

\* edit_operations frees the list of keys: a second time, the process may
\* go down
Freed(e) ==
  /\ pc' = "crashed"
  /\ err' = e
  /\ UNCHANGED <<case, config, edit, todo, target, diff>>

OperationFailed(s) == Failed(s.err) \/ (s.freed /\ Freed(s.err))

\* What comes of a pointer that nothing has set: it does no harm, or its
\* prefix is not found, or the process goes down.
Outcomes(s) ==
  {s} \cup (IF s.wild THEN {[Fail(s, "bad-attribute") EXCEPT !.freed = TRUE]} ELSE {})

\* one element is done and the rest is left, or the edit fails
Took(s) == config' = s.config /\ edit' = s.edit
Done(s, rest) ==
  \E o \in Outcomes(s) :
    IF o.err # "" THEN OperationFailed(o)
    ELSE /\ Took(o)
         /\ todo' = rest
         /\ UNCHANGED <<case, pc, err, target, diff>>

Step(phase) == pc = phase /\ todo # <<>>

DeleteOp == Step("delete") /\ Done(edit_delete(State(config, edit), Head(todo)), Tail(todo))
RemoveOp == Step("remove") /\ Done(edit_remove(State(config, edit), Head(todo)), Tail(todo))
ReplaceOp == Step("replace") /\ Done(edit_replace(State(config, edit), Head(todo)), Tail(todo))
CreateOp == Step("create") /\ Done(edit_create(State(config, edit), Head(todo)), Tail(todo))
MergeOp == Step("merge") /\ Done(edit_merge(State(config, edit), Head(todo)), Tail(todo))

NextPhase ==
  /\ todo = <<>>
  /\ \/ pc = "delete" /\ Enter("remove", "remove")
     \/ pc = "remove" /\ Enter("replace", "replace")
     \/ pc = "replace" /\ Enter("create", "create")
     \/ pc = "create" /\ Enter("merge", "merge")
     \/ pc = "merge" /\ Enter(IF case.defop = "merge" THEN "merge_all" ELSE "finish", "none")

\* What edit_replace returns is not looked at: an element that is refused
\* stays first in the edit and is tried again for ever, with the list of
\* keys when that was freed.
ReplaceDocument ==
  /\ pc = "replace_all"
  /\ edit # <<>>
  /\ \E o \in Outcomes(edit_replace(State(config, edit), Head(edit).path)) :
       IF o.freed THEN Freed(o.err)
       ELSE Took(o) /\ UNCHANGED <<case, todo, pc, err, target, diff>>

\* the rest of the edit is merged, root by root
MergeDocument ==
  /\ pc = "merge_all"
  /\ edit # <<>>
  /\ Done(edit_merge(State(config, edit), Head(edit).path), todo)

\* the trim mode takes the defaults out; the copy becomes the target
Finish ==
  /\ pc = "finish" \/ (pc \in {"merge_all", "replace_all"} /\ edit = <<>>)
  /\ target' = IF case.mode = "trim" THEN ncdflt_default_values(config, "trim") ELSE config
  /\ config' = target'
  /\ pc' = "edited"
  /\ UNCHANGED <<case, edit, todo, err, diff>>

\* The documents before and after get their defaults and are compared.
Compare ==
  /\ pc = "edited"
  /\ config' = ncdflt_default_values(target, "tagged")
  /\ diff' = xmldiff_diff(ncdflt_default_values(case.config, "tagged"), config')
  /\ pc' = "compared"
  /\ UNCHANGED <<case, edit, todo, err, target>>

\* A callback changed the document: it is stored without the defaults.
StoreModified ==
  /\ pc = "compared"
  /\ config' = ncdflt_default_clear(config)
  /\ target' = config'
  /\ pc' = "stored"
  /\ UNCHANGED <<case, edit, todo, err, diff>>

Over ==
  /\ pc \in {"failed", "crashed", "stored"}
  /\ UNCHANGED vars

Next ==
  \/ Tagged \/ check_list_keys
  \/ CheckDelete \/ CheckDeleteDone \/ CheckCreate \/ compact_edit_operations
  \/ DeleteOp \/ RemoveOp \/ ReplaceOp \/ CreateOp \/ MergeOp \/ NextPhase
  \/ ReplaceDocument \/ MergeDocument \/ Finish \/ Compare \/ StoreModified \/ Over

Spec == Init /\ [][Next]_vars
=============================================================================
