---------------------------- MODULE WithDefaults ----------------------------
(***************************************************************************)
(* with_defaults.c: default values put into a document, taken out of it,   *)
(* and the wd:default attribute of an edit.  A choice is below one parent. *)
(***************************************************************************)
EXTENDS ConfigDocs

\* the names from the root to the node called name
RECURSIVE Chain(_)
Chain(name) ==
  LET up == {n \in DOMAIN Children : \E i \in DOMAIN Children[n] : Children[n][i] = name}
      n == CHOOSE n \in up : TRUE
  IN  IF n = "module" THEN <<name>> ELSE Append(Chain(n), name)

\* "/yin:module/yin:container//yin:default", in the order of the model
RECURSIVE DefaultsBelow(_)
DefaultsBelow(name) ==
  FoldLeft(LAMBDA acc, n : acc \o (IF n \in DOMAIN Default THEN <<n>> ELSE <<>>)
                               \o (IF n \in DOMAIN Children THEN DefaultsBelow(n) ELSE <<>>),
           <<>>, Children[name])

search_choice_match(doc, parent, case) ==
  \E i \in DOMAIN ChildPaths(doc, parent) :
    LET n == Name(ChildPaths(doc, parent)[i]) IN n \in DOMAIN CaseOf /\ CaseOf[n] = case

check_default_case(doc, parent, case) ==
  /\ case[1] \in DOMAIN DefaultCase /\ DefaultCase[case[1]] = case[2]
  /\ ~ \E n \in DOMAIN CaseOf :
         CaseOf[n][1] = case[1] /\ search_choice_match(doc, parent, CaseOf[n])

\* the parents below which a node called name may be made
InCase(doc, parent, name) ==
  name \in DOMAIN CaseOf =>
    \/ search_choice_match(doc, parent, CaseOf[name])
    \/ check_default_case(doc, parent, CaseOf[name])

(***************************************************************************)
(* fill_default, one level: s.doc is the document, s.at the instances of   *)
(* the nodes so far, s.made those created on the way.                      *)
(***************************************************************************)
DescendBelow(s, parent, name, mode) ==
  LET found == SelectSeq(ChildPaths(s.doc, parent), LAMBDA p : Name(p) = name)
      new == Append(parent, <<name, "">>)
  IN  IF ~InCase(s.doc, parent, name) THEN s
      ELSE IF found # <<>> \/ mode = "trim" \/ Kind[name] = "list"
      THEN [s EXCEPT !.at = @ \o found]
      ELSE [doc |-> AddChild(s.doc, parent, <<Node(new, "")>>),
            at |-> Append(s.at, new),
            made |-> Append(s.made, new)]

Descend(s, name, mode) ==
  LET below[k \in 0..Len(s.at)] ==
        IF k = 0 THEN [s EXCEPT !.at = <<>>]
        ELSE DescendBelow(below[k - 1], s.at[k], name, mode)
  IN  below[Len(s.at)]

\* the default is set where there is no content, and tagged
SetDefault(doc, name, at, mode) ==
  [i \in DOMAIN doc |->
     IF ~ \E j \in DOMAIN at : at[j] = doc[i].path THEN doc[i]
     ELSE LET v == IF doc[i].val = "" THEN Default[name] ELSE doc[i].val
          IN  [doc[i] EXCEPT !.val = v, !.tag = (mode = "tagged" /\ v = Default[name])]]

\* a leaf with its default value is removed
TrimDefault(doc, name, at) ==
  SelectSeq(doc, LAMBDA n : ~(n.val = Default[name] /\ \E j \in DOMAIN at : at[j] = n.path))

\* containers made on the way that got no child are removed, the last first
DropEmpty(doc, made) ==
  LET empty(d, p) == Len(Subtree(d, p)) = 1 /\ At(d, p).val = ""
      left[k \in 1..(Len(made) + 1)] ==
        IF k > Len(made) THEN doc
        ELSE IF empty(left[k + 1], made[k]) THEN Without(left[k + 1], made[k]) ELSE left[k + 1]
  IN  left[1]

fill_default(doc, name, mode) ==
  LET chain == Chain(name)
      down[k \in 0..Len(chain)] ==
        IF k = 0 THEN [doc |-> doc, at |-> <<(<<>>)>>, made |-> <<>>]
        ELSE Descend(down[k - 1], chain[k], mode)
      s == down[Len(chain)]
  IN  IF mode = "trim" THEN TrimDefault(s.doc, name, s.at)
      ELSE DropEmpty(SetDefault(s.doc, name, s.at, mode), s.made)

ncdflt_default_values(doc, mode) ==
  LET names == DefaultsBelow("module")
      fill[d \in Documents, k \in 1..(Len(names) + 1)] ==
        IF k > Len(names) THEN d ELSE fill[fill_default(d, names[k], mode), k + 1]
  IN  IF mode = "explicit" THEN doc ELSE fill[doc, 1]

\* mutant: the parent goes as well, whatever else it has
ClearParent(doc) ==
  FoldLeft(LAMBDA d, n : Without(d, IF Len(n.path) > 2 THEN Parent(n.path) ELSE n.path),
           doc, SelectSeq(doc, LAMBDA n : n.tag))

\* Elements tagged as defaults are removed, with the parents that have
\* nothing else.
ncdflt_default_clear(doc) ==
  LET alone(d, p) == Len(ChildPaths(d, Parent(p))) = 1
      top(d, p) == LET ks == {k \in 1..Len(p) :
                               \A j \in (k + 1)..Len(p) : alone(d, SubSeq(p, 1, j))}
                   IN  SubSeq(p, 1, Min(ks))
      tagged == SelectSeq(doc, LAMBDA n : n.tag)
  IN  FoldLeft(LAMBDA d, n : Without(d, top(d, n.path)), doc, tagged)

\* Elements of an edit tagged as defaults must have the default value, and
\* are removed by the edit.
DefaultTagsRight(edit) ==
  \A i \in DOMAIN edit : edit[i].tag =>
    Name(edit[i].path) \in DOMAIN Default /\ Default[Name(edit[i].path)] = edit[i].val

ncdflt_edit_remove_default(edit) ==
  [i \in DOMAIN edit |->
     IF edit[i].tag THEN [edit[i] EXCEPT !.tag = FALSE, !.op = "remove"] ELSE edit[i]]

\* What a document means: its contents and the defaults that apply.
Effective(doc) == Contents(ncdflt_default_values(doc, "all"))
=============================================================================
