---------------------------- MODULE MCEditConfig ----------------------------
(***************************************************************************)
(* One module of data: a container c with a leaf a that has a default, a   *)
(* choice of the leaves x (its default case) and y, a list l with the key  *)
(* k and the leaf v, a leaf-list m, both ordered by the user, and a        *)
(* container n with the leaf w.                                            *)
(***************************************************************************)
EXTENDS EditReference

MCKind == [module |-> "module", c |-> "container", a |-> "leaf", x |-> "leaf", y |-> "leaf",
           l |-> "list", k |-> "leaf", v |-> "leaf", m |-> "leaf-list",
           n |-> "container", w |-> "leaf"]
MCChildren == [module |-> <<"c">>, c |-> <<"a", "x", "y", "l", "m", "n">>,
               l |-> <<"k", "v">>, n |-> <<"w">>]
MCKeyOf == [l |-> "k"]
MCDefault == [a |-> "0", x |-> "0", y |-> "0", v |-> "0", w |-> "0"]
MCCaseOf == [x |-> <<"ch", "cx">>, y |-> <<"ch", "cy">>]
MCDefaultCase == [ch |-> "cx"]

C == <<<<"c", "">>>>
In(name) == Append(C, <<name, "">>)
Leaf(name, v, op) == [Node(In(name), v) EXCEPT !.op = op]

\* an entry of the list, with the operations of the entry and of its leaf v
EntryPath(key) == Append(C, <<"l", key>>)
Entry(key, at, v, vop) ==
  <<[Node(EntryPath(key), "") EXCEPT !.op = at.op, !.ins = at.ins, !.ref = at.ref],
    Node(Append(EntryPath(key), <<"k", "">>), key)>>
  \o (IF v = "" THEN <<>> ELSE <<[Node(Append(EntryPath(key), <<"v", "">>), v) EXCEPT !.op = vop]>>)
Item(key, at) ==
  <<[Node(Append(C, <<"m", key>>), key) EXCEPT !.op = at.op, !.ins = at.ins, !.ref = at.ref]>>
Sub(op, w, wop) ==
  <<[Node(In("n"), "") EXCEPT !.op = op],
    [Node(Append(In("n"), <<"w", "">>), w) EXCEPT !.op = wop]>>
Plain == [op |-> "", ins |-> "", ref |-> ""]
Wrap(op, nodes) == <<[Node(C, "") EXCEPT !.op = op]>> \o nodes

Ops == {"", "merge", "create", "replace", "delete", "remove"}
Ats == {[op |-> o, ins |-> i, ref |-> IF i \in {"before", "after"} THEN "2" ELSE ""] :
          o \in Ops, i \in {"", "first", "last", "before", "after"}}
FewAts == {at \in Ats : at.ins \in {"", "first", "before"} /\ at.op \in {"", "create", "delete", "replace"}}
RefAts == {[op |-> o, ins |-> i, ref |-> r] :
             o \in {"", "create"}, i \in {"before", "after", "aside"},
             r \in {"", "malformed", "p1", "p2"}}

Leaves ==
  {<<Leaf("a", v, o)>> : v \in {"0", "1"}, o \in Ops \cup {"bad"}}
  \cup {<<Leaf(n, v, o)>> : n \in {"x", "y"}, v \in {"0", "1"}, o \in {"", "create", "remove", "replace"}}
  \cup {<<[Leaf("a", v, "") EXCEPT !.tag = TRUE]>> : v \in {"0", "1"}}
Entries ==
  {Entry(key, at, v, "") : key \in {"1", "3"}, at \in Ats, v \in {"", "1"}}
  \cup {Entry(key, at, "", "") : key \in {"1", "3"}, at \in RefAts}
  \cup {Entry(key, Plain, "1", o) : key \in {"1", "3"}, o \in Ops}
  \cup {<<Node(EntryPath("1"), "")>>}
Items == {Item(key, at) : key \in {"1", "3"}, at \in Ats \cup {[Plain EXCEPT !.ins = "after"]}}
Subs ==
  {Sub(o, "1", "") : o \in Ops} \cup {Sub("", "1", o) : o \in Ops} \cup {Sub("replace", "1", "create")}

Singles == Leaves \cup Entries \cup Items \cup Subs
FewLeaves == {<<Leaf("a", "1", o)>> : o \in Ops} \cup {<<Leaf("y", "1", "")>>}
FewEntries == {Entry("1", at, "1", "") : at \in FewAts} \cup {Entry("3", at, "", "") : at \in FewAts}
Pairs ==
  {p \o q : p \in FewLeaves, q \in FewEntries}
  \cup {p \o q : p \in {Entry("1", [Plain EXCEPT !.op = o], "", "") : o \in {"", "delete"}},
                 q \in {Entry("2", at, "", "") : at \in FewAts} \cup {Entry("3", at, "", "") : at \in FewAts}}
  \cup {p \o q : p \in FewLeaves, q \in Subs}

Config(a, ch, l, m, n) ==
  Wrap("", (IF a = "" THEN <<>> ELSE <<Leaf("a", a, "")>>)
           \o (IF ch = "" THEN <<>> ELSE <<Leaf(ch, IF ch = "x" THEN "1" ELSE "0", "")>>)
           \o FlattenSeq([i \in DOMAIN l |-> Entry(l[i], Plain, IF l[i] = "1" THEN "0" ELSE "", "")])
           \o FlattenSeq([i \in DOMAIN m |-> Item(m[i], Plain)])
           \o (IF n = "" THEN <<>> ELSE Sub("", n, "")))
MCConfigs ==
  {<<>>, Config("", "", <<>>, <<>>, ""), Config("1", "x", <<"1", "2">>, <<"2", "1">>, ""),
   Config("0", "y", <<"2", "1">>, <<"1">>, "1"), Config("", "y", <<"2">>, <<"2", "3">>, "0")}

Req(nodes, top, d, m, den) ==
  [edit |-> Wrap(top, nodes), defop |-> d, mode |-> m, denied |-> den]

\* An access refused under a default replace is left out: the code then never
\* gets out of its loop.
Denied ==
  {{<<In("a"), "update">>, <<In("n"), "create">>, <<EntryPath("1"), "delete">>},
   {<<In("y"), "delete">>, <<EntryPath("3"), "create">>,
    <<Append(EntryPath("1"), <<"v", "">>), "update">>},
   {<<In("a"), "create">>, <<C, "create">>}}

MCRequests ==
  {Req(e, "", d, "explicit", {}) : e \in Singles, d \in {"merge", "replace", "none"}}
  \cup {Req(e, "", d, "explicit", {}) : e \in Pairs, d \in {"merge", "none"}}
  \cup {Req(e, "", "merge", m, {}) : e \in Leaves, m \in {"all", "trim"}}
  \cup {Req(e, "", d, "explicit", den) :
          e \in Leaves \cup Subs \cup FewEntries, d \in {"merge", "none"}, den \in Denied}
  \cup {Req(<<Leaf("a", "1", o)>>, top, d, "explicit", {}) :
          o \in Ops \ {"delete", "remove"}, top \in Ops \ {"delete", "remove"},
          d \in {"merge", "none", "replace"}}
  \cup {Req(<<>>, top, d, "explicit", {}) : top \in Ops, d \in {"merge", "none"}}
=============================================================================
