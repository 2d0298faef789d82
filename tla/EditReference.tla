--------------------------- MODULE EditReference ----------------------------
(***************************************************************************)
(* What an <edit-config> asks for (RFC 6241, section 7.2), said at once    *)
(* for the whole edit, and the properties of EditConfig against it.        *)
(***************************************************************************)
EXTENDS EditConfig

request == ncdflt_edit_remove_default(case.edit)
before == case.config

\* the operation in force at the element p of the edit
OpAt(p) ==
  IF At(request, p).op # "" THEN At(request, p).op
  ELSE IF SupremeOp(request, p) = "" THEN "none" ELSE SupremeOp(request, p)

Requested(ops) == {request[i].path : i \in {i \in DOMAIN request : request[i].op \in ops}}
Covered(p, tops) == \E q \in tops : IsPrefix(q, p)

\* the elements the edit sets, with the roots of a default replace
Given == {p \in Paths(request) : OpAt(p) \in {"merge", "create", "replace"}}
Replaced ==
  Requested({"replace"}) \cup
  (IF case.defop = "replace" THEN {p \in Paths(request) : Len(p) = 1} ELSE {})

OfOtherCase(p) ==
  \E q \in Given :
    /\ Name(q) \in DOMAIN CaseOf
    /\ Covered(p, {r \in Paths(before) :
                     /\ Parent(r) = Parent(q) /\ Name(r) \in DOMAIN CaseOf
                     /\ CaseOf[Name(r)][1] = CaseOf[Name(q)][1]
                     /\ CaseOf[Name(r)] # CaseOf[Name(q)]})

Kept ==
  {p \in Paths(before) \ Given :
     ~Covered(p, Requested({"delete", "remove"}) \cup Replaced) /\ ~OfOtherCase(p)}

Wanted ==
  LET all == {<<p, At(before, p).val>> : p \in Kept} \cup {<<p, At(request, p).val>> : p \in Given}
  IN  IF case.mode # "trim" THEN all
      ELSE {e \in all : ~(Name(e[1]) \in DOMAIN Default /\ Default[Name(e[1])] = e[2])}

\* a node that the edit gives its default value
GivesDefault(p) == Name(p) \in DOMAIN Default /\ At(request, p).val = Default[Name(p)]

\* What the comments of check_edit_ops say MUST succeed: the delete of a
\* default that is not stored, where defaults are reported as all other data,
\* and the create of a default over a node, where defaults count as absent.
DeletesDefault(p) == case.mode = "all" /\ ~Has(before, p) /\ GivesDefault(p)
CreatesDefault(p) == case.mode = "trim" /\ Has(before, p) /\ GivesDefault(p)

\* the reasons an edit must be refused for, access control apart
MissingParent ==
  \E p \in Given : Len(p) > 1 /\ Parent(p) \notin Paths(before) \cup Given
MustFail ==
  \/ ~DefaultTagsRight(case.edit)
  \/ ~KeysPresent(request)
  \/ \E p \in Requested({"delete"}) :
       (~Has(before, p) /\ ~DeletesDefault(p)) \/ case.defop = "replace"
  \/ \E p \in Requested({"create"}) : Has(before, p) /\ ~CreatesDefault(p)
  \/ Requested({"bad"}) # {}
  \/ MissingParent
\* the instance an insert refers to may not be there when it is looked for
BadInsert ==
  \E i \in DOMAIN request :
    /\ request[i].ins \notin {"", "first", "last"}
    /\ LET ref == RefOf(before, request[i], Parent(request[i].path))
       IN  request[i].ins = "aside" \/ ref.err # "" \/ ref.at \notin Kept \/ ref.at = request[i].path

(***************************************************************************)
(* Where the code is known not to do what the edit asks for.               *)
(***************************************************************************)

\* an explicit merge of a leaf adds the new text to the old one
LeafMerged ==
  \E p \in Requested({"merge"}) :
    /\ IsText(Name(p)) /\ SupremeOp(request, p) # "merge"
    /\ Has(before, p) /\ At(before, p).val # At(request, p).val

\* an operation below a list entry that is missing makes an entry without key
KeylessParent ==
  \E p \in Requested({"create", "replace", "merge"}) :
    \E k \in 1..(Len(p) - 1) :
      LET q == SubSeq(p, 1, k)
      IN  Kind[Name(q)] = "list" /\ ~Has(before, q) /\ OpAt(q) = "merge"

\* an element to be removed stays in a document that is replaced whole
RemoveInReplace == case.defop = "replace" /\ Requested({"remove"}) # {}

Exceptional == LeafMerged \/ KeylessParent \/ RemoveInReplace

\* get_default_value finds no default in an ordinary YIN: the delete and the
\* create that must succeed are refused
DefaultRefused ==
  \/ \E p \in Requested({"delete"}) : DeletesDefault(p) /\ Name(p) \notin QualifiedDefaults
  \/ \E p \in Requested({"create"}) : CreatesDefault(p) /\ Name(p) \notin QualifiedDefaults

\* an insert beside a position uses pointers that get_ref_list never set
PositionGiven ==
  \E i \in DOMAIN request : request[i].ins \in {"before", "after"} /\ request[i].ref \in DOMAIN Positions

(***************************************************************************)
(* Properties.                                                             *)
(***************************************************************************)

\* An edit that is carried out leaves exactly the elements and values the
\* whole request asks for, whatever the order in which edit_operations goes
\* through deletes, removes, replaces, creates and merges; one that must be
\* refused is refused, none is refused without a reason, and a refused one
\* leaves the target as it was.  Left out by name, because the code does
\* otherwise: what an edit leaves behind when it merges a leaf explicitly
\* (LeafMerged), works below a missing list entry (KeylessParent) or removes
\* within a default replace (RemoveInReplace); the refusal of the edits of
\* defaults that must succeed (DefaultRefused), and of an insert beside a
\* position (PositionGiven).
EditIsAsAsked ==
  /\ pc = "edited" => ~MustFail /\ (Exceptional \/ Contents(target) = Wanted)
  /\ pc \in {"failed", "crashed"} =>
       /\ target = before
       /\ IF err = "access-denied" THEN case.denied # {}
          ELSE MustFail \/ BadInsert \/ DefaultRefused \/ PositionGiven

\* What the comments of check_edit_ops say: in report-all mode the delete of a
\* node with its default value, in trim mode the create of one, MUST succeed.
\* The code refuses both (get_default_value); no run states it.
DefaultEditsSucceed ==
  pc = "failed" /\ err # "access-denied" => MustFail \/ BadInsert \/ PositionGiven

\* instances of one list that the edit neither names nor removes
Bystanders(doc, parent, name) ==
  SelectSeq(Instances(doc, parent, name), LAMBDA p : p \in Kept)

Lists == {<<Parent(p), Name(p)>> : p \in {p \in Paths(before) : Name(p) \in UserOrdered}}

\* asked for by an operation that looks at the insert attribute
Placed ==
  {i \in DOMAIN request :
     LET p == request[i].path
     IN  /\ request[i].ins # ""
         /\ \/ /\ request[i].op \in {"create", "replace"}
               /\ SupremeOp(request, p) \notin {"create", "replace"}
            \/ OpAt(p) = "merge" /\ Has(before, p) /\ case.defop = "merge"}

Position(seq, p) == CHOOSE i \in DOMAIN seq : seq[i] = p

\* Entries of a list ordered by the user keep their order when the edit does
\* not name them; the entry an edit inserts first, last, before or after
\* another stands there afterwards (edit_create_lists, edit_merge_lists).
InsertedWhereAsked ==
  pc = "edited" /\ ~Exceptional =>
    /\ \A l \in Lists : Bystanders(target, l[1], l[2]) = Bystanders(before, l[1], l[2])
    /\ Cardinality(Placed) = 1 /\ ~BadInsert =>
         \A i \in Placed :
           LET n == request[i]
               all == Instances(target, Parent(n.path), Name(n.path))
               at == Position(all, n.path)
               ref == RefOf(before, n, Parent(n.path)).at
           IN  CASE n.ins = "first" -> at = 1
                 [] n.ins = "last" -> at = Len(all)
                 [] n.ins = "before" /\ ref # n.path ->
                      at < Len(all) /\ all[at + 1] = ref
                 [] n.ins = "after" /\ ref # n.path ->
                      at > 1 /\ all[at - 1] = ref
                 [] OTHER -> TRUE

\* the documents transAPI compares
OldConfig == ncdflt_default_values(before, "tagged")
NewConfig == config

\* an entry of a list that stands behind one that is gone
AfterRemoved(p) ==
  LET all == Instances(OldConfig, Parent(p), Name(p))
  IN  /\ Kind[Name(p)] = "list"
      /\ \E i, j \in DOMAIN all : i < j /\ all[j] = p /\ ~Has(NewConfig, all[i])

\* The records of elements that are in both documents.
InBoth == {r \in diff : r.old # NoElement /\ r.new # NoElement}

\* The differences transAPI gets are the differences of the effective
\* configurations: each element that came or went, each leaf that changed,
\* each container or entry with a change below it, each list whose common
\* entries changed their order, and nothing else.  An element that is in both
\* documents is not told as added or removed, but for a changed list entry
\* behind a removed one: xmldiff_list hands the flag on to it
\* (AfterRemoved).
DiffTellsChanges ==
  pc = "compared" =>
    LET old == OldConfig
        new == NewConfig
        gone == Paths(old) \ Paths(new)
        come == Paths(new) \ Paths(old)
        both == Paths(old) \cap Paths(new)
        changed == {p \in both : At(old, p).val # At(new, p).val}
        reordered == {l \in {<<Parent(p), Name(p)>> : p \in {p \in both : Name(p) \in UserOrdered}} :
                        SelectSeq(Instances(old, l[1], l[2]), LAMBDA p : p \in both) #
                        SelectSeq(Instances(new, l[1], l[2]), LAMBDA p : p \in both)}
        touched == {p \in both : ~IsText(Name(p)) /\
                      \/ \E q \in gone \cup come \cup changed : IsStrictPrefix(p, q)
                      \/ \E l \in reordered : IsPrefix(p, l[1])}
    IN  /\ {r.old : r \in {r \in diff : r.new = NoElement}} = gone
        /\ {r.new : r \in {r \in diff : r.old = NoElement}} = come
        /\ {r.old : r \in {r \in diff : "mod" \in r.op}} = changed
        /\ {r.old : r \in {r \in diff : r.old = r.new /\ r.op \cap {"chain", "reorder"} # {}}}
             = touched
        /\ {<<Parent(r.old), Name(r.old)>> : r \in {r \in diff : "sibling" \in r.op}} = reordered
        /\ \A r \in InBoth : "add" \notin r.op /\ ("rem" \in r.op => AfterRemoved(r.old))

\* What transapi.h says of XMLDIFF_REM, "Element was removed from
\* configuration", and a comment of xmldiff_list of matching entries, "_NONE
\* or _CHAIN".  No run states it: a changed entry behind a removed one has
\* the flag.
RemovedMeansGone ==
  pc = "compared" => \A r \in InBoth : "rem" \notin r.op

\* a default value set in a case that is not the default one
OutsideDefaultCase(doc) ==
  \E i \in DOMAIN doc :
    LET n == Name(doc[i].path)
    IN  /\ n \in DOMAIN CaseOf /\ n \in DOMAIN Default /\ doc[i].val = Default[n]
        /\ ~(CaseOf[n][1] \in DOMAIN DefaultCase /\ DefaultCase[CaseOf[n][1]] = CaseOf[n][2])

\* Default values neither change what a configuration means when they are
\* put in or taken out for a report, nor when the document given to transAPI
\* is stored again (ncdflt_default_values, ncdflt_default_clear), unless a
\* case that is not the default one has only its default value
\* (OutsideDefaultCase): trimmed, it gives way to the default case.
DefaultsAreNeutral ==
  [][pc = "compared" /\ ~OutsideDefaultCase(target) =>
       /\ Effective(target') = Effective(target)
       /\ \A mode \in {"all", "tagged", "trim", "explicit"} :
            Effective(ncdflt_default_values(target, mode)) = Effective(target)]_vars
=============================================================================
