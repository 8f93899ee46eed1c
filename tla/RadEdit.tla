------------------------------- MODULE RadEdit -------------------------------
(***************************************************************************)
(* What rastaadd and rastadel do to a parsed description.                  *)
(*                                                                         *)
(* A description is the sequence of its screens' IDs and a tree, the PATH  *)
(* element and everything below it.  A tree is a function from positions   *)
(* to elements: the position of an element is the sequence of child        *)
(* numbers that leads to it, <<>> for PATH.  A delta is the content of an  *)
(* addition or a deletion file that rastamodify.dtd accepts.  Everything   *)
(* here is a function of the two: RadTools interleaves the runs.           *)
(***************************************************************************)
EXTENDS Naturals, Sequences, SequencesExt, FiniteSetsExt

CONSTANTS
    Names,          \* IDs of screens; "" where an element has no NAME
    Missing         \* a NULL pointer: no such element

ASSUME MissingAssumption == Missing \notin Seq(Nat)

Kinds == {"PATH", "MENU", "DIALOG", "HIDDEN", "ACTION", "MULTIPATH", "DEFAULTPATH"}
Element(kind, name) == [kind |-> kind, name |-> name]
Document(screens, path) == [screens |-> screens, path |-> path]

\* A PATH attribute: the names between slashes; absolute says that it begins
\* with one.  "/" has no names.
Path(absolute, names) == [absolute |-> absolute, names |-> names]

\* screens is the SCREENINSERT, if any; a PATHINSERT has a path and the trees
\* below it, at positions <<1>>, <<2>>, ...
Addition(screens, paths) == [tool |-> "rastaadd", screens |-> screens, paths |-> paths]
Deletion(screens, paths) == [tool |-> "rastadel", screens |-> screens, paths |-> paths]

Edited(d) == [kind |-> "edited", doc |-> d]
Error     == [kind |-> "error"]
Crash     == [kind |-> "crash"]

Children(tree, p) == {i \in {q[Len(p) + 1] : q \in {q \in DOMAIN tree : Len(q) > Len(p)}} :
                        Append(p, i) \in DOMAIN tree}

Positions == Seq(Nat \ {0})

\* What the parser makes: an element has its parent beside it, and children
\* are numbered from 1.  A forest is what is below a PATHINSERT; <<>> is a
\* tree whose root was freed.
IsForest(trees) ==
    /\ DOMAIN trees \subseteq Positions
    /\ trees \in [DOMAIN trees -> [kind : Kinds, name : Names]]
    /\ \A p \in DOMAIN trees : \A n \in 1..Len(p) : SubSeq(p, 1, n) \in DOMAIN trees
    /\ \A p \in DOMAIN trees \cup {<<>>} :
          /\ IsFiniteSet(Children(trees, p))
          /\ Children(trees, p) = 1..Cardinality(Children(trees, p))

IsTree(tree) == IsForest(tree) /\ <<>> \in DOMAIN tree

IsDocument(d) ==
    /\ d = Document(d.screens, d.path)
    /\ d.screens \in Seq(Names)
    /\ IsTree(d.path)

IsInsert(insert) ==
    /\ insert.path.absolute \in BOOLEAN /\ insert.path.names \in Seq(Names)
    /\ IsForest(insert.trees) /\ <<>> \notin DOMAIN insert.trees

IsDelta(delta) ==
    /\ DOMAIN delta.paths = 1..Len(delta.paths) /\ Len(delta.paths) \in Nat
    /\ \/ /\ delta.tool = "rastaadd"
          /\ delta.screens = Missing \/ delta.screens \in Seq(Names)
          /\ \A i \in DOMAIN delta.paths : IsInsert(delta.paths[i])
       \/ /\ delta.tool = "rastadel"
          /\ delta.screens \in Seq(Names)
          /\ \A i \in DOMAIN delta.paths :
                delta.paths[i].absolute \in BOOLEAN /\ delta.paths[i].names \in Seq(Names)

-----------------------------------------------------------------------------
(* rad_find_path.                                                          *)
Findable(element) == element.kind \in {"MENU", "DIALOG", "HIDDEN"}
Named(tree, p, name) ==
    {i \in Children(tree, p) : LET e == tree[Append(p, i)]
                               IN  Findable(e) /\ e.name = name}

\* One name at a time: the first child that has it, and never another one.
Leads(tree, p, names) ==
    /\ Len(p) = Len(names)
    /\ \A n \in 1..Len(names) :
          LET hits == Named(tree, SubSeq(p, 1, n - 1), names[n])
          IN  p[n] \in hits /\ \A i \in hits : p[n] <= i

Descend(tree, names) ==
    IF \E p \in DOMAIN tree : Leads(tree, p, names)
    THEN CHOOSE p \in DOMAIN tree : Leads(tree, p, names)
    ELSE Missing

FindPath(tree, path) ==
    IF path.absolute THEN Descend(tree, path.names) ELSE Missing

-----------------------------------------------------------------------------
(* The edits of a tree: xmlAddChildList and xmlUnlinkNode.                 *)

\* Position q of the new trees, when they become the last children of p, and
\* the way back.
Below(tree, p, q) == p \o [q EXCEPT ![1] = @ + Cardinality(Children(tree, p))]
Above(tree, p, r) ==
    [SubSeq(r, Len(p) + 1, Len(r)) EXCEPT ![1] = @ - Cardinality(Children(tree, p))]

AddChildList(tree, p, trees) ==
    [r \in DOMAIN tree \cup {Below(tree, p, q) : q \in DOMAIN trees} |->
        IF r \in DOMAIN tree THEN tree[r] ELSE trees[Above(tree, p, r)]]

\* Position q is in the d-th sibling after p, or in a later one.
Behind(p, d, q) == /\ Len(q) >= Len(p)
                   /\ SubSeq(q, 1, Len(p) - 1) = Front(p)
                   /\ q[Len(p)] >= Last(p) + d

\* What is in a later sibling moves up by one.
Unlink(tree, p) ==
    LET up(q)   == IF Behind(p, 1, q) THEN [q EXCEPT ![Len(p)] = @ - 1] ELSE q
        down(r) == IF Behind(p, 0, r) THEN [r EXCEPT ![Len(p)] = @ + 1] ELSE r
    IN  [r \in {up(q) : q \in {q \in DOMAIN tree : ~IsPrefix(p, q)}} |-> tree[down(r)]]

-----------------------------------------------------------------------------
(* rastaadd.                                                               *)
\* process_path: a PATHINSERT with no child at all is refused.
AddPath(outcome, insert) ==
    IF outcome.kind # "edited" THEN outcome
    ELSE LET target == FindPath(outcome.doc.path, insert.path)
         IN  IF target = Missing \/ DOMAIN insert.trees = {} THEN Error
             ELSE Edited(Document(outcome.doc.screens,
                                  AddChildList(outcome.doc.path, target, insert.trees)))

\* add_paths, after the first n PATHINSERTs.
Added(delta, doc) ==
    LET after[n \in 0..Len(delta.paths)] ==
            IF n = 0 THEN Edited(Document(doc.screens \o delta.screens, doc.path))
            ELSE AddPath(after[n - 1], delta.paths[n])
    IN  after

\* add_screens does not ask whether there is a SCREENINSERT.
AddOutcome(delta, doc) ==
    IF delta.screens = Missing THEN Crash
    ELSE IF delta.screens = <<>> THEN Error
    ELSE Added(delta, doc)[Len(delta.paths)]

-----------------------------------------------------------------------------
(* rastadel.                                                               *)
\* process_screen: the first screen of that ID; one that does not exist is
\* ignored.
DeleteScreen(screens, id) ==
    LET uses == {i \in DOMAIN screens : screens[i] = id}
    IN  IF uses = {} THEN screens ELSE RemoveAt(screens, Min(uses))

\* delete_screens, after the first n SCREENDELETEs.
ScreensLeft(delta, doc) ==
    LET left[n \in 0..Len(delta.screens)] ==
            IF n = 0 THEN doc.screens ELSE DeleteScreen(left[n - 1], delta.screens[n])
    IN  left

\* Mutant of DeletePath: a path that does not exist ends the run, as one of
\* rastaadd does.
DeletePathStrict(outcomes, path) ==
    { IF o.kind # "edited" \/ o.doc.path = <<>> THEN o
      ELSE LET target == FindPath(o.doc.path, path)
           IN  IF target = Missing THEN Error
               ELSE Edited(Document(o.doc.screens, Unlink(o.doc.path, target)))
      : o \in outcomes }

\* A path that does not exist is ignored.  "/" frees the PATH element, which
\* the next search still starts from.
DeletePath(outcomes, path) ==
    UNION { IF o.kind = "crash" THEN {o}
            ELSE IF o.doc.path = <<>>
            THEN IF path.absolute THEN {o, Crash} ELSE {o}
            ELSE LET target == FindPath(o.doc.path, path)
                 IN  IF target = Missing THEN {o}
                     ELSE {Edited(Document(o.doc.screens, Unlink(o.doc.path, target)))}
            : o \in outcomes }

\* delete_paths, after the first n PATHDELETEs.
Deleted(delta, doc) ==
    LET after[n \in 0..Len(delta.paths)] ==
            IF n = 0
            THEN {Edited(Document(ScreensLeft(delta, doc)[Len(delta.screens)], doc.path))}
            ELSE DeletePath(after[n - 1], delta.paths[n])
    IN  after

DeleteOutcomes(delta, doc) == Deleted(delta, doc)[Len(delta.paths)]

\* A delta with neither screens nor paths: rastamodify.dtd refuses it, and so
\* do validate_addition and validate_deletion.
Bare(delta) == delta.screens \in {Missing, <<>>} /\ delta.paths = <<>>

EditOutcomes(delta, doc) ==
    IF Bare(delta) THEN {Error}
    ELSE IF delta.tool = "rastaadd" THEN {AddOutcome(delta, doc)}
    ELSE DeleteOutcomes(delta, doc)

-----------------------------------------------------------------------------
(* rad_validate_doc with rasta.dtd.                                        *)
Steps == {"DIALOG", "HIDDEN", "ACTION"}

\* One step, or some MULTIPATHs and at most one DEFAULTPATH after them.
OneWayOn(kinds) ==
    \/ Len(kinds) = 1 /\ kinds[1] \in Steps
    \/ /\ Len(kinds) >= 1 /\ kinds[1] = "MULTIPATH"
       /\ \A i \in 2..Len(kinds) :
             \/ kinds[i] = "MULTIPATH"
             \/ kinds[i] = "DEFAULTPATH" /\ i = Len(kinds)

Grammatical(tree, p) ==
    LET kinds == [i \in 1..Cardinality(Children(tree, p)) |-> tree[Append(p, i)].kind]
    IN  CASE tree[p].kind = "PATH"   -> Len(kinds) = 1 /\ kinds[1] \in {"MENU", "DIALOG"}
          [] tree[p].kind = "MENU"   -> Range(kinds) \subseteq {"MENU"} \cup Steps
          [] tree[p].kind = "ACTION" -> kinds = <<>>
          [] OTHER                   -> OneWayOn(kinds)

\* IDs are unique, every NAME is an ID, and every element has the content
\* that the DTD gives it.
Accepted(doc) ==
    /\ IsInjective(doc.screens)
    /\ <<>> \in DOMAIN doc.path
    /\ \A p \in DOMAIN doc.path :
          /\ Grammatical(doc.path, p)
          /\ doc.path[p].kind \in {"MENU"} \cup Steps
                => doc.path[p].name \in Range(doc.screens)

-----------------------------------------------------------------------------
\* The deletion that takes back an addition, as tests/testdel.rasta does: the
\* screens, and every child of a PATHINSERT by its path.
PathOf(insert, j) == Path(TRUE, Append(insert.path.names, insert.trees[<<j>>].name))
UndoOf(addition) ==
    Deletion(addition.screens,
             FlattenSeq([i \in 1..Len(addition.paths) |->
                LET insert == addition.paths[i]
                IN  [j \in 1..Cardinality(Children(insert.trees, <<>>)) |->
                        PathOf(insert, j)]]))

\* Every inserted tree can be found again by its path: when it was inserted,
\* the path led nowhere.
Recoverable(doc, addition) ==
    \A i \in 1..Len(addition.paths) :
        LET before == Added(addition, doc)[i - 1].doc
            insert == addition.paths[i]
            roots  == Children(insert.trees, <<>>)
        IN  /\ \A j \in roots : Findable(insert.trees[<<j>>])
            /\ \A j, k \in roots : insert.trees[<<j>>].name = insert.trees[<<k>>].name => j = k
            /\ \A j \in roots : Descend(before.path, PathOf(insert, j).names) = Missing
=============================================================================
