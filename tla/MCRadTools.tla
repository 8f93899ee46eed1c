----------------------------- MODULE MCRadTools -----------------------------
(***************************************************************************)
(* Instances of RadTools for TLC, with the documents of RadEdit.           *)
(***************************************************************************)
EXTENDS RadDocuments, TLC
CONSTANTS add1, add2, del1

\* Rows of a tree: <<position, kind, name>>.
Tree(rows) == [p \in {row[1] : row \in rows} |->
                 LET row == CHOOSE row \in rows : row[1] = p
                 IN  Element(row[2], row[3])]

\* A menu with a submenu and a dialog that leads to an action.
Description ==
    [screens |-> <<"top", "devices", "users", "ask", "do">>,
     path |-> Tree({<< <<>>, "PATH", "">>,
                    << <<1>>, "MENU", "top">>,
                    << <<1, 1>>, "MENU", "devices">>,
                    << <<1, 2>>, "DIALOG", "ask">>,
                    << <<1, 2, 1>>, "ACTION", "do">>})]

To(names) == Path(TRUE, names)
Into(names, rows) == [path |-> To(names), trees |-> Tree(rows)]

\* tests/testadd.rasta.in: two new screens, one of them beneath the other,
\* and a second use of an old one.
AddMenus == Addition(<<"top2", "top3">>,
               <<Into(<<"top", "devices">>, {<< <<1>>, "MENU", "top2">>,
                                             << <<1, 1>>, "MENU", "top3">>,
                                             << <<2>>, "MENU", "users">>})>>)
\* A screen of the same ID elsewhere, and a path beneath what it inserts.
AddTwice == Addition(<<"top2">>,
               <<Into(<<"top">>, {<< <<1>>, "MENU", "top2">>}),
                 Into(<<"top", "top2">>, {<< <<1>>, "MENU", "users">>})>>)
\* A dialog has one way on already.
AddBelowDialog == Addition(<<"top4">>,
                    <<Into(<<"top", "ask">>, {<< <<1>>, "ACTION", "do">>})>>)
\* Screens that exist, a path alone.
AddPathOnly == Addition(Missing, <<Into(<<"top">>, {<< <<1>>, "MENU", "users">>})>>)
\* The path as the manual writes it, without the first slash.
AddRelative == Addition(<<"top5">>,
                  <<[path |-> Path(FALSE, <<"top">>),
                     trees |-> Tree({<< <<1>>, "MENU", "top5">>})]>>)

DeleteMenus  == UndoOf(AddMenus)
DeleteDialog == Deletion(<<"do">>, <<To(<<"top", "ask">>), To(<<"top", "nowhere">>)>>)
DeleteInUse  == Deletion(<<"ask">>, <<>>)
DeleteAll    == Deletion(<<>>, <<To(<<>>), To(<<"top">>)>>)
\* No SCREENDELETE and no PATHDELETE.
DeleteNothing == Deletion(<<>>, <<>>)

Additions == {AddMenus, AddTwice, AddBelowDialog, AddPathOnly, AddRelative}
Deletions == {DeleteMenus, DeleteDialog, DeleteInUse, DeleteAll, DeleteNothing}

MCOutcomes(d, x) == EditOutcomes(d, x)
MCValid(x) == x # Unreadable /\ Accepted(x)

MCRuns == {add1, add2, del1}
MCDeltas == Additions \cup Deletions
MCInitialDocs == {Description}
MCNames == {"top", "devices", "users", "ask", "do", "top2", "top3", "top4", "top5", "nowhere", ""}

\* Three files; "a" and "b" have the same hash.
MCSpellings == {"a", "b", "c"}
MCFiles == {"A", "B", "C"}
MCFileOf == [s \in MCSpellings |-> CASE s = "a" -> "A" [] s = "b" -> "B" [] s = "c" -> "C"]
MCKeyOf  == [s \in MCSpellings |-> IF s = "c" THEN 2 ELSE 1]
MCKeys   == {1, 2}

Line(s, d) == [spelling |-> s, delta |-> d]
Lines(first, second, third) ==
    add1 :> Line("a", first) @@ add2 :> second @@ del1 :> Line("a", third)

\* Two edits of one file at a time with every deletion; edits that are
\* refused; another file with the same hash, and one with a hash of its own.
MCCommandLines ==
    { Lines(AddMenus, Line("a", AddTwice), z) : z \in Deletions }
    \cup { Lines(AddMenus, y, DeleteMenus) :
              y \in {Line("a", AddBelowDialog), Line("a", AddRelative),
                     Line("b", AddMenus), Line("c", AddMenus)} }
    \cup { Lines(AddPathOnly, Line("a", AddTwice), DeleteDialog) }
=============================================================================
