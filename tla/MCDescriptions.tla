--------------------------- MODULE MCDescriptions ---------------------------
(***************************************************************************)
(* The descriptions the RastaContext runs walk.  A description is written  *)
(* as its PATH elements in document order, each with the position of its   *)
(* parent; Build derives the libxml links from it.                         *)
(***************************************************************************)
EXTENDS Integers, Sequences, FiniteSets, FiniteSetsExt
CONSTANT Null

MCNodes     == 1..11
MCScreenIds == {"main", "sub", "ask", "probe", "more", "run"}
MCTexts     == MCScreenIds \cup {"T1", "T2", "T3", "T4", "T5"}
MCSymbols   == {"x", "y"}
MCValues    == {"v1", "v2"}

El(kind, parent, name)     == [kind |-> kind, parent |-> parent, name |-> name,
                               symbol |-> "x", value |-> "v1"]
Multi(parent, sym, val)    == [kind |-> "MULTIPATH", parent |-> parent,
                               name |-> "run", symbol |-> sym, value |-> val]
Default(parent)            == El("DEFAULTPATH", parent, "run")

MinOr(S, none) == IF S = {} THEN none ELSE CHOOSE n \in S : \A m \in S : n <= m

BuildOver(ids, rows, title, initDialogs, closed, sets) ==
    LET row(n)   == IF n <= Len(rows) THEN rows[n] ELSE El("ACTION", 0, "run")
        parent   == [n \in MCNodes |->
                        IF row(n).parent = 0 THEN Null ELSE row(n).parent]
        kind     == [n \in MCNodes |-> row(n).kind]
        name     == [n \in MCNodes |-> row(n).name]
        screen   == {"MENU", "DIALOG", "HIDDEN", "ACTION"}
        fast     == [s \in ids |-> s \notin closed]
        owner[n \in MCNodes] ==
            IF parent[n] = Null THEN Null
            ELSE IF kind[parent[n]] \in screen THEN parent[n]
            ELSE owner[parent[n]]
        open[n \in MCNodes] ==
            /\ parent[n] # Null
            /\ \/ parent[n] = 1
               \/ /\ kind[parent[n]] \in {"MENU", "DIALOG"}
                  /\ fast[name[parent[n]]]
                  /\ open[parent[n]]
        beneath[m \in MCNodes, n \in MCNodes] ==
            parent[m] # Null /\ (parent[m] = n \/ beneath[parent[m], n])
    IN  [root   |-> 1,
         kind   |-> kind,
         child  |-> [n \in MCNodes |-> MinOr({m \in MCNodes : parent[m] = n}, Null)],
         next   |-> [n \in MCNodes |->
                        MinOr({m \in MCNodes : /\ parent[n] # Null
                                               /\ parent[m] = parent[n]
                                               /\ m > n}, Null)],
         parent |-> parent,
         owner  |-> owner,
         open   |-> open,
         pos    |-> [n \in MCNodes |-> n],
         last   |-> [n \in MCNodes |->
                        Max({n} \cup {m \in MCNodes : beneath[m, n]})],
         name   |-> name,
         symbol |-> [n \in MCNodes |-> row(n).symbol],
         value  |-> [n \in MCNodes |-> row(n).value],
         type   |-> [s \in ids |->
                        CASE s \in {"main", "sub"} -> "MENU"
                          [] s \in {"ask", "more", "note"} -> "DIALOG"
                          [] s = "probe" -> "HIDDEN"
                          [] OTHER -> "ACTION"],
         title  |-> title,
         init   |-> [s \in ids |-> s = "probe" \/ s \in initDialogs],
         fastpath |-> fast,
         sets   |-> sets]

Build(rows, title, initDialogs, closed, sets) ==
    BuildOver(MCScreenIds, rows, title, initDialogs, closed, sets)

PlainTitles == [s \in MCScreenIds |->
                   CASE s = "sub" -> "T1" [] s = "ask" -> "T2" [] s = "probe" -> "T3"
                     [] s = "more" -> "T4" [] s = "run" -> "T5" [] OTHER -> "main"]
ScreenFields == [s \in MCScreenIds |->
              CASE s = "ask" -> {"x"} [] s = "probe" -> {"y"} [] OTHER -> {}]

\* A menu used twice (its TEXT is its ID, so both uses share one structure),
\* a dialog with an initcommand, a hidden screen that branches.
Setup == Build(<<El("MENU", 0, "main"),
                 El("DIALOG", 1, "ask"),
                 El("HIDDEN", 2, "probe"),
                 Multi(3, "x", "v1"),
                 El("DIALOG", 4, "more"),
                 El("ACTION", 5, "run"),
                 Default(3),
                 El("ACTION", 7, "run"),
                 El("MENU", 1, "main"),
                 El("ACTION", 9, "run")>>,
               PlainTitles, {"ask"}, {}, ScreenFields)

\* A session that starts in a dialog with an initcommand; nested branches;
\* a value no branch covers; two hidden screens in a row.
Wizard == Build(<<El("DIALOG", 0, "ask"),
                  Multi(1, "x", "v1"),
                  Multi(2, "y", "v1"),
                  El("ACTION", 3, "run"),
                  Default(2),
                  El("DIALOG", 5, "more"),
                  El("ACTION", 6, "run"),
                  Multi(1, "x", "v2"),
                  El("HIDDEN", 8, "probe"),
                  El("HIDDEN", 9, "probe"),
                  El("ACTION", 10, "run")>>,
                PlainTitles, {"ask"}, {"ask"}, ScreenFields)

\* Fastpaths: a closed menu above the first occurrence of "more", an open
\* dialog above the second one, a hidden screen that is never descended.
Doors == Build(<<El("MENU", 0, "main"),
                 El("MENU", 1, "sub"),
                 El("DIALOG", 2, "more"),
                 El("ACTION", 3, "run"),
                 El("HIDDEN", 1, "probe"),
                 El("DIALOG", 5, "more"),
                 El("ACTION", 6, "run"),
                 El("DIALOG", 1, "ask"),
                 El("DIALOG", 8, "more"),
                 El("ACTION", 9, "run")>>,
               PlainTitles, {}, {"sub"}, ScreenFields)

\* The root itself is closed to fastpaths.
ClosedRoot == Build(<<El("MENU", 0, "main"),
                      El("MENU", 1, "sub"),
                      El("DIALOG", 2, "more"),
                      El("ACTION", 3, "run"),
                      El("DIALOG", 1, "ask"),
                      El("ACTION", 5, "run")>>,
                    PlainTitles, {}, {"main"}, ScreenFields)

\* The TEXT of the first dialog is the ID of the second one.
Colliding == Build(<<El("MENU", 0, "main"),
                     El("DIALOG", 1, "ask"),
                     El("DIALOG", 2, "more"),
                     El("HIDDEN", 3, "probe"),
                     El("ACTION", 4, "run")>>,
                   [PlainTitles EXCEPT !["ask"] = "more"], {"ask"}, {}, ScreenFields)
=============================================================================
