----------------------------- MODULE MCClRasta -----------------------------
(***************************************************************************)
(* An instance of ClRasta for TLC: a menu over a menu with no entries, a   *)
(* dialog that asks for nothing, over a hidden screen, and a dialog with   *)
(* an initcommand, which leads over a hidden screen to a dialog with one   *)
(* list of many choices, for a symbol of the first one, and to an action.  *)
(* Pages and pipes hold one item each, so that two fill them.              *)
(***************************************************************************)
EXTENDS ClRasta
M == INSTANCE MCDescriptions

MCNodes == M!MCNodes
MCScreenIds == M!MCScreenIds \cup {"note"}
MCTexts == M!MCTexts \cup MCScreenIds
MCSymbols == M!MCSymbols
MCValues == {"", "v1", "v2"}

Terminal == M!BuildOver(MCScreenIds,
                        <<M!El("MENU", 0, "main"),
                          M!El("DIALOG", 1, "ask"),
                          M!El("HIDDEN", 2, "probe"),
                          M!El("DIALOG", 3, "more"),
                          M!El("ACTION", 4, "run"),
                          M!El("MENU", 1, "sub"),
                          M!El("DIALOG", 1, "note"),
                          M!El("HIDDEN", 7, "probe")>>,
                        [s \in MCScreenIds |-> s], {"ask"}, {"ask"},
                        [s \in MCScreenIds |-> IF s = "ask" THEN {"x"} ELSE {}])
MCDescriptions == {Terminal}

MCAt(n, x) == [node |-> n, symbols |-> [s \in MCSymbols |-> IF s = "x" THEN x ELSE Null]]
MCSaved    == {<<MCAt(1, "v1")>>, <<MCAt(1, Null), MCAt(2, "v2"), MCAt(3, Null), MCAt(4, "v1")>>}

One(sym, type, numeric, required, multiple) ==
    [sym |-> sym, type |-> type, numeric |-> numeric, required |-> required,
     multiple |-> multiple, column |-> multiple]
MCFields == [s \in MCScreenIds |->
                CASE s = "ask"  -> <<One("x", "READONLY", FALSE, FALSE, FALSE),
                                     One("x", "ENTRYLIST", TRUE, FALSE, FALSE),
                                     One("y", "RING", FALSE, TRUE, FALSE)>>
                  [] s = "note" -> <<One("x", "READONLY", FALSE, FALSE, FALSE)>>
                  [] s = "more" -> <<One("x", "LIST", FALSE, TRUE, TRUE)>>
                  [] OTHER      -> <<>>]
MCRing      == <<[value |-> "v1", text |-> "v2"], [value |-> "v2", text |-> "v1"]>>
MCRefused   == {"v2"}
MCJoined    == [f \in UNION {[S -> MCValues] : S \in SUBSET (1..2)} |->
                   IF Cardinality(DOMAIN f) = 1 THEN f[CHOOSE i \in DOMAIN f : TRUE] ELSE "v2"]
MCFirstWord == [v \in MCValues |-> IF v = "v2" THEN "v1" ELSE v]
MCLines     == {"v1", "v2"}
MCNumbers   == 0..3
=============================================================================
