---------------------------- MODULE MCGtkRasta ----------------------------
(***************************************************************************)
(* An instance of GtkRasta for TLC: a menu over a dialog with an           *)
(* initcommand, which leads over a hidden screen to an action, a menu with *)
(* no entries and a dialog with no fields; the last two have a fastpath.   *)
(***************************************************************************)
EXTENDS GtkRasta
M == INSTANCE MCDescriptions

MCNodes == M!MCNodes
MCScreenIds == M!MCScreenIds
MCTexts == M!MCTexts
MCSymbols == M!MCSymbols
MCValues == {"", "v1", "v2"}

Window == M!Build(<<M!El("MENU", 0, "main"),
                    M!El("DIALOG", 1, "ask"),
                    M!El("HIDDEN", 2, "probe"),
                    M!El("ACTION", 3, "run"),
                    M!El("MENU", 1, "sub"),
                    M!El("DIALOG", 1, "more")>>,
                  M!PlainTitles, {"ask"}, {"ask"},
                  [s \in MCScreenIds |-> {}])
MCDescriptions == {Window}

Text(sym, type, numeric, required) ==
    [sym |-> sym, type |-> type, numeric |-> numeric, required |-> required]
MCFields == [s \in MCScreenIds |->
                IF s = "ask" THEN <<Text("x", "ENTRYLIST", TRUE, FALSE),
                                    Text("y", "RING", FALSE, TRUE)>>
                ELSE <<>>]
MCRing      == [v \in {"v1"} |-> "v2"]
MCRefused   == {"v2"}
MCTty       == [s \in MCScreenIds |-> {"YES", "NO", "SELF"}]
MCOutput    == {[stream |-> "out", eol |-> TRUE], [stream |-> "out", eol |-> FALSE],
                [stream |-> "err", eol |-> TRUE]}
MCConfirmed == {"run"}

=============================================================================
