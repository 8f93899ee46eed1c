-------------------------- MODULE GtkRasta_proofs --------------------------
(***************************************************************************)
(* Theorems about GtkRasta, for every description, every dialog and every  *)
(* order of the callbacks.                                                 *)
(***************************************************************************)
EXTENDS GtkRasta, OrderLemmas

Scope == [node : Nodes \cup {Null}, symbols : [Symbols -> Values \cup {Null}]]

Command == [kind : Kinds \cup {"none"}, for : Nodes \cup {Null},
            leader : {"none", "running", "zombie", "reaped"}, rest : BOOLEAN,
            ok : BOOLEAN, termed : {"nobody", "group"}, torn : BOOLEAN,
            shut : BOOLEAN, wrote : [Streams -> Seq(Piece)]]

-----------------------------------------------------------------------------
(* What the helpers of the model return.                                   *)

LEMMA DocFacts ==
    /\ doc.init \in [ScreenIds -> BOOLEAN] /\ doc.name \in [Nodes -> ScreenIds]
    /\ doc.root \in Nodes
BY DocAssumption, DescriptionsAssumption DEF WellFormed, Description

\* rasta_screen_previous leaves a scope.
LEMMA BackType ==
    ASSUME NEW t \in Seq(Scope), t # <<>>
    PROVE  Back(t) \in Seq(Scope) /\ Back(t) # <<>>
<1>1. Shown(t) \subseteq 0..Len(t) /\ Shown(t) \subseteq 1..Len(t) /\ 1 \in Shown(t)
  BY DEF Shown
<1> DEFINE i0 == CHOOSE k \in Shown(t) : \A j \in Shown(t) : j <= k
<1>3. i0 \in Shown(t)
  BY <1>1, HighestOf
<1>4. i0 \in 1..Len(t)
  BY <1>1, <1>3
<1>5. Back(t) = SubSeq(t, 1, i0)
  BY DEF Back
<1> HIDE DEF i0
<1> QED BY <1>4, <1>5

\* rasta_symbol_lookup returns a value or NULL.
LEMMA LookupType ==
    ASSUME NEW t \in Seq(Scope), NEW sym \in Symbols
    PROVE  Lookup(t, sym) \in Values \cup {Null} /\ TextOf(t, sym) \in Values
<1> DEFINE bound == {i \in 1..Len(t) : t[i].symbols[sym] # Null}
           i0 == CHOOSE i \in bound : \A j \in bound : j <= i
<1>1. CASE bound = {}
  BY <1>1, RingAssumption DEF Lookup, TextOf
<1>2. CASE bound # {}
  <2>1. bound \subseteq 0..Len(t) /\ Len(t) \in Nat
    OBVIOUS
  <2>2. i0 \in bound
    <3> HIDE DEF bound
    <3> QED BY <1>2, <2>1, HighestOf
  <2>3. t[i0] \in Scope
    BY <2>2
  <2>4. Lookup(t, sym) = t[i0].symbols[sym]
    BY <1>2 DEF Lookup
  <2> QED BY <2>3, <2>4, RingAssumption DEF Scope, TextOf
<1> QED BY <1>1, <1>2

\* A step forward adds a scope, whatever it starts from.
LEMMA GotoType ==
    ASSUME NEW t \in Seq(Scope), NEW n \in Nodes \cup {Null}, Goto(t, n)
    PROVE  trail' \in Seq(Scope) /\ trail' # <<>> /\ due' \in BOOLEAN
<1>1. [node |-> n, symbols |-> NoSymbols] \in Scope
  BY DEF Scope, NoSymbols
<1>2. DueAt(n) \in BOOLEAN
  BY DEF DueAt
<1> QED BY <1>1, <1>2 DEF Goto

\* A dialog's fields are stored on its own scope.
LEMMA FieldFacts ==
    ASSUME NEW n \in Nodes
    PROVE  FieldsOf(n) \in Seq(Field) /\ FieldSet(n) \subseteq Field
BY DocFacts, FieldsAssumption DEF FieldsOf, FieldSet, NameOf

LEMMA ValueType ==
    ASSUME NEW f \in Field, entry \in [Symbols -> Values]
    PROVE  ValueIn(f) \in Values
BY RingAssumption DEF ValueIn, Field

\* The current scope's symbols change, and nothing else of the stack.
LEMMA PutType ==
    ASSUME NEW t \in Seq(Scope), t # <<>>, NEW table \in [Symbols -> Values \cup {Null}]
    PROVE  LET u == [t EXCEPT ![Len(t)].symbols = table]
           IN  /\ u \in Seq(Scope) /\ Len(u) = Len(t) /\ u # <<>>
               /\ u[Len(u)].node = t[Len(t)].node
<1> DEFINE u == [t EXCEPT ![Len(t)].symbols = table]
<1>1. Len(t) \in DOMAIN t /\ t[Len(t)] \in Scope
  OBVIOUS
<1>2. [t[Len(t)] EXCEPT !.symbols = table] \in Scope
  BY <1>1 DEF Scope
<1>3. u \in Seq(Scope) /\ Len(u) = Len(t)
  BY <1>1, <1>2
<1>4. u[Len(t)].node = t[Len(t)].node
  BY <1>1 DEF Scope
<1> QED BY <1>3, <1>4

LEMMA StoreType ==
    ASSUME trail \in Seq(Scope), trail # <<>>, page \in Nodes,
           entry \in [Symbols -> Values], NEW count \in Nat,
           count <= Len(FieldsOf(page))
    PROVE  LET u == StoreFields(count)
           IN  /\ u \in Seq(Scope) /\ Len(u) = Len(trail) /\ u # <<>>
               /\ u[Len(u)].node = Top.node
<1> DEFINE stored == {FieldsOf(page)[i] : i \in 1..count}
           value(s, old) == IF \E f \in stored : f.sym = s /\ Stores(f)
                            THEN ValueIn(CHOOSE f \in stored : f.sym = s) ELSE old
           table == [s \in Symbols |-> value(s, Top.symbols[s])]
<1>1. stored \subseteq Field
  BY FieldFacts
<1>2. Top \in Scope
  BY DEF Top
<1>3. ASSUME NEW s \in Symbols PROVE value(s, Top.symbols[s]) \in Values \cup {Null}
  BY <1>1, <1>2, ValueType DEF Scope
<1>4. table \in [Symbols -> Values \cup {Null}]
  BY <1>3
<1>5. StoreFields(count) = [trail EXCEPT ![Len(trail)].symbols = table]
  BY DEF StoreFields, Top
<1> HIDE DEF table
<1> QED BY <1>4, <1>5, PutType DEF Top

LEMMA MoveTypes ==
    ASSUME NEW t \in Seq(Scope), t # <<>>
    PROVE  /\ StepForward(t) => trail' \in Seq(Scope) /\ trail' # <<>> /\ due' \in BOOLEAN
           /\ t = trail /\ StepBack => trail' \in Seq(Scope) /\ trail' # <<>> /\ due' \in BOOLEAN
<1>1. ASSUME StepForward(t)
      PROVE  trail' \in Seq(Scope) /\ trail' # <<>> /\ due' \in BOOLEAN
  <2>1. PICK n \in StepsOf(Top.node) \cup {Null} : Goto(t, n)
    BY <1>1 DEF StepForward
  <2>2. n \in Nodes \cup {Null}
    BY <2>1 DEF StepsOf
  <2> QED BY <2>1, <2>2, GotoType
<1>2. ASSUME t = trail, StepBack
      PROVE  trail' \in Seq(Scope) /\ trail' # <<>> /\ due' \in BOOLEAN
  BY <1>2, BackType DEF StepBack
<1> QED BY <1>1, <1>2

LEMMA TopType == trail \in Seq(Scope) /\ trail # <<>> => Top \in Scope
BY DEF Top

-----------------------------------------------------------------------------
(* The types of the library's, the window's and the commands' state.       *)
LibraryTyped ==
    /\ trail \in Seq(Scope) /\ due \in BOOLEAN
    /\ pc \in {"load", "loop", "build", "quit"}
    /\ pc \in {"loop", "build"} => trail # <<>>

PaneTyped ==
    /\ page \in Nodes \cup {Null} /\ widgets \in {"none", "live", "freed"}
    /\ entry \in [Symbols -> Values]
    /\ sens \in [screens : BOOLEAN, next : BOOLEAN, previous : BOOLEAN, cancel : BOOLEAN]
    /\ dialog \in {"none", "filling", "open", "gone"}
    /\ choosing \in Symbols \cup {Null}

CommandTyped ==
    /\ child_pid \in {"unset", "child", "reaped"}
    /\ chan \in [Streams -> BOOLEAN]
    /\ sources \subseteq (Kinds \X (Streams \cup {"timeout"})) \cup {<<"ring", "idle">>}
    /\ proc \in Command
    /\ given.to \in Nodes \cup {Null} /\ given.started \in BOOLEAN

Typed == LibraryTyped /\ PaneTyped /\ CommandTyped

\* The program as it starts and as it ends.
Blanked ==
    /\ trail = <<>> /\ due = FALSE /\ page = Null /\ widgets = "none" /\ entry = NoText
    /\ sens = Busy /\ child_pid = "unset" /\ chan = NoChannels
    /\ dialog = "none" /\ choosing = Null /\ sources = {} /\ proc = NoProc /\ given = NotGiven

LEMMA BlankTyped == Blanked /\ pc \in {"load", "quit"} => Typed
<1> SUFFICES ASSUME Blanked, pc \in {"load", "quit"} PROVE Typed
  OBVIOUS
<1>1. Blank \in [Streams -> Seq(Piece)] /\ <<>> \in Seq(Piece)
  BY DEF Blank
<1>2. LibraryTyped
  <2>1. <<>> \in Seq(Scope)
    OBVIOUS
  <2> QED BY <2>1 DEF Blanked, LibraryTyped
<1>3. PaneTyped
  BY RingAssumption DEF Blanked, PaneTyped, NoText, Busy
<1>4. NoProc \in Command
  BY <1>1 DEF NoProc, Command
<1>5. CommandTyped
  BY <1>4 DEF Blanked, CommandTyped, NoChannels, NotGiven
<1> QED BY <1>2, <1>3, <1>5 DEF Typed

LEMMA EndTyped == End => Typed'
<1>1. End => Blanked' /\ (pc \in {"load", "quit"})'
  BY DEF End, Blanked
<1> QED BY <1>1, BlankTyped, PTL

LEMMA LibraryStep == Typed /\ [Next]_vars => LibraryTyped'
<1> SUFFICES ASSUME Typed, [Next]_vars PROVE LibraryTyped'
  OBVIOUS
<1> USE DEF library, pane, output, choice, command, commands, Environment
<1>0. LibraryTyped
  BY DEF Typed
<1>1. ASSUME Loaded PROVE LibraryTyped'
  <2>1. PICK n \in Entries \cup {Null} : /\ trail' = <<[node |-> n, symbols |-> NoSymbols]>>
                                         /\ due' = DueAt(n)
    BY <1>1 DEF Loaded
  <2>2. [node |-> n, symbols |-> NoSymbols] \in Scope /\ DueAt(n) \in BOOLEAN
    BY DocFacts DEF Entries, Scope, NoSymbols, DueAt, NameOf
  <2> QED BY <1>1, <2>1, <2>2 DEF Loaded, LibraryTyped
<1>2. ASSUME pc = "build" \/ pc = "loop",
             pc' = "build" \/ pc' = "loop",
             \/ UNCHANGED library
             \/ StepBack
             \/ StepForward(trail)
             \/ \E n \in Nodes : Goto(trail, n)
      PROVE  LibraryTyped'
  BY <1>0, <1>2, MoveTypes, GotoType DEF LibraryTyped
<1>3. ASSUME \/ LoadFails \/ BuildCrashes \/ Quit \/ UseGone
      PROVE  LibraryTyped'
  BY <1>3, EndTyped DEF LoadFails, BuildCrashes, Quit, UseGone, Typed
<1>4. ASSUME Build, ~BuildCrashes PROVE LibraryTyped'
  <2>1. ASSUME BuildNone \/ BuildAction \/ BuildActionFails \/ StartInitcommand
        PROVE  LibraryTyped'
    BY <1>2, <2>1 DEF BuildNone, BuildAction, BuildActionFails, StartInitcommand, Building
  <2>2. ASSUME BuildMenu \/ BuildDialog PROVE LibraryTyped'
    BY <1>2, <2>2 DEF BuildMenu, BuildDialog, Building, NothingHere, Show
  <2>3. ASSUME BuildHidden PROVE LibraryTyped'
    BY <1>2, <2>3 DEF BuildHidden, Building
  <2>4. ASSUME StartInitcommandFails \/ BuildActionRefused PROVE LibraryTyped'
    BY <1>2, <2>4 DEF StartInitcommandFails, BuildActionRefused, Building
  <2> QED BY <1>4, <2>1, <2>2, <2>3, <2>4 DEF Build
<1>5. ASSUME ClickPrevious PROVE LibraryTyped'
  BY <1>2, <1>5 DEF ClickPrevious, CanPress
<1>6. ASSUME NEW n \in Nodes, NextFromMenu(n) PROVE LibraryTyped'
  BY <1>2, <1>6 DEF NextFromMenu, CanPress
<1>7. ASSUME NextFromDialog PROVE LibraryTyped'
  <2> DEFINE count == Len(FieldsOf(page))
             t == StoreFields(count)
  <2>1. page \in Nodes /\ trail # <<>> /\ entry \in [Symbols -> Values] /\ count \in Nat
    BY <1>7, FieldFacts DEF NextFromDialog, CanPress, Typed, LibraryTyped, PaneTyped
  <2>2. t \in Seq(Scope) /\ t # <<>>
    BY <1>0, <2>1, StoreType DEF LibraryTyped
  <2>3. StepForward(t) /\ pc' = "build"
    BY <1>7 DEF NextFromDialog
  <2> HIDE DEF t
  <2> QED BY <2>2, <2>3, MoveTypes DEF LibraryTyped
<1>8. ASSUME NextFromDialogRefused PROVE LibraryTyped'
  <2>1. PICK i \in DOMAIN FieldsOf(page) : trail' = StoreFields(i - 1)
    BY <1>8 DEF NextFromDialogRefused
  <2>2. page \in Nodes /\ trail # <<>> /\ entry \in [Symbols -> Values]
    BY <1>8 DEF NextFromDialogRefused, CanPress, Typed, LibraryTyped, PaneTyped
  <2>3. i - 1 \in Nat /\ i - 1 <= Len(FieldsOf(page))
    BY <2>2, FieldFacts
  <2>4. trail' \in Seq(Scope) /\ trail' # <<>>
    BY <1>0, <2>1, <2>2, <2>3, StoreType DEF LibraryTyped
  <2> QED BY <1>0, <1>8, <2>4 DEF NextFromDialogRefused, LibraryTyped
<1>9. ASSUME FinishInitcommand PROVE LibraryTyped'
  <2>0. pc = "loop" /\ pc' = "build"
    BY <1>9 DEF FinishInitcommand, Finish
  <2>1. CASE StepBack
    BY <1>2, <2>0, <2>1
  <2>2. CASE ~StepBack
    <3>1. PICK table \in [Symbols -> Values \cup {Null}] : trail' = Parsed(table)
      BY <1>9, <2>2 DEF FinishInitcommand
    <3> DEFINE new == [s \in Symbols |-> IF table[s] = Null THEN Top.symbols[s] ELSE table[s]]
    <3>2. Top \in Scope
      BY <1>0, <2>0 DEF Top, LibraryTyped
    <3>3. new \in [Symbols -> Values \cup {Null}]
      BY <3>2 DEF Scope
    <3>4. trail' = [trail EXCEPT ![Len(trail)].symbols = new]
      BY <3>1 DEF Parsed, Top
    <3> HIDE DEF new
    <3>5. trail' \in Seq(Scope) /\ trail' # <<>>
      BY <1>0, <2>0, <3>3, <3>4, PutType DEF LibraryTyped
    <3>6. due' = FALSE
      BY <1>9, <2>2 DEF FinishInitcommand
    <3> QED BY <2>0, <3>5, <3>6 DEF LibraryTyped
  <2> QED BY <2>1, <2>2
<1>10. ASSUME UNCHANGED <<library, pc>> PROVE LibraryTyped'
  BY <1>0, <1>10 DEF LibraryTyped
<1>11. ASSUME \/ \E f \in FieldsHere, v \in Values : Type(f, v)
              \/ \E f \in FieldsHere : StartList(f) \/ StartListFails(f) \/ StartRing(f)
              \/ Answer \/ ClickCancel \/ CloseFilling \/ RingFilled
       PROVE  UNCHANGED <<library, pc>>
  BY <1>11 DEF Type, StartList, StartListFails, StartRing, Answer, ClickCancel, CloseFilling,
       RingFilled
<1>12. ASSUME \/ \E s \in Streams : Reads(s)
              \/ \E k \in Kinds : Poll(k)
              \/ FinishList \/ FinishAction \/ Processes
       PROVE  UNCHANGED <<library, pc>>
  BY <1>12 DEF Reads, ReadSome, ReadEnd, ReadError, Poll, FinishList, FinishAction, Processes,
       Write, Exit, Fork, CloseStreams, RestExits, Terminated
<1> QED
  BY <1>1, <1>3, <1>4, <1>5, <1>6, <1>7, <1>8, <1>9, <1>10, <1>11, <1>12
  DEF Next, User, Polls, vars, Build

LEMMA PaneStep == Typed /\ [Next]_vars => PaneTyped'
<1> SUFFICES ASSUME Typed, [Next]_vars PROVE PaneTyped'
  OBVIOUS
<1> USE DEF library, pane, output, choice, command, commands, Environment
<1>0. PaneTyped
  BY DEF Typed
<1>1. ASSUME UNCHANGED <<pane, choice, sens>> PROVE PaneTyped'
  BY <1>0, <1>1 DEF PaneTyped
<1>2. ASSUME \/ LoadFails \/ BuildCrashes \/ Quit \/ UseGone
      PROVE  PaneTyped'
  BY <1>2, EndTyped DEF LoadFails, BuildCrashes, Quit, UseGone, Typed
<1>3. Top.node \in Nodes \cup {Null} \/ trail = <<>>
  BY TopType DEF Typed, LibraryTyped, Scope
<1>4. NoText \in [Symbols -> Values]
  BY RingAssumption DEF NoText
<1>5. FinishActivity(trail) =>
         sens' \in [screens : BOOLEAN, next : BOOLEAN, previous : BOOLEAN, cancel : BOOLEAN]
  BY DEF FinishActivity
<1>6. StartActivity =>
         sens' \in [screens : BOOLEAN, next : BOOLEAN, previous : BOOLEAN, cancel : BOOLEAN]
  BY DEF StartActivity, Busy
<1>7. [sens EXCEPT !.screens = TRUE]
         \in [screens : BOOLEAN, next : BOOLEAN, previous : BOOLEAN, cancel : BOOLEAN]
  BY <1>0 DEF PaneTyped
<1>8. ASSUME BuildMenu \/ BuildAction \/ BuildActionFails \/ BuildActionRefused
      PROVE  PaneTyped'
  <2>1. trail # <<>>
    BY <1>8 DEF BuildMenu, BuildAction, BuildActionFails, BuildActionRefused, Building,
         Typed, LibraryTyped
  <2>2. UNCHANGED <<widgets, entry, choice>> /\ (page' = page \/ page' = Top.node)
    BY <1>8 DEF BuildMenu, BuildAction, BuildActionFails, BuildActionRefused, Show,
         ActionPane
  <2>3. \/ UNCHANGED sens \/ FinishActivity(trail)
        \/ sens' = [sens EXCEPT !.screens = TRUE]
    BY <1>8 DEF BuildMenu, BuildAction, BuildActionFails, BuildActionRefused, Show,
         NothingHere
  <2> QED BY <1>0, <1>3, <1>5, <1>7, <2>1, <2>2, <2>3 DEF PaneTyped
<1>9. ASSUME BuildDialog PROVE PaneTyped'
  <2>0. trail # <<>> /\ trail \in Seq(Scope) /\ Top.node \in Nodes
    <3>1. trail # <<>> /\ trail \in Seq(Scope)
      BY <1>9 DEF BuildDialog, Building, Typed, LibraryTyped
    <3>2. Top.node # Null
      BY <1>9 DEF BuildDialog, Building, TypeOf
    <3> QED BY <1>3, <3>1, <3>2
  <2>1. CASE FieldsOf(Top.node) = <<>>
    BY <1>0, <1>9, <2>1 DEF BuildDialog, PaneTyped, NothingHere
  <2>2. CASE FieldsOf(Top.node) # <<>>
    <3>1. ASSUME NEW f \in Field PROVE Widget(f) \in Values
      <4>1. TextOf(trail, f.sym) \in Values
        BY <2>0, LookupType DEF Field
      <4> QED BY <4>1, RingAssumption DEF Widget
    <3>2. FieldSet(Top.node) \subseteq Field
      BY <2>0, FieldFacts
    <3>3. entry' \in [Symbols -> Values]
      BY <1>9, <2>2, <3>1, <3>2, RingAssumption DEF BuildDialog
    <3>4. widgets' = "live" /\ page' = Top.node /\ FinishActivity(trail) /\ UNCHANGED choice
      BY <1>9, <2>2 DEF BuildDialog, Show
    <3> QED BY <1>0, <1>5, <2>0, <3>3, <3>4 DEF PaneTyped
  <2> QED BY <2>1, <2>2
<1>10. ASSUME \/ ClickPrevious \/ NextFromDialog \/ \E n \in Nodes : NextFromMenu(n)
       PROVE  PaneTyped'
  <2>1. UNCHANGED <<page, widgets, choice>> /\ StartActivity /\ (entry' = NoText \/ UNCHANGED entry)
    BY <1>10 DEF ClickPrevious, NextFromDialog, NextFromMenu
  <2> QED BY <1>0, <1>4, <1>6, <2>1 DEF PaneTyped
<1>11. ASSUME NEW f \in FieldsHere, NEW v \in Values,
              Type(f, v) \/ StartList(f) \/ StartListFails(f) \/ StartRing(f)
       PROVE  PaneTyped'
  <2>1. f.sym \in Symbols
    BY <1>0, <1>11, FieldFacts DEF PaneTyped, FieldsHere, Field
  <2>2. CASE Type(f, v)
    BY <1>0, <2>1, <2>2 DEF Type, PaneTyped
  <2>3. CASE ~Type(f, v)
    <3>1. /\ UNCHANGED <<pane>> /\ dialog' = "filling" /\ choosing' = f.sym
          /\ StartActivity \/ FinishActivity(trail)
      BY <1>11, <2>3 DEF StartList, StartListFails, StartRing
    <3> QED BY <1>0, <1>5, <1>6, <2>1, <3>1 DEF PaneTyped
  <2> QED BY <2>2, <2>3
<1>12. ASSUME Answer PROVE PaneTyped'
  <2>1. PICK v \in Offered \cup {entry[choosing]} : entry' = [entry EXCEPT ![choosing] = v]
    BY <1>12 DEF Answer
  <2>2. Offered \subseteq Values
    BY RingAssumption DEF Offered
  <2>3. entry' \in [Symbols -> Values]
    BY <1>0, <2>1, <2>2 DEF PaneTyped
  <2> QED BY <1>0, <1>5, <1>12, <2>3 DEF Answer, PaneTyped
<1>13. ASSUME FinishList \/ FinishAction PROVE PaneTyped'
  <2>1. /\ UNCHANGED <<pane, choosing>> /\ dialog' \in {dialog, "open", "none"}
        /\ UNCHANGED sens \/ FinishActivity(trail)
    BY <1>13 DEF FinishList, FinishAction
  <2> QED BY <1>0, <1>5, <2>1 DEF PaneTyped
<1>14. ASSUME CloseFilling \/ RingFilled PROVE PaneTyped'
  BY <1>0, <1>14 DEF CloseFilling, RingFilled, PaneTyped
<1>15. ASSUME \/ Loaded \/ BuildNone \/ BuildHidden \/ StartInitcommand \/ StartInitcommandFails
              \/ NextFromDialogRefused \/ ClickCancel
       PROVE  UNCHANGED <<pane, choice, sens>>
  BY <1>15 DEF Loaded, BuildNone, BuildHidden, StartInitcommand, StartInitcommandFails,
       NextFromDialogRefused, ClickCancel
<1>16. ASSUME \/ \E s \in Streams : Reads(s)
              \/ \E k \in Kinds : Poll(k)
              \/ FinishInitcommand \/ Processes
       PROVE  UNCHANGED <<pane, choice, sens>>
  BY <1>16 DEF Reads, ReadSome, ReadEnd, ReadError, Poll, FinishInitcommand, Processes,
       Write, Exit, Fork, CloseStreams, RestExits, Terminated
<1>17. Values # {}
  BY RingAssumption
<1> QED
  BY <1>1, <1>2, <1>8, <1>9, <1>10, <1>11, <1>12, <1>13, <1>14, <1>15, <1>16, <1>17
  DEF Next, Build, User, Polls, vars

LEMMA SpawnTyped ==
    ASSUME CommandTyped, NEW k \in Kinds, NEW b \in BOOLEAN, Top.node \in Nodes \cup {Null},
           Spawn(k, b)
    PROVE  CommandTyped' /\ pipe' \in [Streams -> Seq(Piece)]
<1>1. <<>> \in Seq(Piece)
  OBVIOUS
<1>2. Blank \in [Streams -> Seq(Piece)] /\ NoProc \in Command
  BY <1>1 DEF Blank, NoProc, Command
<1>3. proc' \in Command
  BY <1>2 DEF Spawn, Command
<1>4. sources' \subseteq (Kinds \X (Streams \cup {"timeout"})) \cup {<<"ring", "idle">>}
  BY DEF Spawn, CommandTyped
<1>5. child_pid' = "child" /\ chan' \in [Streams -> BOOLEAN]
      /\ given'.to \in Nodes \cup {Null} /\ given'.started \in BOOLEAN
  BY DEF Spawn, NotGiven
<1> QED BY <1>2, <1>3, <1>4, <1>5 DEF Spawn, CommandTyped

LEMMA FinishTyped ==
    ASSUME CommandTyped, NEW k \in Kinds, NEW out, Top.node \in Nodes \cup {Null},
           Finish(k, out), UNCHANGED chan
    PROVE  CommandTyped' /\ pipe' = Blank
<1>1. <<>> \in Seq(Piece)
  OBVIOUS
<1>2. NoProc \in Command
  BY <1>1 DEF NoProc, Blank, Command
<1>3. proc' \in Command
  BY <1>2 DEF Finish, CommandTyped, Command
<1>4. sources' \subseteq sources
  BY DEF Finish, Removed
<1>5. child_pid' = "reaped" /\ given'.to \in Nodes \cup {Null} /\ given'.started \in BOOLEAN
  BY DEF Finish
<1> QED BY <1>3, <1>4, <1>5 DEF Finish, CommandTyped

LEMMA CommandStep == Typed /\ [Next]_vars => CommandTyped'
<1> SUFFICES ASSUME Typed, [Next]_vars PROVE CommandTyped'
  OBVIOUS
<1> USE DEF library, pane, output, choice, command, commands, Environment
<1>0. CommandTyped
  BY DEF Typed
<1>1. ASSUME UNCHANGED <<child_pid, chan, sources, given>>, proc' \in Command PROVE CommandTyped'
  BY <1>0, <1>1 DEF CommandTyped
<1>2. ASSUME \/ LoadFails \/ BuildCrashes \/ Quit \/ UseGone
      PROVE  CommandTyped'
  BY <1>2, EndTyped DEF LoadFails, BuildCrashes, Quit, UseGone, Typed
<1>3. pc \in {"build", "loop"} => Top.node \in Nodes \cup {Null}
  BY TopType DEF Typed, LibraryTyped, Scope
<1>4. ASSUME StartInitcommand \/ BuildAction \/ \E f \in FieldsHere : StartList(f)
      PROVE  CommandTyped'
  <2>1. Top.node \in Nodes \cup {Null}
    BY <1>3, <1>4 DEF StartInitcommand, BuildAction, Building, StartList, Listable, CanPress
  <2>2. PICK k \in Kinds, b \in BOOLEAN : Spawn(k, b)
    BY <1>4 DEF StartInitcommand, BuildAction, StartList, Kinds
  <2> QED BY <1>0, <2>1, <2>2, SpawnTyped
<1>5. ASSUME FinishInitcommand \/ FinishList \/ FinishAction PROVE CommandTyped'
  <2>1. Top.node \in Nodes \cup {Null}
    BY <1>3, <1>5 DEF FinishInitcommand, FinishList, FinishAction, Finish
  <2>2. /\ \/ Finish("ic", data["out"]) \/ Finish("lc", lines)
           \/ Finish("ac", FromOut(lines))
        /\ UNCHANGED chan
    BY <1>5 DEF FinishInitcommand, FinishList, FinishAction
  <2> QED BY <1>0, <2>1, <2>2, FinishTyped DEF Kinds
<1>6. ASSUME StartInitcommandFails \/ \E f \in FieldsHere : StartListFails(f) \/ StartRing(f)
      PROVE  CommandTyped'
  <2>1. Top.node \in Nodes \cup {Null}
    BY <1>3, <1>6 DEF StartInitcommandFails, StartListFails, StartRing, Listable, CanPress
  <2>2. CASE StartInitcommandFails
    BY <1>0, <2>1, <2>2 DEF StartInitcommandFails, CommandTyped
  <2>3. CASE \E f \in FieldsHere : StartListFails(f) \/ StartRing(f)
    <3>1. /\ child_pid' \in {child_pid, "reaped"} /\ UNCHANGED <<chan, proc, given>>
          /\ sources' \in {sources, sources \cup {<<"ring", "idle">>}}
      BY <2>3 DEF StartListFails, StartRing
    <3> QED BY <1>0, <3>1 DEF CommandTyped
  <2> QED BY <1>6, <2>2, <2>3
<1>7. ASSUME RingFilled PROVE CommandTyped'
  BY <1>0, <1>7 DEF RingFilled, CommandTyped
<1>8. ASSUME ClickCancel PROVE CommandTyped'
  BY <1>0, <1>1, <1>8 DEF ClickCancel, SigTerm, CommandTyped, Command
<1>9. ASSUME NEW s \in Streams, NEW k \in Kinds, ReadSome(k, s) \/ ReadEnd(k, s) \/ ReadError(k, s)
      PROVE  CommandTyped'
  <2>1. /\ chan' \in [Streams -> BOOLEAN] /\ sources' \subseteq sources
        /\ UNCHANGED <<child_pid, given>>
        /\ UNCHANGED proc \/ proc' = [proc EXCEPT !.torn = TRUE]
    BY <1>0, <1>9 DEF ReadSome, ReadEnd, ReadError, Shut, Forget, CommandTyped
  <2>2. proc' \in Command
    BY <1>0, <2>1 DEF CommandTyped, Command
  <2> QED BY <1>0, <2>1, <2>2 DEF CommandTyped
<1>10. ASSUME NEW k \in Kinds, Poll(k) PROVE CommandTyped'
  <2>1. proc' \in Command
    BY <1>0, <1>10 DEF Poll, CommandTyped, Command
  <2> QED BY <1>0, <1>10, <2>1 DEF Poll, CommandTyped
<1>11. ASSUME Processes PROVE CommandTyped'
  <2>1. UNCHANGED <<child_pid, chan, sources, given>>
    BY <1>11 DEF Processes, Write, Exit, Fork, CloseStreams, RestExits, Terminated
  <2>2. ASSUME NEW piece \in Output, Write(piece) PROVE proc' \in Command
    <3>1. piece \in Piece /\ piece.stream \in Streams
      BY ActionsAssumption DEF Piece
    <3>2. proc.wrote \in [Streams -> Seq(Piece)]
      BY <1>0 DEF CommandTyped, Command
    <3>3. Append(proc.wrote[piece.stream], piece) \in Seq(Piece)
      BY <3>1, <3>2
    <3> DEFINE w == [proc.wrote EXCEPT ![piece.stream] = Append(@, piece)]
    <3>4. w \in [Streams -> Seq(Piece)]
      BY <3>2, <3>3
    <3>5. proc' = [proc EXCEPT !.wrote = w]
      BY <2>2, <3>1, <3>2 DEF Write, CommandTyped, Command
    <3> HIDE DEF w
    <3> QED BY <1>0, <3>4, <3>5 DEF CommandTyped, Command
  <2>3. ASSUME NEW ok \in BOOLEAN, Exit(ok) PROVE proc' \in Command
    BY <1>0, <2>3 DEF Exit, CommandTyped, Command
  <2>4. ASSUME Fork \/ CloseStreams \/ RestExits PROVE proc' \in Command
    BY <1>0, <2>4 DEF Fork, CloseStreams, RestExits, CommandTyped, Command
  <2>5. ASSUME Terminated PROVE proc' \in Command
    BY <1>0, <2>5 DEF Terminated, CommandTyped, Command
  <2> QED BY <1>1, <1>11, <2>1, <2>2, <2>3, <2>4, <2>5 DEF Processes
<1>12. ASSUME UNCHANGED <<child_pid, chan, sources, given, proc>> PROVE CommandTyped'
  BY <1>0, <1>12 DEF CommandTyped
<1>13. ASSUME \/ Loaded \/ BuildNone \/ BuildMenu \/ BuildDialog \/ BuildHidden
              \/ BuildActionFails \/ BuildActionRefused
              \/ ClickPrevious \/ NextFromDialog \/ NextFromDialogRefused
       PROVE  UNCHANGED <<child_pid, chan, sources, given, proc>>
  BY <1>13 DEF Loaded, BuildNone, BuildMenu, BuildDialog, BuildHidden, BuildActionFails,
       BuildActionRefused, ClickPrevious, NextFromDialog, NextFromDialogRefused
<1>14. ASSUME \/ \E n \in Nodes : NextFromMenu(n)
              \/ \E f \in FieldsHere, v \in Values : Type(f, v)
              \/ Answer \/ CloseFilling
       PROVE  UNCHANGED <<child_pid, chan, sources, given, proc>>
  BY <1>14 DEF NextFromMenu, Type, Answer, CloseFilling
<1> QED
  BY <1>2, <1>4, <1>5, <1>6, <1>7, <1>8, <1>9, <1>10, <1>11, <1>12, <1>13, <1>14
  DEF Next, Build, User, Polls, Reads, vars

-----------------------------------------------------------------------------
(* The output of a command: what is on its way in a stream is of that      *)
(* stream, and what is shown ends with a line.                             *)
Of(s, seq) == \A i \in 1..Len(seq) : seq[i].stream = s

EndsLine(seq) == seq # <<>> => seq[Len(seq)].eol

WholeLines(seq) ==
    /\ EndsLine(seq)
    /\ \A i \in 1..(Len(seq) - 1) : seq[i].eol \/ seq[i].stream = seq[i + 1].stream

OutputTyped ==
    /\ data \in [Streams -> Seq(Piece)] /\ pending \in [Streams -> Seq(Piece)]
    /\ lines \in Seq(Piece) /\ pipe \in [Streams -> Seq(Piece)]

StreamsApart ==
    /\ \A s \in Streams : Of(s, pipe[s]) /\ Of(s, pending[s])
    /\ WholeLines(lines)

\* Whole finds the end of the last whole line.
LEMMA WholeType ==
    ASSUME NEW seq \in Seq(Piece)
    PROVE  /\ Whole(seq) \in 0..Len(seq)
           /\ Whole(seq) = 0 \/ seq[Whole(seq)].eol
<1> DEFINE ends == {0} \cup {i \in 1..Len(seq) : seq[i].eol}
           h == CHOOSE i \in ends : \A j \in ends : j <= i
<1>1. ends \subseteq 0..Len(seq) /\ ends # {} /\ Len(seq) \in Nat
  OBVIOUS
<1>2. h \in ends
  <2> HIDE DEF ends
  <2> QED BY <1>1, HighestOf
<1>3. Whole(seq) = h
  BY DEF Whole
<1> HIDE DEF h
<1> QED BY <1>2, <1>3

\* Lines of one stream can follow any whole lines.
LEMMA WholeConcat ==
    ASSUME NEW a \in Seq(Piece), NEW b \in Seq(Piece), NEW s,
           WholeLines(a), Of(s, b), EndsLine(b)
    PROVE  a \o b \in Seq(Piece) /\ WholeLines(a \o b)
<1> DEFINE c == a \o b
<1>1. /\ c \in Seq(Piece) /\ Len(c) = Len(a) + Len(b)
      /\ \A i \in 1..Len(c) : c[i] = IF i <= Len(a) THEN a[i] ELSE b[i - Len(a)]
  OBVIOUS
<1>2. EndsLine(c)
  <2>1. CASE b = <<>>
    BY <1>1, <2>1 DEF WholeLines, EndsLine
  <2>2. CASE b # <<>>
    <3>1. Len(b) \in Nat /\ Len(b) > 0 /\ Len(a) \in Nat
      BY <2>2
    <3>2. c[Len(c)] = b[Len(b)]
      BY <1>1, <3>1
    <3> QED BY <2>2, <3>2 DEF EndsLine
  <2> QED BY <2>1, <2>2
<1>3. ASSUME NEW i \in 1..(Len(c) - 1)
      PROVE  c[i].eol \/ c[i].stream = c[i + 1].stream
  <2>0. i \in Nat /\ Len(a) \in Nat /\ Len(b) \in Nat /\ i + 1 \in 1..Len(c) /\ i \in 1..Len(c)
    BY <1>1
  <2>1. CASE i < Len(a)
    <3>1. i \in 1..(Len(a) - 1) /\ c[i] = a[i] /\ c[i + 1] = a[i + 1]
      BY <1>1, <2>0, <2>1
    <3> QED BY <3>1 DEF WholeLines
  <2>2. CASE i = Len(a)
    <3>1. c[i] = a[Len(a)] /\ a # <<>>
      BY <1>1, <2>0, <2>2
    <3> QED BY <3>1 DEF WholeLines, EndsLine
  <2>3. CASE i > Len(a)
    <3>1. /\ i - Len(a) \in 1..Len(b) /\ i + 1 - Len(a) \in 1..Len(b)
          /\ c[i] = b[i - Len(a)] /\ c[i + 1] = b[i + 1 - Len(a)]
      BY <1>1, <2>0, <2>3
    <3> QED BY <3>1 DEF Of
  <2> QED BY <2>0, <2>1, <2>2, <2>3
<1> QED BY <1>1, <1>2, <1>3 DEF WholeLines

\* A part of one stream is of that stream.
LEMMA PartOf ==
    ASSUME NEW seq \in Seq(Piece), NEW s, Of(s, seq), NEW m \in Nat, NEW n \in Nat,
           1 <= m, n <= Len(seq)
    PROVE  SubSeq(seq, m, n) \in Seq(Piece) /\ Of(s, SubSeq(seq, m, n))
<1>1. CASE m <= n
  <2>1. /\ SubSeq(seq, m, n) \in Seq(Piece) /\ Len(SubSeq(seq, m, n)) = n - m + 1
        /\ \A i \in 1..(n - m + 1) : SubSeq(seq, m, n)[i] = seq[m + i - 1]
    BY <1>1
  <2>2. \A i \in 1..(n - m + 1) : m + i - 1 \in 1..Len(seq)
    BY <1>1
  <2> QED BY <2>1, <2>2 DEF Of
<1>2. CASE m > n
  <2>1. SubSeq(seq, m, n) = <<>>
    BY <1>2
  <2> QED BY <2>1 DEF Of
<1> QED BY <1>1, <1>2

LEMMA ConcatOf ==
    ASSUME NEW a \in Seq(Piece), NEW b \in Seq(Piece), NEW s, Of(s, a), Of(s, b)
    PROVE  a \o b \in Seq(Piece) /\ Of(s, a \o b)
<1>1. /\ a \o b \in Seq(Piece) /\ Len(a \o b) = Len(a) + Len(b)
      /\ \A i \in 1..Len(a \o b) : (a \o b)[i] = IF i <= Len(a) THEN a[i] ELSE b[i - Len(a)]
  OBVIOUS
<1>2. \A i \in 1..Len(a \o b) : i <= Len(a) \/ i - Len(a) \in 1..Len(b)
  BY <1>1
<1>3. \A i \in 1..Len(a \o b) : i <= Len(a) => i \in 1..Len(a)
  BY <1>1
<1> QED BY <1>1, <1>2, <1>3 DEF Of

\* What is shown at the end of a stream is of that stream and ends a line.
LEMMA EndedOf ==
    ASSUME NEW seq \in Seq(Piece), NEW s \in Streams, Of(s, seq)
    PROVE  Ended(seq) \in Seq(Piece) /\ Of(s, Ended(seq)) /\ EndsLine(Ended(seq))
<1>1. CASE seq = <<>>
  BY <1>1 DEF Ended, Of, EndsLine
<1>2. CASE seq # <<>>
  <2> DEFINE last == [seq[Len(seq)] EXCEPT !.eol = TRUE]
  <2>1. Len(seq) \in 1..Len(seq) /\ seq[Len(seq)] \in Piece
    BY <1>2
  <2>2. last \in Piece /\ last.eol /\ last.stream = s
    BY <2>1 DEF Piece, Of
  <2>3. Ended(seq) = [seq EXCEPT ![Len(seq)] = last]
    BY <1>2 DEF Ended
  <2> HIDE DEF last
  <2>4. /\ Ended(seq) \in Seq(Piece) /\ Len(Ended(seq)) = Len(seq)
        /\ \A i \in 1..Len(seq) : Ended(seq)[i] = IF i = Len(seq) THEN last ELSE seq[i]
    BY <2>1, <2>2, <2>3
  <2> QED BY <1>2, <2>1, <2>2, <2>4 DEF Of, EndsLine
<1> QED BY <1>1, <1>2

Printed == OutputTyped /\ StreamsApart

LEMMA BlankOutput ==
    ASSUME data = Blank, pending = Blank, lines = <<>>, pipe = Blank
    PROVE  Printed
<1>1. Blank \in [Streams -> Seq(Piece)] /\ <<>> \in Seq(Piece)
  BY DEF Blank
<1>2. \A s \in Streams : Of(s, Blank[s])
  BY DEF Of, Blank
<1>3. WholeLines(<<>>)
  BY DEF WholeLines, EndsLine
<1> QED BY <1>1, <1>2, <1>3 DEF Printed, OutputTyped, StreamsApart

LEMMA EndOutput == End => Printed'
<1>1. End => (data = Blank /\ pending = Blank /\ lines = <<>> /\ pipe = Blank)'
  BY DEF End
<1>2. data = Blank /\ pending = Blank /\ lines = <<>> /\ pipe = Blank => Printed
  BY BlankOutput
<1> QED BY <1>1, <1>2, PTL

\* A watch reads a chunk.
LEMMA ReadSomeOutput ==
    ASSUME Printed, NEW k \in Kinds, NEW s \in Streams, ReadSome(k, s)
    PROVE  Printed'
<1>1. PICK n \in 1..Len(pipe[s]) :
          /\ pipe' = [pipe EXCEPT ![s] = SubSeq(@, n + 1, Len(@))]
          /\ LET seq == pending[s] \o SubSeq(pipe[s], 1, n)
             IN  IF Shows(k, s) THEN ShowLines(s, seq) ELSE Gather(s, seq)
  BY DEF ReadSome
<1> DEFINE seq == pending[s] \o SubSeq(pipe[s], 1, n)
<1>2. /\ pipe[s] \in Seq(Piece) /\ Of(s, pipe[s]) /\ pending[s] \in Seq(Piece)
      /\ Of(s, pending[s]) /\ n \in Nat /\ 1 <= n /\ n <= Len(pipe[s]) /\ Len(pipe[s]) \in Nat
  BY DEF Printed, OutputTyped, StreamsApart
<1>3. SubSeq(pipe[s], 1, n) \in Seq(Piece) /\ Of(s, SubSeq(pipe[s], 1, n))
  BY <1>2, PartOf
<1>4. seq \in Seq(Piece) /\ Of(s, seq)
  BY <1>2, <1>3, ConcatOf
<1>5. /\ SubSeq(pipe[s], n + 1, Len(pipe[s])) \in Seq(Piece)
      /\ Of(s, SubSeq(pipe[s], n + 1, Len(pipe[s])))
  BY <1>2, PartOf
<1>6. pipe' \in [Streams -> Seq(Piece)] /\ \A t \in Streams : Of(t, pipe'[t])
  BY <1>1, <1>5 DEF Printed, OutputTyped, StreamsApart
<1>7. UNCHANGED data
  BY DEF ReadSome
<1> HIDE DEF seq
<1>8. CASE Shows(k, s)
  <2>1. /\ lines' = lines \o SubSeq(seq, 1, Whole(seq))
        /\ pending' = [pending EXCEPT ![s] = SubSeq(seq, Whole(seq) + 1, Len(seq))]
    BY <1>1, <1>8 DEF seq, ShowLines
  <2> DEFINE w == Whole(seq)
             head == SubSeq(seq, 1, w)
             tail == SubSeq(seq, w + 1, Len(seq))
  <2>2. w \in 0..Len(seq) /\ (w = 0 \/ seq[w].eol) /\ Len(seq) \in Nat /\ w \in Nat
    BY <1>4, WholeType
  <2>3. head \in Seq(Piece) /\ Of(s, head)
    BY <1>4, <2>2, PartOf
  <2>4. EndsLine(head)
    <3>1. CASE w = 0
      <4>1. head = <<>>
        BY <1>4, <3>1
      <4> QED BY <4>1 DEF EndsLine
    <3>2. CASE w > 0
      <4>1. Len(head) = w /\ head[w] = seq[w]
        BY <1>4, <2>2, <3>2
      <4> QED BY <2>2, <3>2, <4>1 DEF EndsLine
    <3> QED BY <2>2, <3>1, <3>2
  <2>5. tail \in Seq(Piece) /\ Of(s, tail)
    BY <1>4, <2>2, PartOf
  <2> HIDE DEF head, tail
  <2>6. lines' = lines \o head /\ pending' = [pending EXCEPT ![s] = tail]
    BY <2>1 DEF head, tail
  <2>7. lines \o head \in Seq(Piece) /\ WholeLines(lines \o head)
    BY <2>3, <2>4, WholeConcat DEF Printed, OutputTyped, StreamsApart
  <2>8. pending' \in [Streams -> Seq(Piece)] /\ \A t \in Streams : Of(t, pending'[t])
    BY <2>5, <2>6 DEF Printed, OutputTyped, StreamsApart
  <2> QED BY <1>6, <1>7, <2>6, <2>7, <2>8 DEF Printed, OutputTyped, StreamsApart
<1>9. CASE ~Shows(k, s)
  <2>1. pending' = [pending EXCEPT ![s] = seq] /\ UNCHANGED lines
    BY <1>1, <1>9 DEF seq, Gather
  <2>2. pending' \in [Streams -> Seq(Piece)] /\ \A t \in Streams : Of(t, pending'[t])
    BY <1>4, <2>1 DEF Printed, OutputTyped, StreamsApart
  <2> QED BY <1>6, <1>7, <2>1, <2>2 DEF Printed, OutputTyped, StreamsApart
<1> QED BY <1>8, <1>9

\* A stream is shut down.
LEMMA ShutOutput ==
    ASSUME Printed, NEW k \in Kinds, NEW s \in Streams, Shut(k, s),
           UNCHANGED pipe \/ pipe' = [pipe EXCEPT ![s] = <<>>]
    PROVE  Printed'
<1>1. <<>> \in Seq(Piece) /\ Of(s, <<>>)
  BY DEF Of
<1>2. pipe' \in [Streams -> Seq(Piece)] /\ \A t \in Streams : Of(t, pipe'[t])
  BY <1>1 DEF Printed, OutputTyped, StreamsApart
<1>3. pending' \in [Streams -> Seq(Piece)] /\ \A t \in Streams : Of(t, pending'[t])
  BY <1>1 DEF Shut, Printed, OutputTyped, StreamsApart
<1>4. pending[s] \in Seq(Piece) /\ Of(s, pending[s])
  BY DEF Printed, OutputTyped, StreamsApart
<1>5. /\ data' \in [Streams -> Seq(Piece)]
      /\ lines' \in Seq(Piece) /\ WholeLines(lines')
  <2>1. CASE Shows(k, s)
    <3>1. lines \o Ended(pending[s]) \in Seq(Piece) /\ WholeLines(lines \o Ended(pending[s]))
      BY <1>4, EndedOf, WholeConcat DEF Printed, OutputTyped, StreamsApart
    <3> QED BY <2>1, <3>1 DEF Shut, Printed, OutputTyped
  <2>2. CASE ~Shows(k, s)
    BY <1>4, <2>2 DEF Shut, Deliver, Printed, OutputTyped, StreamsApart
  <2> QED BY <2>1, <2>2
<1> QED BY <1>2, <1>3, <1>5 DEF Printed, OutputTyped, StreamsApart

LEMMA OutputStep == Printed /\ [Next]_vars => Printed'
<1> SUFFICES ASSUME Printed, [Next]_vars PROVE Printed'
  OBVIOUS
<1> USE DEF library, pane, output, choice, command, commands, Environment
<1>0. /\ data \in [Streams -> Seq(Piece)] /\ pending \in [Streams -> Seq(Piece)]
      /\ lines \in Seq(Piece) /\ pipe \in [Streams -> Seq(Piece)]
      /\ \A s \in Streams : Of(s, pipe[s]) /\ Of(s, pending[s])
      /\ WholeLines(lines)
  BY DEF Printed, OutputTyped, StreamsApart
<1>a. <<>> \in Seq(Piece) /\ WholeLines(<<>>) /\ Blank \in [Streams -> Seq(Piece)]
      /\ \A s \in Streams : Of(s, Blank[s])
  BY DEF WholeLines, EndsLine, Blank, Of
<1>1. ASSUME UNCHANGED pending, data' \in [Streams -> Seq(Piece)],
             lines' \in {lines, <<>>}, pipe' \in {pipe, Blank}
      PROVE  Printed'
  BY <1>0, <1>a, <1>1 DEF Printed, OutputTyped, StreamsApart
<1>2. ASSUME \/ LoadFails \/ BuildCrashes \/ Quit \/ UseGone
      PROVE  Printed'
  BY <1>2, EndOutput DEF LoadFails, BuildCrashes, Quit, UseGone
<1>3. ASSUME Build, ~BuildCrashes PROVE Printed'
  <2>1. UNCHANGED <<data, pending>> /\ lines' \in {lines, <<>>} /\ pipe' \in {pipe, Blank}
    <3>1. ASSUME \/ BuildNone \/ BuildMenu \/ BuildDialog \/ BuildHidden
                 \/ StartInitcommand \/ StartInitcommandFails
          PROVE  UNCHANGED output /\ pipe' \in {pipe, Blank}
      BY <3>1 DEF BuildNone, BuildMenu, BuildDialog, BuildHidden, StartInitcommand,
         StartInitcommandFails, Spawn
    <3>2. ASSUME BuildAction \/ BuildActionFails \/ BuildActionRefused
          PROVE  /\ UNCHANGED <<data, pending>> /\ lines' \in {lines, <<>>}
                 /\ pipe' \in {pipe, Blank}
      BY <3>2 DEF BuildAction, BuildActionFails, BuildActionRefused, ActionPane, Spawn
    <3> QED BY <1>3, <3>1, <3>2 DEF Build
  <2> QED BY <1>0, <1>1, <2>1
<1>4. ASSUME User, ~Quit PROVE Printed'
  <2>1. UNCHANGED <<data, pending>> /\ lines' \in {lines, <<>>} /\ pipe' \in {pipe, Blank}
    <3>1. ASSUME \/ ClickPrevious \/ NextFromDialog \/ NextFromDialogRefused
                 \/ \E n \in Nodes : NextFromMenu(n)
                 \/ \E f \in FieldsHere, v \in Values : Type(f, v)
          PROVE  UNCHANGED <<data, pending, pipe>> /\ lines' \in {lines, <<>>}
      BY <3>1 DEF ClickPrevious, NextFromDialog, NextFromDialogRefused, NextFromMenu, Type
    <3>2. ASSUME \/ \E f \in FieldsHere : StartList(f) \/ StartListFails(f) \/ StartRing(f)
                 \/ Answer \/ ClickCancel \/ CloseFilling
          PROVE  /\ UNCHANGED <<data, pending>> /\ lines' \in {lines, <<>>}
                 /\ pipe' \in {pipe, Blank}
      BY <3>2 DEF StartList, StartListFails, StartRing, Answer, ClickCancel, CloseFilling,
         Spawn
    <3> QED BY <1>4, <3>1, <3>2 DEF User
  <2> QED BY <1>0, <1>1, <2>1
<1>5. ASSUME NEW s \in Streams, Reads(s) PROVE Printed'
  <2>1. PICK k \in Kinds : ReadSome(k, s) \/ ReadEnd(k, s) \/ ReadError(k, s)
    BY <1>5 DEF Reads
  <2>2. CASE ReadSome(k, s)
    BY <2>2, ReadSomeOutput
  <2>3. CASE ReadEnd(k, s) \/ ReadError(k, s)
    BY <2>3, ShutOutput DEF ReadEnd, ReadError
  <2> QED BY <2>1, <2>2, <2>3
<1>6. ASSUME \/ \E k \in Kinds : Poll(k)
             \/ FinishInitcommand \/ FinishList \/ FinishAction
      PROVE  Printed'
  <2>1. /\ UNCHANGED pending /\ lines' \in {lines, <<>>} /\ pipe' \in {pipe, Blank}
        /\ data' \in {data, Blank, [data EXCEPT !["err"] = <<>>]}
    BY <1>6 DEF Poll, FinishInitcommand, FinishList, FinishAction, Finish
  <2>2. data' \in [Streams -> Seq(Piece)]
    BY <1>0, <1>a, <2>1
  <2> QED BY <1>1, <2>1, <2>2
<1>7. ASSUME NEW piece \in Output, Write(piece) PROVE Printed'
  <2>1. piece \in Piece /\ piece.stream \in Streams
    BY ActionsAssumption DEF Piece
  <2> DEFINE s == piece.stream
             more == Append(pipe[s], piece)
  <2>2. /\ more \in Seq(Piece) /\ Len(more) = Len(pipe[s]) + 1
        /\ \A i \in 1..Len(more) : more[i] = IF i <= Len(pipe[s]) THEN pipe[s][i] ELSE piece
    BY <1>0, <2>1
  <2>3. Of(s, more)
    <3>1. \A i \in 1..Len(more) : i <= Len(pipe[s]) => i \in 1..Len(pipe[s])
      BY <2>2
    <3> QED BY <1>0, <2>1, <2>2, <3>1 DEF Of
  <2>4. pipe' = [pipe EXCEPT ![s] = more] /\ UNCHANGED output
    BY <1>7 DEF Write
  <2> HIDE DEF more
  <2> QED BY <1>0, <2>1, <2>2, <2>3, <2>4 DEF Printed, OutputTyped, StreamsApart
<1>8. ASSUME UNCHANGED <<output, pipe>> PROVE Printed'
  BY <1>0, <1>1, <1>8
<1>9. ASSUME \/ Loaded \/ RingFilled \/ \E ok \in BOOLEAN : Exit(ok)
             \/ Fork \/ CloseStreams \/ RestExits \/ Terminated
      PROVE  UNCHANGED <<output, pipe>>
  BY <1>9 DEF Loaded, RingFilled, Exit, Fork, CloseStreams, RestExits, Terminated
<1> QED
  BY <1>2, <1>3, <1>4, <1>5, <1>6, <1>7, <1>8, <1>9 DEF Next, Polls, Processes, vars

-----------------------------------------------------------------------------
(* Whose command it is.  What has to hold for it is what the buttons and   *)
(* the dialogs let the user do meanwhile.                                  *)
RingIdle == <<"ring", "idle">>

\* Nothing is collected while a screen is built, and no button leads away.
BuildsAlone ==
    pc # "loop" => sources = {} /\ ~Grabbed /\ ~sens.next /\ ~sens.previous

\* The panes are sensitive meanwhile only when they show an action.
ScreensIdle ==
    sens.screens /\ (pc # "loop" \/ Collecting) => page # Null /\ TypeOf(page) = "ACTION"

\* A dialog that can be used is the session's own, and so is any screen that
\* can be left forwards.
PaneIsTop ==
    /\ sens.next => page = Top.node
    /\ sens.screens /\ page # Null /\ TypeOf(page) = "DIALOG" => page = Top.node
    /\ Grabbed => page = Top.node

\* A ring's dialog is filled with nothing beside it.
RingAlone ==
    RingIdle \in sources =>
        /\ sources = {RingIdle} /\ dialog \in {"filling", "gone"}
        /\ ~sens.screens /\ ~sens.next /\ ~sens.previous

\* The sources are those of one command, or none.
OneCommand ==
    /\ ~Collecting => sources \subseteq {RingIdle}
    /\ Collecting /\ proc.kind # "lc" => ~Grabbed

Owned == /\ CommandOwnsScreen /\ BuildsAlone /\ ScreensIdle /\ PaneIsTop
         /\ RingAlone /\ OneCommand

LEMMA BlankOwned == Blanked /\ pc # "loop" => Owned
BY DEF Blanked, Owned, CommandOwnsScreen, BuildsAlone, ScreensIdle, PaneIsTop, RingAlone,
   OneCommand, Collecting, Grabbed, Busy

LEMMA EndOwned == End => Owned'
<1>1. End => Blanked' /\ (pc # "loop")'
  BY DEF End, Blanked
<1> QED BY <1>1, BlankOwned, PTL

LEMMA OwnedStep == Typed /\ Owned /\ [Next]_vars => Owned'
<1> SUFFICES ASSUME Typed, Owned, [Next]_vars PROVE Owned'
  OBVIOUS
<1> USE DEF library, pane, output, choice, command, commands, Environment
<1> USE DEF Owned, CommandOwnsScreen, BuildsAlone, ScreensIdle, PaneIsTop, RingAlone, OneCommand,
        Collecting, Grabbed, RingIdle, Kinds, Streams, Top
<1>1. ASSUME \/ LoadFails \/ BuildCrashes \/ Quit \/ UseGone
      PROVE  Owned'
  BY <1>1, EndOwned DEF LoadFails, BuildCrashes, Quit, UseGone
<1>2. /\ sens \in [screens : BOOLEAN, next : BOOLEAN, previous : BOOLEAN, cancel : BOOLEAN]
      /\ sources \subseteq (Kinds \X (Streams \cup {"timeout"})) \cup {RingIdle}
      /\ proc \in Command
  BY DEF Typed, PaneTyped, CommandTyped
<1>a. \A n : TypeOf(n) = "ACTION" => n # Null
  BY DEF TypeOf
<1>3. ASSUME Loaded PROVE Owned'
  BY <1>2, <1>3 DEF Loaded
<1>4. ASSUME BuildNone PROVE Owned'
  BY <1>2, <1>4 DEF BuildNone, Building
<1>5. ASSUME BuildMenu PROVE Owned'
  BY <1>2, <1>5 DEF BuildMenu, Building, NothingHere, StepBack, Show, FinishActivity
<1>6. ASSUME BuildDialog PROVE Owned'
  BY <1>2, <1>6 DEF BuildDialog, Building, NothingHere, StepBack, Show, FinishActivity
<1>7. ASSUME BuildHidden PROVE Owned'
  BY <1>2, <1>7 DEF BuildHidden, Building
<1>8. ASSUME StartInitcommand PROVE Owned'
  BY <1>2, <1>8 DEF StartInitcommand, Spawn, NoProc
<1>9. ASSUME StartInitcommandFails PROVE Owned'
  BY <1>2, <1>9 DEF StartInitcommandFails
<1>10. ASSUME BuildAction PROVE Owned'
  <2>1. PICK tty \in Tty[NameOf(Top.node)] \ {"SELF"} : Spawn("ac", tty = "YES")
    BY <1>10 DEF BuildAction
  <2>2. /\ sources' = {<<"ac", "timeout">>} \cup IF tty = "YES" THEN {"ac"} \X Streams ELSE {}
        /\ chan' = [s \in Streams |-> tty = "YES"]
        /\ proc'.kind = "ac" /\ proc'.for = Top.node
    BY <1>10, <2>1 DEF BuildAction, Building, Spawn, NoProc
  <2>3. /\ page' = Top.node /\ TypeOf(page') = "ACTION" /\ page' # Null
        /\ pc' = "loop" /\ UNCHANGED <<library, choice>>
        /\ ~sens'.next /\ ~sens'.previous /\ ~Grabbed
    BY <1>2, <1>a, <1>10 DEF BuildAction, Building, ActionPane
  <2>4. \A s \in Streams : chan'[s] <=> <<"ac", s>> \in sources'
    BY <2>2
  <2>5. sources' \subseteq {"ac"} \X (Streams \cup {"timeout"}) /\ Collecting'
    BY <2>2
  <2> QED BY <2>2, <2>3, <2>4, <2>5
<1>11. ASSUME BuildActionFails PROVE Owned'
  BY <1>2, <1>11 DEF BuildActionFails, Building, ActionPane, FinishActivity
<1>12. ASSUME BuildActionRefused PROVE Owned'
  BY <1>2, <1>a, <1>12 DEF BuildActionRefused, Building, ActionPane
<1>13. ASSUME ClickPrevious PROVE Owned'
  BY <1>2, <1>13 DEF ClickPrevious, CanPress, StartActivity, Busy
<1>14. ASSUME NextFromDialog PROVE Owned'
  BY <1>2, <1>14 DEF NextFromDialog, CanPress, StartActivity, Busy
<1>15. ASSUME NextFromDialogRefused PROVE Owned'
  <2>1. PICK i \in DOMAIN FieldsOf(page) : trail' = StoreFields(i - 1)
    BY <1>15 DEF NextFromDialogRefused
  <2>2. /\ page \in Nodes /\ trail # <<>> /\ trail \in Seq(Scope)
        /\ entry \in [Symbols -> Values]
    BY <1>15 DEF NextFromDialogRefused, CanPress, Typed, LibraryTyped, PaneTyped
  <2>3. i - 1 \in Nat /\ i - 1 <= Len(FieldsOf(page))
    BY <2>2, FieldFacts
  <2>4. trail'[Len(trail')].node = trail[Len(trail)].node
    BY <2>1, <2>2, <2>3, StoreType
  <2> QED BY <1>2, <1>15, <2>4 DEF NextFromDialogRefused, CanPress
<1>16. ASSUME NEW n \in Nodes, NextFromMenu(n) PROVE Owned'
  BY <1>2, <1>16 DEF NextFromMenu, CanPress, StartActivity, Busy
<1>17. ASSUME NEW f \in FieldsHere, NEW v \in Values, Type(f, v) PROVE Owned'
  BY <1>2, <1>17 DEF Type
<1>18. ASSUME NEW f \in FieldsHere, StartList(f) PROVE Owned'
  BY <1>2, <1>18 DEF StartList, Listable, CanPress, StartActivity, Busy, Spawn, NoProc
<1>19. ASSUME NEW f \in FieldsHere, StartListFails(f) PROVE Owned'
  BY <1>2, <1>19 DEF StartListFails, Listable, CanPress, FinishActivity
<1>20. ASSUME NEW f \in FieldsHere, StartRing(f) PROVE Owned'
  BY <1>2, <1>20 DEF StartRing, Listable, CanPress, StartActivity, Busy
<1>21. ASSUME Answer PROVE Owned'
  BY <1>2, <1>21 DEF Answer, FinishActivity
<1>22. ASSUME ClickCancel PROVE Owned'
  BY <1>2, <1>22 DEF ClickCancel, SigTerm, Command
<1>23. ASSUME CloseFilling PROVE Owned'
  BY <1>2, <1>23 DEF CloseFilling
<1>24. ASSUME RingFilled PROVE Owned'
  BY <1>2, <1>24 DEF RingFilled
<1>25. ASSUME NEW s \in Streams, NEW k \in Kinds, ReadSome(k, s) PROVE Owned'
  BY <1>2, <1>25 DEF ReadSome
<1>26. ASSUME NEW s \in Streams, NEW k \in Kinds, ReadEnd(k, s) \/ ReadError(k, s)
       PROVE  Owned'
  <2>1. /\ <<k, s>> \in sources /\ sources' = sources \ {<<k, s>>}
        /\ chan' = [chan EXCEPT ![s] = FALSE] /\ proc'.kind = proc.kind /\ proc'.for = proc.for
        /\ UNCHANGED <<library, pc, pane, sens, choice>>
    BY <1>2, <1>26 DEF ReadEnd, ReadError, Watching, Shut, Forget, Command
  <2>2. Collecting /\ k = proc.kind
    BY <2>1
  <2>3. \A t \in Streams : chan'[t] <=> <<proc.kind, t>> \in sources'
    BY <2>1, <2>2 DEF Typed, CommandTyped
  <2>4. Collecting'
    BY <2>1, <2>2
  <2> QED BY <1>2, <2>1, <2>2, <2>3, <2>4
<1>27. ASSUME NEW k \in Kinds, Poll(k) PROVE Owned'
  BY <1>2, <1>27 DEF Poll, Command
<1>28. ASSUME FinishInitcommand PROVE Owned'
  BY <1>2, <1>28 DEF FinishInitcommand, Finish, Removed, Complete
<1>29. ASSUME FinishList PROVE Owned'
  BY <1>2, <1>29 DEF FinishList, Finish, Removed, Complete, FinishActivity
<1>30. ASSUME FinishAction PROVE Owned'
  BY <1>2, <1>30 DEF FinishAction, Finish, Removed, Complete, FinishActivity
<1>31. ASSUME Processes PROVE Owned'
  <2>1. /\ UNCHANGED <<library, pc, pane, sens, chan, choice, sources>>
        /\ proc'.kind = proc.kind /\ proc'.for = proc.for
    <3>1. UNCHANGED <<library, pc, pane, sens, chan, choice, sources>>
      BY <1>31 DEF Processes, Write, Exit, Fork, CloseStreams, RestExits, Terminated
    <3>2. ASSUME NEW piece \in Output, Write(piece)
          PROVE  proc'.kind = proc.kind /\ proc'.for = proc.for
      BY <1>2, <3>2 DEF Write, Command
    <3>3. ASSUME \/ \E ok \in BOOLEAN : Exit(ok)
                 \/ Fork \/ CloseStreams \/ RestExits \/ Terminated
          PROVE  proc'.kind = proc.kind /\ proc'.for = proc.for
      BY <1>2, <3>3 DEF Exit, Fork, CloseStreams, RestExits, Terminated, Command
    <3> QED BY <1>31, <3>1, <3>2, <3>3 DEF Processes
  <2> QED BY <1>2, <2>1
<1>32. ASSUME UNCHANGED vars PROVE Owned'
  BY <1>32 DEF vars
<1> QED
  BY <1>1, <1>3, <1>4, <1>5, <1>6, <1>7, <1>8, <1>9, <1>10, <1>11, <1>12, <1>13, <1>14, <1>15,
     <1>16, <1>17, <1>18, <1>19, <1>20, <1>21, <1>22, <1>23, <1>24, <1>25, <1>26, <1>27, <1>28,
     <1>29, <1>30, <1>31, <1>32 DEF Next, Build, User, Polls, Reads

-----------------------------------------------------------------------------
(* What is collected is what the command wrote.                            *)

\* A process that ended, and whatever it left behind.
Resting == proc = [NoProc EXCEPT !.rest = proc.rest]

\* Nothing is left of a command that is not collected any more, and nothing is
\* heard of one that still is.
Tidy ==
    /\ \A s \in Streams : ~chan[s] => pending[s] = <<>>
    /\ data["out"] # <<>> => Collecting /\ proc.kind = "ic" /\ ~chan["out"]
    /\ ~Collecting => Resting /\ child_pid # "child" /\ \A s \in Streams : ~chan[s]
    /\ Collecting => /\ proc.kind \in Kinds /\ proc.for # Null /\ given = NotGiven
                     /\ proc.leader # "none"
                     /\ child_pid = "reaped" <=> proc.leader = "reaped"

\* Where the output of a command is gathered: what was read of it, what waits
\* for the end of its line, and what the pipe holds are all it has written.
Collected == IF proc.kind = "ic" THEN data["out"]
             ELSE IF proc.kind = "lc" THEN lines ELSE FromOut(lines)
NothingLost ==
    Collecting /\ ~proc.torn =>
        IF chan["out"]
        THEN (Collected \o pending["out"]) \o pipe["out"] = proc.wrote["out"]
        ELSE FrontEnd!Same(Collected, proc.wrote["out"])

Gathered == Tidy /\ NothingLost

\* What is shown of the output does not depend on what is shown of the errors.
LEMMA FromOutConcat ==
    ASSUME NEW a \in Seq(Piece), NEW b \in Seq(Piece), NEW s \in Streams, Of(s, b)
    PROVE  /\ FromOut(a) \in Seq(Piece)
           /\ FromOut(a \o b) = IF s = "out" THEN FromOut(a) \o b ELSE FromOut(a)
<1> DEFINE P == {i \in 1..Len(a) : a[i].stream = "out"}
           Q == {i \in 1..Len(a \o b) : (a \o b)[i].stream = "out"}
<1>1. /\ a \o b \in Seq(Piece) /\ Len(a \o b) = Len(a) + Len(b)
      /\ \A i \in 1..Len(a) : (a \o b)[i] = a[i]
      /\ \A i \in 1..Len(b) : (a \o b)[Len(a) + i] = b[i]
  BY ConcatFacts
<1>2. /\ \A i \in 1..Len(a) : i \in 1..(Len(a) + Len(b))
      /\ \A i \in 1..Len(b) : Len(a) + i \in 1..(Len(a) + Len(b))
  OBVIOUS
<1>3. \A i \in 1..Len(a) : i \in P <=> i \in Q
  BY <1>1, <1>2
<1>4. \A i \in 1..Len(b) : Len(a) + i \in Q <=> s = "out"
  BY <1>1, <1>2 DEF Of
<1>5. FromOut(a) = Sift(a, P) /\ FromOut(a \o b) = Sift(a \o b, Q)
  BY DEF FromOut
<1> HIDE DEF P, Q
<1>6. Sift(a, P) \in Seq(Piece)
  <2>1. \A i \in 1..Len(a) : i \in P <=> i \in P
    OBVIOUS
  <2> QED BY <2>1, SiftSame
<1>7. CASE s = "out"
  <2>1. Sift(a \o b, Q) = Sift(a, P) \o b
    BY <1>3, <1>4, <1>7, SiftConcat
  <2> QED BY <1>5, <1>6, <1>7, <2>1
<1>8. CASE s # "out"
  <2>1. Sift(a \o b, Q) = Sift(a, P)
    BY <1>3, <1>4, <1>8, SiftConcat
  <2> QED BY <1>5, <1>6, <1>8, <2>1
<1> QED BY <1>7, <1>8

\* Cutting a sequence, and putting its end back.
LEMMA CutFacts ==
    ASSUME NEW seq \in Seq(Piece), NEW n \in 0..Len(seq)
    PROVE  /\ SubSeq(seq, 1, n) \in Seq(Piece) /\ SubSeq(seq, n + 1, Len(seq)) \in Seq(Piece)
           /\ SubSeq(seq, 1, n) \o SubSeq(seq, n + 1, Len(seq)) = seq
<1>1. PICK l \in Nat : l = Len(seq) /\ n \in 0..l
  OBVIOUS
<1>2. PICK a \in Seq(Piece) : /\ a = SubSeq(seq, 1, n) /\ Len(a) = n
                              /\ \A i \in 1..n : a[i] = seq[i]
  <2>1. SubSeq(seq, 1, n) \in Seq(Piece) /\ Len(SubSeq(seq, 1, n)) = n
        /\ \A i \in 1..n : SubSeq(seq, 1, n)[i] = seq[i]
    BY <1>1
  <2> QED BY <2>1
<1>3. PICK b \in Seq(Piece) : /\ b = SubSeq(seq, n + 1, l) /\ Len(b) = l - n
                              /\ \A i \in 1..(l - n) : b[i] = seq[n + i]
  <2>1. CASE n < l
    <3>1. /\ SubSeq(seq, n + 1, l) \in Seq(Piece) /\ Len(SubSeq(seq, n + 1, l)) = l - n
          /\ \A i \in 1..(l - n) : SubSeq(seq, n + 1, l)[i] = seq[n + i]
      BY <1>1, <2>1
    <3> QED BY <3>1
  <2>2. CASE n = l
    <3>1. SubSeq(seq, n + 1, l) = <<>> /\ l - n = 0 /\ <<>> \in Seq(Piece) /\ Len(<<>>) = 0
      BY <1>1, <2>2
    <3>2. \A i \in 1..(l - n) : FALSE
      BY <3>1
    <3> QED BY <3>1, <3>2
  <2>3. n < l \/ n = l
    BY <1>1
  <2> QED BY <2>1, <2>2, <2>3
<1>4. PICK c \in Seq(Piece) : /\ c = a \o b /\ Len(c) = l
                              /\ \A i \in 1..n : c[i] = a[i]
                              /\ \A i \in 1..(l - n) : c[n + i] = b[i]
  <2>1. /\ a \o b \in Seq(Piece) /\ Len(a \o b) = Len(a) + Len(b)
        /\ \A i \in 1..Len(a) : (a \o b)[i] = a[i]
        /\ \A i \in 1..Len(b) : (a \o b)[Len(a) + i] = b[i]
    BY ConcatFacts
  <2>2. PICK c \in Seq(Piece) : c = a \o b
    BY <2>1
  <2>3. /\ Len(c) = l
        /\ \A i \in 1..n : c[i] = a[i]
        /\ \A i \in 1..(l - n) : c[n + i] = b[i]
    <3>1. /\ Len(c) = Len(a) + Len(b)
          /\ \A i \in 1..Len(a) : c[i] = a[i]
          /\ \A i \in 1..Len(b) : c[Len(a) + i] = b[i]
      BY <2>1, <2>2, Zenon
    <3>2. Len(c) = l /\ Len(a) = n /\ Len(b) = l - n
      BY <1>1, <1>2, <1>3, <3>1
    <3> QED BY <3>1, <3>2, Zenon
  <2> QED BY <2>2, <2>3, Zenon
<1>5. ASSUME NEW i \in 1..l PROVE c[i] = seq[i]
  <2>1. CASE i <= n
    BY <1>1, <1>2, <1>4, <2>1
  <2>2. CASE i > n
    <3>1. i - n \in 1..(l - n) /\ n + (i - n) = i
      BY <1>1, <2>2
    <3> QED BY <1>3, <1>4, <3>1
  <2> QED BY <1>1, <2>1, <2>2
<1>6. c = seq
  BY <1>1, <1>4, <1>5, SameSequence
<1> QED BY <1>1, <1>2, <1>3, <1>4, <1>6

\* The last piece of a stream may end its line on the screen only.
LEMMA EndedSame ==
    ASSUME NEW a \in Seq(Piece), NEW b \in Seq(Piece)
    PROVE  FrontEnd!Same(a \o Ended(b), a \o b)
<1>1. CASE b = <<>>
  <2>1. PICK c \in Seq(Piece) : c = a \o b
    BY ConcatFacts
  <2>2. Ended(b) = b
    BY <1>1 DEF Ended
  <2> QED BY <2>1, <2>2 DEF FrontEnd!Same
<1>2. CASE b # <<>>
  <2>1. PICK m \in Nat, n \in Nat : m = Len(a) /\ n = Len(b) /\ n > 0
    BY <1>2
  <2>2. PICK e : e = [b[n] EXCEPT !.eol = TRUE]
    OBVIOUS
  <2>3. n \in 1..n /\ b[n] \in Piece
    BY <2>1
  <2>4. e \in Piece
    BY <2>2, <2>3 DEF Piece
  <2>5. PICK d \in Seq(Piece) : /\ d = Ended(b) /\ Len(d) = n
                                /\ \A i \in 1..n : i < n => d[i] = b[i]
    <3>1. Ended(b) = [b EXCEPT ![n] = e]
      BY <1>2, <2>1, <2>2 DEF Ended
    <3>2. [b EXCEPT ![n] = e] \in Seq(Piece) /\ Len([b EXCEPT ![n] = e]) = n
          /\ \A i \in 1..n : i < n => [b EXCEPT ![n] = e][i] = b[i]
      BY <2>1, <2>3, <2>4
    <3> QED BY <3>1, <3>2
  <2>6. PICK u \in Seq(Piece) : /\ u = a \o d /\ Len(u) = m + n
                                /\ \A i \in 1..m : u[i] = a[i]
                                /\ \A i \in 1..n : u[m + i] = d[i]
    <3>0. /\ a \o d \in Seq(Piece) /\ Len(a \o d) = Len(a) + Len(d)
          /\ \A i \in 1..Len(a) : (a \o d)[i] = a[i]
          /\ \A i \in 1..Len(d) : (a \o d)[Len(a) + i] = d[i]
      BY ConcatFacts
    <3>1. PICK c \in Seq(Piece) :
              /\ c = a \o d /\ Len(c) = Len(a) + Len(d)
              /\ \A i \in 1..Len(a) : c[i] = a[i]
              /\ \A i \in 1..Len(d) : c[Len(a) + i] = d[i]
      BY <3>0, Zenon
    <3> QED BY <2>1, <2>5, <3>1
  <2>7. PICK v \in Seq(Piece) : /\ v = a \o b /\ Len(v) = m + n
                                /\ \A i \in 1..m : v[i] = a[i]
                                /\ \A i \in 1..n : v[m + i] = b[i]
    <3>0. /\ a \o b \in Seq(Piece) /\ Len(a \o b) = Len(a) + Len(b)
          /\ \A i \in 1..Len(a) : (a \o b)[i] = a[i]
          /\ \A i \in 1..Len(b) : (a \o b)[Len(a) + i] = b[i]
      BY ConcatFacts
    <3>1. PICK c \in Seq(Piece) :
              /\ c = a \o b /\ Len(c) = Len(a) + Len(b)
              /\ \A i \in 1..Len(a) : c[i] = a[i]
              /\ \A i \in 1..Len(b) : c[Len(a) + i] = b[i]
      BY <3>0, Zenon
    <3> QED BY <2>1, <3>1
  <2>8. ASSUME NEW i \in 1..(m + n), i < m + n PROVE u[i] = v[i]
    <3>0. i <= m \/ i > m
      BY <2>1
    <3>1. CASE i <= m
      BY <2>6, <2>7, <3>1
    <3>2. CASE i > m
      <4>1. i - m \in 1..n /\ i - m < n /\ m + (i - m) = i
        BY <2>8, <3>2
      <4> QED BY <2>5, <2>6, <2>7, <4>1
    <3> QED BY <3>0, <3>1, <3>2
  <2>9. FrontEnd!Same(u, v)
    BY <2>6, <2>7, <2>8 DEF FrontEnd!Same
  <2> QED BY <2>5, <2>6, <2>7, <2>9
<1> QED BY <1>1, <1>2

LEMMA BlankGathered ==
    ASSUME Blanked, data = Blank, pending = Blank
    PROVE  Gathered
<1>1. ~Collecting /\ Resting
  BY DEF Blanked, Collecting, Resting, NoProc
<1>2. data["out"] = <<>> /\ \A s \in Streams : pending[s] = <<>> /\ ~chan[s]
  BY DEF Blanked, Blank, NoChannels, Streams
<1>3. child_pid # "child"
  BY DEF Blanked
<1>4. Tidy
  BY <1>1, <1>2, <1>3 DEF Tidy
<1> QED BY <1>1, <1>4 DEF Gathered, NothingLost

LEMMA EndGathered == End => Gathered'
<1>1. End => (Blanked /\ data = Blank /\ pending = Blank)'
  BY DEF End, Blanked
<1> QED BY <1>1, BlankGathered, PTL

\* A command is collected until its poll is done.
LEMMA CollectsOne ==
    ASSUME CommandOwnsScreen, Collecting
    PROVE  /\ proc.kind \in Kinds /\ <<proc.kind, "timeout">> \in sources
           /\ \A k \in Kinds : \A s \in Streams \cup {"timeout"} :
                  <<k, s>> \in sources => k = proc.kind
           /\ \A s \in Streams : chan[s] <=> <<proc.kind, s>> \in sources
BY DEF CommandOwnsScreen, Collecting, Kinds, Streams

LEMMA TidyStep ==
    ASSUME Typed, Printed, Owned, Tidy, [Next]_vars
    PROVE  Tidy'
<1> USE DEF library, pane, output, choice, command, commands, Environment
<1>0. /\ proc \in Command /\ chan \in [Streams -> BOOLEAN]
      /\ CommandOwnsScreen /\ BuildsAlone /\ OneCommand
  BY DEF Typed, CommandTyped, Owned
<1>1. ASSUME \/ LoadFails \/ BuildCrashes \/ Quit \/ UseGone
      PROVE  Tidy'
  BY <1>1, EndGathered DEF LoadFails, BuildCrashes, Quit, UseGone, Gathered
\* Nothing is collected, before or after.
<1>2. ASSUME ~Collecting, ~Collecting', UNCHANGED <<chan, data, pending, proc>>, child_pid' # "child"
      PROVE  Tidy'
  BY <1>2 DEF Tidy, Resting
\* The command does not come into it.
<1>3. ASSUME UNCHANGED <<child_pid, chan, data, pending, sources, proc, given>>
      PROVE  Tidy'
  BY <1>3 DEF Tidy, Resting, Collecting
<1>4. ASSUME ~Collecting, NEW k \in Kinds, NEW b \in BOOLEAN, Spawn(k, b), Top.node # Null,
             UNCHANGED <<data, pending>>
      PROVE  Tidy'
  <2>1. /\ proc'.kind = k /\ proc'.for = Top.node /\ proc'.leader = "running"
        /\ child_pid' = "child" /\ given' = NotGiven /\ Collecting'
    BY <1>4 DEF Spawn, NoProc, Collecting
  <2>2. data["out"] = <<>> /\ \A s \in Streams : pending[s] = <<>>
    BY <1>4 DEF Tidy
  <2> QED BY <1>4, <2>1, <2>2 DEF Tidy
<1>5. ASSUME NEW k \in Kinds, NEW out, Finish(k, out), UNCHANGED <<chan, pending>>,
             data'["out"] = <<>>
      PROVE  Tidy'
  <2>1. Collecting /\ \A s \in Streams : ~chan[s]
    BY <1>5 DEF Finish, Complete, Collecting
  <2>2. ~Collecting'
    <3>1. k = proc.kind
      BY <1>0, <1>5, <2>1, CollectsOne DEF Finish
    <3>2. sources' \subseteq sources \ {<<k, "timeout">>}
      BY <1>5 DEF Finish, Removed
    <3> QED BY <1>0, <2>1, <3>1, <3>2, CollectsOne DEF Collecting
  <2>3. proc' = [NoProc EXCEPT !.rest = proc'.rest] /\ child_pid' = "reaped"
    BY <1>5 DEF Finish, NoProc
  <2> QED BY <1>5, <2>1, <2>2, <2>3 DEF Tidy, Resting
<1>6. ASSUME pc # "loop" PROVE ~Collecting
  BY <1>0, <1>6 DEF BuildsAlone, Collecting
<1>7. ASSUME UNCHANGED sources PROVE Collecting' = Collecting
  BY <1>7 DEF Collecting
<1>8. ASSUME StartInitcommand PROVE Tidy'
  <2>1. Top.node # Null
    BY <1>8 DEF StartInitcommand, TypeOf
  <2> QED BY <1>4, <1>6, <1>8, <2>1 DEF StartInitcommand, Kinds
<1>9. ASSUME StartInitcommandFails PROVE Tidy'
  BY <1>2, <1>6, <1>7, <1>9 DEF StartInitcommandFails
<1>10. ASSUME BuildAction PROVE Tidy'
  <2>1. PICK tty \in Tty[NameOf(Top.node)] \ {"SELF"} : Spawn("ac", tty = "YES")
    BY <1>10 DEF BuildAction
  <2>2. Top.node # Null /\ ~Collecting /\ UNCHANGED <<data, pending>>
    BY <1>6, <1>10 DEF BuildAction, Building, TypeOf
  <2> QED BY <1>4, <2>1, <2>2 DEF Kinds
<1>11. ASSUME NEW f \in FieldsHere, StartList(f) PROVE Tidy'
  <2>1. page # Null /\ page = Top.node
    BY <1>0, <1>11 DEF StartList, Listable, CanPress, Owned, PaneIsTop
  <2>2. ~Collecting
    BY <1>0, <1>11, <2>1 DEF StartList, Listable, CanPress, Owned, ScreensIdle
  <2>3. Spawn("lc", TRUE) /\ UNCHANGED <<data, pending>>
    BY <1>11 DEF StartList
  <2> QED BY <1>4, <2>1, <2>2, <2>3 DEF Kinds
<1>12. ASSUME NEW f \in FieldsHere, StartListFails(f) PROVE Tidy'
  <2>1. ~Collecting
    BY <1>12 DEF StartListFails, Listable, CanPress, Owned, ScreensIdle
  <2> QED BY <1>2, <1>7, <1>12, <2>1 DEF StartListFails
<1>13. ASSUME NEW f \in FieldsHere, StartRing(f) PROVE Tidy'
  <2>1. ~Collecting
    BY <1>13 DEF StartRing, Listable, CanPress, Owned, ScreensIdle
  <2>2. ~Collecting'
    BY <1>13, <2>1 DEF StartRing, Collecting
  <2> QED BY <1>2, <1>13, <2>1, <2>2 DEF StartRing, Tidy
<1>14. ASSUME RingFilled PROVE Tidy'
  <2>1. ~Collecting /\ ~Collecting'
    BY <1>14 DEF RingFilled, Owned, RingAlone, RingIdle, Collecting
  <2> QED BY <1>2, <1>14, <2>1 DEF RingFilled, Tidy
<1>15. ASSUME ClickCancel PROVE Tidy'
  <2>1. Collecting /\ proc'.kind = proc.kind /\ proc'.for = proc.for /\ proc'.leader = proc.leader
    BY <1>0, <1>15 DEF ClickCancel, SigTerm, Tidy, Command
  <2> QED BY <1>7, <1>15, <2>1 DEF ClickCancel, Tidy
<1>16. ASSUME NEW s \in Streams, NEW k \in Kinds, ReadSome(k, s) PROVE Tidy'
  <2>1. Collecting
    BY <1>0, <1>16 DEF ReadSome, Watching, OneCommand, RingIdle, Kinds
  <2>2. k = proc.kind /\ chan[s]
    BY <1>0, <1>16, <2>1, CollectsOne DEF ReadSome, Watching
  <2>3. \A t \in Streams : t # s => pending'[t] = pending[t]
    <3>1. PICK seq : ShowLines(s, seq) \/ Gather(s, seq)
      BY <1>16 DEF ReadSome
    <3> QED BY <3>1 DEF ShowLines, Gather, Printed, OutputTyped
  <2> QED BY <1>7, <1>16, <2>1, <2>2, <2>3 DEF ReadSome, Tidy
<1>17. ASSUME NEW s \in Streams, NEW k \in Kinds, ReadEnd(k, s) \/ ReadError(k, s)
       PROVE  Tidy'
  <2>1. Collecting /\ <<k, s>> \in sources /\ sources' = sources \ {<<k, s>>}
    BY <1>0, <1>17 DEF ReadEnd, ReadError, Watching, Shut, OneCommand, RingIdle, Kinds
  <2>2. k = proc.kind /\ chan[s] /\ Collecting'
    BY <1>0, <2>1, CollectsOne DEF Collecting, Streams
  <2>3. /\ chan' = [chan EXCEPT ![s] = FALSE]
        /\ pending' = [pending EXCEPT ![s] = <<>>]
        /\ UNCHANGED <<child_pid, given>>
        /\ proc'.kind = proc.kind /\ proc'.for = proc.for /\ proc'.leader = proc.leader
    BY <1>0, <1>17 DEF ReadEnd, ReadError, Shut, Forget, Command
  <2>4. data'["out"] # <<>> => data'["out"] = data["out"] \/ (s = "out" /\ proc.kind = "ic")
    <3>1. Shut(k, s)
      BY <1>17 DEF ReadEnd, ReadError
    <3> QED BY <2>2, <3>1 DEF Shut, Shows, Deliver, Printed, OutputTyped, Streams, Kinds
  <2>5. \A t \in Streams : t # s => pending'[t] = pending[t] /\ chan'[t] = chan[t]
    BY <1>0, <2>3 DEF Printed, OutputTyped
  <2>6. pending'[s] = <<>> /\ ~chan'[s]
    BY <1>0, <2>3 DEF Printed, OutputTyped
  <2> QED BY <2>1, <2>2, <2>3, <2>4, <2>5, <2>6 DEF Tidy
<1>18. ASSUME NEW k \in Kinds, Poll(k) PROVE Tidy'
  <2>1. Collecting /\ proc'.kind = proc.kind /\ proc'.for = proc.for /\ proc'.leader = "reaped"
    BY <1>0, <1>18 DEF Poll, Collecting, Command
  <2> QED BY <1>7, <1>18, <2>1 DEF Poll, Tidy
<1>19. ASSUME FinishInitcommand PROVE Tidy'
  <2>1. data'["out"] = <<>>
    BY <1>19 DEF FinishInitcommand, Blank, Streams
  <2> QED BY <1>5, <1>19, <2>1 DEF FinishInitcommand, Kinds
<1>20. ASSUME FinishList PROVE Tidy'
  <2>1. proc.kind = "lc"
    BY <1>0, <1>20, CollectsOne DEF FinishList, Finish, Kinds, Collecting
  <2>2. data'["out"] = data["out"]
    BY <1>20 DEF FinishList, Printed, OutputTyped, Streams
  <2>3. data'["out"] = <<>>
    BY <2>1, <2>2 DEF Tidy
  <2> QED BY <1>5, <1>20, <2>3 DEF FinishList, Kinds
<1>21. ASSUME FinishAction PROVE Tidy'
  <2>1. proc.kind = "ac"
    BY <1>0, <1>21, CollectsOne DEF FinishAction, Finish, Kinds, Collecting
  <2>2. data'["out"] = <<>>
    BY <1>21, <2>1 DEF FinishAction, Tidy
  <2> QED BY <1>5, <1>21, <2>2 DEF FinishAction, Kinds
\* A process of a command goes on.
<1>22. ASSUME Processes PROVE Tidy'
  <2>1. UNCHANGED <<child_pid, chan, data, pending, sources, given>>
    BY <1>22 DEF Processes, Write, Exit, Fork, CloseStreams, RestExits, Terminated
  <2>2. ASSUME Collecting, proc'.kind = proc.kind, proc'.for = proc.for, proc'.leader # "none",
               proc'.leader = "reaped" <=> proc.leader = "reaped"
        PROVE  Tidy'
    BY <1>7, <2>1, <2>2 DEF Tidy
  <2>3. ASSUME NEW piece \in Output, Write(piece) PROVE Tidy'
    <3>1. chan[piece.stream] /\ piece.stream \in Streams
      BY <2>3, ActionsAssumption DEF Write
    <3>2. proc'.kind = proc.kind /\ proc'.for = proc.for /\ proc'.leader = proc.leader
      BY <1>0, <2>3 DEF Write, Command
    <3>3. Collecting
      BY <3>1 DEF Tidy
    <3> QED BY <2>2, <3>2, <3>3 DEF Tidy
  <2>4. ASSUME (\E ok \in BOOLEAN : Exit(ok)) \/ Fork \/ CloseStreams PROVE Tidy'
    <3>1. proc.leader = "running" /\ proc'.kind = proc.kind /\ proc'.for = proc.for
          /\ proc'.leader \in {"running", "zombie"}
      BY <1>0, <2>4 DEF Exit, Fork, CloseStreams, Command
    <3>2. Collecting
      BY <3>1 DEF Tidy, Resting, NoProc
    <3> QED BY <2>2, <3>1, <3>2
  <2>5. ASSUME Terminated PROVE Tidy'
    <3>1. proc.termed # "nobody" /\ proc'.kind = proc.kind /\ proc'.for = proc.for
          /\ proc'.leader = IF proc.leader = "running" THEN "zombie" ELSE proc.leader
      BY <1>0, <2>5 DEF Terminated, Command
    <3>2. Collecting
      BY <3>1 DEF Tidy, Resting, NoProc
    <3> QED BY <2>2, <3>1, <3>2 DEF Tidy
  <2>6. ASSUME RestExits PROVE Tidy'
    <3>1. CASE Collecting
      <4>1. proc'.kind = proc.kind /\ proc'.for = proc.for /\ proc'.leader = proc.leader
        BY <1>0, <2>6 DEF RestExits, Command
      <4> QED BY <2>2, <3>1, <4>1 DEF Tidy
    <3>2. CASE ~Collecting
      <4>1. proc' = [NoProc EXCEPT !.rest = proc'.rest]
        BY <2>6, <3>2 DEF RestExits, Tidy, Resting, NoProc
      <4> QED BY <1>7, <2>1, <3>2, <4>1 DEF Tidy, Resting
    <3> QED BY <3>1, <3>2
  <2> QED BY <1>22, <2>3, <2>4, <2>5, <2>6 DEF Processes
<1>23. ASSUME \/ Loaded \/ BuildNone \/ BuildMenu \/ BuildDialog \/ BuildHidden
              \/ BuildActionFails \/ BuildActionRefused
       PROVE  Tidy'
  BY <1>3, <1>23 DEF Loaded, BuildNone, BuildMenu, BuildDialog, BuildHidden,
     BuildActionFails, BuildActionRefused
<1>24. ASSUME \/ ClickPrevious \/ NextFromDialog \/ NextFromDialogRefused
              \/ \E n \in Nodes : NextFromMenu(n)
              \/ \E f \in FieldsHere, v \in Values : Type(f, v)
              \/ Answer \/ CloseFilling \/ UNCHANGED vars
       PROVE  Tidy'
  BY <1>3, <1>24 DEF ClickPrevious, NextFromDialog, NextFromDialogRefused, NextFromMenu, Type,
     Answer, CloseFilling, vars
<1> QED
  BY <1>1, <1>8, <1>9, <1>10, <1>11, <1>12, <1>13, <1>14, <1>15, <1>16, <1>17, <1>18, <1>19,
     <1>20, <1>21, <1>22, <1>23, <1>24 DEF Next, Build, User, Polls, Reads

\* Concatenation by a name, for the provers to compute with.
Cat(a, b) == a \o b

LEMMA CatFacts ==
    ASSUME NEW a \in Seq(Piece), NEW b \in Seq(Piece)
    PROVE  Cat(a, b) \in Seq(Piece)
BY ConcatFacts DEF Cat

LEMMA CatAssociates ==
    ASSUME NEW a \in Seq(Piece), NEW b \in Seq(Piece), NEW c \in Seq(Piece)
    PROVE  Cat(Cat(a, b), c) = Cat(a, Cat(b, c))
<1>1. \A d, e : d = a \o b /\ e = b \o c => d \o c = a \o e
  BY ConcatAssociates
<1> QED BY <1>1, Zenon DEF Cat

\* What moves from the pipe towards the screen keeps its order.
LEMMA Advance ==
    ASSUME NEW c \in Seq(Piece), NEW p \in Seq(Piece), NEW u \in Seq(Piece), NEW v \in Seq(Piece),
           NEW h \in Seq(Piece), NEW t \in Seq(Piece), Cat(p, u) = Cat(h, t)
    PROVE  Cat(Cat(c, p), Cat(u, v)) = Cat(Cat(Cat(c, h), t), v)
<1>1. Cat(Cat(c, p), Cat(u, v)) = Cat(Cat(Cat(c, p), u), v)
  BY CatFacts, CatAssociates
<1>2. Cat(Cat(c, p), u) = Cat(c, Cat(p, u))
  BY CatFacts, CatAssociates
<1>3. Cat(Cat(c, h), t) = Cat(c, Cat(h, t))
  BY CatFacts, CatAssociates
<1> QED BY <1>1, <1>2, <1>3

\* The whole lines of a stream are of that stream.
LEMMA WholeOf ==
    ASSUME NEW seq \in Seq(Piece), NEW s, Of(s, seq)
    PROVE  Of(s, SubSeq(seq, 1, Whole(seq)))
<1>1. PICK w \in Nat : w = Whole(seq) /\ w <= Len(seq)
  BY WholeType
<1>2. Of(s, SubSeq(seq, 1, w))
  BY <1>1, PartOf
<1> QED BY <1>1, <1>2

\* What is gathered is a sequence of pieces.
LEMMA CollectedType == Printed => Collected \in Seq(Piece)
<1> SUFFICES ASSUME Printed PROVE Collected \in Seq(Piece)
  OBVIOUS
<1>1. data["out"] \in Seq(Piece) /\ lines \in Seq(Piece)
  BY DEF Printed, OutputTyped, Streams
<1>2. FromOut(lines) \in Seq(Piece)
  <2>1. <<>> \in Seq(Piece) /\ Of("out", <<>>) /\ "out" \in Streams
    BY DEF Of, Streams
  <2> QED BY <1>1, <2>1, FromOutConcat
<1> QED BY <1>1, <1>2 DEF Collected

\* What a watch adds to the lines on show adds to what is collected.
LEMMA CollectedGrows ==
    ASSUME Printed, NEW k \in Kinds, proc.kind = k, proc'.kind = k, NEW s \in Streams,
           Shows(k, s), NEW h \in Seq(Piece), Of(s, h), lines' = lines \o h, data' = data
    PROVE  Collected' = IF s = "out" THEN Collected \o h ELSE Collected
<1>1. FromOut(lines \o h) = IF s = "out" THEN FromOut(lines) \o h ELSE FromOut(lines)
  BY FromOutConcat DEF Printed, OutputTyped
<1>2. CASE k = "lc"
  BY <1>2 DEF Shows, Collected
<1>3. CASE k = "ac"
  BY <1>1, <1>3 DEF Collected
<1> QED BY <1>2, <1>3 DEF Shows

\* A watch reads a chunk.
LEMMA ReadSomeLost ==
    ASSUME Printed, CommandTyped, CommandOwnsScreen, NothingLost, Collecting,
           NEW k \in Kinds, NEW s \in Streams, ReadSome(k, s)
    PROVE  NothingLost'
<1>1. k = proc.kind /\ chan[s] /\ UNCHANGED <<data, chan, proc, sources>>
  BY CollectsOne DEF ReadSome, Watching, command
<1>2. PICK n \in 1..Len(pipe[s]) :
          /\ pipe' = [pipe EXCEPT ![s] = SubSeq(@, n + 1, Len(@))]
          /\ LET seq == pending[s] \o SubSeq(pipe[s], 1, n)
             IN  IF Shows(k, s) THEN ShowLines(s, seq) ELSE Gather(s, seq)
  BY DEF ReadSome
<1>3. /\ pipe[s] \in Seq(Piece) /\ pending[s] \in Seq(Piece) /\ Of(s, pipe[s])
      /\ Of(s, pending[s]) /\ n \in 0..Len(pipe[s]) /\ n \in Nat /\ Len(pipe[s]) \in Nat
      /\ pipe \in [Streams -> Seq(Piece)] /\ pending \in [Streams -> Seq(Piece)]
      /\ 1 <= n /\ n <= Len(pipe[s])
  BY DEF Printed, OutputTyped, StreamsApart
<1>4. PICK p \in Seq(Piece) : p = pending[s]
  BY <1>3
<1>5. PICK u \in Seq(Piece) : u = SubSeq(pipe[s], 1, n) /\ Of(s, u)
  <2>1. SubSeq(pipe[s], 1, n) \in Seq(Piece) /\ Of(s, SubSeq(pipe[s], 1, n))
    BY <1>3, PartOf
  <2> QED BY <2>1
<1>6. PICK v \in Seq(Piece) : v = SubSeq(pipe[s], n + 1, Len(pipe[s])) /\ u \o v = pipe[s]
  BY <1>3, <1>5, CutFacts
<1>7. PICK seq \in Seq(Piece) : seq = p \o u /\ Of(s, seq)
  BY <1>3, <1>4, <1>5, ConcatOf
<1>8. pipe' = [pipe EXCEPT ![s] = v] /\ IF Shows(k, s) THEN ShowLines(s, seq) ELSE Gather(s, seq)
  BY <1>2, <1>4, <1>5, <1>6, <1>7
<1>9. PICK c \in Seq(Piece) : c = Collected
  BY CollectedType
\* Some of what was read is whole lines, and goes to the screen.
<1>10. \E h \in Seq(Piece), t \in Seq(Piece) :
          /\ h \o t = seq /\ pending' = [pending EXCEPT ![s] = t]
          /\ Collected' = IF s = "out" THEN c \o h ELSE c
  <2>1. CASE Shows(k, s)
    <3>1. Whole(seq) \in 0..Len(seq) /\ Len(seq) \in Nat
      BY WholeType
    <3>2. PICK h \in Seq(Piece), t \in Seq(Piece) :
              h = SubSeq(seq, 1, Whole(seq)) /\ t = SubSeq(seq, Whole(seq) + 1, Len(seq))
              /\ h \o t = seq
      BY <3>1, CutFacts
    <3>3. Of(s, h)
      BY <1>7, <3>2, WholeOf, Zenon
    <3>4. lines' = lines \o h /\ pending' = [pending EXCEPT ![s] = t]
      BY <1>8, <2>1, <3>2 DEF ShowLines
    <3>5. Collected' = IF s = "out" THEN Collected \o h ELSE Collected
      BY <1>1, <2>1, <3>3, <3>4, CollectedGrows
    <3> QED BY <1>9, <3>2, <3>4, <3>5
  <2>2. CASE ~Shows(k, s)
    <3>1. pending' = [pending EXCEPT ![s] = seq] /\ UNCHANGED lines
      BY <1>8, <2>2 DEF Gather
    <3>2. Collected' = Collected
      BY <1>1, <3>1 DEF Collected
    <3>3. <<>> \in Seq(Piece) /\ <<>> \o seq = seq /\ c \o <<>> = c
      OBVIOUS
    <3> QED BY <1>9, <3>1, <3>2, <3>3, Zenon
  <2> QED BY <2>1, <2>2
<1>11. PICK h \in Seq(Piece), t \in Seq(Piece) :
          /\ h \o t = seq /\ pending' = [pending EXCEPT ![s] = t]
          /\ Collected' = IF s = "out" THEN c \o h ELSE c
  BY <1>10
<1>12. CASE s = "out"
  <2>1. pending'["out"] = t /\ pipe'["out"] = v /\ Collected' = c \o h
    BY <1>3, <1>8, <1>11, <1>12
  <2>2. (c \o p) \o (u \o v) = ((c \o h) \o t) \o v
    <3>1. Cat(p, u) = Cat(h, t)
      BY <1>7, <1>11, Zenon DEF Cat
    <3>2. Cat(Cat(c, p), Cat(u, v)) = Cat(Cat(Cat(c, h), t), v)
      BY <3>1, Advance
    <3> QED BY <3>2, Zenon DEF Cat
  <2>3. ~proc.torn => (c \o p) \o (u \o v) = proc.wrote["out"]
    BY <1>1, <1>4, <1>6, <1>9, <1>12 DEF NothingLost
  <2>4. ~proc'.torn => (Collected' \o pending'["out"]) \o pipe'["out"] = proc'.wrote["out"]
    BY <1>1, <2>1, <2>2, <2>3, Zenon
  <2> QED BY <1>1, <1>12, <2>4 DEF NothingLost
<1>13. CASE s # "out"
  <2>1. pending'["out"] = pending["out"] /\ pipe'["out"] = pipe["out"] /\ Collected' = Collected
    BY <1>3, <1>8, <1>9, <1>11, <1>13
  <2>2. Collecting' = Collecting
    BY <1>1 DEF Collecting
  <2> QED BY <1>1, <2>1, <2>2 DEF NothingLost
<1> QED BY <1>12, <1>13

\* A watch sees the end of its stream, or a piece it cannot decode.
LEMMA ShutLost ==
    ASSUME Printed, CommandTyped, Owned, Tidy, NothingLost, Collecting,
           NEW k \in Kinds, NEW s \in Streams, ReadEnd(k, s) \/ ReadError(k, s)
    PROVE  NothingLost'
<1>1. /\ <<k, s>> \in sources /\ sources' = sources \ {<<k, s>>} /\ Shut(k, s)
      /\ chan' = [chan EXCEPT ![s] = FALSE] /\ pending' = [pending EXCEPT ![s] = <<>>]
  BY DEF ReadEnd, ReadError, Watching, Shut, Forget
<1>2. k = proc.kind /\ chan[s]
  BY <1>1, CollectsOne DEF Owned
<1>3. CASE ReadError(k, s)
  <2>1. proc'.torn
    BY <1>3 DEF ReadError, CommandTyped, Command
  <2> QED BY <2>1 DEF NothingLost
<1>4. CASE ReadEnd(k, s)
  <2>1. UNCHANGED <<proc, pipe>> /\ pipe[s] = <<>>
    BY <1>4 DEF ReadEnd, Closed, command
  <2>2. pending[s] \in Seq(Piece) /\ Of(s, pending[s]) /\ pending \in [Streams -> Seq(Piece)]
        /\ data \in [Streams -> Seq(Piece)] /\ chan \in [Streams -> BOOLEAN]
    BY DEF Printed, OutputTyped, StreamsApart, CommandTyped
  <2>3. PICK e \in Seq(Piece) : e = Ended(pending[s]) /\ Of(s, e)
    BY <2>2, EndedOf
  <2>4. PICK c \in Seq(Piece) : c = Collected
    BY CollectedType
  <2>5. CASE s # "out"
    <3>1. chan'["out"] = chan["out"] /\ pending'["out"] = pending["out"]
      BY <1>1, <2>2, <2>5 DEF Streams
    <3>2. Collected' = Collected
      <4>1. CASE Shows(k, s)
        <5>1. lines' = lines \o e /\ data' = data
          BY <1>1, <2>3, <4>1 DEF Shut
        <5> QED BY <1>2, <2>1, <2>3, <2>5, <4>1, <5>1, CollectedGrows
      <4>2. CASE ~Shows(k, s)
        <5>1. data'["out"] = data["out"] /\ lines' = lines
          BY <1>1, <2>2, <2>5, <4>2 DEF Shut, Deliver, Streams
        <5> QED BY <2>1, <5>1 DEF Collected
      <4> QED BY <4>1, <4>2
    <3> QED BY <2>1, <3>1, <3>2 DEF NothingLost
  <2>6. CASE s = "out"
    <3>1. ~chan'["out"]
      BY <1>1, <2>2, <2>6
    <3>2. ~proc.torn => c \o pending["out"] = proc.wrote["out"]
      <4>1. PICK cp \in Seq(Piece) : cp = c \o pending["out"]
        BY <2>2, <2>6, ConcatFacts
      <4>2. cp \o <<>> = cp
        OBVIOUS
      <4>3. ~proc.torn => cp \o pipe["out"] = proc.wrote["out"]
        BY <1>2, <2>4, <2>6, <4>1 DEF NothingLost
      <4> QED BY <2>1, <2>6, <4>1, <4>2, <4>3, Zenon
    <3>3. ~proc.torn => FrontEnd!Same(Collected', proc.wrote["out"])
      <4>1. CASE Shows(k, s)
        <5>1. lines' = lines \o e /\ data' = data
          BY <1>1, <2>3, <4>1 DEF Shut
        <5>2. Collected' = c \o e
          BY <1>2, <2>1, <2>3, <2>4, <2>6, <4>1, <5>1, CollectedGrows
        <5>3. FrontEnd!Same(c \o Ended(pending[s]), c \o pending[s])
          BY <2>2, EndedSame
        <5> QED BY <2>3, <2>6, <3>2, <5>2, <5>3, Zenon
      <4>2. CASE ~Shows(k, s)
        <5>1. k = "ic"
          BY <2>6, <4>2 DEF Shows, Kinds
        <5>2. data["out"] = <<>>
          BY <1>2, <2>6 DEF Tidy
        <5>3. data'["out"] = pending["out"]
          BY <1>1, <2>2, <2>6, <4>2, <5>2 DEF Shut, Deliver
        <5>4. c = <<>> /\ Collected' = pending["out"]
          BY <1>2, <2>1, <2>4, <5>1, <5>2, <5>3 DEF Collected
        <5>5. <<>> \o pending["out"] = pending["out"]
          BY <2>2, <2>6
        <5>6. ~proc.torn => pending["out"] = proc.wrote["out"]
          BY <3>2, <5>4, <5>5, Zenon
        <5>7. FrontEnd!Same(pending["out"], pending["out"])
          BY <2>2, <2>6 DEF FrontEnd!Same
        <5> QED BY <5>4, <5>6, <5>7
      <4> QED BY <4>1, <4>2
    <3> QED BY <2>1, <3>1, <3>3 DEF NothingLost
  <2> QED BY <2>5, <2>6
<1> QED BY <1>3, <1>4

\* The command writes a piece.
LEMMA WriteLost ==
    ASSUME Printed, CommandTyped, Tidy, NothingLost, NEW piece \in Output, Write(piece)
    PROVE  NothingLost'
<1>1. piece \in Piece /\ piece.stream \in Streams
  BY ActionsAssumption DEF Piece
<1> DEFINE s == piece.stream
<1>2. /\ chan[s] /\ UNCHANGED <<lines, data, chan, pending, sources>>
      /\ pipe' = [pipe EXCEPT ![s] = Append(@, piece)]
      /\ proc' = [proc EXCEPT !.wrote[s] = Append(@, piece)]
  BY DEF Write, Environment, output
<1>3. /\ pipe \in [Streams -> Seq(Piece)] /\ pending \in [Streams -> Seq(Piece)]
      /\ proc.wrote \in [Streams -> Seq(Piece)] /\ proc \in Command
  BY DEF Printed, OutputTyped, CommandTyped, Command
<1>4. proc'.kind = proc.kind /\ proc'.torn = proc.torn
      /\ proc'.wrote = [proc.wrote EXCEPT ![s] = Append(proc.wrote[s], piece)]
  BY <1>1, <1>2, <1>3 DEF Command
<1>5. Collected' = Collected /\ Collecting' = Collecting
  BY <1>2, <1>4 DEF Collected, Collecting
<1>6. CASE s # "out"
  <2>1. proc'.wrote["out"] = proc.wrote["out"] /\ pipe'["out"] = pipe["out"]
    BY <1>1, <1>2, <1>3, <1>4, <1>6 DEF Streams
  <2> QED BY <1>2, <1>4, <1>5, <2>1 DEF NothingLost
<1>7. CASE s = "out"
  <2>1. PICK cp \in Seq(Piece) : cp = Collected \o pending["out"]
    BY <1>3, CollectedType, ConcatFacts DEF Streams
  <2>2. PICK q \in Seq(Piece) : q = pipe["out"]
    BY <1>3 DEF Streams
  <2>3. PICK r : r = Append(q, piece)
    OBVIOUS
  <2>4. Append(cp \o q, piece) = cp \o r
    BY <1>1, <2>3, AppendToConcat
  <2>5. pipe'["out"] = r /\ proc'.wrote["out"] = Append(proc.wrote["out"], piece)
    BY <1>1, <1>2, <1>3, <1>4, <1>7, <2>2, <2>3
  <2>6. Collecting /\ ~proc.torn => cp \o q = proc.wrote["out"]
    BY <1>2, <1>7, <2>1, <2>2 DEF NothingLost
  <2>7. Collecting /\ ~proc.torn => cp \o pipe'["out"] = proc'.wrote["out"]
    BY <2>4, <2>5, <2>6, Zenon
  <2> QED BY <1>2, <1>4, <1>5, <1>7, <2>1, <2>7 DEF NothingLost
<1> QED BY <1>6, <1>7

\* A command starts with nothing gathered.
LEMMA SpawnLost ==
    ASSUME Printed, Tidy, ~Collecting, NEW k \in Kinds, NEW b \in BOOLEAN, Spawn(k, b),
           UNCHANGED <<data, pending>>, k # "ic" => lines' = <<>>
    PROVE  NothingLost'
<1>1. /\ proc'.kind = k /\ proc'.wrote["out"] = <<>> /\ pipe'["out"] = <<>>
  BY DEF Spawn, NoProc, Blank, Streams
<1>2. data'["out"] = <<>> /\ pending'["out"] = <<>>
  BY DEF Tidy, Streams
<1>3. FromOut(<<>>) = <<>>
  BY SiftEmpty DEF FromOut
<1>4. Collected' = <<>>
  BY <1>1, <1>2, <1>3 DEF Collected, Kinds
<1>5. (<<>> \o <<>>) \o <<>> = <<>> /\ FrontEnd!Same(<<>>, <<>>)
  BY DEF FrontEnd!Same
<1> QED BY <1>1, <1>2, <1>4, <1>5, Zenon DEF NothingLost

LEMMA LostStep ==
    ASSUME Typed, Printed, Owned, Gathered, [Next]_vars
    PROVE  NothingLost'
<1> USE DEF library, pane, output, choice, command, commands, Environment
<1>0. /\ CommandTyped /\ Tidy /\ NothingLost /\ CommandOwnsScreen /\ BuildsAlone /\ OneCommand
  BY DEF Typed, Owned, Gathered
<1>1. ASSUME \/ LoadFails \/ BuildCrashes \/ Quit \/ UseGone
      PROVE  NothingLost'
  BY <1>1, EndGathered DEF LoadFails, BuildCrashes, Quit, UseGone, Gathered
<1>2. ASSUME ~Collecting' PROVE NothingLost'
  BY <1>2 DEF NothingLost
<1>3. ASSUME UNCHANGED <<chan, data, pending, lines, sources, pipe>>, proc'.kind = proc.kind,
             proc'.wrote = proc.wrote, proc'.torn = proc.torn
      PROVE  NothingLost'
  BY <1>0, <1>3 DEF NothingLost, Collecting, Collected
<1>4. ASSUME pc # "loop" PROVE ~Collecting
  BY <1>0, <1>4 DEF BuildsAlone, Collecting
<1>5. ASSUME UNCHANGED sources PROVE Collecting' = Collecting
  BY <1>5 DEF Collecting
<1>6. ASSUME StartInitcommand PROVE NothingLost'
  BY <1>0, <1>4, <1>6, SpawnLost DEF StartInitcommand, Kinds
<1>7. ASSUME BuildAction PROVE NothingLost'
  <2>1. PICK tty \in Tty[NameOf(Top.node)] \ {"SELF"} : Spawn("ac", tty = "YES")
    BY <1>7 DEF BuildAction
  <2>2. ~Collecting /\ UNCHANGED <<data, pending>> /\ lines' = <<>>
    BY <1>4, <1>7 DEF BuildAction, Building, ActionPane
  <2>3. (tty = "YES") \in BOOLEAN /\ "ac" \in Kinds
    BY DEF Kinds
  <2> QED BY <1>0, <2>1, <2>2, <2>3, SpawnLost
<1>8. ASSUME NEW f \in FieldsHere, StartList(f) PROVE NothingLost'
  <2>1. ~Collecting
    BY <1>8 DEF StartList, Listable, CanPress, Owned, ScreensIdle
  <2>2. Spawn("lc", TRUE) /\ UNCHANGED <<data, pending>> /\ lines' = <<>> /\ "lc" \in Kinds
    BY <1>8 DEF StartList, Kinds
  <2> QED BY <1>0, <2>1, <2>2, SpawnLost
<1>9. ASSUME StartInitcommandFails \/ BuildActionFails \/ BuildActionRefused
      PROVE  NothingLost'
  BY <1>2, <1>4, <1>5, <1>9 DEF StartInitcommandFails, BuildActionFails, BuildActionRefused,
     Building
<1>10. ASSUME NEW f \in FieldsHere, StartListFails(f) \/ StartRing(f) PROVE NothingLost'
  <2>1. ~Collecting
    BY <1>10 DEF StartListFails, StartRing, Listable, CanPress, Owned, ScreensIdle
  <2>2. sources' \in {sources, sources \cup {<<"ring", "idle">>}}
    BY <1>10 DEF StartListFails, StartRing
  <2>3. ~Collecting'
    BY <2>1, <2>2 DEF Collecting
  <2> QED BY <1>2, <2>3
<1>11. ASSUME RingFilled PROVE NothingLost'
  <2>1. ~Collecting'
    BY <1>11 DEF RingFilled, Owned, RingAlone, RingIdle, Collecting
  <2> QED BY <1>2, <2>1
<1>12. ASSUME ClickPrevious PROVE NothingLost'
  <2>1. ~Collecting
    BY <1>0, <1>12 DEF ClickPrevious, CanPress, CommandOwnsScreen
  <2> QED BY <1>2, <1>5, <1>12, <2>1 DEF ClickPrevious
<1>13. ASSUME Answer PROVE NothingLost'
  <2>1. Grabbed /\ dialog = "open"
    BY <1>13 DEF Answer, Grabbed
  <2>2. Collecting => proc.kind = "lc"
    BY <1>0, <2>1 DEF OneCommand
  <2>3. ~Collecting
    BY <1>0, <2>1, <2>2 DEF CommandOwnsScreen
  <2> QED BY <1>2, <1>5, <1>13, <2>3 DEF Answer
<1>14. ASSUME ClickCancel PROVE NothingLost'
  <2>1. proc'.kind = proc.kind /\ proc'.wrote = proc.wrote /\ proc'.torn = proc.torn
    BY <1>0, <1>14 DEF ClickCancel, SigTerm, CommandTyped, Command
  <2> QED BY <1>3, <1>14, <2>1 DEF ClickCancel
<1>15. ASSUME NEW s \in Streams, Reads(s) PROVE NothingLost'
  <2>1. PICK k \in Kinds : ReadSome(k, s) \/ ReadEnd(k, s) \/ ReadError(k, s)
    BY <1>15 DEF Reads
  <2>2. Collecting
    <3>1. <<k, s>> \in sources
      BY <2>1 DEF ReadSome, ReadEnd, ReadError, Watching
    <3> QED BY <1>0, <3>1 DEF OneCommand, RingIdle, Kinds
  <2> QED BY <1>0, <2>1, <2>2, ReadSomeLost, ShutLost
<1>16. ASSUME NEW k \in Kinds, Poll(k) PROVE NothingLost'
  <2>1. proc'.kind = proc.kind /\ proc'.wrote = proc.wrote /\ proc'.torn = proc.torn
    BY <1>0, <1>16 DEF Poll, CommandTyped, Command
  <2> QED BY <1>3, <1>16, <2>1 DEF Poll
<1>17. ASSUME FinishInitcommand \/ FinishList \/ FinishAction PROVE NothingLost'
  <2>1. PICK k \in Kinds : <<k, "timeout">> \in sources /\ Removed(k)
    BY <1>17 DEF FinishInitcommand, FinishList, FinishAction, Finish, Kinds
  <2>2. Collecting /\ k = proc.kind
    BY <1>0, <2>1, CollectsOne DEF Collecting
  <2>3. ~Collecting'
    BY <1>0, <2>1, <2>2, CollectsOne DEF Collecting, Removed
  <2> QED BY <1>2, <2>3
<1>18. ASSUME Processes PROVE NothingLost'
  <2>1. ASSUME NEW piece \in Output, Write(piece) PROVE NothingLost'
    BY <1>0, <2>1, WriteLost
  <2>2. ASSUME \/ \E ok \in BOOLEAN : Exit(ok)
               \/ Fork \/ CloseStreams \/ RestExits \/ Terminated
        PROVE  NothingLost'
    <3>1. UNCHANGED <<chan, output, sources, pipe>>
      BY <2>2 DEF Exit, Fork, CloseStreams, RestExits, Terminated
    <3>2. proc'.kind = proc.kind /\ proc'.wrote = proc.wrote /\ proc'.torn = proc.torn
      BY <1>0, <2>2 DEF Exit, Fork, CloseStreams, RestExits, Terminated, CommandTyped, Command
    <3> QED BY <1>3, <3>1, <3>2
  <2> QED BY <1>18, <2>1, <2>2 DEF Processes
<1>19. ASSUME UNCHANGED commands PROVE NothingLost'
  BY <1>3, <1>19
<1>20. ASSUME \/ Loaded \/ BuildNone \/ BuildMenu \/ BuildDialog \/ BuildHidden
              \/ NextFromDialog \/ NextFromDialogRefused
              \/ \E n \in Nodes : NextFromMenu(n)
              \/ \E f \in FieldsHere, v \in Values : Type(f, v)
       PROVE  UNCHANGED commands
  BY <1>20 DEF Loaded, BuildNone, BuildMenu, BuildDialog, BuildHidden, NextFromDialog,
     NextFromDialogRefused, NextFromMenu, Type
<1>21. ASSUME CloseFilling \/ UNCHANGED vars PROVE NothingLost'
  BY <1>3, <1>21 DEF CloseFilling, vars
<1> QED
  BY <1>1, <1>6, <1>7, <1>8, <1>9, <1>10, <1>11, <1>12, <1>13, <1>14, <1>15, <1>16, <1>17,
     <1>18, <1>19, <1>20, <1>21 DEF Next, Build, User, Polls

LEMMA GatheredStep == Typed /\ Printed /\ Owned /\ Gathered /\ [Next]_vars => Gathered'
BY TidyStep, LostStep DEF Gathered

-----------------------------------------------------------------------------
(* The theorems.                                                           *)
IInv == Typed /\ Printed /\ Owned /\ Gathered

LEMMA InitIInv == Init => IInv
<1>1. Init => Blanked /\ pc = "load"
  BY DEF Init, Blanked
<1>2. Init => Printed
  BY BlankOutput DEF Init
<1>3. Init => Gathered
  BY <1>1, BlankGathered DEF Init
<1> QED BY <1>1, <1>2, <1>3, BlankTyped, BlankOwned DEF IInv

LEMMA NextIInv == IInv /\ [Next]_vars => IInv'
BY LibraryStep, PaneStep, CommandStep, OutputStep, OwnedStep, GatheredStep DEF IInv, Typed

LEMMA AlwaysIInv == Spec => []IInv
BY InitIInv, NextIInv, PTL DEF Spec

\* The state of the window keeps its type: a callback never finds a screen, a
\* field or a process of another kind than it expects.
THEOREM TypeCorrect == Spec => []TypeOK
<1>1. IInv => TypeOK
  BY DEF IInv, Typed, Printed, TypeOK, LibraryTyped, PaneTyped, CommandTyped, OutputTyped,
     Command, Scope
<1> QED BY <1>1, AlwaysIInv, PTL

\* Whatever order the poll, the two watches and the user come in, a command
\* that is collected belongs to the screen the session is at, and so does
\* every source and channel there is.
THEOREM CommandsOwnTheirScreen == Spec => []CommandOwnsScreen
<1>1. IInv => CommandOwnsScreen
  BY DEF IInv, Owned
<1> QED BY <1>1, AlwaysIInv, PTL

\* Wherever the chunks of the two streams are cut, and whichever watch reads
\* first, what is shown is whole lines.
THEOREM LinesAreWhole == Spec => []LinesWhole
<1>1. IInv => LinesWhole
  BY DEF IInv, Printed, StreamsApart, WholeLines, LinesWhole
<1> QED BY <1>1, AlwaysIInv, PTL

-----------------------------------------------------------------------------
(* What a dialog leaves behind.                                            *)

\* rasta_screen_previous never makes the stack longer.
LEMMA BackShortens ==
    ASSUME NEW t \in Seq(Scope), t # <<>>
    PROVE  Len(Back(t)) <= Len(t)
<1>1. Shown(t) \subseteq 0..Len(t) /\ Shown(t) \subseteq 1..Len(t) /\ 1 \in Shown(t)
  BY DEF Shown
<1> DEFINE i0 == CHOOSE k \in Shown(t) : \A j \in Shown(t) : j <= k
<1>2. i0 \in Shown(t)
  BY <1>1, HighestOf
<1>3. i0 \in 1..Len(t)
  BY <1>1, <1>2
<1>4. Back(t) = SubSeq(t, 1, i0)
  BY DEF Back
<1> HIDE DEF i0
<1> QED BY <1>3, <1>4

\* The symbols of a stack with an empty scope on top: what its last scope but
\* one binds, and else what the rest of it binds.
LEMMA LookupTop ==
    ASSUME NEW t \in Seq(Scope), t # <<>>, NEW table \in [Symbols -> Values \cup {Null}],
           NEW u \in Seq(Scope), NEW sym \in Symbols, Len(u) = Len(t) + 1,
           \A i \in 1..Len(u) :
              u[i].symbols = IF i = Len(u) THEN NoSymbols
                             ELSE IF i = Len(t) THEN table ELSE t[i].symbols
    PROVE  /\ table[sym] # Null => Lookup(u, sym) = table[sym]
           /\ table[sym] = t[Len(t)].symbols[sym] => Lookup(u, sym) = Lookup(t, sym)
<1>1. PICK l \in Nat : l = Len(t)
  OBVIOUS
<1>2. l \in 1..Len(t) /\ t[l] \in Scope
  BY <1>1
<1>5. /\ Len(u) = l + 1
      /\ \A i \in 1..(l + 1) : u[i].symbols = IF i = l + 1 THEN NoSymbols
                                              ELSE IF i = l THEN table ELSE t[i].symbols
  BY <1>1
<1>6. NoSymbols[sym] = Null
  BY DEF NoSymbols
<1> DEFINE Bound(w) == {i \in 1..Len(w) : w[i].symbols[sym] # Null}
<1>7. ASSUME table[sym] # Null PROVE Lookup(u, sym) = table[sym]
  <2>1. l \in Bound(u) /\ \A i \in Bound(u) : i <= l
    BY <1>2, <1>5, <1>6, <1>7
  <2>2. l = CHOOSE i \in Bound(u) : \A j \in Bound(u) : j <= i
    BY <2>1
  <2>3. Bound(u) # {}
    BY <2>1
  <2>4. Lookup(u, sym) = u[l].symbols[sym]
    BY <2>2, <2>3 DEF Lookup
  <2> QED BY <1>2, <1>5, <2>4
<1>8. ASSUME table[sym] = t[Len(t)].symbols[sym] PROVE Lookup(u, sym) = Lookup(t, sym)
  <2>1. Bound(u) = Bound(t)
    BY <1>1, <1>2, <1>5, <1>6, <1>8
  <2>2. CASE Bound(t) = {}
    BY <2>1, <2>2 DEF Lookup
  <2>3. CASE Bound(t) # {}
    <3> DEFINE h == CHOOSE i \in Bound(t) : \A j \in Bound(t) : j <= i
    <3>1. h \in Bound(t)
      <4>1. Bound(t) \subseteq 0..l
        BY <1>1
      <4> HIDE DEF Bound
      <4> QED BY <2>3, <4>1, HighestOf
    <3>2. Lookup(t, sym) = t[h].symbols[sym] /\ Lookup(u, sym) = u[h].symbols[sym]
      BY <2>1, <2>3 DEF Lookup
    <3>3. h \in 1..l
      BY <1>1, <3>1
    <3> HIDE DEF h
    <3> QED BY <1>1, <1>5, <1>8, <3>2, <3>3
  <2> QED BY <2>2, <2>3
<1> QED BY <1>7, <1>8

\* When every field of the dialog was stored, each symbol has the value its
\* entry says: no two fields store under one symbol, and a field that is not
\* stored has that value already.
LEMMA StoredAll ==
    ASSUME trail \in Seq(Scope), trail # <<>>, page \in Nodes,
           entry \in [Symbols -> Values], NEW n \in Nodes \cup {Null},
           Goto(StoreFields(Len(FieldsOf(page))), n),
           NEW i \in DOMAIN FieldsOf(page)
    PROVE  LET f == FieldsOf(page)[i] IN TextOf(trail', f.sym) = ValueIn(f)
<1>0. /\ FieldsOf(page) \in Seq(Field) /\ Len(FieldsOf(page)) \in Nat
      /\ \A j, k \in 1..Len(FieldsOf(page)) :
            FieldsOf(page)[j].sym = FieldsOf(page)[k].sym => j = k
  <2>1. PICK s \in ScreenIds : s = NameOf(page)
    BY DocFacts DEF NameOf
  <2>2. Fields[s] \in Seq(Field)
    BY FieldsAssumption
  <2>3. \A j, k \in 1..Len(Fields[s]) : Fields[s][j].sym = Fields[s][k].sym => j = k
    BY FieldsAssumption
  <2> QED BY <2>1, <2>2, <2>3 DEF FieldsOf
<1>1. PICK f \in Field : f = FieldsOf(page)[i]
  BY <1>0
<1> DEFINE stored == {FieldsOf(page)[j] : j \in 1..Len(FieldsOf(page))}
           value(s, old) == IF \E g \in stored : g.sym = s /\ Stores(g)
                            THEN ValueIn(CHOOSE g \in stored : g.sym = s) ELSE old
           binding == [s \in Symbols |-> value(s, Top.symbols[s])]
<1>2. stored \subseteq Field /\ f \in stored
  BY <1>0, <1>1
<1>3. \A g \in stored : g.sym = f.sym => g = f
  BY <1>0, <1>1
<1>4. Top \in Scope
  BY DEF Top
<1>5. ASSUME NEW s \in Symbols PROVE value(s, Top.symbols[s]) \in Values \cup {Null}
  BY <1>2, <1>4, ValueType DEF Scope
<1>6. PICK table \in [Symbols -> Values \cup {Null}] : table = binding
  BY <1>5
<1>7. StoreFields(Len(FieldsOf(page))) = [trail EXCEPT ![Len(trail)].symbols = table]
  BY <1>6 DEF StoreFields, Top
<1>8. trail' = Append([trail EXCEPT ![Len(trail)].symbols = table],
                      [node |-> n, symbols |-> NoSymbols])
  BY <1>7 DEF Goto
<1>9. f.sym \in Symbols /\ ValueIn(f) \in Values
  BY ValueType DEF Field
<1>10. PICK sym \in Symbols : sym = f.sym
  BY <1>9
<1>11. /\ table[sym] # Null => Lookup(trail', sym) = table[sym]
       /\ table[sym] = trail[Len(trail)].symbols[sym] =>
            Lookup(trail', sym) = Lookup(trail, sym)
  <2>1. PICK v \in Seq(Scope) : v = [trail EXCEPT ![Len(trail)].symbols = table]
    BY PutType
  <2>2. /\ Len(trail) \in DOMAIN trail /\ trail[Len(trail)] \in Scope
        /\ Len(v) = Len(trail)
        /\ \A j \in 1..Len(trail) : j # Len(trail) => v[j] = trail[j]
    BY <2>1
  <2>3. v[Len(trail)].symbols = table
    BY <2>1, <2>2 DEF Scope
  <2>4. PICK e \in Scope : e = [node |-> n, symbols |-> NoSymbols]
    BY DEF Scope, NoSymbols
  <2>5. PICK u \in Seq(Scope) : u = Append(v, e)
    <3>1. Append(v, e) \in Seq(Scope)
      OBVIOUS
    <3> QED BY <3>1
  <2>6. /\ Len(u) = Len(trail) + 1
        /\ \A j \in 1..Len(u) :
              u[j].symbols = IF j = Len(u) THEN NoSymbols
                             ELSE IF j = Len(trail) THEN table ELSE trail[j].symbols
    BY <2>2, <2>3, <2>4, <2>5
  <2>7. u = trail'
    BY <1>8, <2>1, <2>4, <2>5
  <2>8. /\ table[sym] # Null => Lookup(u, sym) = table[sym]
        /\ table[sym] = trail[Len(trail)].symbols[sym] => Lookup(u, sym) = Lookup(trail, sym)
    BY <2>6, LookupTop
  <2> QED BY <2>7, <2>8
<1>12. CASE Stores(f)
  <2>1. f = CHOOSE g \in stored : g.sym = sym
    BY <1>2, <1>3, <1>10
  <2>2. table[sym] = ValueIn(f)
    BY <1>2, <1>6, <1>10, <1>12, <2>1
  <2>3. Lookup(trail', sym) = ValueIn(f) /\ ValueIn(f) # Null
    BY <1>9, <1>11, <2>2, NullAssumption
  <2> QED BY <1>1, <1>10, <2>3 DEF TextOf
<1>13. CASE ~Stores(f)
  <2>1. table[sym] = Top.symbols[sym]
    BY <1>3, <1>6, <1>10, <1>13
  <2>2. Lookup(trail', sym) = Lookup(trail, sym)
    BY <1>11, <2>1 DEF Top
  <2> QED BY <1>1, <1>10, <1>13, <2>2 DEF TextOf, Stores
<1> QED BY <1>12, <1>13

\* Whatever was typed, chosen and refused before, NEXT leaves a dialog only
\* with all that its entries say, each under its own symbol, and with nothing
\* that a format refuses.
THEOREM DialogsStore == Spec => DialogStores
<1>1. ASSUME IInv, [Next]_vars, pc = "loop", pc' = "build", Len(trail') > Len(trail),
             TypeOf(Top.node) = "DIALOG"
      PROVE  \A i \in DOMAIN FieldsOf(Top.node) :
                LET f == FieldsOf(Top.node)[i]
                IN  TextOf(trail', f.sym) = ValueIn(f) /\ ~Rejected(f)
  <2>1. /\ trail \in Seq(Scope) /\ trail # <<>> /\ entry \in [Symbols -> Values]
        /\ sens.next => page = Top.node
    BY <1>1 DEF IInv, Typed, LibraryTyped, PaneTyped, Owned, PaneIsTop
  <2>2. Len(trail) \in Nat /\ \A m, n \in Nat : m > n => ~(m <= n) /\ m # n
    BY <2>1
  <2>3. \/ ClickPrevious \/ NextFromDialog \/ (\E n \in Nodes : NextFromMenu(n))
        \/ FinishInitcommand
    BY <1>1 DEF Next, Build, User, Polls, Processes, Reads, vars, Loaded, LoadFails, End,
       BuildNone, BuildMenu, BuildDialog, BuildCrashes, BuildHidden, StartInitcommand,
       StartInitcommandFails, BuildAction, BuildActionFails, BuildActionRefused, Building,
       NextFromDialogRefused, Type, StartList, StartListFails, StartRing, Answer, ClickCancel,
       CloseFilling, Quit, RingFilled, ReadSome, ReadEnd, ReadError, Poll, FinishList,
       FinishAction, UseGone, Write, Exit, Fork, CloseStreams, RestExits, Terminated, Environment
  <2>4. ~StepBack
    <3>1. Len(Back(trail)) <= Len(trail) /\ Len(Back(trail)) \in Nat
      BY <2>1, BackShortens, BackType
    <3> QED BY <1>1, <2>2, <3>1 DEF StepBack
  <2>5. ~FinishInitcommand
    <3>1. ASSUME NEW table \in [Symbols -> Values \cup {Null}], trail' = Parsed(table)
          PROVE  FALSE
      <4>1. Len(trail') = Len(trail)
        BY <2>1, <3>1 DEF Parsed
      <4> QED BY <1>1, <2>2, <4>1
    <3> QED BY <2>4, <3>1 DEF FinishInitcommand
  <2>6. ~ClickPrevious /\ ~\E n \in Nodes : NextFromMenu(n)
    BY <1>1, <2>1, <2>4 DEF ClickPrevious, NextFromMenu, CanPress
  <2>7. NextFromDialog /\ page = Top.node /\ page \in Nodes
    BY <1>1, <2>1, <2>3, <2>5, <2>6
       DEF NextFromDialog, CanPress, IInv, Typed, PaneTyped
  <2>8. PICK n \in StepsOf(Top.node) \cup {Null} :
           Goto(StoreFields(Len(FieldsOf(page))), n)
    BY <2>7 DEF NextFromDialog, StepForward
  <2>9. n \in Nodes \cup {Null}
    BY <2>8 DEF StepsOf
  <2>10. ASSUME NEW i \in DOMAIN FieldsOf(page)
         PROVE  LET f == FieldsOf(page)[i]
                IN  TextOf(trail', f.sym) = ValueIn(f) /\ ~Rejected(f)
    BY <2>1, <2>7, <2>8, <2>9, StoredAll DEF NextFromDialog
  <2> QED BY <2>7, <2>10
<1>2. IInv /\ [Next]_vars => [LeavesDialog => EntriesStored]_vars
  BY <1>1 DEF LeavesDialog, EntriesStored
<1> QED BY <1>2, AlwaysIInv, PTL DEF Spec, DialogStores
-----------------------------------------------------------------------------
(* The refinement.                                                         *)
mapped == <<Place, Running, WroteOut, Torn, Exited, Heard, Over>>

\* What the abstract front end sees of the program.
LEMMA SeenPlace ==
    ASSUME LibraryTyped
    PROVE  /\ Place \in Nodes \cup {Null}
           /\ trail # <<>> => Place = Top.node
BY TopType DEF LibraryTyped, Place, Scope

LEMMA PlaceLater == IInv' => (Place \in Nodes \cup {Null})'
<1>1. IInv => Place \in Nodes \cup {Null}
  BY SeenPlace DEF IInv, Typed
<1> QED BY <1>1, PTL

NoCommand == Running = Nobody /\ WroteOut = <<>> /\ Torn = FALSE /\ Exited = "no"

LEMMA SeenIdle ==
    ASSUME Tidy, ~Collecting
    PROVE  NoCommand
<1>1. proc.wrote = Blank /\ proc.torn = FALSE /\ proc.leader = "none"
  BY DEF Tidy, Resting, NoProc
<1> QED BY <1>1 DEF NoCommand, Running, WroteOut, Torn, Exited, Blank, Streams

LEMMA IdleLater == IInv' /\ ~Collecting' => NoCommand'
<1>1. IInv /\ ~Collecting => NoCommand
  BY SeenIdle DEF IInv, Gathered
<1> QED BY <1>1, PTL

LEMMA SeenCollecting ==
    ASSUME IInv, Collecting
    PROVE  /\ Running = proc.for /\ proc.for = Top.node /\ Top.node \in Nodes /\ Running # Nobody
           /\ Heard = FrontEnd!Silence
<1>1. proc.for = Top.node /\ proc.for # Null /\ given = NotGiven /\ proc \in Command
  BY DEF IInv, Typed, CommandTyped, Owned, CommandOwnsScreen, Gathered, Tidy
<1>2. Top.node \in Nodes
  BY <1>1 DEF Command
<1> QED BY <1>1, <1>2, NobodyAssumption DEF Running, Heard, NotGiven, FrontEnd!Silence

\* Nothing of a step is seen.
LEMMA Unseen ==
    ASSUME UNCHANGED <<Place, given, Over>>, Collecting' = Collecting, proc'.for = proc.for,
           proc'.wrote["out"] = proc.wrote["out"], proc'.torn = proc.torn,
           proc'.leader = proc.leader, proc'.ok = proc.ok
    PROVE  UNCHANGED mapped
BY DEF mapped, Running, WroteOut, Torn, Exited, Heard

\* A step that moves the session, or does nothing that is seen.
LEMMA MovesOnly ==
    ASSUME IInv, IInv', ~Collecting, ~Collecting', UNCHANGED given, pc # "quit", pc' # "quit"
    PROVE  FrontEnd!Move
<1>1. /\ Running = Nobody /\ Running' = Nobody /\ WroteOut = <<>> /\ WroteOut' = <<>>
      /\ Torn = FALSE /\ Torn' = FALSE /\ Exited = "no" /\ Exited' = "no"
  BY SeenIdle, IdleLater DEF IInv, Gathered, NoCommand
<1>2. ~Over /\ ~Over' /\ UNCHANGED Heard
  BY DEF Over, Heard
<1>3. UNCHANGED Over
  BY DEF Over
<1>4. Place' \in Nodes \cup {Null}
  BY PlaceLater
<1> QED BY <1>1, <1>2, <1>3, <1>4 DEF FrontEnd!Move

\* The program ends.
LEMMA Stops ==
    ASSUME IInv, IInv', End, pc # "quit"
    PROVE  FrontEnd!Stop
<1>1. sources' = {} /\ given' = NotGiven /\ ~Over /\ Over'
  BY DEF End, Over
<1>2. ~Collecting'
  BY <1>1 DEF Collecting
<1>3. Running' = Nobody /\ WroteOut' = <<>> /\ Torn' = FALSE /\ Exited' = "no"
  BY <1>2, IdleLater DEF NoCommand
<1>4. Heard' = FrontEnd!Silence
  BY <1>1 DEF Heard, NotGiven, FrontEnd!Silence
<1>5. Over' = TRUE /\ Over = FALSE
  BY <1>1 DEF Over
<1> QED BY <1>3, <1>4, <1>5, PlaceLater DEF FrontEnd!Stop

\* A screen starts a command.
LEMMA Starts ==
    ASSUME IInv, NEW k \in Kinds, NEW b \in BOOLEAN, Spawn(k, b), ~Collecting,
           UNCHANGED trail, pc \in {"loop", "build"}, pc' = "loop"
    PROVE  FrontEnd!Start
<1>1. Running = Nobody /\ WroteOut = <<>> /\ Torn = FALSE /\ Exited = "no"
  BY SeenIdle DEF IInv, Gathered, NoCommand
<1>2. trail # <<>> /\ Place = Top.node
  BY SeenPlace DEF IInv, Typed, LibraryTyped
<1>3. /\ proc'.for = Top.node /\ proc'.wrote = Blank /\ proc'.torn = FALSE
      /\ proc'.leader = "running" /\ given' = NotGiven /\ Collecting'
  BY DEF Spawn, NoProc, Collecting
<1>4. Running' = Place /\ WroteOut' = <<>> /\ Torn' = FALSE /\ Exited' = "no"
  BY <1>2, <1>3 DEF Running, WroteOut, Torn, Exited, Blank, Streams
<1>5. Place' = Place /\ Heard' = FrontEnd!Silence
  BY <1>3 DEF Place, Top, Heard, NotGiven, FrontEnd!Silence
<1>6. ~Over /\ UNCHANGED Over
  BY DEF Over
<1> QED BY <1>1, <1>4, <1>5, <1>6 DEF FrontEnd!Start

\* An initcommand cannot be started.
LEMMA NotStarts ==
    ASSUME IInv, IInv', StartInitcommandFails
    PROVE  FrontEnd!NotStarted
<1>1. ~Collecting /\ ~Collecting'
  BY DEF StartInitcommandFails, IInv, Owned, BuildsAlone, Collecting
<1>2. /\ Running = Nobody /\ Running' = Nobody /\ WroteOut = <<>> /\ WroteOut' = <<>>
      /\ Torn = FALSE /\ Torn' = FALSE /\ Exited = "no" /\ Exited' = "no"
  BY <1>1, SeenIdle, IdleLater DEF IInv, Gathered, NoCommand
<1>3. ~Over /\ UNCHANGED Over
  BY DEF StartInitcommandFails, Over
<1>4. Place = Top.node
  BY SeenPlace DEF StartInitcommandFails, IInv, Typed, LibraryTyped
<1>5. Heard' = [to |-> Place, ok |-> FALSE, out |-> <<>>]
  BY <1>4 DEF StartInitcommandFails, Heard
<1> QED BY <1>2, <1>3, <1>5, PlaceLater DEF FrontEnd!NotStarted

\* A process of the command goes on, or a stream of it cannot be read.
LEMMA CommandSeen ==
    ASSUME IInv, Processes \/ \E k \in Kinds, s \in Streams : ReadError(k, s)
    PROVE  FrontEnd!Command \/ UNCHANGED mapped
<1> USE DEF library, output, choice, command, Environment
<1>1. UNCHANGED <<trail, pc, given>>
  BY DEF Processes, Write, Exit, Fork, CloseStreams, RestExits, Terminated, ReadError
<1>2. Collecting' = Collecting
  <2>1. \A k \in Kinds : <<k, "timeout">> \in sources' <=> <<k, "timeout">> \in sources
    BY DEF Processes, Write, Exit, Fork, CloseStreams, RestExits, Terminated, ReadError, Shut,
       Streams
  <2> QED BY <2>1 DEF Collecting
<1>3. UNCHANGED Place /\ UNCHANGED Heard /\ UNCHANGED Over
  BY <1>1 DEF Place, Top, Heard, Over
<1>4. proc \in Command /\ Tidy /\ OneCommand /\ "out" \in Streams
  BY DEF IInv, Typed, CommandTyped, Gathered, Owned, Streams
<1>5. ASSUME RestExits \/ Fork \/ CloseStreams PROVE UNCHANGED mapped
  <2>1. /\ proc'.for = proc.for /\ proc'.wrote = proc.wrote /\ proc'.torn = proc.torn
        /\ proc'.leader = proc.leader /\ proc'.ok = proc.ok
    BY <1>4, <1>5 DEF RestExits, Fork, CloseStreams, Command
  <2> QED BY <1>1, <1>2, <1>3, <2>1, Unseen
<1>6. ASSUME NEW piece \in Output, Write(piece) PROVE FrontEnd!Command \/ UNCHANGED mapped
  <2> DEFINE s == piece.stream
  <2>1. /\ s \in Streams /\ piece \in Piece /\ chan[s]
        /\ proc'.wrote = [proc.wrote EXCEPT ![s] = Append(proc.wrote[s], piece)]
        /\ proc'.for = proc.for /\ proc'.torn = proc.torn
        /\ proc'.leader = proc.leader /\ proc'.ok = proc.ok
    BY <1>4, <1>6, ActionsAssumption DEF Write, Command, Piece
  <2>2. proc.wrote \in [Streams -> Seq(Piece)]
    BY <1>4 DEF Command
  <2>3. Running # Nobody
    BY <1>4, <2>1, SeenCollecting DEF Tidy
  <2>4. UNCHANGED Running /\ UNCHANGED Torn /\ UNCHANGED Exited
    BY <1>2, <2>1 DEF Running, Torn, Exited
  <2>5. CASE s = "out"
    <3>1. WroteOut' = Append(WroteOut, piece)
      BY <2>1, <2>2, <2>5 DEF WroteOut
    <3> QED BY <1>3, <2>1, <2>3, <2>4, <3>1 DEF FrontEnd!Command
  <2>6. CASE s # "out"
    BY <1>1, <1>2, <1>3, <1>4, <2>1, <2>2, <2>6, Unseen
  <2> QED BY <2>5, <2>6
<1>7. ASSUME proc.leader = "running", proc'.leader = "zombie", proc'.ok \in BOOLEAN,
             proc'.for = proc.for, proc'.torn = proc.torn, proc'.wrote = proc.wrote
      PROVE  FrontEnd!Command
  <2>1. Collecting
    BY <1>4, <1>7 DEF Tidy, Resting, NoProc
  <2>2. Running # Nobody /\ UNCHANGED Running
    BY <1>2, <1>7, <2>1, SeenCollecting DEF Running
  <2>3. Exited = "no" /\ Exited' \in {"ok", "failed"}
    BY <1>7 DEF Exited
  <2>4. UNCHANGED Torn /\ UNCHANGED WroteOut
    BY <1>7 DEF Torn, WroteOut
  <2> QED BY <1>3, <2>2, <2>3, <2>4 DEF FrontEnd!Command
<1>8. ASSUME NEW ok \in BOOLEAN, Exit(ok) PROVE FrontEnd!Command
  BY <1>4, <1>7, <1>8 DEF Exit, Command
<1>9. ASSUME Terminated PROVE FrontEnd!Command \/ UNCHANGED mapped
  <2>1. /\ proc'.leader = IF proc.leader = "running" THEN "zombie" ELSE proc.leader
        /\ proc'.ok = (proc.ok /\ proc.leader # "running")
        /\ proc'.for = proc.for /\ proc'.torn = proc.torn /\ proc'.wrote = proc.wrote
    BY <1>4, <1>9 DEF Terminated, Command
  <2>2. CASE proc.leader = "running"
    <3>1. proc'.ok = FALSE
      BY <2>1, <2>2
    <3> QED BY <1>7, <2>1, <2>2, <3>1
  <2>3. CASE proc.leader # "running"
    <3>1. proc'.ok = proc.ok
      BY <1>4, <2>1, <2>3 DEF Command
    <3> QED BY <1>1, <1>2, <1>3, <2>1, <2>3, <3>1, Unseen
  <2> QED BY <2>2, <2>3
<1>10. ASSUME NEW k \in Kinds, NEW s \in Streams, ReadError(k, s) PROVE FrontEnd!Command
  <2>1. /\ proc'.torn = TRUE /\ proc'.leader = proc.leader /\ proc'.ok = proc.ok
        /\ proc'.for = proc.for /\ proc'.wrote = proc.wrote
    BY <1>4, <1>10 DEF ReadError, Command
  <2>2. Collecting
    BY <1>4, <1>10 DEF ReadError, Watching, OneCommand, RingIdle, Kinds
  <2>3. Running # Nobody
    BY <2>2, SeenCollecting
  <2>4. Torn' = TRUE /\ UNCHANGED Running /\ UNCHANGED Exited /\ UNCHANGED WroteOut
    BY <1>2, <2>1 DEF Running, Torn, WroteOut, Exited
  <2> QED BY <1>3, <2>3, <2>4 DEF FrontEnd!Command
<1> QED BY <1>5, <1>6, <1>8, <1>9, <1>10 DEF Processes

\* The screen hears of its command, with all that it wrote.
LEMMA Hears ==
    ASSUME IInv, IInv', FinishInitcommand \/ FinishList \/ FinishAction
    PROVE  FrontEnd!Hear
<1>0. CommandOwnsScreen /\ Tidy /\ NothingLost /\ CommandTyped /\ proc \in Command
  BY DEF IInv, Typed, CommandTyped, Owned, Gathered
<1> DEFINE Told(k) == IF k = "ic" THEN data["out"] ELSE IF k = "lc" THEN lines ELSE FromOut(lines)
<1>1. PICK k \in Kinds : Finish(k, Told(k)) /\ pc' \in {"loop", "build"}
  BY DEF FinishInitcommand, FinishList, FinishAction, Finish, Kinds
<1>2. /\ pc = "loop" /\ <<k, "timeout">> \in sources /\ Removed(k)
      /\ given' = [to |-> Top.node, ok |-> proc.ok, out |-> Told(k), started |-> TRUE]
      /\ PidNow = "reaped" /\ \A s \in Streams : ~chan[s]
  BY <1>1 DEF Finish, Complete, StatusNow
<1>3. Collecting /\ k = proc.kind
  BY <1>0, <1>2, CollectsOne DEF Collecting
<1>4. ~Collecting'
  BY <1>0, <1>2, <1>3, CollectsOne DEF Collecting, Removed
<1>5. /\ Running = Top.node /\ Top.node \in Nodes /\ Running # Nobody /\ Place = Top.node
  BY <1>2, <1>3, SeenCollecting, SeenPlace DEF IInv, Typed, LibraryTyped
<1>6. proc.leader \in {"zombie", "reaped"}
  BY <1>0, <1>2, <1>3 DEF PidNow, Reapable, Tidy
<1>7. Exited # "no" /\ proc.ok = (Exited = "ok")
  BY <1>0, <1>6 DEF Exited, Command
<1>8. Heard'.to = Place /\ Heard'.ok = proc.ok /\ Heard'.out = Collected
  BY <1>1, <1>2, <1>3, <1>5, NullAssumption DEF Heard, Collected
<1>9. ~Torn => FrontEnd!Same(Heard'.out, WroteOut)
  BY <1>0, <1>2, <1>3, <1>8 DEF NothingLost, Torn, WroteOut, Streams
<1>10. Running' = Nobody /\ WroteOut' = <<>> /\ Torn' = FALSE /\ Exited' = "no"
  BY <1>4, IdleLater DEF NoCommand
<1>11. UNCHANGED Over
  BY <1>1, <1>2 DEF Over
<1> QED BY <1>5, <1>7, <1>8, <1>9, <1>10, <1>11, PlaceLater DEF FrontEnd!Hear

LEMMA FrontEndStep ==
    ASSUME IInv, IInv', [Next]_vars
    PROVE  [FrontEnd!Next]_mapped
<1> USE DEF library, pane, output, choice, command, commands
<1>0. /\ Owned /\ CommandOwnsScreen /\ BuildsAlone /\ Typed /\ CommandTyped
  BY DEF IInv, Typed, Owned
<1>1. CASE LoadFails \/ BuildCrashes \/ Quit \/ UseGone
  <2>1. End /\ pc # "quit"
    BY <1>1 DEF LoadFails, BuildCrashes, Quit, UseGone, Building
  <2> QED BY <2>1, Stops DEF FrontEnd!Next
<1>2. ASSUME pc # "loop" PROVE ~Collecting
  BY <1>0, <1>2 DEF BuildsAlone, Collecting
<1>3. ASSUME UNCHANGED sources PROVE Collecting' = Collecting
  BY <1>3 DEF Collecting
<1>4. CASE \/ Loaded \/ BuildNone \/ BuildMenu \/ BuildDialog \/ BuildHidden
           \/ BuildActionFails \/ BuildActionRefused
  <2>1. pc \in {"load", "build"} /\ pc' \in {"loop", "build"} /\ UNCHANGED <<sources, given>>
    BY <1>4 DEF Loaded, BuildNone, BuildMenu, BuildDialog, BuildHidden, BuildActionFails,
       BuildActionRefused, Building, NothingHere, Show
  <2> QED BY <1>2, <1>3, <2>1, MovesOnly DEF FrontEnd!Next
<1>5. CASE \/ ClickPrevious \/ NextFromDialog \/ NextFromDialogRefused
           \/ \E n \in Nodes : NextFromMenu(n)
  <2>1. /\ pc = "loop" /\ pc' \in {"loop", "build"} /\ UNCHANGED <<sources, given>>
        /\ sens.next \/ sens.previous
    BY <1>5 DEF ClickPrevious, NextFromDialog, NextFromDialogRefused, NextFromMenu, CanPress
  <2>2. ~Collecting
    BY <1>0, <2>1 DEF CommandOwnsScreen
  <2> QED BY <1>3, <2>1, <2>2, MovesOnly DEF FrontEnd!Next
<1>6. CASE StartInitcommandFails
  BY <1>6, NotStarts DEF FrontEnd!Next
<1>7. CASE StartInitcommand
  <2>1. pc = "build" /\ pc' = "loop" /\ Spawn("ic", TRUE) /\ UNCHANGED trail /\ "ic" \in Kinds
    BY <1>7 DEF StartInitcommand, Kinds
  <2> QED BY <1>2, <2>1, Starts DEF FrontEnd!Next
<1>8. CASE BuildAction
  <2>1. PICK tty \in Tty[NameOf(Top.node)] \ {"SELF"} : Spawn("ac", tty = "YES")
    BY <1>8 DEF BuildAction
  <2>2. pc = "build" /\ pc' = "loop" /\ UNCHANGED trail /\ "ac" \in Kinds
        /\ (tty = "YES") \in BOOLEAN
    BY <1>8 DEF BuildAction, Building, Kinds
  <2> QED BY <1>2, <2>1, <2>2, Starts DEF FrontEnd!Next
<1>9. ASSUME NEW f \in FieldsHere, StartList(f) PROVE FrontEnd!Next
  <2>1. ~Collecting /\ pc = "loop" /\ pc' = "loop"
    BY <1>0, <1>9 DEF StartList, Listable, CanPress, Owned, ScreensIdle
  <2>2. Spawn("lc", TRUE) /\ UNCHANGED trail /\ "lc" \in Kinds
    BY <1>9 DEF StartList, Kinds
  <2> QED BY <2>1, <2>2, Starts DEF FrontEnd!Next
\* What the user does at a screen, and what the window does for itself.
<1>10. ASSUME UNCHANGED <<trail, pc, given>>, Collecting' = Collecting, proc'.for = proc.for,
              proc'.wrote = proc.wrote, proc'.torn = proc.torn, proc'.leader = proc.leader,
              proc'.ok = proc.ok
       PROVE  UNCHANGED mapped
  <2>1. UNCHANGED <<Place, Over>>
    BY <1>10 DEF Place, Top, Over
  <2> QED BY <1>10, <2>1, Unseen
<1>11. CASE \/ \E f \in FieldsHere, v \in Values : Type(f, v)
            \/ \E f \in FieldsHere : StartListFails(f) \/ StartRing(f)
            \/ Answer \/ CloseFilling \/ RingFilled \/ UNCHANGED vars
  <2>1. /\ UNCHANGED <<trail, pc, given, proc>>
        /\ sources' \in {sources, sources \cup {RingIdle}, sources \ {RingIdle}}
    BY <1>11 DEF Type, StartListFails, StartRing, Answer, CloseFilling, RingFilled, vars, RingIdle
  <2>2. Collecting' = Collecting
    BY <2>1 DEF Collecting, RingIdle, Kinds
  <2> QED BY <1>10, <2>1, <2>2
<1>12. CASE ClickCancel
  <2>1. /\ UNCHANGED <<trail, pc, given, sources>> /\ proc'.for = proc.for
        /\ proc'.wrote = proc.wrote /\ proc'.torn = proc.torn /\ proc'.leader = proc.leader
        /\ proc'.ok = proc.ok
    BY <1>0, <1>12 DEF ClickCancel, SigTerm, CommandTyped, Command
  <2> QED BY <1>3, <1>10, <2>1
<1>13. ASSUME NEW k \in Kinds, NEW s \in Streams, ReadSome(k, s) \/ ReadEnd(k, s)
       PROVE  UNCHANGED mapped
  <2>1. UNCHANGED <<trail, pc, given, proc>> /\ sources' \in {sources, sources \ {<<k, s>>}}
    BY <1>13 DEF ReadSome, ReadEnd, Shut
  <2>2. Collecting' = Collecting
    BY <2>1 DEF Collecting, Streams
  <2> QED BY <1>10, <2>1, <2>2
\* The poll reaps the child.  Its exit was seen before.
<1>14. ASSUME NEW k \in Kinds, Poll(k) PROVE UNCHANGED mapped
  <2>1. /\ UNCHANGED <<trail, pc, given, sources>> /\ proc'.for = proc.for
        /\ proc'.wrote = proc.wrote /\ proc'.torn = proc.torn /\ proc'.ok = proc.ok
        /\ proc.leader = "zombie" /\ proc'.leader = "reaped"
    BY <1>0, <1>14 DEF Poll, Reapable, CommandTyped, Command
  <2> QED BY <1>3, <2>1 DEF mapped, Place, Top, Running, WroteOut, Torn, Exited, Heard, Over
<1>15. CASE FinishInitcommand \/ FinishList \/ FinishAction
  BY <1>15, Hears DEF FrontEnd!Next
<1>16. CASE Processes \/ \E k \in Kinds, s \in Streams : ReadError(k, s)
  BY <1>16, CommandSeen DEF FrontEnd!Next
<1> QED
  BY <1>1, <1>4, <1>5, <1>6, <1>7, <1>8, <1>9, <1>11, <1>12, <1>13, <1>14, <1>15, <1>16
  DEF Next, Build, User, Polls, Reads

\* The window implements the abstract front end: one command at a time, the
\* session stays where the command was asked for, and that screen hears of it
\* once, after its end, with its exit status and with all that it wrote - in
\* whatever order the poll and the two watches come to it, however the chunks
\* are cut, and whether or not the user cancelled it or closed its dialog.
THEOREM FrontEndImplemented == Spec => ImplementsFrontEnd
<1>1. Init => FrontEnd!Init
  <2> SUFFICES ASSUME Init PROVE FrontEnd!Init
    OBVIOUS
  <2>1. IInv /\ given = NotGiven /\ trail = <<>> /\ pc = "load" /\ ~Collecting
    BY InitIInv DEF Init, Collecting
  <2>2. NoCommand
    BY <2>1, SeenIdle DEF IInv, Gathered
  <2> QED BY <2>1, <2>2 DEF FrontEnd!Init, FrontEnd!Silence, Heard, NotGiven, Place, Over, NoCommand
<1>2. IInv /\ IInv' /\ [Next]_vars => [FrontEnd!Next]_mapped
  BY FrontEndStep
<1>3. IInv /\ IInv' /\ [Next]_vars => [FrontEnd!Next]_FrontEnd!vars
  BY <1>2 DEF mapped, FrontEnd!vars
<1> QED BY <1>1, <1>3, AlwaysIInv, PTL DEF Spec, ImplementsFrontEnd, FrontEnd!Spec
=============================================================================
