------------------------------- MODULE ClRasta -------------------------------
(***************************************************************************)
(* clrasta: the command line front end, one thread that asks and waits.    *)
(*                                                                         *)
(* Every screen is a loop around a prompt.  An answer is a letter, a       *)
(* number, an empty line, something else, or the end of the input, which   *)
(* reads as QUIT at every prompt.  A dialog asks for its fields one after  *)
(* the other and stores each as it leaves it; a list is paged through and  *)
(* marked by number.  A command is collected by reading its output to the  *)
(* end, then its errors to the end, then its exit status; its processes    *)
(* run beside the program, and their pipes are bounded.                    *)
(*                                                                         *)
(* The library appears as what RastaContext shows of it.                   *)
(***************************************************************************)
EXTENDS RastaDescription, Integers, Sequences

CONSTANTS
    doc,            \* the description the program was started with
    Saved,          \* the scopes that a state file restores
    Fields,         \* the FIELDs of every screen, in document order
    Ring,           \* the RINGVALUEs, in document order
    Refused,        \* values that do not fit the FORMAT of a numeric field
    Empty,          \* the empty text
    Joined,         \* items at their positions, the last one first, with blanks between
    FirstWord,      \* what a single-column list keeps of an item
    Lines,          \* the lines a command may print
    Numbers,        \* the numbers a user may type
    PageSize,       \* the items a page has: 10 in the code
    Capacity,       \* bound: what a pipe holds
    MaxPieces,      \* bound: how much a command prints, per stream
    Nobody          \* the command of no element

Streams == {"out", "err"}
Prompted == {"ENTRY", "FILE", "LIST", "ENTRYLIST", "RING"}
Field == [sym : Symbols, type : Prompted \cup {"READONLY", "DESCRIPTION"},
          numeric : BOOLEAN, required : BOOLEAN, multiple : BOOLEAN, column : BOOLEAN]
RingValue == [value : Values, text : Values]

ASSUME DocAssumption == doc \in Descriptions
ASSUME SavedAssumption ==
    \A t \in Saved :
        /\ t \in Seq([node : Nodes, symbols : [Symbols -> Values \cup {Null}]])
        /\ t # <<>> /\ t[1].node = doc.root
        /\ \A i \in 2..Len(t) : doc.owner[t[i].node] = t[i - 1].node
ASSUME FieldsAssumption == Fields \in [ScreenIds -> Seq(Field)]
ASSUME ValuesAssumption ==
    /\ Empty \in Values /\ Refused \subseteq Values
    /\ Ring \in Seq(RingValue)
    /\ FirstWord \in [Values -> Values]
    /\ Lines \subseteq Values \ {Empty}
ASSUME BoundsAssumption ==
    /\ Numbers \subseteq Int
    /\ PageSize \in Nat \ {0} /\ Capacity \in Nat \ {0} /\ MaxPieces \in Nat
    /\ \A S \in SUBSET (1..MaxPieces) : \A f \in [S -> Values] : Joined[f] \in Values
ASSUME NobodyAssumption == Nobody \notin Nodes \cup {Null}

VARIABLES
    trail,      \* the scopes: element and symbols, the initial one first
    due,        \* ctxt->state = RASTA_CONTEXT_INITCOMMAND
    pc,         \* the loop the program is in
    ended,      \* has the input ended for good?
    field,      \* which field of the dialog is asked for
    new,        \* its new_value
    marks,      \* its l_result: the positions chosen so far
    items,      \* its list_items
    start,      \* the first position of the page a menu or a list shows
    helping,    \* choose_help: the next number asks for help
    marked,     \* the marks of the list that is shown
    last,       \* last_marked of that list
    reading,    \* the stream that is read, or "wait" for the exit status
    data,       \* out_data
    proc,       \* the command, and a process it left behind
    pipe,       \* what the two pipes hold
    given       \* history: the last outcome handed to a screen

library == <<trail, due>>
asked   == <<field, new, marks, items>>
pages   == <<start, helping>>
list    == <<marked, last>>
command == <<reading, data, proc, pipe>>
vars == <<trail, due, pc, ended, field, new, marks, items, start, helping,
          marked, last, reading, data, proc, pipe, given>>

NoSymbols == [s \in Symbols |-> Null]
None   == 0
Blank  == [s \in Streams |-> <<>>]
NoProc == [kind |-> "none", for |-> Null, leader |-> "none", rest |-> FALSE,
           ok |-> TRUE, writing |-> "none", shut |-> FALSE, torn |-> FALSE,
           wrote |-> Blank]
NotGiven == [to |-> Null, ok |-> TRUE, out |-> <<>>, lost |-> FALSE]

-----------------------------------------------------------------------------
(***************************************************************************)
(* The library, as RastaContext describes it.                              *)
(***************************************************************************)
Top == trail[Len(trail)]
TypeOf(n) == IF n = Null THEN "NONE" ELSE doc.type[doc.name[n]]
NameOf(n) == doc.name[n]
FieldsOf(n) == Fields[NameOf(n)]
FieldHere == FieldsOf(Top.node)[field]

\* The choices of a menu, in document order.
ChoicesOf(n) ==
    LET from[m \in Nodes \cup {Null}] ==
            IF m = Null THEN <<>>
            ELSE (IF doc.kind[m] \in MenuKinds THEN <<m>> ELSE <<>>) \o from[doc.next[m]]
    IN  from[doc.child[n]]
ASSUME SiblingsAssumption == \A n \in Nodes : ChoicesOf(n) \in Seq(Nodes)
StepsOf(n) == {m \in Nodes : doc.owner[m] = n}

\* rasta_symbol_lookup: a NULL value hides nothing.
Lookup(t, sym) ==
    LET bound == {i \in 1..Len(t) : t[i].symbols[sym] # Null}
    IN  IF bound = {} THEN Null
        ELSE t[CHOOSE i \in bound : \A j \in bound : j <= i].symbols[sym]
Text(v) == IF v = Null THEN Empty ELSE v

DueAt(n)   == n # Null /\ doc.init[NameOf(n)]
Goto(t, n) == trail' = Append(t, [node |-> n, symbols |-> NoSymbols]) /\ due' = DueAt(n)

\* The next element of a dialog or a hidden screen; a path may end there.
StepForward(t) == \E n \in StepsOf(Top.node) \cup {Null} : Goto(t, n)

\* rasta_screen_previous: back over hidden screens, the first one stays.
Shown(t) == {i \in 1..Len(t) : i = 1 \/ (i < Len(t) /\ TypeOf(t[i].node) # "HIDDEN")}
Back(t)  == SubSeq(t, 1, CHOOSE i \in Shown(t) : \A j \in Shown(t) : j <= i)
StepBack(t) == trail' = Back(t) /\ due' = FALSE

-----------------------------------------------------------------------------
(***************************************************************************)
(* Starting and ending.                                                    *)
(***************************************************************************)
NoField == field' = 0 /\ new' = Null /\ marks' = {} /\ items' = <<>>
NoList  == marked' = {} /\ last' = None
Idle    == reading' = "none" /\ data' = <<>> /\ proc' = NoProc /\ pipe' = Blank

Init ==
    /\ pc = "load" /\ trail = <<>> /\ due = FALSE /\ ended = FALSE
    /\ field = 0 /\ new = Null /\ marks = {} /\ items = <<>>
    /\ start = 0 /\ helping = FALSE /\ marked = {} /\ last = None
    /\ reading = "none" /\ data = <<>> /\ proc = NoProc /\ pipe = Blank
    /\ given = NotGiven

\* The program ends, and nothing of its state is left.
End ==
    /\ pc' = "quit" /\ trail' = <<>> /\ due' = FALSE /\ ended' = FALSE
    /\ NoField /\ NoList /\ Idle
    /\ start' = 0 /\ helping' = FALSE
    /\ given' = NotGiven

\* Where a fastpath may lead.
Entries == {doc.root} \cup {n \in Nodes : doc.open[n] /\ MayDescend(doc, n)}

\* The first screen is the root or that of the fastpath, which may not have
\* been found; or a state is travelled, and nothing is due after a move.
Loaded ==
    /\ pc = "load"
    /\ \/ \E n \in Entries \cup {Null} : Goto(<<>>, n)
       \/ \E t \in Saved : trail' = t /\ due' = (Len(t) = 1 /\ DueAt(doc.root))
    /\ pc' = "screen"
    /\ UNCHANGED <<ended, asked, pages, list, command, given>>

\* Options that make no sense, a description or a state that is refused:
\* with --load-push the description is parsed as the state.
LoadFails == pc = "load" /\ End

-----------------------------------------------------------------------------
(***************************************************************************)
(* Prompts.                                                                *)
(***************************************************************************)
\* clr_query_response: a line that is one of the letters offered, or empty.
\* Anything else is asked for again.  A NULL line is QUIT, offered or not: a
\* terminal may go on after it, a file has ended.
Gets(result, offered) ==
    /\ ~ended /\ UNCHANGED ended
    /\ result \in offered

InputEnds ==
    /\ pc \notin {"load", "quit"} /\ ~ended
    /\ ended' = TRUE
    /\ UNCHANGED <<library, pc, asked, pages, list, command, given>>

\* Mutant of Quitting: an action is not left at the end of the input.
QuittingOffered == {"menu", "field"}

Quitting == {"menu", "field", "action"}

Quit == pc \in Quitting /\ End

OnPage(k, count) == k > 0 /\ k <= PageSize /\ k <= count - start

\* Mutant of Turn: a last page that is full is followed by another one.
TurnFull(count) == start' = IF count - start >= PageSize THEN start + PageSize ELSE 0

Turn(count) == start' = IF count - start > PageSize THEN start + PageSize ELSE 0

-----------------------------------------------------------------------------
(***************************************************************************)
(* The loop of main.                                                       *)
(***************************************************************************)
At(type) == pc = "screen" /\ TypeOf(Top.node) = type

\* There are no items of this type: the program ends.
Unusable ==
    /\ pc = "screen"
    /\ \/ At("NONE")
       \/ At("MENU") /\ ChoicesOf(Top.node) = <<>>
       \/ At("DIALOG") /\ ~due /\ FieldsOf(Top.node) = <<>>
    /\ End

RunMenu ==
    /\ At("MENU") /\ ChoicesOf(Top.node) # <<>>
    /\ pc' = "menu" /\ start' = 0 /\ helping' = FALSE
    /\ UNCHANGED <<library, ended, asked, list, command, given>>

\* rasta_exec_command_v; only a screen's own action is not read.
Spawn(k, first) ==
    /\ proc' = [NoProc EXCEPT !.kind = k, !.for = Top.node, !.leader = "running"]
    /\ pipe' = Blank /\ data' = <<>>
    /\ reading' = first
    /\ given' = NotGiven

\* Mutant of FirstRead: the exit status is waited for before the output is read.
FirstReadWait == "wait"

FirstRead == "out"

RunInitcommand ==
    /\ pc = "screen" /\ due /\ TypeOf(Top.node) \in {"DIALOG", "HIDDEN"}
    /\ \/ /\ Spawn("ic", FirstRead)
          /\ pc' = "collect"
          /\ UNCHANGED <<library, ended, asked, pages, list>>
       \/ End      \* it cannot be started: g_error

RunHidden ==
    /\ At("HIDDEN") /\ ~due
    /\ StepForward(trail)
    /\ UNCHANGED <<pc, ended, asked, pages, list, command, given>>

RunAction ==
    /\ At("ACTION")
    /\ \/ Spawn("ac", "wait") /\ pc' = "collect" /\ UNCHANGED library
       \/ /\ StepBack(trail)        \* an empty command, or one of another encoding
          /\ UNCHANGED <<pc, command, given>>
       \/ /\ pc' = "action"         \* it cannot be started
          /\ given' = [NotGiven EXCEPT !.to = Top.node, !.ok = FALSE]
          /\ UNCHANGED <<library, command>>
    /\ UNCHANGED <<ended, asked, pages, list>>

-----------------------------------------------------------------------------
(***************************************************************************)
(* The prompts of a menu and of an action.                                 *)
(***************************************************************************)
LeavePages == start' = 0 /\ helping' = FALSE

Menu == ChoicesOf(Top.node)
Offered == {"QUIT", "BACK", "HELP"} \cup IF Len(Menu) > PageSize THEN {"MORE"} ELSE {}

MenuChoose(k) ==
    /\ pc = "menu" /\ ~ended
    /\ OnPage(k, Len(Menu))
    /\ IF helping THEN UNCHANGED <<library, pc>>
       ELSE Goto(trail, Menu[start + k]) /\ pc' = "screen"
    /\ LeavePages
    /\ UNCHANGED <<ended, asked, list, command, given>>

MenuAnswer(result) ==
    /\ pc = "menu" /\ result # "QUIT" /\ Gets(result, Offered)
    /\ CASE result = "MORE" -> Turn(Len(Menu)) /\ UNCHANGED <<library, pc, helping>>
         [] result = "HELP" -> helping' = TRUE /\ UNCHANGED <<library, pc, start>>
         [] result = "BACK" -> StepBack(trail) /\ pc' = "screen" /\ LeavePages
    /\ UNCHANGED <<asked, list, command, given>>

ActionBack ==
    /\ pc = "action" /\ Gets("BACK", {"BACK"})
    /\ StepBack(trail)
    /\ pc' = "screen"
    /\ UNCHANGED <<asked, pages, list, command, given>>

-----------------------------------------------------------------------------
(***************************************************************************)
(* The fields of a dialog.                                                 *)
(***************************************************************************)
\* ring_items: the last value that is the symbol's.
RingMark(v) ==
    LET fits == {i \in DOMAIN Ring : Ring[i].value = v}
    IN  IF v = Null \/ fits = {} THEN {} ELSE {CHOOSE i \in fits : \A j \in fits : j <= i}

\* The first lines of run_dialog_field_*.
Ask(t, n, i) ==
    LET f == FieldsOf(n)[i]
    IN  /\ field' = i
        /\ new' = Lookup(t, f.sym)
        /\ marks' = IF f.type = "RING" THEN RingMark(new') ELSE {}
        /\ items' = <<>>

\* A field that is only printed is left at once.
FirstAsked(n, i) ==
    LET rest == {j \in i..Len(FieldsOf(n)) : FieldsOf(n)[j].type \in Prompted}
    IN  IF rest = {} THEN 0 ELSE CHOOSE j \in rest : \A k \in rest : j <= k

\* The fields from i on, and after them rasta_dialog_screen_next.
AskFrom(t, i) ==
    LET j == FirstAsked(Top.node, i)
    IN  IF j = 0
        THEN StepForward(t) /\ pc' = "screen" /\ NoField
        ELSE /\ trail' = t /\ UNCHANGED due
             /\ pc' = "field" /\ Ask(t, Top.node, j)

RunDialog ==
    /\ At("DIALOG") /\ ~due /\ FieldsOf(Top.node) # <<>>
    /\ AskFrom(trail, 1)
    /\ UNCHANGED <<ended, pages, list, command, given>>

\* The last lines of run_dialog_field_*: the value is stored if it changed,
\* whatever the answer was that ended the loop.
Stored ==
    IF Text(new) = Text(Lookup(trail, FieldHere.sym)) THEN trail
    ELSE [trail EXCEPT ![Len(trail)].symbols[FieldHere.sym] = new]

\* Mutant of Missing: a ring that shows a text counts as answered.
MissingShown == FieldHere.required /\ Text(new) = Empty /\ FieldHere.type # "RING"

Missing == FieldHere.required /\ Text(new) = Empty

\* An empty line is always an answer.
Letters == {"NONE", "QUIT", "BACK", "HELP"}
    \cup IF FieldHere.type \in {"ENTRY", "FILE", "ENTRYLIST"} THEN {"CHANGE"} ELSE {}
    \cup IF FieldHere.type \in {"LIST", "ENTRYLIST", "RING"} THEN {"LIST"} ELSE {}

FieldNext ==
    /\ pc = "field" /\ Gets("NONE", Letters) /\ ~Missing
    /\ AskFrom(Stored, field + 1)
    /\ UNCHANGED <<pages, list, command, given>>

FieldBack ==
    /\ pc = "field" /\ Gets("BACK", Letters)
    /\ StepBack(Stored)
    /\ pc' = "screen" /\ NoField
    /\ UNCHANGED <<pages, list, command, given>>

\* The text that was typed replaces the value and the marks, unless a number
\* is refused; at the end of the input there is no text.
FieldChange(v) ==
    /\ pc = "field" /\ Gets("CHANGE", Letters)
    /\ FieldHere.numeric /\ FieldHere.type # "FILE" => v \notin Refused
    /\ new' = v /\ marks' = {}
    /\ UNCHANGED <<library, pc, field, items, pages, list, command, given>>

-----------------------------------------------------------------------------
(***************************************************************************)
(* Lists.                                                                  *)
(***************************************************************************)
Multiple == FieldHere.type # "RING" /\ FieldHere.multiple
Count == IF FieldHere.type = "RING" THEN Len(Ring) ELSE Len(items)

ItemValue(i) ==
    CASE FieldHere.type = "RING" -> Ring[i].value
      [] FieldHere.type # "RING" /\ FieldHere.column -> FirstWord[items[i]]
      [] OTHER -> items[i]

\* What a list starts with: the marks that were kept, or for a single choice
\* the first item the value stands for.
Fits == {i \in DOMAIN items : ItemValue(i) = new}
Initial ==
    IF marks # {} \/ Multiple \/ FieldHere.type = "RING" \/ Text(new) = Empty \/ Fits = {}
    THEN marks
    ELSE {CHOOSE i \in Fits : \A j \in Fits : i <= j}
Highest(S) == IF S = {} THEN None ELSE CHOOSE i \in S : \A j \in S : j <= i

\* clr_query_list takes the marks over; for a single choice, one of them.
OpenList(initial) ==
    /\ marked' = IF Multiple \/ initial = {} THEN initial ELSE {Highest(initial)}
    /\ last' = IF Multiple THEN None ELSE Highest(initial)
    /\ marks' = {}
    /\ start' = 0
    /\ pc' = "list"

\* LIST at the prompt of a field; the list command runs once.
FieldList ==
    /\ pc = "field" /\ Gets("LIST", Letters)
    /\ IF Count > 0
       THEN OpenList(Initial) /\ UNCHANGED <<command, given>>
       ELSE /\ FieldHere.type # "RING"
            /\ Spawn("lc", FirstRead) /\ pc' = "collect"
            /\ UNCHANGED <<marks, start, list>>
    /\ UNCHANGED <<library, field, new, items, helping>>

\* rasta_listcommand_run fails: g_error.
FieldListFails ==
    /\ pc = "field" /\ Gets("LIST", Letters)
    /\ Count = 0 /\ FieldHere.type # "RING"
    /\ End

Flip(S, i) == IF i \in S THEN S \ {i} ELSE S \cup {i}

\* A number flips a mark of the page; for a single choice the mark before it
\* goes, and the number is remembered whether or not it is on the page.
ListChoose(k) ==
    LET i == start + k
        flipped == IF OnPage(k, Count) THEN Flip(marked, i) ELSE marked
    IN  /\ pc = "list" /\ ~ended
        /\ \/ Multiple /\ marked' = flipped /\ UNCHANGED last
           \/ ~Multiple /\ i = last /\ marked' = flipped /\ last' = None
           \/ ~Multiple /\ i # last /\ marked' = flipped \ {last} /\ last' = i
        /\ UNCHANGED <<library, pc, ended, asked, pages, command, given>>

\* The mark before it may be outside the list: the program writes there.
ListOverrun ==
    /\ pc = "list" /\ ~ended /\ ~Multiple
    /\ last \notin 0..Count
    /\ End

ListMore ==
    /\ pc = "list" /\ ~ended /\ Count > PageSize
    /\ Turn(Count)
    /\ UNCHANGED <<library, pc, ended, asked, helping, list, command, given>>

CloseList == pc' = "field" /\ start' = 0 /\ NoList

\* The marks were taken over when the list was opened.
ListCancel ==
    /\ pc = "list" /\ ~ended
    /\ CloseList
    /\ UNCHANGED <<library, ended, asked, helping, command, given>>

\* What the marked items come to: one of them for a single choice, else all.
Chosen ==
    IF Multiple THEN Joined[[i \in marked |-> ItemValue(i)]]
    ELSE ItemValue(Highest(marked))

ListDone ==
    /\ pc = "list" /\ ~ended
    /\ new' = IF marked = {} THEN Empty ELSE Chosen
    /\ marks' = IF Multiple \/ marked = {} THEN marked ELSE {Highest(marked)}
    /\ CloseList
    /\ UNCHANGED <<library, ended, field, items, helping, command, given>>

-----------------------------------------------------------------------------
(***************************************************************************)
(* Commands: run_initcommand, run_listcommand, and the wait of run_action. *)
(***************************************************************************)
Reading(s) == pc = "collect" /\ reading = s /\ ~proc.torn

\* g_io_channel_read_to_end: what there is, until nobody holds the other end.
ReadSome(s) ==
    /\ Reading(s) /\ pipe[s] # <<>>
    /\ pipe' = [pipe EXCEPT ![s] = <<>>]
    /\ data' = IF s = "out" THEN data \o pipe[s] ELSE data
    /\ UNCHANGED <<library, pc, ended, asked, pages, list, reading, proc, given>>

ReadEnd(s) ==
    /\ Reading(s) /\ pipe[s] = <<>>
    /\ proc.shut \/ (proc.leader # "running" /\ ~proc.rest)
    /\ reading' = IF s = "out" THEN "err" ELSE "wait"
    /\ UNCHANGED <<library, pc, ended, asked, pages, list, data, proc, pipe, given>>

\* Bytes that are not in the encoding.
ReadError(s) ==
    /\ Reading(s) /\ pipe[s] # <<>>
    /\ proc' = [proc EXCEPT !.torn = TRUE]
    /\ UNCHANGED <<library, pc, ended, asked, pages, list, reading, data, pipe, given>>

\* ... and the command is left to itself: nothing is parsed, nothing fails,
\* and what was due is due.
GiveUp ==
    /\ pc = "collect" /\ proc.torn
    /\ Idle
    /\ pc' = IF proc.kind = "ic" THEN "screen" ELSE "field"
    /\ given' = [NotGiven EXCEPT !.lost = proc.kind = "ic"]
    /\ UNCHANGED <<library, ended, asked, pages, list>>

\* Mutant of Waited: the exit status is read before there is one.
WaitedNot == TRUE

Waited == proc.leader = "zombie"

\* waitpid returns.
Finish(k) ==
    /\ Reading("wait") /\ proc.kind = k /\ Waited
    /\ given' = [to |-> Top.node, ok |-> proc.ok, out |-> data, lost |-> FALSE]
    /\ Idle

\* rasta_initcommand_complete: symbols of the screen are bound.
Parsed(table) ==
    [trail EXCEPT ![Len(trail)].symbols =
        [s \in Symbols |-> IF table[s] = Null THEN @[s] ELSE table[s]]]

FinishInitcommand ==
    /\ Finish("ic")
    /\ \/ /\ proc.ok
          /\ \E table \in [Symbols -> Values \cup {Null}] :
                /\ \A s \in Symbols : table[s] # Null => s \in doc.sets[NameOf(Top.node)]
                /\ trail' = Parsed(table)
          /\ due' = FALSE
       \/ ~proc.ok /\ StepBack(trail)
    /\ pc' = "screen"
    /\ UNCHANGED <<ended, asked, pages, list>>

\* The lines are the items; none, or a command that failed, is no list.
FinishList ==
    /\ Finish("lc")
    /\ IF proc.ok /\ data # <<>>
       THEN items' = data /\ pc' = "listed"
       ELSE pc' = "field" /\ UNCHANGED items
    /\ UNCHANGED <<library, ended, field, new, marks, pages, list>>

ShowList ==
    /\ pc = "listed"
    /\ OpenList(Initial)
    /\ UNCHANGED <<library, ended, field, new, items, helping, command, given>>

FinishAction ==
    /\ Finish("ac")
    /\ pc' = "action"
    /\ UNCHANGED <<library, ended, asked, pages, list>>

-----------------------------------------------------------------------------
(***************************************************************************)
(* The processes of a command: it writes to bounded pipes, and a process   *)
(* it leaves behind holds them open.                                       *)
(***************************************************************************)
Environment == UNCHANGED <<library, pc, ended, asked, pages, list, reading, data, given>>

Write(s) ==
    /\ proc.leader = "running" /\ proc.kind # "ac" /\ proc.writing = "none" /\ ~proc.shut
    /\ Len(proc.wrote[s]) < MaxPieces
    /\ proc' = [proc EXCEPT !.writing = s]
    /\ Environment /\ UNCHANGED pipe

\* The write returns when there is room.
Written(line) ==
    LET s == proc.writing
    IN  /\ s \in Streams /\ Len(pipe[s]) < Capacity
        /\ proc' = [proc EXCEPT !.writing = "none",
                                !.wrote[s] = Append(@, line)]
        /\ pipe' = [pipe EXCEPT ![s] = Append(@, line)]
        /\ Environment

Fork ==
    /\ proc.leader = "running" /\ proc.kind # "ac" /\ proc.writing = "none"
    /\ ~proc.rest /\ ~proc.shut
    /\ proc' = [proc EXCEPT !.rest = TRUE]
    /\ Environment /\ UNCHANGED pipe

CloseStreams ==
    /\ proc.leader = "running" /\ proc.kind # "ac" /\ proc.writing = "none"
    /\ ~proc.rest /\ ~proc.shut
    /\ proc' = [proc EXCEPT !.shut = TRUE]
    /\ Environment /\ UNCHANGED pipe

Exit(ok) ==
    /\ proc.leader = "running" /\ proc.writing = "none"
    /\ proc' = [proc EXCEPT !.leader = "zombie", !.ok = ok]
    /\ Environment /\ UNCHANGED pipe

RestExits ==
    /\ proc.rest
    /\ proc' = [proc EXCEPT !.rest = FALSE]
    /\ Environment /\ UNCHANGED pipe

-----------------------------------------------------------------------------
Screen == \/ Unusable \/ RunMenu \/ RunDialog \/ RunHidden \/ RunInitcommand \/ RunAction
Collect == \/ \E s \in Streams : ReadSome(s) \/ ReadEnd(s)
           \/ GiveUp \/ FinishInitcommand \/ FinishList \/ FinishAction \/ ShowList

Answers == \/ \E k \in Numbers : MenuChoose(k) \/ ListChoose(k)
           \/ \E result \in {"MORE", "HELP", "BACK"} : MenuAnswer(result)
           \/ ActionBack \/ FieldNext \/ FieldBack
           \/ \E v \in Values \cup {Null} : FieldChange(v)
           \/ FieldList \/ FieldListFails
           \/ ListMore \/ ListCancel \/ ListDone \/ ListOverrun
           \/ InputEnds

Processes == \/ \E s \in Streams : Write(s)
             \/ \E line \in Lines : Written(line)
             \/ \E ok \in BOOLEAN : Exit(ok)
             \/ Fork \/ CloseStreams \/ RestExits

Next == \/ Loaded \/ LoadFails \/ Screen \/ Answers \/ Quit
        \/ Collect \/ \E s \in Streams : ReadError(s)
        \/ Processes

Spec == Init /\ [][Next]_vars

\* The program runs on as long as it has something to do; a prompt at the end
\* of the input answers itself; a process goes on writing while there is room
\* and comes to its end.
FairSpec ==
    /\ Spec
    /\ WF_vars(Loaded) /\ WF_vars(Screen) /\ WF_vars(Collect)
    /\ WF_vars(ended /\ Quit)
    /\ WF_vars(\E line \in Lines : Written(line))
    /\ WF_vars(\E ok \in BOOLEAN : Exit(ok)) /\ WF_vars(RestExits)

-----------------------------------------------------------------------------
(***************************************************************************)
(* Properties.                                                             *)
(***************************************************************************)
\* The state keeps its type: a mark is a position of the list that is shown,
\* and a page has something to show.
TypeOK ==
    /\ trail \in Seq([node : Nodes \cup {Null}, symbols : [Symbols -> Values \cup {Null}]])
    /\ due \in BOOLEAN /\ ended \in BOOLEAN /\ helping \in BOOLEAN
    /\ pc \in {"load", "screen", "menu", "field", "listed", "list", "collect", "action", "quit"}
    /\ new \in Values \cup {Null}
    /\ items \in Seq(Values)
    /\ start \in Nat /\ last \in Int
    /\ pc = "list" => marked \subseteq 1..Count /\ start < Count
    /\ pc = "menu" => start < Len(Menu)
    /\ pc = "field" => marks \subseteq 1..Count
    /\ reading \in Streams \cup {"none", "wait"}
    /\ data \in Seq(Lines)
    /\ proc.kind \in {"none", "ic", "lc", "ac"}

\* A dialog that is left forwards has a value for each of its required
\* fields: however the fields were changed, listed, cancelled and emptied,
\* and whatever other fields stored in symbols of their own.  (A later field
\* of the same symbol that is not required may empty it again.)
RequiredAnswered ==
    [][ pc = "field" /\ pc' = "screen" /\ Len(trail') > Len(trail) =>
            \A i \in DOMAIN FieldsOf(Top.node) :
                LET f == FieldsOf(Top.node)[i]
                IN  f.required /\ f.type \in Prompted =>
                        Text(Lookup(trail', f.sym)) # Empty ]_vars

\* A command comes to its end and is collected, unless it fills its error
\* output while its output is read: then both wait for ever.
Hung == reading = "out" /\ proc.writing = "err"
CommandEnds == (proc.kind # "none") ~> (proc.kind = "none" \/ Hung)

\* A dialog whose fields are all printed only: nobody is asked.
Silent == At("DIALOG") /\ FieldsOf(Top.node) # <<>> /\ FirstAsked(Top.node, 1) = 0

\* At the end of the input the program ends, unless it is in a list, which
\* knows no end of the input, hangs with its command, a command has been
\* lost, which may be run over and over, or the session comes back again and
\* again to a dialog that asks for nothing, from a screen that sends it back
\* (its initcommand fails, or its action cannot be run).
EndOfInput ==
    \/ ended ~> (pc \in {"quit", "list"} \/ Hung \/ given.lost)
    \/ []<>(ended /\ Silent)

\* A single choice has at most one mark ("Shouldn't happen - keep only first
\* element").
SingleChoice == pc = "list" /\ ~Multiple => \A i, j \in marked : i = j

\* The terminal keeps the promises of a front end about its commands.
Place == IF trail = <<>> THEN Null ELSE Top.node
Running == IF proc.kind = "none" THEN Nobody ELSE proc.for
WroteOut == proc.wrote["out"]
Torn == proc.torn
Exited == IF proc.leader \in {"none", "running"} THEN "no"
          ELSE IF proc.ok THEN "ok" ELSE "failed"
Heard == [to |-> IF given.to = Null THEN Nobody ELSE given.to,
          ok |-> given.ok, out |-> given.out]
Over == pc = "quit"
FrontEnd == INSTANCE RastaFrontEnd WITH
    Places  <- Nodes \cup {Null},
    Pieces  <- Lines,
    Nobody  <- Nobody,
    Abandons <- TRUE,
    at      <- Place,
    running <- Running,
    wrote   <- WroteOut,
    torn    <- Torn,
    exit    <- Exited,
    heard   <- Heard,
    over    <- Over
ImplementsFrontEnd == FrontEnd!Spec
=============================================================================
