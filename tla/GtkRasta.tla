------------------------------ MODULE GtkRasta ------------------------------
(***************************************************************************)
(* gtkrasta: the GTK front end, as the callbacks of one main loop.         *)
(*                                                                         *)
(* Everything the window does between two idle moments is an activity: it  *)
(* starts by making the panes and the navigation insensitive, and ends     *)
(* when a screen stands built, or when the command the screen asked for    *)
(* (an initcommand, a listcommand, an action) was collected.  A command is *)
(* collected by three event sources that share one user_data: a poll every *)
(* 100 ms that reaps the child, and a watch on each of its two pipes.      *)
(* GLib dispatches one source or one widget signal at a time; the          *)
(* processes of the command run beside it.  Error boxes are modal loops in *)
(* which no source of the program is left, so they are part of the step    *)
(* that pops them up.                                                      *)
(*                                                                         *)
(* The library appears as what RastaContext shows of it: the elements of   *)
(* the scope stack, their symbols, and whether an initcommand is due.      *)
(***************************************************************************)
EXTENDS RastaDescription, SequenceSift

CONSTANTS
    doc,            \* the description the program was started with
    Fields,         \* the FIELDs of every screen, in document order
    Ring,           \* the VALUE and TEXT attributes of the RINGVALUEs
    Refused,        \* values that do not fit the FORMAT of a numeric field
    Empty,          \* the empty text
    Tty,            \* the TTY attributes the action screens may have
    Confirmed,      \* the screens with CONFIRM="true"
    Output,         \* the pieces of output a command may write
    MaxPieces,      \* bound: how many of them
    Nobody          \* the command of no element

Streams == {"out", "err"}
Kinds   == {"ic", "lc", "ac"}
Field   == [sym : Symbols, type : {"ENTRY", "FILE", "LIST", "ENTRYLIST", "RING"},
            numeric : BOOLEAN, required : BOOLEAN]

ASSUME DocAssumption == doc \in Descriptions
ASSUME FieldsAssumption ==
    /\ Fields \in [ScreenIds -> Seq(Field)]
    /\ \A s \in ScreenIds : \A i, j \in 1..Len(Fields[s]) :
          Fields[s][i].sym = Fields[s][j].sym => i = j
ASSUME RingAssumption ==
    /\ Empty \in Values /\ Refused \subseteq Values
    /\ \E S \in SUBSET Values : Ring \in [S -> Values]
ASSUME ActionsAssumption ==
    /\ Tty \in [ScreenIds -> SUBSET {"YES", "NO", "SELF"}]
    /\ Confirmed \subseteq ScreenIds
    /\ Output \subseteq [stream : Streams, eol : BOOLEAN]
    /\ MaxPieces \in Nat
ASSUME NobodyAssumption == Nobody \notin Nodes \cup {Null}

VARIABLES
    trail,      \* main_ctxt->ctxt: the scopes: element and symbols, the initial one first
    due,        \* ctxt->state = RASTA_CONTEXT_INITCOMMAND
    pc,         \* "load", "loop" (in gtk_main), "build" (in build_screen), "quit"
    page,       \* the element whose screen the panes show
    widgets,    \* the dialog pane's "field_widgets": none, live or freed
    entry,      \* the texts in the entries of the dialog on show, by symbol
    sens,       \* what the user can press or type into
    child_pid,  \* 0 "unset", > 0 "child", -1 "reaped"
    chan,       \* child_out_chan and child_err_chan: non-NULL?
    data,       \* child_out_data and child_err_data
    pending,    \* the static GStrings of the watch functions
    lines,      \* what the list dialog or, when it is shown, the action pane says
    dialog,     \* the modal choice dialog: "none", "filling", "open" or "gone"
    choosing,   \* main_ctxt->child_data: the symbol whose list is shown
    sources,    \* the event sources with user_data = main_ctxt
    proc,       \* the command, and the processes it left behind
    pipe,       \* what the two pipes hold
    given       \* history: the last outcome handed to a screen

library == <<trail, due>>
pane    == <<page, widgets, entry>>
output  == <<data, pending, lines>>
choice  == <<dialog, choosing>>
command == <<proc, pipe>>
commands == <<child_pid, chan, output, choice, sources, command, given>>
vars == <<trail, due, pc, page, widgets, entry, sens, child_pid, chan,
          data, pending, lines, dialog, choosing, sources, proc, pipe,
          given>>

NoText    == [s \in Symbols |-> Empty]
NoSymbols == [s \in Symbols |-> Null]
Piece  == [stream : Streams, eol : BOOLEAN]   \* a piece of output; eol: it ends a line
Blank  == [s \in Streams |-> <<>>]
NoChannels == [s \in Streams |-> FALSE]
NoProc == [kind |-> "none", for |-> Null, leader |-> "none", rest |-> FALSE,
           ok |-> TRUE, termed |-> "nobody", torn |-> FALSE, shut |-> FALSE,
           wrote |-> Blank]
NotGiven == [to |-> Null, ok |-> TRUE, out |-> <<>>, started |-> TRUE]
Busy   == [screens |-> FALSE, next |-> FALSE, previous |-> FALSE, cancel |-> TRUE]

-----------------------------------------------------------------------------
(***************************************************************************)
(* The library, as RastaContext describes it.                              *)
(***************************************************************************)
Top == trail[Len(trail)]
TypeOf(n) == IF n = Null THEN "NONE" ELSE doc.type[doc.name[n]]
NameOf(n) == doc.name[n]
FieldsOf(n) == Fields[NameOf(n)]
FieldSet(n) == {FieldsOf(n)[i] : i \in DOMAIN FieldsOf(n)}

ChoicesOf(n) == {m \in Nodes : doc.parent[m] = n /\ doc.kind[m] \in MenuKinds}
StepsOf(n)   == {m \in Nodes : doc.owner[m] = n}

\* rasta_symbol_lookup
Lookup(t, sym) ==
    LET bound == {i \in 1..Len(t) : t[i].symbols[sym] # Null}
    IN  IF bound = {} THEN Null
        ELSE t[CHOOSE i \in bound : \A j \in bound : j <= i].symbols[sym]

\* Mutant of TextOf: an unbound symbol is NULL in an entry.
TextOfNull(t, sym) == Lookup(t, sym)

TextOf(t, sym) == IF Lookup(t, sym) = Null THEN Empty ELSE Lookup(t, sym)

\* A move forward: the element is pushed, and an initcommand of its screen
\* is due.
DueAt(n)     == n # Null /\ doc.init[NameOf(n)]
Goto(t, n)   == trail' = Append(t, [node |-> n, symbols |-> NoSymbols]) /\ due' = DueAt(n)

\* The next element of a dialog or a hidden screen; a path may end there.
StepForward(t) == \E n \in StepsOf(Top.node) \cup {Null} : Goto(t, n)

\* rasta_screen_previous: back over hidden screens, the first one stays.
Shown(t) == {i \in 1..Len(t) : i = 1 \/ (i < Len(t) /\ TypeOf(t[i].node) # "HIDDEN")}
Back(t)  == SubSeq(t, 1, CHOOSE i \in Shown(t) : \A j \in Shown(t) : j <= i)
StepBack == trail' = Back(trail) /\ due' = FALSE

-----------------------------------------------------------------------------
(***************************************************************************)
(* Activities.                                                             *)
(***************************************************************************)
\* Mutant of StartActivity: the Back button stays sensitive.
StartActivityBack == sens' = [Busy EXCEPT !.previous = sens.previous]

StartActivity == sens' = Busy

FinishActivity(t) ==
    sens' = [screens  |-> TRUE,
             cancel   |-> FALSE,
             next     |-> TypeOf(t[Len(t)].node) # "ACTION",
             previous |-> Len(t) > 1]

\* The user reaches the main window only while no dialog grabs the input.
Grabbed == dialog \in {"filling", "open"}
CanPress(widget) == pc = "loop" /\ ~Grabbed /\ sens[widget]

\* rasta_exec_command_v and the sources of ic_start, lc_start and ac_start.
Spawn(k, piped) ==
    /\ proc' = [NoProc EXCEPT !.kind = k, !.for = Top.node, !.leader = "running"]
    /\ pipe' = Blank
    /\ child_pid' = "child"
    /\ chan' = [s \in Streams |-> piped]
    /\ sources' = sources \cup {<<k, "timeout">>}
                    \cup IF piped THEN {k} \X Streams ELSE {}
    /\ given' = NotGiven

-----------------------------------------------------------------------------
(***************************************************************************)
(* Starting: the description is read in chunks and the first screen built. *)
(***************************************************************************)
Init ==
    /\ pc = "load"
    /\ trail = <<>> /\ due = FALSE
    /\ page = Null /\ widgets = "none" /\ entry = NoText
    /\ sens = Busy
    /\ child_pid = "unset" /\ chan = NoChannels
    /\ data = Blank /\ pending = Blank /\ lines = <<>>
    /\ dialog = "none" /\ choosing = Null
    /\ sources = {} /\ proc = NoProc /\ pipe = Blank
    /\ given = NotGiven

\* The program ends, and nothing of its state is left.
End ==
    /\ pc' = "quit"
    /\ trail' = <<>> /\ due' = FALSE
    /\ page' = Null /\ widgets' = "none" /\ entry' = NoText
    /\ sens' = Busy
    /\ child_pid' = "unset" /\ chan' = NoChannels
    /\ data' = Blank /\ pending' = Blank /\ lines' = <<>>
    /\ dialog' = "none" /\ choosing' = Null
    /\ sources' = {} /\ proc' = NoProc /\ pipe' = Blank
    /\ given' = NotGiven

\* Where a fastpath may lead.
Entries == {doc.root} \cup {n \in Nodes : doc.open[n] /\ MayDescend(doc, n)}

\* init_in_func on the last chunk: the first screen is the root or that of the
\* fastpath, which may not have been found.
Loaded ==
    /\ pc = "load"
    /\ \E n \in Entries \cup {Null} :
          /\ trail' = <<[node |-> n, symbols |-> NoSymbols]>>
          /\ due' = DueAt(n)
    /\ pc' = "build"
    /\ UNCHANGED <<pane, sens, commands>>

\* A chunk is refused, or the file cannot be opened.
LoadFails ==
    /\ pc = "load"
    /\ End

-----------------------------------------------------------------------------
(***************************************************************************)
(* build_screen, one turn of its loop per step.                            *)
(***************************************************************************)
Building(type) == pc = "build" /\ TypeOf(Top.node) = type

\* A NULL or a NONE screen: an error box, and the loop is left as it is.
BuildNone ==
    /\ Building("NONE")
    /\ pc' = "loop"
    /\ UNCHANGED <<library, pane, sens, commands>>

\* The screen has nothing to show: an error box, and back one screen.
NothingHere ==
    /\ StepBack
    /\ UNCHANGED <<pc, sens>>

Show ==
    /\ page' = Top.node
    /\ pc' = "loop"
    /\ FinishActivity(trail)
    /\ UNCHANGED library

BuildMenu ==
    /\ Building("MENU")
    /\ \/ ChoicesOf(Top.node) = {} /\ NothingHere /\ UNCHANGED page
       \/ ChoicesOf(Top.node) # {} /\ Show
    /\ UNCHANGED <<widgets, entry, commands>>

\* create_dialog_widget_*: the text of a ring is the TEXT of the value.
Widget(f) ==
    LET v == TextOf(trail, f.sym)
    IN  IF f.type # "RING" THEN v
        ELSE IF v # Empty /\ v \in DOMAIN Ring THEN Ring[v] ELSE Empty

\* The old list of widgets is freed first, also when it was freed before and
\* no new one came: the program may not survive that.
BuildDialog ==
    /\ Building("DIALOG") /\ ~due
    /\ \/ /\ FieldsOf(Top.node) = <<>>
          /\ NothingHere
          /\ widgets' = IF widgets = "none" THEN "none" ELSE "freed"
          /\ UNCHANGED <<page, entry>>
       \/ /\ FieldsOf(Top.node) # <<>>
          /\ Show
          /\ widgets' = "live"
          /\ entry' = [s \in Symbols |->
                LET own == {f \in FieldSet(Top.node) : f.sym = s}
                IN  IF own = {} THEN Empty ELSE Widget(CHOOSE f \in own : TRUE)]
    /\ UNCHANGED commands

BuildCrashes ==
    /\ Building("DIALOG") /\ ~due /\ widgets = "freed"
    /\ End

\* Mutant of BuildHidden: a hidden screen is passed without its initcommand.
BuildHiddenEarly ==
    /\ Building("HIDDEN")
    /\ StepForward(trail)
    /\ UNCHANGED <<pc, pane, sens, commands>>

BuildHidden ==
    /\ Building("HIDDEN") /\ ~due
    /\ StepForward(trail)
    /\ UNCHANGED <<pc, pane, sens, commands>>

\* ic_start: the activity goes on until ic_timeout has collected the child.
StartInitcommand ==
    /\ pc = "build" /\ due /\ TypeOf(Top.node) \in {"DIALOG", "HIDDEN"}
    /\ pc' = "loop"
    /\ Spawn("ic", TRUE)
    /\ UNCHANGED <<library, pane, sens, output, choice>>

\* ... or the command cannot be started: rasta_initcommand_failed, and
\* build_screen does not look again.
StartInitcommandFails ==
    /\ pc = "build" /\ due /\ TypeOf(Top.node) \in {"DIALOG", "HIDDEN"}
    /\ StepBack
    /\ pc' = "loop"
    /\ child_pid' = "reaped"
    /\ given' = [to |-> Top.node, ok |-> FALSE, out |-> <<>>, started |-> FALSE]
    /\ UNCHANGED <<pane, sens, chan, output, choice, sources,
                   command>>

\* The pane and its labels are reset before ac_start.
ActionPane ==
    /\ page' = Top.node
    /\ lines' = <<>>

BuildAction ==
    /\ Building("ACTION")
    /\ ActionPane
    /\ pc' = "loop"
    /\ sens' = [sens EXCEPT !.screens = TRUE]
    /\ \E tty \in Tty[NameOf(Top.node)] \ {"SELF"} : Spawn("ac", tty = "YES")
    /\ UNCHANGED <<library, widgets, entry, data, pending, choice>>

\* ac_start returns -ECHILD.
BuildActionFails ==
    /\ Building("ACTION") /\ Tty[NameOf(Top.node)] # {"SELF"}
    /\ ActionPane
    /\ pc' = "loop"
    /\ FinishActivity(trail)
    /\ UNCHANGED <<library, widgets, entry, child_pid, chan, data, pending, choice,
                   sources, command, given>>

\* The user does not confirm, the command is empty or cannot be converted,
\* or the screen asks for TTY="self".
BuildActionRefused ==
    /\ Building("ACTION")
    /\ \/ /\ NameOf(Top.node) \in Confirmed
          /\ UNCHANGED <<page, lines, sens>>
       \/ /\ ActionPane
          /\ sens' = [sens EXCEPT !.screens = TRUE]
    /\ StepBack
    /\ UNCHANGED <<pc, widgets, entry, child_pid, chan, data, pending, choice,
                   sources, command, given>>

-----------------------------------------------------------------------------
(***************************************************************************)
(* The signals of the main window.                                         *)
(***************************************************************************)
\* do_previous
ClickPrevious ==
    /\ CanPress("previous")
    /\ StartActivity
    /\ StepBack
    /\ lines' = <<>> /\ entry' = NoText
    /\ pc' = "build"
    /\ UNCHANGED <<page, widgets, child_pid, chan, data, pending, choice,
                   sources, command, given>>

\* do_next on the menu pane, with one of the menu's buttons down.
NextFromMenu(n) ==
    /\ CanPress("next") /\ page # Null /\ TypeOf(page) = "MENU"
    /\ n \in ChoicesOf(page)
    /\ StartActivity
    /\ Goto(trail, n)
    /\ pc' = "build"
    /\ UNCHANGED <<pane, commands>>

\* What a field contributes: a ring's VALUE for its TEXT.
ValueIn(f) ==
    LET fits == {v \in DOMAIN Ring : Ring[v] = entry[f.sym]}
    IN  IF f.type = "RING" /\ fits # {} THEN CHOOSE v \in fits : TRUE
        ELSE entry[f.sym]

\* rasta_verify_number_format and the REQUIRED attribute.
Rejected(f) ==
    \/ /\ f.type \in {"ENTRY", "ENTRYLIST"} /\ f.numeric
       /\ ValueIn(f) # Empty /\ ValueIn(f) \in Refused
    \/ f.required /\ ValueIn(f) = Empty

\* Mutant of Stores: the empty value is not stored.
StoresFull(f) == ValueIn(f) # TextOf(trail, f.sym) /\ ValueIn(f) # Empty

\* A value the symbol has already is not stored again.
Stores(f) == ValueIn(f) # TextOf(trail, f.sym)

\* The first count fields are stored one by one, on the dialog's own scope.
StoreFields(count) ==
    LET stored == {FieldsOf(page)[i] : i \in 1..count}
        value(s, old) == IF \E f \in stored : f.sym = s /\ Stores(f)
                         THEN ValueIn(CHOOSE f \in stored : f.sym = s) ELSE old
    IN  [trail EXCEPT ![Len(trail)].symbols = [s \in Symbols |-> value(s, @[s])]]

\* do_next on the dialog pane: a refused field ends the loop in an error box.
NextFromDialogRefused ==
    /\ CanPress("next") /\ page # Null /\ TypeOf(page) = "DIALOG"
    /\ \E i \in DOMAIN FieldsOf(page) :
          /\ Rejected(FieldsOf(page)[i])
          /\ \A j \in 1..(i - 1) : ~Rejected(FieldsOf(page)[j])
          /\ trail' = StoreFields(i - 1)
    /\ UNCHANGED <<due, pc, pane, sens, commands>>

NextFromDialog ==
    /\ CanPress("next") /\ page # Null /\ TypeOf(page) = "DIALOG"
    /\ \A i \in DOMAIN FieldsOf(page) : ~Rejected(FieldsOf(page)[i])
    /\ StartActivity
    /\ StepForward(StoreFields(Len(FieldsOf(page))))
    /\ entry' = NoText
    /\ pc' = "build"
    /\ UNCHANGED <<page, widgets, commands>>

Editable(f) == f.type \in {"ENTRY", "FILE", "ENTRYLIST"}

\* Typing into an entry.  The name of a file is chosen beside the window, but
\* taken as typed: while the dialog can be pressed.
Type(f, v) ==
    /\ CanPress("screens") /\ page # Null /\ TypeOf(page) = "DIALOG"
    /\ Editable(f)
    /\ entry' = [entry EXCEPT ![f.sym] = v]
    /\ UNCHANGED <<library, pc, page, widgets, sens, child_pid, chan, output, choice,
                   sources, command, given>>

\* Mutant of SigTerm: the leader alone is signalled.
SigTermLeader == proc' = [proc EXCEPT !.termed = "leader"]

SigTerm == proc' = [proc EXCEPT !.termed = "group"]

\* do_cancel: SIGTERM for the group of a child that has not been reaped.
ClickCancel ==
    /\ CanPress("cancel")
    /\ child_pid = "child"
    /\ SigTerm
    /\ UNCHANGED <<library, pc, pane, sens, child_pid, chan, output, choice, sources,
                   pipe, given>>

Quit ==
    /\ pc \in {"load", "loop"} /\ ~Grabbed
    /\ End

-----------------------------------------------------------------------------
(***************************************************************************)
(* Lists: do_list, the modal dialog it fills, and its answer.              *)
(***************************************************************************)
Listable == CanPress("screens") /\ page # Null /\ TypeOf(page) = "DIALOG"

HasList(f) == f.type \in {"LIST", "ENTRYLIST"}

\* A LISTCOMMAND fills the dialog that is already there.
StartList(f) ==
    /\ Listable /\ HasList(f)
    /\ StartActivity
    /\ dialog' = "filling" /\ choosing' = f.sym /\ lines' = <<>>
    /\ Spawn("lc", TRUE)
    /\ UNCHANGED <<library, pc, pane, data, pending>>

\* It cannot be started: the activity ends, the dialog stays as it is.
StartListFails(f) ==
    /\ Listable /\ HasList(f)
    /\ FinishActivity(trail)
    /\ dialog' = "filling" /\ choosing' = f.sym /\ lines' = <<>>
    /\ child_pid' = "reaped"
    /\ UNCHANGED <<library, pc, pane, chan, data, pending, sources,
                   command, given>>

\* pop_ring_dialog; a ring without values leaves only an error box.
StartRing(f) ==
    /\ Listable /\ f.type = "RING" /\ DOMAIN Ring # {}
    /\ StartActivity
    /\ dialog' = "filling" /\ choosing' = f.sym
    /\ sources' = sources \cup {<<"ring", "idle">>}
    /\ UNCHANGED <<library, pc, pane, child_pid, chan, output, command, given>>

\* ring_dialog_idle, to its last turn.
RingFilled ==
    /\ pc = "loop" /\ <<"ring", "idle">> \in sources
    /\ dialog = "filling" /\ dialog' = "open"
    /\ sources' = sources \ {<<"ring", "idle">>}
    /\ UNCHANGED <<library, pc, pane, sens, child_pid, chan, output, choosing, command,
                   given>>

\* do_list_response, do_ring_response: an item of the list, or no selection.
Offered == LET f == CHOOSE g \in FieldSet(page) : g.sym = choosing
           IN  IF f.type = "RING" THEN {Ring[v] : v \in DOMAIN Ring} ELSE Values

Answer ==
    /\ pc = "loop" /\ dialog = "open"
    /\ \E v \in Offered \cup {entry[choosing]} : entry' = [entry EXCEPT ![choosing] = v]
    /\ dialog' = "none" /\ lines' = <<>>
    /\ FinishActivity(trail)
    /\ UNCHANGED <<library, pc, page, widgets, child_pid, chan, data, pending,
                   choosing, sources, command, given>>

-----------------------------------------------------------------------------
(***************************************************************************)
(* The watches on the pipes: ic_out_func, ic_err_func, the same for lc, ac. *)
(***************************************************************************)
Watching(k, s) == pc = "loop" /\ <<k, s>> \in sources

\* What a chunk adds up to, and how much of it is whole lines.
Whole(seq) == LET ends == {0} \cup {i \in 1..Len(seq) : seq[i].eol}
              IN  CHOOSE i \in ends : \A j \in ends : j <= i
Shows(k, s) == k = "ac" \/ (k = "lc" /\ s = "out")

\* What nobody sees before the command is collected.
Gather(s, seq) == pending' = [pending EXCEPT ![s] = seq] /\ UNCHANGED lines

\* Mutant of ShowLines: the end of a line is not waited for.
ShowNow(s, seq) ==
    lines' = lines \o seq /\ pending' = [pending EXCEPT ![s] = <<>>]

\* ac_maybe_output and lc_maybe_add, not done: whole lines go to the widget.
ShowLines(s, seq) ==
    /\ lines' = lines \o SubSeq(seq, 1, Whole(seq))
    /\ pending' = [pending EXCEPT ![s] = SubSeq(seq, Whole(seq) + 1, Len(seq))]

Held == proc.leader = "running" \/ proc.rest

\* A dialog that is gone takes no more lines (see UseGone).
Listening(k, s) == k = "lc" /\ s = "out" /\ dialog = "gone" => lines' = lines

\* G_IO_STATUS_NORMAL: some of what the pipe holds.
ReadSome(k, s) ==
    /\ Watching(k, s)
    /\ \E n \in 1..Len(pipe[s]) :
          /\ pipe' = [pipe EXCEPT ![s] = SubSeq(@, n + 1, Len(@))]
          /\ LET seq == pending[s] \o SubSeq(pipe[s], 1, n)
             IN  IF Shows(k, s) THEN ShowLines(s, seq) ELSE Gather(s, seq)
    /\ Listening(k, s)
    /\ UNCHANGED <<library, pc, pane, sens, child_pid, chan, data, choice, sources,
                   proc, given>>

\* The rest is output as if a line ended there.
Ended(seq) == IF seq = <<>> THEN <<>> ELSE [seq EXCEPT ![Len(seq)].eol = TRUE]

\* Mutant of Forget: the pointer to a channel stays.
ForgetNothing(s) == UNCHANGED chan

Forget(s) == chan' = [chan EXCEPT ![s] = FALSE]

\* What was gathered is handed over, if there is any.
Deliver(s) ==
    /\ data' = IF pending[s] = <<>> THEN data ELSE [data EXCEPT ![s] = pending[s]]
    /\ UNCHANGED lines

\* The channel is shut down and the static buffers are freed.
Shut(k, s) ==
    /\ Forget(s)
    /\ sources' = sources \ {<<k, s>>}
    /\ pending' = [pending EXCEPT ![s] = <<>>]
    /\ IF Shows(k, s) THEN lines' = lines \o Ended(pending[s]) /\ UNCHANGED data
       ELSE Deliver(s)

\* G_IO_STATUS_EOF: nobody holds the other end.
Closed(s) == pipe[s] = <<>> /\ (proc.shut \/ ~Held)
ReadEnd(k, s) ==
    /\ Watching(k, s) /\ Closed(s)
    /\ Shut(k, s) /\ Listening(k, s)
    /\ UNCHANGED <<library, pc, pane, sens, child_pid, choice, command, given>>

\* G_IO_STATUS_ERROR: bytes that are not in the encoding end the stream.
ReadError(k, s) ==
    /\ Watching(k, s)
    /\ pipe[s] # <<>>
    /\ Shut(k, s) /\ Listening(k, s)
    /\ proc' = [proc EXCEPT !.torn = TRUE]
    /\ pipe' = [pipe EXCEPT ![s] = <<>>]
    /\ UNCHANGED <<library, pc, pane, sens, child_pid, choice, given>>

-----------------------------------------------------------------------------
(***************************************************************************)
(* The poll (ic_timeout, lc_timeout, ac_timeout).                          *)
(***************************************************************************)
Reapable == child_pid = "child" /\ proc.leader = "zombie"
PidNow   == IF Reapable THEN "reaped" ELSE child_pid
StatusNow == proc.ok     \* child_status, once it is reaped

\* Mutant of Complete: the poll does not wait for the pipes.
CompleteEarly == PidNow = "reaped"

Complete == PidNow = "reaped" /\ \A s \in Streams : ~chan[s]

\* waitpid with WNOHANG.
Poll(k) ==
    /\ pc = "loop" /\ <<k, "timeout">> \in sources
    /\ ~Complete /\ Reapable
    /\ child_pid' = "reaped"
    /\ proc' = [proc EXCEPT !.leader = "reaped"]
    /\ UNCHANGED <<library, pc, pane, sens, chan, output, choice, sources, pipe,
                   given>>

\* g_source_remove_by_user_data takes one source off, whichever it finds;
\* returning FALSE takes the poll itself off.
Removed(k) == \E src \in sources : sources' = sources \ {src, <<k, "timeout">>}

\* The poll's last turn, which may be the one that reaps the child.
Finish(k, out) ==
    /\ pc = "loop" /\ <<k, "timeout">> \in sources
    /\ Complete
    /\ child_pid' = "reaped"
    /\ Removed(k)
    /\ given' = [to |-> Top.node, ok |-> StatusNow, out |-> out, started |-> TRUE]
    /\ proc' = [NoProc EXCEPT !.rest = proc.rest]
    /\ pipe' = Blank

\* rasta_initcommand_complete: symbols of the screen are bound.
Parsed(table) ==
    [trail EXCEPT ![Len(trail)].symbols =
        [s \in Symbols |-> IF table[s] = Null THEN @[s] ELSE table[s]]]

FinishInitcommand ==
    /\ Finish("ic", data["out"])
    /\ \/ /\ StatusNow
          /\ \E table \in [Symbols -> Values \cup {Null}] :
                /\ \A s \in Symbols : table[s] # Null => s \in doc.sets[NameOf(Top.node)]
                /\ trail' = Parsed(table)
          /\ due' = FALSE
       \/ ~StatusNow /\ StepBack
    /\ data' = Blank
    /\ pc' = "build"
    /\ UNCHANGED <<pane, sens, chan, pending, lines, choice>>

\* An empty list and a failed command end in an error box.
FinishList ==
    /\ Finish("lc", lines) /\ (dialog = "gone" => ~StatusNow)
    /\ IF StatusNow /\ lines # <<>>
       THEN dialog' = "open" /\ UNCHANGED <<sens, lines>>
       ELSE dialog' = "none" /\ lines' = <<>> /\ FinishActivity(trail)
    /\ data' = [data EXCEPT !["err"] = <<>>]
    /\ UNCHANGED <<library, pc, pane, chan, pending, choosing>>

FromOut(seq) == Sift(seq, {i \in 1..Len(seq) : seq[i].stream = "out"})
FinishAction ==
    /\ Finish("ac", FromOut(lines))
    /\ FinishActivity(trail)
    /\ UNCHANGED <<library, pc, pane, chan, output, choice>>

-----------------------------------------------------------------------------
(***************************************************************************)
(* The window manager closes the dialog before anything listens to it: the *)
(* pointer to it stays behind, and the next use of it aborts the program.  *)
(***************************************************************************)
CloseFilling ==
    /\ pc = "loop" /\ dialog = "filling"
    /\ dialog' = "gone"
    /\ UNCHANGED <<library, pc, pane, sens, child_pid, chan, output, choosing, sources,
                   command, given>>

\* add_choice_item in the watch, ring_dialog_idle, or the poll's last turn.
AddsLine == /\ <<"lc", "out">> \in sources
            /\ \/ Whole(pending["out"] \o pipe["out"]) > 0
               \/ pending["out"] # <<>> /\ (pipe["out"] # <<>> \/ Closed("out"))

UseGone ==
    /\ pc = "loop" /\ dialog = "gone"
    /\ \/ <<"ring", "idle">> \in sources
       \/ AddsLine
       \/ <<"lc", "timeout">> \in sources /\ Complete
    /\ End

-----------------------------------------------------------------------------
(***************************************************************************)
(* The processes of a command: a leader, and descendants in its group that *)
(* inherited the pipes.                                                    *)
(***************************************************************************)
Environment == UNCHANGED <<library, pc, pane, sens, child_pid, chan, output,
                           choice, sources, given>>

Write(piece) ==
    LET s == piece.stream
    IN  /\ Held /\ ~proc.shut /\ chan[s]
        /\ Len(proc.wrote["out"]) + Len(proc.wrote["err"]) < MaxPieces
        /\ proc' = [proc EXCEPT !.wrote[s] = Append(@, piece)]
        /\ pipe' = [pipe EXCEPT ![s] = Append(@, piece)]
        /\ Environment

Fork ==
    /\ proc.leader = "running" /\ ~proc.rest
    /\ proc' = [proc EXCEPT !.rest = TRUE]
    /\ Environment /\ UNCHANGED pipe

\* It closes both streams and goes on.
CloseStreams ==
    /\ proc.leader = "running" /\ ~proc.rest /\ ~proc.shut
    /\ proc' = [proc EXCEPT !.shut = TRUE]
    /\ Environment /\ UNCHANGED pipe

Exit(ok) ==
    /\ proc.leader = "running"
    /\ proc' = [proc EXCEPT !.leader = "zombie", !.ok = ok]
    /\ Environment /\ UNCHANGED pipe

RestExits ==
    /\ proc.rest
    /\ proc' = [proc EXCEPT !.rest = FALSE]
    /\ Environment /\ UNCHANGED pipe

\* SIGTERM ends the processes it was sent to.
Terminated ==
    /\ \/ proc.termed # "nobody" /\ proc.leader = "running"
       \/ proc.termed = "group" /\ proc.rest
    /\ proc' = [proc EXCEPT !.leader = IF @ = "running" THEN "zombie" ELSE @,
                            !.ok = @ /\ proc.leader # "running",
                            !.rest = @ /\ proc.termed # "group"]
    /\ Environment /\ UNCHANGED pipe

-----------------------------------------------------------------------------
Build == \/ BuildNone \/ BuildMenu \/ BuildDialog \/ BuildCrashes \/ BuildHidden
         \/ StartInitcommand \/ StartInitcommandFails
         \/ BuildAction \/ BuildActionFails \/ BuildActionRefused

FieldsHere == IF page = Null THEN {} ELSE FieldSet(page)

User == \/ ClickPrevious \/ NextFromDialog \/ NextFromDialogRefused
        \/ \E n \in Nodes : NextFromMenu(n)
        \/ \E f \in FieldsHere, v \in Values : Type(f, v)
        \/ \E f \in FieldsHere : StartList(f) \/ StartListFails(f) \/ StartRing(f)
        \/ Answer \/ ClickCancel \/ CloseFilling \/ Quit

Reads(s) == \E k \in Kinds : ReadSome(k, s) \/ ReadEnd(k, s) \/ ReadError(k, s)
Polls == \/ \E k \in Kinds : Poll(k)
         \/ FinishInitcommand \/ FinishList \/ FinishAction \/ UseGone

Processes == \/ \E piece \in Output : Write(piece)
             \/ \E ok \in BOOLEAN : Exit(ok)
             \/ Fork \/ CloseStreams \/ RestExits \/ Terminated

Next == \/ Loaded \/ LoadFails
        \/ Build \/ User \/ RingFilled
        \/ \E s \in Streams : Reads(s)
        \/ Polls \/ Processes

Spec == Init /\ [][Next]_vars

\* The main loop goes on dispatching as long as some source is ready, a step of
\* the program ends (the user answers error boxes), and SIGTERM ends a process:
\* the code has no second, stronger signal.
Dispatch == Loaded \/ Build \/ RingFilled \/ (\E s \in Streams : Reads(s)) \/ Polls
FairSpec == Spec /\ WF_vars(Dispatch) /\ WF_vars(Terminated)

-----------------------------------------------------------------------------
(***************************************************************************)
(* Properties.                                                             *)
(***************************************************************************)
\* The state keeps its type.
TypeOK ==
    /\ trail \in Seq([node : Nodes \cup {Null}, symbols : [Symbols -> Values \cup {Null}]])
    /\ due \in BOOLEAN
    /\ pc \in {"load", "loop", "build", "quit"}
    /\ page \in Nodes \cup {Null}
    /\ widgets \in {"none", "live", "freed"}
    /\ entry \in [Symbols -> Values]
    /\ sens \in [{"screens", "next", "previous", "cancel"} -> BOOLEAN]
    /\ child_pid \in {"unset", "child", "reaped"}
    /\ chan \in [Streams -> BOOLEAN]
    /\ data \in [Streams -> Seq(Piece)] /\ pending \in [Streams -> Seq(Piece)]
    /\ lines \in Seq(Piece)
    /\ dialog \in {"none", "filling", "open", "gone"}
    /\ choosing \in Symbols \cup {Null}
    /\ sources \subseteq (Kinds \X (Streams \cup {"timeout"})) \cup {<<"ring", "idle">>}
    /\ proc.kind \in Kinds \cup {"none"}
    /\ given.to \in Nodes \cup {Null} /\ given.started \in BOOLEAN

\* As long as a command is collected, the session stays at the screen that
\* asked for it, its channels and its watches go together, every source is
\* its own, and nothing but Cancel and Quit can be pressed: whatever order
\* the reads, the poll and the user come in.
Collecting == \E k \in Kinds : <<k, "timeout">> \in sources
CommandOwnsScreen ==
    Collecting =>
        /\ Top.node = proc.for
        /\ sources \subseteq {proc.kind} \X (Streams \cup {"timeout"})
        /\ \A s \in Streams : chan[s] <=> <<proc.kind, s>> \in sources
        /\ ~sens.next /\ ~sens.previous
        /\ proc.kind = "ac" => page = Top.node
        /\ proc.kind = "lc" => page = Top.node /\ dialog \in {"filling", "gone"}

\* What a command writes on its two streams is shown line by line: a piece of
\* one stream never stands in a line of the other.
LinesWhole ==
    \A i \in 1..(Len(lines) - 1) :
        lines[i].eol \/ lines[i].stream = lines[i + 1].stream

LeavesDialog == /\ pc = "loop" /\ pc' = "build" /\ Len(trail') > Len(trail)
                /\ TypeOf(Top.node) = "DIALOG"
EntriesStored ==
    \A i \in DOMAIN FieldsOf(Top.node) :
        LET f == FieldsOf(Top.node)[i]
        IN  TextOf(trail', f.sym) = ValueIn(f) /\ ~Rejected(f)

\* A dialog that is left forwards has stored what its entries say, each field
\* under its own symbol, whatever earlier attempts were refused half way; and
\* nothing it stored is refused by its format or missing though required.
DialogStores == [][LeavesDialog => EntriesStored]_vars

\* An activity ends: if no process holds a pipe for ever, the window is handed
\* back, or a list waits for its answer, or the program ended - unless the
\* session is where build_screen gives up (a path that ends, an initcommand
\* that could not be started, a first screen with nothing to show).
Nothing ==
    /\ Len(trail) = 1
    /\ \/ TypeOf(Top.node) = "MENU" /\ ChoicesOf(Top.node) = {}
       \/ TypeOf(Top.node) = "DIALOG" /\ FieldsOf(Top.node) = <<>>
GaveUp ==
    \/ pc = "loop" /\ sources = {} /\ (TypeOf(Top.node) = "NONE" \/ ~given.started)
    \/ pc = "build" /\ Nothing
ActivityEnds ==
    []<>~Held =>
        [](sens.cancel => <>(~sens.cancel \/ dialog = "open" \/ pc = "quit" \/ GaveUp))

\* A command that was cancelled before it was reaped is over sooner or later,
\* with all the processes it left behind.
CancelEnds == (proc.termed # "nobody") ~> (pc = "quit" \/ ~Collecting)

\* The window keeps the promises of a front end about its commands.
Place   == IF trail = <<>> THEN Null ELSE Top.node
Running == IF Collecting THEN proc.for ELSE Nobody
WroteOut == proc.wrote["out"]
Torn    == proc.torn
Exited  == IF proc.leader \in {"none", "running"} THEN "no"
           ELSE IF proc.ok THEN "ok" ELSE "failed"
Heard   == [to |-> IF given.to = Null /\ given.started THEN Nobody ELSE given.to,
            ok |-> given.ok, out |-> given.out]
Over    == pc = "quit"
FrontEnd == INSTANCE RastaFrontEnd WITH
    Places  <- Nodes \cup {Null},
    Pieces  <- Piece,
    Nobody  <- Nobody,
    Abandons <- FALSE,
    at      <- Place,
    running <- Running,
    wrote   <- WroteOut,
    torn    <- Torn,
    exit    <- Exited,
    heard   <- Heard,
    over    <- Over
ImplementsFrontEnd == FrontEnd!Spec

=============================================================================
