# RASTA 0.1.4 in TLA+

RASTA turns an XML description of system administration screens into a user
interface. A description lists screens (menus, dialogs, hidden screens, actions)
and a tree of paths through them. `librasta` walks the tree for a front end;
`clrasta` and `gtkrasta` are front ends; `cgirasta` is the beginning of a web
gateway; `rastaadd` and `rastadel` edit the description file of a system. This
directory models the parts with a protocol of their own, checks them with TLC
and proves theorems about them with TLAPS. Paths below are relative to the
source tree (`rasta-0.1.4/`).

## 1. Inventory

| component | state | operations | what makes it correct |
|---|---|---|---|
| Description (`librasta/rastatraverse.c`, `rasta.dtd`) | the parsed document, read-only | search for a fastpath, walk to the next element | a fastpath starts only at an open screen, and finds one if there is one; a walk stops at the next step the manual describes |
| Context (`rastacontext.c`) | `state`, `path_root`, `fastpath`, `parser` | create (at once or chunk by chunk), save, load, replay, revert, destroy | the initcommand flag belongs to the screen shown; save and load are inverse; a load that fails takes everything back |
| Scopes (`rastascope.c`) | the stack of scopes, a symbol table each | push, pop, put, lookup, snapshot | the stack is a path of the description; symbols are put into the current scope only |
| Screens (`rastascreen.c`, `rastamenu.c`, `rastadialog.c`, `rastahidden.c`, `rastaaction.c`) | `RastaScreen` structures, shared through the cache of the context | load, initialise, next, previous | every scope shows the screen its element names, and a menu its own choices, although structures are shared |
| Initcommands (`rastainitcommand.c`) | `ctxt->state` | is_required, complete, failed | run once per arrival, never for another screen |
| Fields and formats (`rastadialog.c`) | none | enumerate fields, list command, number format | a number is accepted exactly if the format describes it |
| Commands (`rastaexec.c`, `rastaaction.c`) | none | substitute symbols, escape, fork and exec | an escaped symbol is one shell word with the symbol's value |
| `rastaadd`, `rastadel` (`tools/`) | the description file, a System V semaphore, the document in memory | lock, parse, validate, edit, validate, save in place, unlock | no update is lost, no invalid file is written, no error path keeps the lock, deleting undoes adding |
| `clrasta` | the loop of `main`, the field and the list that are asked for, the pipes of a child | run a menu, a dialog, a hidden screen, an action; change a field, page through a list and mark it | the child is always collected, with all of its output, for its own screen; a dialog that is left forwards is filled in; the prompts end |
| `gtkrasta` | the activity, its child, two output watches, a poll, the sensitivity of the widgets, a modal dialog | build a screen, start, follow and finish a command, cancel, next, previous, choose from a list | callbacks in any order finish the activity once, for the screen that started it; a dialog is stored as it is shown |
| `cgirasta` | user and authorization files, the data directories, a process per request | make the directories, recognise and renew an authorization, log in, log out | a request is served for the user that logged in, or asks for a login; what ran out stays out |
| `rastaedit` | a GTK list store | none that changes a description | unfinished prototype |

How they interact. A front end asks the context for the current screen, shows
it, runs the initcommand if `rasta_initcommand_is_required` says so, stores
fields with `rasta_symbol_put`, and calls the `_next` function of the screen or
`rasta_screen_previous`. All of these are calls into one thread; the only state
they share is the context. A saved state is a file between two sessions. The
editors change the description file while sessions may be reading it, and
exclude each other by a semaphore whose key is a hash of the file's name.
Commands are child processes; the GTK front end collects them by callbacks.

What is hard: loops that walk a linked tree with several exits; a screen
structure shared by several uses; a flag of the context that must follow the
screen; a replay that puts symbols and then branches on them, and must be taken
back entirely; crashes in the middle of a save; processes that edit one file;
callbacks of a child in any order. `PROJECT.json` lists each hazard at its line
with the properties that watch it.

## 2. Modules

| module | what it is |
|---|---|
| `RastaDescription` | what a parsed description is: constants, the grammar `rasta.dtd` gives, the links libxml makes, as assumptions |
| `RastaContext` | the context with its scopes, screens and cache, and every library call that changes it |
| `RastaTrail` | abstract: a session is a trail of visible screens |
| `MCDescriptions`, `MCRastaContext` | the descriptions and the instance TLC checks |
| `RastaContext_proofs`, `RastaSession_proofs` | theorems about `RastaContext`: its walks and its search, its screens and their cache; whole sessions and the loading of one |
| `RadEdit` | what one run of an editor does to a document: pure operators |
| `RadTools` | the runs of the editors: lock, read, modify, save, unlock, die |
| `RadDocuments` | the runs of `RadTools` with the edits of `RadEdit` |
| `RadStore` | abstract: files that change by whole, valid edits, or are lost |
| `MCRadTools` | documents, deltas and command lines for TLC |
| `RadTools_proofs`, `RadEdit_proofs` | theorems about the runs, with any edits; about the edits, and the runs with them |
| `RastaFrontEnd` | abstract: what a front end promises about the commands of its screens |
| `GtkRasta` | the window of `gtkrasta`: its callbacks, its event sources, the processes of a command |
| `ClRasta` | the terminal of `clrasta`: its prompts, and a command whose pipes are bounded |
| `MCGtkRasta`, `MCClRasta` | a description each for TLC |
| `GtkRasta_proofs`, `ClRasta_proofs` | theorems about them |
| `SequenceSift` | the elements of a sequence at chosen positions, which the trail and the text on show are made of |
| `OrderLemmas` | what the proofs need about sets of numbers and about sequences cut, joined and sifted |
| `CgiSession` | the requests of `cgirasta` over its data directory, with a clock |
| `MCCgiSession`, `CgiSession_proofs` | three requests of two users for TLC, and theorems |

### RastaContext and the code

The variables are the fields of `RastaContext` (`doc`, `state`, `path_root`,
`fastpath`, `parser`, `scopes`, `screen_cache`), the structures they refer to
(`heap`), the state file (`saved`) and the locals of the function that runs
(`pc`, `ret`, `cur`, `next_id`, `matched`, `todo`). `pc = "idle"` means that no
call is under way. Every loop advances one iteration per step:

- `FastpathVisit`, `FastpathClimb`, `FirstScreen`, `NoFirstScreen`:
  `rasta_find_fastpath` and the rest of `rasta_context_init_screens`;
- `ForwardBranch`, `ForwardArrive`: `rasta_traverse_forward` and the push of a
  scope with its screen (`rasta_scope_push`, `rasta_screen_prepare`);
- `PopHidden`, `PopVisible`: `rasta_screen_previous`;
- `SaveState` truncates the state file, `DumpState` writes it;
- `Travel`, `TravelArrived`, `Revert`: `rasta_context_travel_state`,
  `rasta_context_revert_state`.

The actions of `FrontEndCall` are the library calls. Their guards are what the
interface asks of a front end and both front ends do: a choice comes from the
enumerated menu, a dialog's fields are used when no initcommand is due, a hidden
screen is left when its initcommand has run, one goes back from a visible
screen. `Terminate` is `rasta_context_destroy` or a kill at any moment.

`rc` of `rasta_traverse_forward` is the variable `matched`, which keeps its value
from one MULTIPATH to the next one, as in the code. The cache is asked by ID and
filled by title (`Cached`, `ScreenLoad`), as in the code.

### RadTools and the code

One process runs `main` of `rastaadd.c` or `rastadel.c`; `pc[r]` is where it is.
`CreateLock` to `TakeLockFails` are `rad_get_lock`, `ReleaseLock` and
`RemoveLock` are `rad_drop_lock`; `Read` is the parse and the validation of the
main file; `Modify` the delta, the edit and the second validation; `Open` and
`Write` are `rad_save_file`, which truncates the file in place. `Fail` is `goto
out`. `Kill` and `ModifyCrashes` end a process with the lock held: `SEM_UNDO`
brings the semaphore to zero and nobody removes it (`Die`). What an edit does is
the constant operator `Outcomes`; `RadEdit` defines it from `rad_find_path`,
`add_screens`, `add_paths`, `delete_screens`, `delete_paths`, and `Accepted` is
the DTD's verdict. Trees are functions from positions to elements, so that
`xmlAddChildList` is a union and `xmlUnlinkNode` a renumbering of later siblings
(`Below`, `Behind`). `Leads` is one search of `rad_find_path`: at every level the
first child of the name, and never another one. The loops of the editors over
their PATHINSERT, SCREENDELETE and PATHDELETE elements are recursive functions
of the number of turns (`Added`, `ScreensLeft`, `Deleted`). `UndoOf` is the
deletion file that belongs to an addition, as `tests/testdel.rasta.in` to
`tests/testadd.rasta.in`; `Recoverable` is when the manual's promise can hold at
all: an inserted element is one that a path can name, and the path led nowhere
when it was inserted. `IsDocument` and `IsDelta` say what the parser hands over.

### GtkRasta, ClRasta and the code

The two front ends share the library, which both modules show as `RastaContext`
describes it: `trail` is the scope stack with its symbols, `due` the flag of an
initcommand; `Goto`, `StepForward` and `StepBack` are the moves, `Parsed` is
`rasta_initcommand_complete`. `StepForward` allows any next element of a dialog
or a hidden screen, and the dead end: which branch is taken is the business of
`RastaContext`. Both share the processes of a command: `proc` is the child
(`leader`), a process it left behind (`rest`), what it wrote, and whether its
streams are closed (`shut`) or hold bytes that cannot be converted (`torn`);
`pipe` holds what was written and not yet read. `given` is history: the outcome
that the screen was last told of.

`GtkRasta`. A step is one turn of the main loop: a widget signal, a turn of an
event source, or one turn of the loop in `build_screen` (`pc = "build"`). `sens`
is what the user can press; `StartActivity` and `FinishActivity` are
`start_activity` and `finish_activity`. `sources` are the GLib sources with
`main_ctxt` as their data: a poll and two watches for each of the three kinds of
command (`ic_`, `lc_`, `ac_`), and the idle function that fills a ring's dialog.
`ReadSome`, `ReadEnd`, `ReadError` are the watch functions; `Poll` and the three
`Finish` actions the polls, with `g_source_remove_by_user_data` as it is: it takes
away whichever source it finds (`Removed`). `NextFromDialog` and
`NextFromDialogRefused` are `do_next`, which stores the fields one after the
other and stops at the first that is refused. `StartListFails`, `CloseFilling`,
`UseGone` and `BuildCrashes` are the paths on which a dialog or its list of
widgets is left behind. An error box is a modal loop and part of the step that
pops it up: while it is up no source of the program is attached.

`ClRasta`. One thread; `pc` is the loop it is in, and a prompt takes a letter
(`Gets`), a number, or the end of the input, which reads as QUIT where QUIT is
known (`InputEnds`, `Quit`). `RunMenu`, `RunDialog`, `RunHidden`,
`RunInitcommand`, `RunAction` are the turns of the loop in `main`; the `Field`
actions are the `run_dialog_field_*` functions, which store what has changed
whatever ended their loop (`Stored`); `OpenList` and the `List` actions are
`clr_query_list`, with `last` for `last_marked` and the write outside the array
as `ListOverrun`. `reading` says which stream `run_initcommand` or
`run_listcommand` reads to its end, or that it waits for the child. `Quit`, `End`
and every failure reset the state, as the end of a process does. MORE on
the last page starts over with the first (`Turn`).

### CgiSession and the code

Every request is a process (`pc`), from `main` to `exit`. `Stat`, `Mkdir` and
`PrepFails` are `prep_db`: the race for a directory is told apart (`exists`) from
what the system refuses (`refused`: no stat, no directory by that name, no
permission, no room), although the page the browser gets is the same.
`Recognise`, `NotRecognised`, `Refresh` and `Renew` are `load_auth` and the
`save_auth` that extends the authorization; `HandleLogin`, `LogIn`,
`RefuseLogin`, `SaveLogin`, `StoreLogin` are `handle_session` with the key
`login`. What a request carries (a cookie, a key, a name, a password) is chosen
where the program reads it. `save_auth` truncates the file in one step
(`SaveAuth`) and writes the record in the next (`Dump`); a process may be killed
in between (`Lose`). A refused `fopen` leaves the file as it is, a full disk
leaves it empty, and nobody asks. The stream is never closed, so that what the
disk refused is tried once more when the process exits (`Flush`). A login forgets
the key it came with even if the file cannot be removed (`DropAuth`).

### Abstractions

- Text nodes, help texts, formatting and file names inside descriptions are
  left out; every loop of the code skips text nodes. Names are model values.
- `KindMatchesType`: an element names a screen of its own kind. The DTD asks for
  some ID only; the manual says the rest.
- Fields `owner`, `open`, `pos` and `last` of a description are determined by the
  links (`OwnerEquation`, `OpenEquation`, `DocumentOrder`: the place of an element
  in the document, and of the last one beneath it); they let an invariant speak
  about ancestors and siblings without recursion. No action of `RastaContext` reads
  them; `ClRasta` and `GtkRasta` read `open` and `owner` for what the library may
  answer (`Entries`, `StepsOf`). `saved.nodes` and `saved.of` are history, not in
  the file.
- A symbol that is bound to NULL counts as unbound in `RastaContext`, while
  `rastascope.c:357` saves it as an empty value. No front end of this version saves
  a state.
- A cache entry whose title is no ID can never be found and is left out.
- Documents that libxml or the DTD refuses leave no context; chunks that
  complete nothing change nothing. Neither is an action.
- Symbol names are legal NMTOKENs (hazard at `rastascope.c:356`).
- `OneKeyAssumption`: a file is always named by spellings of one hash. The
  semaphore is keyed by the name as typed, so without this it excludes nothing.
- A file is read in one step. A run reads only with the lock held, and only
  editors write descriptions.
- `semget` failing for another reason than an existing semaphore ends the run as
  `LockRefused` does. A deletion file handed to `rastaadd` (or the converse) is
  refused by `validate_addition`; a delta carries its own tool instead. A main file
  that cannot be opened, parsed or validated ends the run alike (`ReadFails`, at
  any time: the system may refuse a good file), as does a delta with neither
  screens nor paths (`Bare`), which the DTD refuses before `validate_addition` would.
- Only IDs of screens are kept by `RadEdit`: what is inside a screen does not
  matter to paths.
- The front ends take the verdict of a number format on a value from a constant
  (`Refused`), the items that a list returns together from another (`Joined`,
  `FirstWord`), and a command's output is a sequence of lines or of pieces of
  lines.
- `GtkRasta` has no READONLY fields: their names are freed while the widget keeps
  them (hazard at `gtkrasta.c:750`), and nothing can be promised of a freed name.
  Two fields of a screen have different symbols there.
- The file selector of `gtkrasta` is a window beside the dialog. In `GtkRasta` its
  choice is taken as typed, while the dialog can be pressed. In the code its OK may
  also write when the panes are insensitive, after the fields were stored, or into
  the entry of a dialog that is gone (hazard at `gtkrasta.c:750`): `DialogStores`
  speaks of what the entries say when NEXT is pressed, and of nothing later.
- `SiblingsAssumption` of `ClRasta`: chains of siblings end, as those of a parsed
  document do.
- `CgiSession` takes a cookie for any login that was made, although this version
  of the program never sends one. A key is a second and a userid: the code
  repeats the userid, or cuts it, to fill a hash block, so no userid may be a
  repetition of another (`ab`, `abab`), and no two may begin with the same 56 bytes.
  The timestamp is that of the second in which the file is opened. Session files are read and never written, so a session
  key other than `login` finds none. `main` does not look at what `load_cgi_conf`
  returns, and nothing reads what it loads.

## 3. Runs

| run | question | bounds | result |
|---|---|---|---|
| `context` | do the invariants, action properties and liveness of the context hold, and does it implement `RastaTrail`? | 3 descriptions of at most 11 elements, 6 screens, 2 symbols, 2 values, 7 structures | holds, 83844 states |
| `multipath` | is a MULTIPATH followed only if its symbol has its value? | the description with nested branches | violated |
| `closed_root` | does FASTPATH="false" on the first screen keep fastpaths out? | a description with a closed root | violated |
| `titles` | does every scope show the screen it names when a TEXT is another screen's ID? | a description with such a TEXT | violated |
| `initcommand_fails` | does a failed initcommand always go back a screen? | the description that starts with a dialog | violated |
| `rad` | do the editors keep their promises, and implement `RadStore`? | 3 runs, 3 files, 2 keys, 10 command lines out of 10 deltas | holds, 30566 states |
| `rad_exit` | does exit status 0 mean that the file was saved? | as `rad` | violated |
| `rad_path_only` | is every valid addition applied? | as `rad` | violated |
| `gtk` | does every command of the window reach its own screen, once and whole, in every order of callbacks, and does every activity end? | 6 screens, 2 fields, 2 streams, 2 pieces of output | holds, 284398 states |
| `clr` | the same for the terminal, with pipes that fill; and are dialogs filled in and prompts ended? | 7 screens, 4 fields and a list, 2 saved states, pages and pipes of 1, 2 lines per stream, numbers 0 to 3 | holds, 341712 states |
| `clr_single` | does a list of a single choice hold one mark? | as `clr` | violated |
| `cgi` | whose is an authorization, when is its file empty, and when is it out? | 3 requests, 2 users and a stranger, 2 passwords, a timeout of 1 within 3 seconds | holds, 1202245 states |

Why the bounds are enough. The descriptions were chosen so that every branch of
the loops is taken: `Setup` has a menu used twice whose structure is shared, a
dialog with an initcommand and a hidden screen that branches; `Wizard` has
nested MULTIPATHs, a value no branch covers (a dead end) and two hidden screens
in a row; `Doors` has a closed menu above the first occurrence of a screen, an
open dialog above the second one and a hidden screen that may not be descended,
and the search climbs over two levels. Two symbols with two values give every
combination of matched, unmatched and unbound. The stack is as deep as the
description, so nothing else bounds a session; a session can be followed by
another one on any description and with the state file the first one left,
complete or truncated, any number of times. Seven structures are more than any
reachable set of references needs, so the heap never blocks a step.

Three runs of the editors are two that conflict and one that meets what they
left; two spellings share a key, a third has its own. The deltas include the
one of `tests/testadddel` and its deletion, two that use screens they insert,
one of them inserting beneath what it has just inserted, one
that makes an invalid document, one without screens, one with a relative path,
and deletions that remove too little, too much, everything, and nothing at all. Every run of
the model ends, so the configurations of `RadTools` do not check deadlock; those
of `RastaContext` do.

The window's description has every way out of `build_screen`: a menu with
choices and one without, a dialog with an initcommand and a required ring beside
a numeric list field, one without fields, a hidden screen, an action that may be
confirmed or not and shown on a terminal or not, and dead ends. Two pieces, of one
stream or of both, of which those of the output may or may not end a line, are
enough for a line to come in two reads, for the order of output to be lost and
for the two watches to cut each other's lines; for any number of pieces there is
the theorem `LinesAreWhole`. A child can leave a process behind, close its streams, be
cancelled before or after it is reaped, and write what cannot be converted.

The terminal's description has a list of two items over pages of one, so that
MORE, the last page, and numbers off the page happen; a ring and a list that
share a symbol with an earlier screen; a field that is only printed before one
that is asked for; a dialog of nothing but such a field, before a hidden screen
whose command may fail. A session starts at the root, at any screen a fastpath may
lead to, at none, or where one of two saved states ends: at its first screen, or
four scopes deep with symbols. A pipe of one line and a command of two lines per stream
fill: the next write waits. A page has ten items and a pipe 64 kilobytes in
reality; the code compares with the page size and never looks at the other.

Three requests are two that get in each other's way and one that meets what they
left; two users, one of them without a password, and a stranger give
every login. With a timeout of one second an authorization is fresh, at its
last second, and out, within the three. The requests are symmetric.

`GtkRasta`, `ClRasta` and `CgiSession` stop when their programs have ended, so
their configurations do not check deadlock; that they do not stop earlier is
what their liveness properties say.

The expected violations are disagreements between the code and the manual, a
comment or a test; `PROJECT.json` quotes both sides of each.

### Properties

`RastaContext`: `ScopesFormPath`, `InitcommandBelongs`, `NewScreenAsksInitcommand`,
`MenuShowsOwnChoices`, `ChoicesLead`, `ScopeShowsNamedScreen`, `FastpathSound`,
`FastpathComplete`, `LowerScopesKeepSymbols`, `LoadRestores`, `LoadRetraces`,
`ImplementsTrail`, and with fairness `CallsReturn`, `FailedLoadReverts`; `IInv` is
the invariant of the proofs. `RadTools`: `AloneWithFile`, `EditIsCurrent`,
`LockHasOwner`, `FilesStayValid`, `DeletionUndoesAddition`, `ImplementsStore`.
`GtkRasta`: `CommandOwnsScreen`, `LinesWhole`, `DialogStores`,
`ImplementsFrontEnd`, and with fairness `ActivityEnds`, `CancelEnds`. `ClRasta`:
`RequiredAnswered`, `ImplementsFrontEnd`, and with fairness `CommandEnds`,
`EndOfInput`. `CgiSession`: `RecordsOwn`, `EmptyHasWriter`, `SomebodyAhead`,
`ExpiredForGood`.
`RastaFrontEnd` is the abstract specification of both front ends: one command at
a time; the session stays at the screen that asked for it; that screen hears of
it once, after its end, with its status and all it wrote. A stream that cannot
be read to its end may be heard of in part, and `clrasta` (`Abandons`) then
drops the command.

Some properties name the cases in which the code does not do better, and say by
that that there are no others. An activity of the window does not end where
`build_screen` gives up after an error box (`GaveUp`), or while a process holds a
pipe. A command of the terminal is not collected when it fills its error pipe
while its output is read (`Hung`). At the end of the input the program does not
end in a list, which knows no QUIT; it may run an initcommand for ever whose
output cannot be decoded (`lost`); and it may go round for ever over a dialog that
asks nothing (`Silent`): it is left without a prompt, and the screen after it
(hidden, or its command fails, or its action cannot be run) steps back to it. A request comes too late to
make a directory only behind one that did not (`SomebodyAhead`): that is all the
race can do, while a system that refuses may refuse every request.

Each is stated in words above its definition, and has a mutant of a mapped
definition that breaks it.

### Fairness

`FairSpec` assumes weak fairness of `LibraryStep` only: a call of the library that
has begun goes on, since the library is sequential C that never waits. Nothing is
assumed of users, commands or crashes: a session may rest for ever at a screen,
or end in the middle of a call. `RadTools` needs none, its runs are straight lines
and its properties are safety; `CgiSession` neither, for the same reason.

`GtkRasta`: the main loop goes on dispatching as long as some source is ready, a
step of the program comes to its end (the user answers an error box), and SIGTERM
ends a process it was sent to: the code has no stronger signal. One weak fairness
covers all the sources together, which asks less of the loop than one for each. Nothing is assumed of
the user or of a command; `ActivityEnds` supposes, as part of the property, that
no process holds a pipe for ever.

`ClRasta`: the program goes on as long as it has something to do, a prompt at the
end of the input answers itself (`readline` returns NULL at once), a process
that waits to write does so when there is room, and processes come to their end.
Nothing is assumed of the user before the input ends.

## 4. Theorems

All of them hold for every value of the constants that satisfies the named
assumptions: any set of well-formed descriptions of any size, any heap, any
number of runs, files and keys; in `RadTools_proofs` any editing function, in
`RadEdit_proofs` the one that the editors have.

`RastaContext_proofs`. `IInv` is `TypeOK` with what the loops rely on:
`StackInv` (there is a scope exactly after start-up, and only an element-less
scope has no screen), `SearchInv` (nothing above the element the fastpath search
has reached is closed), `WalkInv` (a walk stays below the current scope's
element), `ReplayInv` (a replay has something to compare with), and the two
results `ScopesFormPath` and `FastpathSound`. Neither result is inductive alone:
a push keeps the path only because of `WalkInv`, a found fastpath is open only
because of `SearchInv`. From `Invariance` follow `TypeCorrect`, `StackIsPath`,
`FastpathIsSound`, and by one more look at each step `LowerScopesKept`.

There too, `ScreensAreNamed`: every scope shows the screen its
element names. The invariant has to speak of the cache too: an entry under an ID
holds the screen of that ID (`CacheInv`). It is kept because a new structure is
one that neither a scope nor the cache refers to.
`rasta_screen_init` works on two things that outlive a
use of a screen: it toggles the flag in `ctxt->state` and it rebuilds the menu of
a shared structure. `ToggleInv` says where the flag may be up: over the screen
that asks for it, on the way of a replay, which lowers it on arrival, and on the
way back, which lowers it too. So the toggle never starts from the wrong side
(`NewScreensAskInitcommand`), and the flag
never belongs to another screen (`InitcommandsBelong`). `MenuInv` says that the
menu fits whenever no walk is under way: `MenusShowOwnChoices`.

Four theorems suppose, by name, that no screen's TEXT is the ID of another
screen (`TitlesApart`): `ScreensAreNamed`, `NewScreensAskInitcommand`,
`EveryChoiceLeads` and `LoadsRetrace`. The cache is asked by ID and filled by
title; the run `titles` shows what happens without the hypothesis, and every
other description the runs check satisfies it.

`RastaSession_proofs` is about whole sessions.
`FastpathIsComplete`: in the document's order, no element that the search has
left behind is one it should have stopped at (`PassedInv`). A closed branch is
skipped as a whole, which loses nothing because nothing beneath it is open; the
climb over several levels is between one element and the next in that order. A
screen without ID is then there only after a search that found nothing because
there was nothing (`NoneInv`).
`EveryChoiceLeads`: a walk that begins with a choice has the chosen element still
before it, among the siblings to come (`ChoiceInv`), so it cannot run past it.
`ContextImplementsTrail`, the refinement of `RastaTrail`: the visible trail is
the stack without its hidden scopes (`Shown`), so a push, a pop and a put at the
top append to it, cut it, change its last entry, or are stutters; that the scopes
below stay as visible as they were is `ScreensStay`, structures being shared,
and that the first screen is never hidden is `FirstInv`.
`LoadsRestore`: while a file is replayed, the scopes replayed so far have its
screens and its symbols, and where symbols are to be put the current screen is
the one the file names (`LoadInv`).
`LoadsRetrace`: the same load, in the description the file was saved in, with the
start and its symbols as they were, succeeds and goes through the saved elements,
menus, dialogs and hidden screens alike.
Its reason is that a walk depends on the description, on what the symbols look
like from the scope it starts at (`View`) and on the choice, and on nothing else.
`Route` says that without induction: there is a set of turns of the loop that the
walk does not leave and in which only one turn can be its last. `WalkedInv`
collects the turns of the walk under way; `SessionInv` says that every scope of
the stack is where such a walk leads from the one below; `SavedInv` and `FileInv`
carry that into the file; `RetraceInv` says that a replay stays on the saved
elements, since its walk and the saved one are the same walk. Together they are
`ReplayIInv`.

`RadTools_proofs`. The inductive invariant `IInv` adds to `TypeOK` that runs at
work have different keys and that the semaphore's value is what their positions
say (`LockInv`), and that a run about to save holds a valid document, and one
that writes has truncated its file (`SaveInv`). From it: `Exclusion`,
`NothingStaleIsSaved`, `FilesAreValid`, `LocksAreOwned`, and `StoreImplemented`, the refinement of
`RadStore`: a save takes effect when the file is truncated; between `Open` and
`Write` the abstract file is the document of the one run that writes
(`Held`), and a crash there loses it.

`RadEdit_proofs`. `DeletionUndoes`: in every state the runs reach, deleting what
an addition added gives the description back. It supposes that the edits are
those of `RadEdit` (`EditsAreRadEdit`) and that the parser's documents and deltas
have the shape of such (`DocumentsAssumption`, `DeltasAssumption`). Its inductive
invariant is `DocumentsInv`, that files and runs hold well-formed documents, kept
because of `EditKeepsDocument`; the rest is `AdditionUndone`, about one document
and one addition of any size.

The argument. An addition grows the tree `G[0]` to `G[n]`, one PATHINSERT after the
other (`AddedGrows`). The deletion goes through the insertions in the order they
were made, so that it takes an element away while later ones, some beneath it,
are still there. `Peeled` describes every tree on the way: an element of the
grown tree is left if it was there before the addition, or if the child by which
it leaves the old tree at `p` comes after the first `low[p]` children that `p` has in
the grown tree; it is renumbered accordingly. At the start `low[p]` is the number of
children that `p` had before, so that nothing is gone; in the end it is the number
that it has in the grown tree, and what is left is the old tree.
The search for the next element to delete has two cases. If its parent belongs
to the old tree, the search finds it: nothing before the addition had its name
there (`Recoverable`), the earlier additions at that place are gone, the later ones
come after it (`StageFinds`). If its parent came with the addition, an earlier
PATHDELETE has already taken it away, and the search must find nothing at all, for
otherwise an element would be deleted that nobody added (`StageMisses`). It needs
that a hit could only be a later insertion of the same name at the same place,
and that at such an insertion the path did lead somewhere (`LaterInsert`). So one
PATHDELETE is one more step of `low` or none (`StageStep`, `UndoStage`), and `AllUndone`
follows the whole list. `ScreensUndone` is the same for the IDs, which `Accepted`
keeps apart.

These loops are recursive functions, and what they compute is proved without
the induction theorem: `IteratesUnique` and its companions in `OrderLemmas` say
that two sequences of values that begin alike and go on alike are equal, since
there is no first place at which they differ.

`GtkRasta_proofs`. `Typed` is the type of every variable. `Printed` says that the
pipes and the halves of lines of a stream hold pieces of that stream only, and
that the text on show ends with a whole line: from it, `LinesAreWhole`. `Owned` is
`CommandOwnsScreen` with what protects it: nothing is collected while a screen is
built and no button leads away (`BuildsAlone`), the panes are sensitive meanwhile
only if they show an action (`ScreensIdle`), a dialog that can be used is the
session's own (`PaneIsTop`), a ring's dialog is filled with nothing beside it
(`RingAlone`), and the sources are those of one command (`OneCommand`). Without
`RingAlone` a poll could take away the ring's source, without `PaneIsTop` a list
could be started for a screen the session has left. Result:
`CommandsOwnTheirScreen`.

`DialogsStore` follows from `PaneIsTop`: the button that leaves a dialog is
sensitive only while the panes show the session's own screen, so that the
entries that are stored are those of the dialog that is left, and what a later
`rasta_symbol_lookup` finds is what they say (`StoredAll`).
`Gathered` follows the output of a command from the child to the screen: what
was read, then what waits for the end of its line, then what the pipe holds, is
what the child wrote, and when the watch is gone all of it was read
(`NothingLost`); a command that is no more has left nothing behind (`Tidy`). With it, `FrontEndImplemented`: in whatever order the poll and the two
watches run, the window keeps the promises of `RastaFrontEnd`. A poll that
finds the child dead while a watch still has something to read is not the end
of the command, and `Finish` waits for both watches: without that guard
`NothingLost` would say nothing about what the screen is told.

`ClRasta_proofs`. `CollectsOwn`: a command is there exactly while it is
collected, and is the current screen's. `NothingLost`: what was read, followed by
what the pipe holds, is what the command wrote, and a stream that was read to its
end is written no more. `FieldMarks`: marks are positions of the list that is
shown. With the types they are inductive and give `FrontEndImplemented`, the
refinement of `RastaFrontEnd`, for every capacity of the pipes, and `TypeCorrect`.
`RequiredFieldsAnswered` adds that the fields before the one that is asked for
are answered (`Answered`), and supposes `SymbolsApart`: a later optional field of
the same symbol could empty it again. The instance TLC checks satisfies it.

`CgiSession_proofs`. `IInv` joins the three invariants with what a process holds
at each of its phases (`HoldsOwn`: it goes by a key of its own user only, and
by none before it has recognised or made one) and with `Overtaken`: a process that is about to make a directory that
is there has another one ahead of it. `SomebodyAhead` alone is not inductive: it
says nothing until the `mkdir` fails. The results are `RecordsAreOwn`,
`EmptyFilesHaveWriters`, `SomebodyIsAhead`, and from `HoldsOwn` the action property
`ExpiredStaysExpired`, for any timeout, any users, any number of requests.

`OrderLemmas` proves that a bounded set of numbers has a highest and a lowest
element, by well-foundedness of inclusion between finite sets, and from that what
would otherwise be an induction: of the positions at which a claim fails there
is a lowest one, and the claim holds at the one before it. So it proves what
`Sift` gives on a sequence that is longer by one, cut, or joined to another one,
and that joining is associative.

Only model-checked. The six liveness properties (`CallsReturn`,
`FailedLoadReverts`, `ActivityEnds`, `CancelEnds`, `CommandEnds`, `EndOfInput`):
fairness and ENABLED are out of the prover's reach. Every invariant, action
property and refinement that a run checks is a theorem.

## 5. Not modelled

- Number formats (`rasta_verify_number_format` in `rastadialog.c`), symbol
  substitution and escapes (`rastaexec.c`): conversions of strings without state.
  What the front ends do with their verdicts and their failures is modelled. The
  same holds for the enumerations of fields and lists and `renumeration.c`: a
  list copied when it is created, modelled as its elements.
- The contents of screens in `RadEdit`, the unused options `--force` and
  `--backup` and a deletion file handed to `rastaadd`.
- `gtkrasta`: the layout of the widgets, the help boxes, the filter of numeric
  entries, the deprecated IPADDR and VOLUME fields, READONLY fields (above).
- `clrasta`: the wording of the prompts. `--load-push` pushes the description
  where it should push the state (hazard at `clrasta.c:1341`), so that it is a
  start that fails (`LoadFails`); the library's side is in `RastaContext`.
- `cgirasta`: the pages and their templates, the configuration, and the helpers
  `jcgi.c`, `jsha.c`, `jiterator.c`. That two logins of a user within one second
  share a file, and that a slow renewal makes a file again that a login dropped,
  is in the model, and no property forbids it: nothing in the code says it must
  not happen.
- `rastaedit` and `gtkrastaliststore.c`: no operation changes a description.
- The parsing and the validation inside libxml.

What could come next: the number formats against a reference definition over
short strings (the empty format is documented as always valid, and is not); two
sessions of the two front ends over one state file.
