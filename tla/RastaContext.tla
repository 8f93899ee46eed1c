---------------------------- MODULE RastaContext ----------------------------
(***************************************************************************)
(* librasta's context: where a front end is in a RASTA description.        *)
(*                                                                         *)
(* A context is a stack of scopes.  The first scope is the screen the      *)
(* session started with, the last one is the current screen; every scope   *)
(* has a symbol table of its own.  A front end (clrasta, gtkrasta) calls   *)
(* one library function at a time.  Each loop of the library (the search   *)
(* for a fastpath, the walk to the next element, the way back over hidden  *)
(* screens, the replay of a saved state) advances here one iteration per   *)
(* step, so that its termination is a property and not an assumption.      *)
(***************************************************************************)
EXTENDS RastaDescription, Sequences, SequenceSift

CONSTANT Objects    \* addresses of RastaScreen structures: a bound on the heap
ASSUME ObjectsAssumption == Null \notin Objects

VARIABLES
    doc,            \* ctxt->doc, ctxt->screens: the parsed description
    state,          \* ctxt->state
    path_root,      \* ctxt->path_root
    fastpath,       \* ctxt->fastpath
    parser,         \* ctxt->parser # NULL: a state document is being pushed
    scopes,         \* ctxt->scopes, initial scope first
    screen_cache,   \* ctxt->screen_cache, the keys that can be asked for
    heap,           \* the RastaScreen structures that something refers to
    pc,             \* the loop the library is in; "idle": a front end runs
    ret,            \* where to continue once the inner call returns
    cur,            \* the element a walk of the PATH tree has reached
    next_id,        \* rasta_traverse_forward's argument (Null in a dialog)
    matched,        \* rc = 0 in rasta_traverse_forward
    todo,           \* the scopes of a state document still to be replayed
    saved           \* the state file

context == <<doc, path_root, fastpath>>
walk    == <<ret, cur, next_id, matched>>
screens == <<screen_cache, heap>>
vars == <<doc, state, path_root, fastpath, parser, scopes, screen_cache, heap,
          pc, ret, cur, next_id, matched, todo, saved>>

States   == {"UNINITIALIZED", "INITIALIZED", "SCREEN", "INITCOMMAND"}
Unset    == Null                \* a symbol the hash table does not hold
NoSymbols == [s \in Symbols |-> Unset]
Tables   == [Symbols -> Values \cup {Unset}]
NoScreen == [id |-> Null, items |-> {}]     \* RASTA_SCREEN_NONE

Screen == [id : ScreenIds \cup {Null}, items : SUBSET ScreenIds]
Scope  == [node : Nodes \cup {Null}, screen : Objects \cup {Null},
           symbols : Tables]
Record == [id : ScreenIds \cup {Null}, symbols : Tables]  \* a SCOPE element

\* The state file: its SCOPE elements, outermost first.  nodes and of are
\* history, not in the file: the elements of the saved scopes, in which
\* description.
StateFile == [present : BOOLEAN, scopes : Seq(Record),
              nodes : Seq(Nodes \cup {Null}), of : Descriptions \cup {Null}]
Absent    == [present |-> FALSE, scopes |-> <<>>, nodes |-> <<>>, of |-> Null]
Truncated == [present |-> TRUE,  scopes |-> <<>>, nodes |-> <<>>, of |-> Null]

-----------------------------------------------------------------------------
(***************************************************************************)
(* The scope stack (rastascope.c).                                         *)
(***************************************************************************)
Top         == scopes[Len(scopes)]
IsInitial   == Len(scopes) = 1
IdOf(scope) == IF scope.node = Null THEN Null ELSE doc.name[scope.node]

TypeOf(obj) == IF obj = Null THEN "NULL"
               ELSE IF heap[obj].id = Null THEN "NONE"
               ELSE doc.type[heap[obj].id]
TopType     == TypeOf(Top.screen)

\* rasta_symbol_lookup: the innermost scope that binds the symbol.
Lookup(sym) ==
    LET binding == {i \in 1..Len(scopes) : scopes[i].symbols[sym] # Unset}
    IN  IF binding = {} THEN Unset
        ELSE scopes[CHOOSE i \in binding : \A j \in binding : j <= i].symbols[sym]

\* Mutant of Bind: the new table replaces the old one.
BindReplaces(scope, table) ==
    IF scope.node = Null THEN scope ELSE [scope EXCEPT !.symbols = table]

\* rasta_symbol_put for every symbol that table binds.  A scope without an
\* element has no hash table and keeps nothing.
Bind(scope, table) ==
    IF scope.node = Null THEN scope
    ELSE [scope EXCEPT !.symbols =
            [s \in Symbols |-> IF table[s] = Unset THEN @[s] ELSE table[s]]]

\* Mutant of SymbolsPut: rasta_scope_push links the scopes the other way.
SymbolsPutFirst(table) == scopes' = [scopes EXCEPT ![1] = Bind(@, table)]

SymbolsPut(table) == scopes' = [scopes EXCEPT ![Len(scopes)] = Bind(@, table)]

-----------------------------------------------------------------------------
(***************************************************************************)
(* Screens (rastascreen.c): loading through the cache, and the per-use     *)
(* initialisation that rebuilds menus and asks for initcommands.           *)
(***************************************************************************)
Refers(stack) == {stack[i].screen : i \in 1..Len(stack)}
                    \cup {screen_cache[s] : s \in ScreenIds}
\* Mutant of Free: a structure dropped from the cache is freed under its scopes.
FreeUnderScopes == Objects \ {screen_cache[s] : s \in ScreenIds}
Free  == Objects \ Refers(scopes)
Fresh == CHOOSE o \in Free : TRUE

\* A structure that nothing refers to any more is forgotten.
Reachable(stack) == [o \in Objects |-> IF o \in Refers(stack) THEN heap[o]
                                       ELSE NoScreen]

ChoicesOf(node) ==
    {doc.name[n] : n \in {m \in Nodes : /\ doc.parent[m] = node
                                        /\ doc.kind[m] \in MenuKinds}}

\* rasta_screen_init: what it leaves in the screen ...
Initialized(screen, node) ==
    IF screen.id # Null /\ doc.type[screen.id] = "MENU"
    THEN [screen EXCEPT !.items = ChoicesOf(node)]
    ELSE screen

\* ... and in ctxt->state: an initcommand is a toggle.
StateAfterInit(s, id) ==
    LET used == IF s = "INITIALIZED" THEN "SCREEN" ELSE s
    IN  CASE id = Null                           -> s
          [] id # Null /\ doc.init[id] /\ used = "SCREEN"      -> "INITCOMMAND"
          [] id # Null /\ doc.init[id] /\ used = "INITCOMMAND" -> "SCREEN"
          [] OTHER                               -> used

Disarmed(s) == IF s = "INITCOMMAND" THEN "SCREEN" ELSE s

\* rasta_screen_load: the cache is asked by ID and filled by title, so that
\* only an entry whose title is an ID can be found again.
Cached(id) == screen_cache[id] # Null
Loaded(id) == IF Cached(id) THEN screen_cache[id] ELSE Fresh

ScreenLoad(id, node) ==
    LET screen == IF Cached(id) THEN heap[Loaded(id)]
                  ELSE [id |-> id, items |-> {}]
    IN  /\ Cached(id) \/ Free # {}
        /\ heap' = [heap EXCEPT ![Loaded(id)] = Initialized(screen, node)]
        /\ screen_cache' = IF Cached(id) \/ doc.title[id] \notin ScreenIds
                           THEN screen_cache
                           ELSE [screen_cache EXCEPT ![doc.title[id]] = Loaded(id)]
        /\ state' = StateAfterInit(state, screen.id)

\* rasta_scope_push and rasta_screen_prepare.  A NULL element makes a scope
\* with neither id, screen nor symbol table.
PushAndPrepare(node) ==
    IF node = Null
    THEN /\ scopes' = Append(scopes, [node |-> Null, screen |-> Null,
                                      symbols |-> NoSymbols])
         /\ UNCHANGED <<screen_cache, heap, state>>
    ELSE /\ ScreenLoad(doc.name[node], node)
         /\ scopes' = Append(scopes, [node |-> node,
                                      screen |-> Loaded(doc.name[node]),
                                      symbols |-> NoSymbols])

-----------------------------------------------------------------------------
(***************************************************************************)
(* Creating a context (rastacontext.c): parse, validate, find the          *)
(* fastpath, push the first scope.                                         *)
(***************************************************************************)
Init ==
    /\ doc \in Descriptions
    /\ state = "UNINITIALIZED"
    /\ path_root = Null /\ fastpath = Null /\ parser = FALSE
    /\ scopes = <<>>
    /\ screen_cache = [s \in ScreenIds |-> Null]
    /\ heap = [o \in Objects |-> NoScreen]
    /\ pc = "off" /\ ret = "idle"
    /\ cur = Null /\ next_id = Null /\ matched = FALSE
    /\ todo = <<>>
    /\ saved = Absent

\* rasta_context_init, and rasta_context_init_push with the last chunk of
\* rasta_context_parse_chunk, on a document the DTD accepts.
ContextInit(d, f) ==
    /\ pc = "off"
    /\ doc' = d
    /\ fastpath' = f
    /\ path_root' = d.root
    /\ state' = "INITIALIZED"
    /\ cur' = IF f = Null THEN d.root ELSE d.child[d.root]
    /\ pc' = IF f = Null THEN "found" ELSE "fastpath"
    /\ UNCHANGED <<parser, scopes, screens, ret, next_id, matched, todo, saved>>

\* Mutant of Candidate: a fastpath leads to menus only.
MenuCandidate(n) == doc.kind[n] = "MENU"
\* Mutant of Pruned: FASTPATH="false" is not looked at.
NeverPruned(n) == FALSE

\* rasta_find_fastpath: one turn of the outer loop.
Candidate(n) == doc.kind[n] \in {"MENU", "DIALOG"}
Pruned(n)    == Candidate(n) /\ ~doc.fastpath[doc.name[n]]

FastpathVisit ==
    /\ pc = "fastpath"
    /\ cur # Null
    /\ IF Candidate(cur) /\ ~Pruned(cur) /\ doc.name[cur] = fastpath
       THEN path_root' = cur /\ pc' = "found" /\ cur' = cur
       ELSE /\ UNCHANGED path_root
            /\ IF Candidate(cur) /\ ~Pruned(cur) /\ doc.child[cur] # Null
               THEN cur' = doc.child[cur] /\ pc' = pc
               ELSE IF doc.next[cur] # Null
               THEN cur' = doc.next[cur] /\ pc' = pc
               ELSE cur' = cur /\ pc' = "climb"
    /\ UNCHANGED <<doc, state, fastpath, parser, scopes, screens, ret,
                   next_id, matched, todo, saved>>

\* Mutant of FastpathClimb: back on the parent instead of after it.
FastpathClimbRevisits ==
    /\ pc = "climb"
    /\ LET up == doc.parent[cur]
       IN  IF up = path_root
           THEN cur' = Null /\ pc' = "fastpath"
           ELSE cur' = up /\ pc' = "fastpath"
    /\ UNCHANGED <<context, state, parser, scopes, screens, ret,
                   next_id, matched, todo, saved>>

\* rasta_find_fastpath: one turn of the inner loop, up and to the right.
FastpathClimb ==
    /\ pc = "climb"
    /\ LET up == doc.parent[cur]
       IN  IF up = path_root
           THEN cur' = Null /\ pc' = "fastpath"
           ELSE IF doc.next[up] # Null
           THEN cur' = doc.next[up] /\ pc' = "fastpath"
           ELSE cur' = up /\ pc' = pc
    /\ UNCHANGED <<context, state, parser, scopes, screens, ret,
                   next_id, matched, todo, saved>>

\* The end of rasta_context_init_screens, fastpath found or not asked for ...
FirstScreen ==
    /\ pc = "found"
    /\ PushAndPrepare(path_root)
    /\ pc' = "idle"
    /\ cur' = Null
    /\ UNCHANGED <<context, parser, ret, next_id, matched, todo, saved>>

\* ... and the fastpath not found: the root's scope with a NONE screen.
NoFirstScreen ==
    /\ pc = "fastpath"
    /\ cur = Null
    /\ Free # {}
    /\ scopes' = <<[node |-> path_root, screen |-> Fresh, symbols |-> NoSymbols]>>
    /\ heap' = [heap EXCEPT ![Fresh] = NoScreen]
    /\ pc' = "idle"
    /\ UNCHANGED <<context, state, parser, screen_cache, walk, todo, saved>>

-----------------------------------------------------------------------------
(***************************************************************************)
(* Moving forward: rasta_menu_screen_next, rasta_dialog_screen_next and    *)
(* rasta_hidden_screen_next are rasta_traverse_forward followed by a push. *)
(***************************************************************************)
\* Mutant of StartForward: the walk starts at ctxt->path_root.
StartForwardAtRoot(id, back) ==
    /\ pc' = "forward"
    /\ ret' = back
    /\ next_id' = id
    /\ matched' = FALSE
    /\ cur' = doc.child[path_root]

StartForward(id, back) ==
    LET here == doc.kind[Top.node]
        fits == IF id = Null THEN here \in {"DIALOG", "HIDDEN"} ELSE here = "MENU"
    IN  /\ pc' = "forward"
        /\ ret' = back
        /\ next_id' = id
        /\ matched' = FALSE
        /\ cur' = IF fits THEN doc.child[Top.node] ELSE Null

\* Mutant of Arrives: a menu cannot follow a menu.
ArrivesBelowMenus(n) ==
    doc.kind[n] \in {"DIALOG", "HIDDEN", "ACTION"}
        /\ (next_id # Null => doc.name[n] = next_id)

\* The element at which the walk stops.
Arrives(n) ==
    IF next_id # Null
    THEN doc.kind[n] \in MenuKinds /\ doc.name[n] = next_id
    ELSE doc.kind[n] \in {"DIALOG", "HIDDEN", "ACTION"}

\* rc = 0 after a MULTIPATH was looked at: rc is only assigned when the
\* symbol is bound.
MatchedAt(n) ==
    LET v == Lookup(doc.symbol[n])
    IN  IF v = Unset THEN matched ELSE v = doc.value[n]

\* Mutant of ForwardReturn: the two phases are swapped.
ForwardReturnSwapped(node) ==
    /\ PushAndPrepare(node)
    /\ pc' = ret
    /\ ret' = pc
    /\ cur' = Null /\ next_id' = Null /\ matched' = FALSE
    /\ UNCHANGED <<context, parser, todo, saved>>

ForwardReturn(node) ==
    /\ PushAndPrepare(node)
    /\ pc' = ret
    /\ ret' = "idle"
    /\ cur' = Null /\ next_id' = Null /\ matched' = FALSE
    /\ UNCHANGED <<context, parser, todo, saved>>

ForwardArrive ==
    /\ pc = "forward"
    /\ \/ cur = Null
       \/ cur # Null /\ Arrives(cur)
    /\ ForwardReturn(cur)

ForwardBranch ==
    /\ pc = "forward"
    /\ cur # Null
    /\ ~Arrives(cur)
    /\ LET inDialog == next_id = Null
           multi    == inDialog /\ doc.kind[cur] = "MULTIPATH"
           default  == inDialog /\ doc.kind[cur] = "DEFAULTPATH"
       IN  /\ matched' = IF multi THEN MatchedAt(cur) ELSE matched
           /\ cur' = IF default \/ (multi /\ MatchedAt(cur))
                     THEN doc.child[cur] ELSE doc.next[cur]
    /\ UNCHANGED <<context, state, parser, scopes, screens, pc, ret,
                   next_id, todo, saved>>

-----------------------------------------------------------------------------
(***************************************************************************)
(* Moving back: rasta_screen_previous pops until the screen is not hidden. *)
(***************************************************************************)
StartPrevious(back) ==
    /\ pc' = "previous"
    /\ ret' = back

\* Mutant of Popped: the stack is unlinked at the wrong end.
PoppedFirst == IF IsInitial THEN scopes ELSE Tail(scopes)

Popped == IF IsInitial THEN scopes ELSE SubSeq(scopes, 1, Len(scopes) - 1)

PopHidden ==
    /\ pc = "previous"
    /\ TypeOf(Popped[Len(Popped)].screen) = "HIDDEN"
    /\ scopes' = Popped
    /\ heap' = Reachable(Popped)
    /\ UNCHANGED <<context, state, parser, screen_cache, pc, walk, todo, saved>>

\* Mutant of PopVisible: the screen is shown again as it was left.
PopVisibleStale ==
    /\ pc = "previous"
    /\ LET scope == Popped[Len(Popped)]
           obj   == scope.screen
       IN  /\ TypeOf(obj) # "HIDDEN"
           /\ scopes' = Popped
           /\ heap' = Reachable(Popped)
           /\ state' = Disarmed(StateAfterInit(Disarmed(state), heap[obj].id))
    /\ pc' = ret
    /\ ret' = "idle"
    /\ UNCHANGED <<context, parser, screen_cache, cur, next_id, matched,
                   todo, saved>>

PopVisible ==
    /\ pc = "previous"
    /\ LET scope == Popped[Len(Popped)]
           obj   == scope.screen
       IN  /\ TypeOf(obj) # "HIDDEN"
           /\ scopes' = Popped
           /\ heap' = [Reachable(Popped) EXCEPT ![obj] = Initialized(@, scope.node)]
           /\ state' = Disarmed(StateAfterInit(Disarmed(state), heap[obj].id))
    /\ pc' = ret
    /\ ret' = "idle"
    /\ UNCHANGED <<context, parser, screen_cache, cur, next_id, matched,
                   todo, saved>>

-----------------------------------------------------------------------------
(***************************************************************************)
(* Saving and loading a state (rastacontext.c, rastascope.c).              *)
(***************************************************************************)
Snapshot == [i \in 1..Len(scopes) |->
                [id |-> IdOf(scopes[i]), symbols |-> scopes[i].symbols]]

NodesOf  == [i \in 1..Len(scopes) |-> scopes[i].node]

\* rasta_context_save_state truncates the file ...
SaveState ==
    /\ pc = "idle"
    /\ saved' = Truncated
    /\ pc' = "dump"
    /\ UNCHANGED <<context, state, parser, scopes, screens, walk, todo>>

\* ... and then writes the document.
DumpState ==
    /\ pc = "dump"
    /\ saved' = [present |-> TRUE, scopes |-> Snapshot, nodes |-> NodesOf,
                 of |-> doc]
    /\ pc' = "idle"
    /\ UNCHANGED <<context, state, parser, scopes, screens, walk, todo>>

\* rastastate.dtd (one SCOPE at least, NAME a token) and
\* rasta_context_validate_state (the first SCOPE is the current one).
StateFileFits ==
    /\ saved.present
    /\ saved.scopes # <<>>
    /\ \A i \in 1..Len(saved.scopes) : saved.scopes[i].id # Null
    /\ saved.scopes[1].id = IdOf(Top)

\* rasta_context_prepare_state: travel, or -EBADF with nothing changed.
PrepareState ==
    /\ IF StateFileFits
       THEN todo' = saved.scopes /\ pc' = "travel"
       ELSE UNCHANGED <<todo, pc>>
    /\ UNCHANGED <<context, state, scopes, screens, walk, saved>>

\* rasta_context_load_state
LoadState ==
    /\ pc = "idle"
    /\ ~parser /\ fastpath = Null /\ IsInitial
    /\ PrepareState
    /\ UNCHANGED parser

\* rasta_context_load_state_push
LoadStatePush ==
    /\ pc = "idle"
    /\ ~parser /\ fastpath = Null /\ IsInitial
    /\ parser' = TRUE
    /\ UNCHANGED <<context, state, scopes, screens, pc, walk, todo, saved>>

\* rasta_context_parse_state_chunk, on the last chunk
ParseStateChunk ==
    /\ pc = "idle"
    /\ parser /\ IsInitial
    /\ parser' = FALSE
    /\ PrepareState

\* rasta_context_parse_state_chunk, on a chunk libxml rejects
ParseStateChunkFails ==
    /\ pc = "idle"
    /\ parser /\ IsInitial
    /\ parser' = FALSE
    /\ UNCHANGED <<context, state, scopes, screens, pc, walk, todo, saved>>

\* Mutants of Travel: only the last, and all but the last, SCOPE has its
\* SYMBOLs put.
TravelPutsWhere(putsHere) ==
    /\ pc = "travel"
    /\ IF putsHere THEN SymbolsPut(Head(todo).symbols) ELSE UNCHANGED scopes
    /\ IF Len(todo) = 1
       THEN pc' = "idle" /\ todo' = <<>> /\ UNCHANGED walk
       ELSE /\ todo' = Tail(todo)
            /\ CASE TopType = "MENU" -> StartForward(todo[2].id, "arrived")
                 [] TopType \in {"DIALOG", "HIDDEN"} -> StartForward(Null, "arrived")
                 [] OTHER -> pc' = "revert" /\ UNCHANGED walk
    /\ UNCHANGED <<context, state, parser, screens, saved>>
TravelPutsLast       == TravelPutsWhere(Len(todo) = 1)
TravelPutsAllButLast == TravelPutsWhere(Len(todo) > 1)

\* rasta_context_travel_state: the SYMBOLs of a SCOPE, and then either the
\* end of the document or the move to the SCOPE inside it.
Travel ==
    /\ pc = "travel"
    /\ SymbolsPut(Head(todo).symbols)
    /\ IF Len(todo) = 1
       THEN pc' = "idle" /\ todo' = <<>> /\ UNCHANGED walk
       ELSE /\ todo' = Tail(todo)
            /\ CASE TopType = "MENU" -> StartForward(todo[2].id, "arrived")
                 [] TopType \in {"DIALOG", "HIDDEN"} -> StartForward(Null, "arrived")
                 [] OTHER -> pc' = "revert" /\ UNCHANGED walk
    /\ UNCHANGED <<context, state, parser, screens, saved>>

\* Mutant of TravelArrived: the initcommand of a screen on the way stays due.
TravelArrivedArmed ==
    /\ pc = "arrived"
    /\ pc' = IF Top.node # Null /\ IdOf(Top) = Head(todo).id
             THEN "travel" ELSE "revert"
    /\ UNCHANGED <<context, state, parser, scopes, screens, walk, todo, saved>>

\* Back from the move: no initcommand on the way, and the screen must be
\* the one the document names.
TravelArrived ==
    /\ pc = "arrived"
    /\ state' = Disarmed(state)
    /\ pc' = IF Top.node # Null /\ IdOf(Top) = Head(todo).id
             THEN "travel" ELSE "revert"
    /\ UNCHANGED <<context, parser, scopes, screens, walk, todo, saved>>

\* Mutant of Revert: the number of steps back is off by one.
RevertShort ==
    /\ pc = "revert"
    /\ IF Len(scopes) <= 2
       THEN pc' = "idle" /\ todo' = <<>> /\ UNCHANGED ret
       ELSE StartPrevious("revert") /\ UNCHANGED todo
    /\ UNCHANGED <<context, state, parser, scopes, screens, cur, next_id,
                   matched, saved>>

\* rasta_context_revert_state
Revert ==
    /\ pc = "revert"
    /\ IF IsInitial
       THEN pc' = "idle" /\ todo' = <<>> /\ UNCHANGED ret
       ELSE StartPrevious("revert") /\ UNCHANGED todo
    /\ UNCHANGED <<context, state, parser, scopes, screens, cur, next_id,
                   matched, saved>>

-----------------------------------------------------------------------------
(***************************************************************************)
(* The calls of a front end, under the conditions the library's interface  *)
(* gives them: a choice comes from the enumerated menu, fields are only    *)
(* shown once no initcommand is due, an initcommand that is due comes      *)
(* before anything else on a hidden screen.                                *)
(***************************************************************************)
MenuNext(id) ==
    /\ pc = "idle"
    /\ TopType = "MENU"
    /\ id \in heap[Top.screen].items
    /\ StartForward(id, "idle")
    /\ UNCHANGED <<context, state, parser, scopes, screens, todo, saved>>

DialogNext ==
    /\ pc = "idle"
    /\ TopType = "DIALOG" /\ state = "SCREEN"
    /\ StartForward(Null, "idle")
    /\ UNCHANGED <<context, state, parser, scopes, screens, todo, saved>>

\* Mutant of HiddenNext: a hidden screen is left before its initcommand ran.
HiddenNextEarly ==
    /\ pc = "idle"
    /\ TopType = "HIDDEN"
    /\ StartForward(Null, "idle")
    /\ UNCHANGED <<context, state, parser, scopes, screens, todo, saved>>

HiddenNext ==
    /\ pc = "idle"
    /\ TopType = "HIDDEN" /\ state # "INITCOMMAND"
    /\ StartForward(Null, "idle")
    /\ UNCHANGED <<context, state, parser, scopes, screens, todo, saved>>

\* A field of a dialog is stored.
FieldStored(sym, val) ==
    /\ pc = "idle"
    /\ TopType = "DIALOG" /\ state = "SCREEN"
    /\ sym \in doc.sets[heap[Top.screen].id]
    /\ SymbolsPut([NoSymbols EXCEPT ![sym] = val])
    /\ UNCHANGED <<context, state, parser, screens, pc, walk, todo, saved>>

InitcommandDue == state = "INITCOMMAND" /\ TopType \in {"DIALOG", "HIDDEN"}

\* rasta_initcommand_complete: the output is parsed into symbols and the
\* screen initialised a second time.
InitcommandComplete(table) ==
    /\ pc = "idle"
    /\ InitcommandDue
    /\ \A s \in Symbols : table[s] # Unset => s \in doc.sets[heap[Top.screen].id]
    /\ SymbolsPut(table)
    /\ state' = StateAfterInit(state, heap[Top.screen].id)
    /\ UNCHANGED <<context, parser, screens, pc, walk, todo, saved>>

\* rasta_initcommand_failed
InitcommandFailed ==
    /\ pc = "idle"
    /\ InitcommandDue
    /\ state' = "SCREEN"
    /\ StartPrevious("idle")
    /\ UNCHANGED <<context, parser, scopes, screens, cur, next_id, matched,
                   todo, saved>>

\* The user asks to go back.
Previous ==
    /\ pc = "idle"
    /\ TopType \in {"MENU", "DIALOG", "ACTION"}
    /\ StartPrevious("idle")
    /\ UNCHANGED <<context, state, parser, scopes, screens, cur, next_id,
                   matched, todo, saved>>

\* The front end exits, or is killed in the middle of a call.
Terminate ==
    /\ pc # "off"
    /\ state' = "UNINITIALIZED"
    /\ path_root' = Null /\ fastpath' = Null /\ parser' = FALSE
    /\ scopes' = <<>>
    /\ screen_cache' = [s \in ScreenIds |-> Null]
    /\ heap' = [o \in Objects |-> NoScreen]
    /\ pc' = "off" /\ ret' = "idle"
    /\ cur' = Null /\ next_id' = Null /\ matched' = FALSE
    /\ todo' = <<>>
    /\ UNCHANGED <<doc, saved>>

-----------------------------------------------------------------------------
LibraryStep ==
    \/ FastpathVisit \/ FastpathClimb \/ FirstScreen \/ NoFirstScreen
    \/ ForwardArrive \/ ForwardBranch
    \/ PopHidden \/ PopVisible
    \/ DumpState \/ Travel \/ TravelArrived \/ Revert

FrontEndCall ==
    \/ \E id \in ScreenIds : MenuNext(id)
    \/ DialogNext
    \/ HiddenNext
    \/ \E sym \in Symbols, val \in Values : FieldStored(sym, val)
    \/ \E table \in Tables : InitcommandComplete(table)
    \/ InitcommandFailed
    \/ Previous
    \/ SaveState
    \/ LoadState \/ LoadStatePush \/ ParseStateChunk \/ ParseStateChunkFails

Next ==
    \/ \E d \in Descriptions, f \in ScreenIds \cup {Null} : ContextInit(d, f)
    \/ LibraryStep
    \/ FrontEndCall
    \/ Terminate

Spec == Init /\ [][Next]_vars

\* A call that has begun runs to its end: the library is plain C.
FairSpec == Spec /\ WF_vars(LibraryStep)

-----------------------------------------------------------------------------
(***************************************************************************)
(* Correctness.                                                            *)
(***************************************************************************)
Phases == {"off", "fastpath", "climb", "found", "idle", "forward", "previous",
           "dump", "travel", "arrived", "revert"}

\* The type of every variable of a context.
TypeOK ==
    /\ doc \in Descriptions
    /\ state \in States
    /\ path_root \in Nodes \cup {Null}
    /\ fastpath \in ScreenIds \cup {Null}
    /\ parser \in BOOLEAN
    /\ scopes \in Seq(Scope)
    /\ screen_cache \in [ScreenIds -> Objects \cup {Null}]
    /\ heap \in [Objects -> Screen]
    /\ pc \in Phases
    /\ ret \in {"idle", "arrived", "revert"}
    /\ cur \in Nodes \cup {Null}
    /\ next_id \in ScreenIds \cup {Null}
    /\ matched \in BOOLEAN
    /\ todo \in Seq(Record)
    /\ saved \in StateFile

\* The scope stack is a path of the description: it starts at the session's
\* root, every further scope belongs to a next element of the scope before
\* it (through MULTIPATH and DEFAULTPATH only), and only the current scope
\* may be the dead end that has no element.
ScopesFormPath ==
    scopes # <<>> =>
        /\ scopes[1].node = path_root
        /\ \A i \in 2..Len(scopes) :
              /\ scopes[i-1].node # Null
              /\ scopes[i].node # Null => doc.owner[scopes[i].node] = scopes[i-1].node

\* An initcommand is due only on a screen that has one: the flag in
\* ctxt->state, which outlives screens, always belongs to the current screen.
InitcommandBelongs ==
    pc = "idle" /\ state = "INITCOMMAND" =>
        /\ TopType \in {"DIALOG", "HIDDEN"}
        /\ doc.init[heap[Top.screen].id]

\* A screen that is moved to and has an initcommand asks for it: the toggle
\* of rasta_dialog_screen_init never starts from the wrong side.
NewScreenAsksInitcommand ==
    [][ pc = "forward" /\ pc' = "idle" /\ scopes'[Len(scopes')].node # Null =>
            (state' = "INITCOMMAND"
                <=> doc.init[doc.name[scopes'[Len(scopes')].node]]) ]_vars

\* The menu on the screen lists the choices of the element the session is
\* at, although every use of a screen shares one structure through the cache.
MenuShowsOwnChoices ==
    pc = "idle" /\ TopType = "MENU" =>
        heap[Top.screen].items = ChoicesOf(Top.node)

\* No choice of a menu ends the session at a dead end.
ChoicesLead ==
    pc = "idle" /\ scopes # <<>> /\ Top.node = Null =>
        doc.kind[scopes[Len(scopes) - 1].node] # "MENU"

\* Every scope shows the screen that its element names.
ScopeShowsNamedScreen ==
    \A i \in 1..Len(scopes) :
        scopes[i].screen # Null /\ heap[scopes[i].screen].id # Null =>
            heap[scopes[i].screen].id = IdOf(scopes[i])

\* A fastpath never starts a session below, or at, a screen that the
\* description closes to fastpaths (the root itself aside).
FastpathSound ==
    path_root \notin {Null, doc.root} =>
        /\ doc.name[path_root] = fastpath
        /\ MayDescend(doc, path_root)
        /\ doc.open[path_root]

\* A fastpath is refused only when no open screen has that ID.
FastpathComplete ==
    pc = "idle" /\ TopType = "NONE" =>
        ~ \E n \in Nodes : /\ doc.open[n] /\ MayDescend(doc, n)
                           /\ doc.name[n] = fastpath

\* A symbol is only ever put into the current scope: moving forward and back
\* never changes what the scopes below hold.
LowerScopesKeepSymbols ==
    [][ \A i \in 1..Len(scopes) :
          i < Len(scopes) /\ i <= Len(scopes') =>
              scopes'[i].symbols = scopes[i].symbols ]_vars

\* A load that succeeds ends on the saved screens with the saved symbols.
LoadRestores ==
    [][ pc = "travel" /\ pc' = "idle" =>
          /\ Len(scopes') = Len(saved.scopes)
          /\ \A i \in 1..Len(scopes') :
              /\ doc.name[scopes'[i].node] = saved.scopes[i].id
              /\ \A s \in Symbols : saved.scopes[i].symbols[s] # Unset =>
                    scopes'[i].symbols[s] = saved.scopes[i].symbols[s] ]_vars

\* Save and load are inverse: with the description the state was saved from,
\* and no other symbols in the first scope, a load passes through the saved
\* elements and is never given up.
LoadRetraces ==
    [][ /\ pc \in {"travel", "arrived"} /\ pc' \in {"idle", "revert"}
        /\ saved.of = doc /\ saved.nodes[1] = path_root
        /\ scopes'[1].symbols = saved.scopes[1].symbols
        => pc' = "idle" /\ saved.nodes = [i \in 1..Len(scopes') |-> scopes'[i].node]
      ]_vars

\* The trail the user sees: every scope but those of hidden screens.
Visible(scope) == TypeOf(scope.screen) # "HIDDEN"
VisibleTrail ==
    LET seen == Sift(scopes, {i \in 1..Len(scopes) : Visible(scopes[i])})
    IN  [i \in 1..Len(seen) |-> [node |-> seen[i].node, symbols |-> seen[i].symbols]]

Trail == INSTANCE RastaTrail WITH
            Places <- Nodes \cup {Null}, Unset <- Null, trail <- VisibleTrail

\* The context implements the trail: whatever the loops of the library do in
\* between, the visible screens and their symbols change as RastaTrail says.
ImplementsTrail == Trail!Spec

-----------------------------------------------------------------------------
(***************************************************************************)
(* The inductive invariant behind TypeOK, ScopesFormPath, FastpathSound    *)
(* and the action property LowerScopesKeepSymbols.                         *)
(***************************************************************************)
Booting == {"off", "fastpath", "climb", "found"}

\* There are scopes from the first screen on; a scope without an element
\* has no screen, and only such a scope has none.
StackInv ==
    /\ pc \in Booting <=> scopes = <<>>
    /\ \A i \in 1..Len(scopes) : scopes[i].node = Null <=> scopes[i].screen = Null

\* While the fastpath is searched, nothing above the search is closed.
SearchInv ==
    /\ pc # "off" => path_root # Null
    /\ pc \in {"fastpath", "climb"} =>
          path_root = doc.root /\ (cur # Null => doc.open[cur])
    /\ pc = "climb" => cur # Null

\* While a walk is under way it is below the current scope's element.
WalkInv ==
    pc = "forward" => /\ Top.node # Null
                      /\ cur # Null => doc.owner[cur] = Top.node

\* While a state is replayed there is something to compare with.
ReplayInv ==
    /\ pc \in {"travel", "arrived"} => todo # <<>>
    /\ pc = "travel" => Top.node # Null
    /\ ret = "arrived" => pc = "forward" /\ todo # <<>>

IInv ==
    /\ TypeOK
    /\ StackInv
    /\ SearchInv
    /\ WalkInv
    /\ ReplayInv
    /\ ScopesFormPath
    /\ FastpathSound

\* Every call of the library returns.
CallsReturn == pc \notin {"idle", "off"} ~> pc \in {"idle", "off"}

\* A load that is given up leaves the context at its initial screen.
FailedLoadReverts == pc = "revert" ~> (pc = "off" \/ (pc = "idle" /\ IsInitial))

\* The manual: "If the symbol named has the matching value in the symbol
\* table, the path beneath the MULTIPATH will be followed.  If the symbol
\* value does not match, the next MULTIPATH element will be checked".
MultipathAsDocumented ==
    [][ /\ pc = "forward" /\ pc' = "forward"
        /\ cur # Null /\ doc.kind[cur] = "MULTIPATH"
        /\ cur' # Null /\ cur' = doc.child[cur]
        => Lookup(doc.symbol[cur]) = doc.value[cur] ]_vars

\* The manual on FASTPATH="false": "The RASTA system will not allow the front
\* end to skip the screen or any beneath it."
ClosedScreenNotSkipped ==
    path_root \notin {Null, doc.root} => doc.fastpath[doc.name[doc.root]]

\* The manual: "If the initcommand exits with an unsuccessful return code, the
\* front end will refuse to continue to the next screen and will instead go
\* back to the screen it just left."
FailedInitcommandGoesBack ==
    [][ InitcommandFailed
        => Popped # scopes ]_vars
=============================================================================
