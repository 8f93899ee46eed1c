------------------------ MODULE RastaContext_proofs -------------------------
(***************************************************************************)
(* Theorems about RastaContext, for every set of well-formed descriptions  *)
(* and every heap: its walks and its search, its screens and their cache.  *)
(***************************************************************************)
EXTENDS RastaContext, OrderLemmas

-----------------------------------------------------------------------------
(* Lemmas about the operators of the library.                              *)

\* What the DTD and libxml guarantee of the description of a context.
LEMMA DocFacts ==
  ASSUME TypeOK
  PROVE  /\ doc \in Description
         /\ TreeLinks(doc) /\ PathGrammar(doc) /\ ScreenGrammar(doc)
         /\ KindMatchesType(doc) /\ OwnerEquation(doc) /\ OpenEquation(doc)
         /\ DocumentOrder(doc)
  BY DescriptionsAssumption DEF TypeOK, WellFormed

\* rasta_screen_init leaves ctxt->state in one of its four values.
LEMMA StateAfterInitType ==
  ASSUME NEW s \in States, NEW id
  PROVE  StateAfterInit(s, id) \in States
  BY DEF StateAfterInit, States

\* rasta_screen_init rebuilds a menu from IDs of screens.
LEMMA InitializedType ==
  ASSUME TypeOK, NEW screen \in Screen, NEW node
  PROVE  Initialized(screen, node) \in Screen
<1>1. doc.name \in [Nodes -> ScreenIds]
  BY DocFacts DEF Description
<1>2. ChoicesOf(node) \in SUBSET ScreenIds
  BY <1>1 DEF ChoicesOf
<1>3. QED
  BY <1>2 DEF Initialized, Screen

\* Forgetting unreachable structures keeps the heap well typed.
LEMMA ReachableType ==
  ASSUME TypeOK, NEW stack
  PROVE  Reachable(stack) \in [Objects -> Screen]
  BY DEF TypeOK, Reachable, NoScreen, Screen

\* A pushed scope is the new current one and leaves the others alone.
LEMMA PushFacts ==
  ASSUME TypeOK, NEW node \in Nodes \cup {Null}, PushAndPrepare(node)
  PROVE  /\ scopes' \in Seq(Scope)
         /\ screen_cache' \in [ScreenIds -> Objects \cup {Null}]
         /\ heap' \in [Objects -> Screen]
         /\ state' \in States
         /\ Len(scopes') = Len(scopes) + 1
         /\ \A i \in 1..Len(scopes) : scopes'[i] = scopes[i]
         /\ scopes'[Len(scopes')].node = node
         /\ scopes'[Len(scopes')].screen = Null <=> node = Null
<1>0. scopes \in Seq(Scope) /\ NoSymbols \in Tables
  BY DEF TypeOK, NoSymbols, Tables, Unset
<1>1. CASE node = Null
  <2>1. PICK e \in Scope : /\ scopes' = Append(scopes, e)
                           /\ e.node = Null /\ e.screen = Null
    BY <1>0, <1>1 DEF PushAndPrepare, Scope
  <2>2. QED
    BY <1>0, <1>1, <2>1 DEF PushAndPrepare, TypeOK
<1>2. CASE node # Null
  <2> DEFINE id == doc.name[node]
  <2>1. id \in ScreenIds
    BY <1>2, DocFacts DEF Description
  <2>2. ScreenLoad(id, node)
    BY <1>2 DEF PushAndPrepare
  <2>3. Loaded(id) \in Objects
    BY <2>1, <2>2 DEF ScreenLoad, Loaded, Cached, Fresh, Free, TypeOK
  <2>4. PICK e \in Scope : /\ scopes' = Append(scopes, e)
                           /\ e.node = node /\ e.screen = Loaded(id)
    BY <1>0, <1>2, <2>3 DEF PushAndPrepare, Scope
  <2>5. heap' \in [Objects -> Screen]
    <3>1. [id |-> id, items |-> {}] \in Screen
      BY <2>1 DEF Screen
    <3>2. heap[Loaded(id)] \in Screen
      BY <2>3 DEF TypeOK
    <3> DEFINE scr == IF Cached(id) THEN heap[Loaded(id)]
                      ELSE [id |-> id, items |-> {}]
    <3>3. Initialized(scr, node) \in Screen
      BY <3>1, <3>2, InitializedType
    <3>4. heap' = [heap EXCEPT ![Loaded(id)] = Initialized(scr, node)]
      BY <2>2 DEF ScreenLoad
    <3>5. QED
      BY <3>3, <3>4 DEF TypeOK
  <2>6. screen_cache' \in [ScreenIds -> Objects \cup {Null}]
    BY <2>2, <2>3 DEF ScreenLoad, TypeOK
  <2>7. state' \in States
    BY <2>2, StateAfterInitType DEF ScreenLoad, TypeOK
  <2>8. Len(scopes') = Len(scopes) + 1
    BY <1>0, <2>4
  <2>9. QED
    BY <1>0, <1>2, <2>3, <2>4, <2>5, <2>6, <2>7, ObjectsAssumption
<1>3. QED
  BY <1>1, <1>2

\* What is left after a pop are the scopes below, and never none.
LEMMA PoppedFacts ==
  ASSUME TypeOK, scopes # <<>>
  PROVE  /\ Popped \in Seq(Scope)
         /\ Popped # <<>>
         /\ Len(Popped) <= Len(scopes)
         /\ \A i \in 1..Len(Popped) : Popped[i] = scopes[i]
<1>1. scopes \in Seq(Scope) /\ Len(scopes) \in Nat /\ Len(scopes) > 0
  BY DEF TypeOK
<1>2. CASE IsInitial
  BY <1>1, <1>2 DEF Popped, IsInitial
<1>3. CASE ~IsInitial
  <2>1. Popped = SubSeq(scopes, 1, Len(scopes) - 1) /\ Len(scopes) - 1 \in 1..Len(scopes)
    BY <1>1, <1>3 DEF Popped, IsInitial
  <2>2. Popped \in Seq(Scope) /\ Len(Popped) = Len(scopes) - 1
    BY <1>1, <2>1
  <2>3. \A i \in 1..Len(Popped) : Popped[i] = scopes[i]
    BY <1>1, <2>1, <2>2
  <2>4. Len(Popped) > 0 /\ Len(Popped) <= Len(scopes)
    BY <1>1, <2>1, <2>2
  <2>5. QED
    BY <2>2, <2>3, <2>4
<1>4. QED
  BY <1>2, <1>3

\* Putting symbols changes the table of the current scope and nothing else.
LEMMA SymbolsPutFacts ==
  ASSUME TypeOK, scopes # <<>>, NEW table \in Tables, SymbolsPut(table)
  PROVE  /\ scopes' \in Seq(Scope)
         /\ Len(scopes') = Len(scopes)
         /\ \A i \in 1..Len(scopes) :
              /\ scopes'[i].node = scopes[i].node
              /\ scopes'[i].screen = scopes[i].screen
              /\ i < Len(scopes) => scopes'[i] = scopes[i]
<1>1. scopes \in Seq(Scope) /\ Len(scopes) \in Nat /\ Len(scopes) > 0
  BY DEF TypeOK
<1> DEFINE top == scopes[Len(scopes)]
<1>2. top \in Scope
  BY <1>1
<1>3. /\ Bind(top, table) \in Scope
      /\ Bind(top, table).node = top.node
      /\ Bind(top, table).screen = top.screen
  <2> DEFINE t == [s \in Symbols |-> IF table[s] = Unset THEN top.symbols[s] ELSE table[s]]
  <2>1. t \in Tables
    BY <1>2 DEF Scope, Tables
  <2>2. [top EXCEPT !.symbols = t] \in Scope
    BY <1>2, <2>1 DEF Scope
  <2>3. Bind(top, table) = IF top.node = Null THEN top ELSE [top EXCEPT !.symbols = t]
    BY DEF Bind
  <2> HIDE DEF t
  <2>4. /\ [top EXCEPT !.symbols = t].node = top.node
        /\ [top EXCEPT !.symbols = t].screen = top.screen
    BY <1>2 DEF Scope
  <2>5. QED
    BY <1>2, <2>2, <2>3, <2>4
<1>4. scopes' = [scopes EXCEPT ![Len(scopes)] = Bind(top, table)]
  BY DEF SymbolsPut
<1>5. QED
  BY <1>1, <1>3, <1>4

-----------------------------------------------------------------------------
(* The inductive invariant: one lemma per action or group of actions.      *)

\* A state file that does not exist or was only opened is well typed.
LEMMA EmptyFiles == Absent \in StateFile /\ Truncated \in StateFile
<1>1. <<>> \in Seq(Record) /\ <<>> \in Seq(Nodes \cup {Null})
  OBVIOUS
<1>2. QED
  BY <1>1 DEF Absent, Truncated, StateFile

LEMMA InitIInv == Init => IInv
<1> SUFFICES ASSUME Init PROVE IInv
  OBVIOUS
<1>1. TypeOK
  <2>1. NoScreen \in Screen /\ saved \in StateFile
    BY EmptyFiles DEF Init, NoScreen, Screen
  <2>2. scopes \in Seq(Scope) /\ todo \in Seq(Record)
    BY DEF Init
  <2>3. /\ heap \in [Objects -> Screen]
        /\ screen_cache \in [ScreenIds -> Objects \cup {Null}]
    BY <2>1 DEF Init
  <2>4. QED
    BY <2>1, <2>2, <2>3 DEF Init, TypeOK, States, Phases
<1>2. QED
  BY <1>1 DEF Init, IInv, StackInv, SearchInv, WalkInv, ReplayInv,
              ScopesFormPath, FastpathSound, Booting

\* Starting a session.
LEMMA ContextInitStep ==
  ASSUME IInv, NEW d \in Descriptions, NEW f \in ScreenIds \cup {Null},
         ContextInit(d, f)
  PROVE  IInv'
<1>1. scopes = <<>> /\ TypeOK
  BY DEF IInv, StackInv, Booting, ContextInit
<1>2. d \in Description /\ TreeLinks(d) /\ OpenEquation(d)
  BY DescriptionsAssumption DEF WellFormed
<1>3. d.root \in Nodes /\ d.root # Null
  BY <1>2, NullAssumption DEF Description
<1>4. d.child[d.root] # Null => d.open[d.child[d.root]]
  <2> SUFFICES ASSUME d.child[d.root] # Null PROVE d.open[d.child[d.root]]
    OBVIOUS
  <2>1. d.child[d.root] \in Nodes
    BY <1>2, <1>3 DEF Description
  <2>2. d.parent[d.child[d.root]] = d.root
    BY <1>2, <1>3 DEF TreeLinks
  <2>3. QED
    BY <1>2, <1>3, <2>1, <2>2 DEF OpenEquation
<1>5. TypeOK'
  BY <1>1, <1>2, <1>3 DEF ContextInit, TypeOK, States, Phases, screens, Description
<1>6. SearchInv'
  BY <1>3, <1>4 DEF ContextInit, SearchInv
<1>7. QED
  BY <1>1, <1>5, <1>6 DEF IInv, ContextInit, StackInv, WalkInv, ReplayInv,
                          ScopesFormPath, FastpathSound, Booting, screens

\* The search goes down into, along and up between open elements only.
LEMMA FastpathVisitStep ==
  ASSUME IInv, FastpathVisit
  PROVE  IInv'
<1>1. /\ TypeOK /\ scopes = <<>>
      /\ cur \in Nodes /\ path_root = doc.root /\ doc.open[cur]
  BY DEF IInv, StackInv, SearchInv, TypeOK, Booting, FastpathVisit
<1>2. doc \in Description /\ TreeLinks(doc) /\ OpenEquation(doc)
  BY <1>1, DocFacts
<1>3. doc.child[cur] \in Nodes \cup {Null} /\ doc.next[cur] \in Nodes \cup {Null}
  BY <1>1, <1>2 DEF Description
<1>4. MayDescend(doc, cur) /\ doc.child[cur] # Null => doc.open[doc.child[cur]]
  <2> SUFFICES ASSUME MayDescend(doc, cur), doc.child[cur] # Null
               PROVE  doc.open[doc.child[cur]]
    OBVIOUS
  <2>1. doc.child[cur] \in Nodes /\ doc.parent[doc.child[cur]] = cur
    BY <1>1, <1>2, <1>3 DEF TreeLinks
  <2>2. QED
    BY <1>1, <1>2, <2>1, NullAssumption DEF OpenEquation
<1>5. doc.next[cur] # Null => doc.open[doc.next[cur]]
  <2> SUFFICES ASSUME doc.next[cur] # Null
               PROVE  doc.open[doc.next[cur]]
    OBVIOUS
  <2>1. doc.next[cur] \in Nodes /\ doc.parent[doc.next[cur]] = doc.parent[cur]
    BY <1>1, <1>2, <1>3 DEF TreeLinks
  <2>2. QED
    BY <1>1, <1>2, <2>1 DEF OpenEquation
<1>6. Candidate(cur) /\ ~Pruned(cur) => MayDescend(doc, cur)
  BY DEF Candidate, Pruned, MayDescend
<1>7. TypeOK'
  BY <1>1, <1>3 DEF FastpathVisit, TypeOK, Phases, screens
<1>8. SearchInv' /\ FastpathSound'
  BY <1>1, <1>3, <1>4, <1>5, <1>6, NullAssumption
     DEF FastpathVisit, SearchInv, FastpathSound, IInv
<1>9. QED
  BY <1>1, <1>7, <1>8 DEF IInv, FastpathVisit, StackInv, WalkInv, ReplayInv,
                          ScopesFormPath, Booting

LEMMA FastpathClimbStep ==
  ASSUME IInv, FastpathClimb
  PROVE  IInv'
<1>1. /\ TypeOK /\ scopes = <<>>
      /\ cur \in Nodes /\ path_root = doc.root /\ doc.open[cur]
  BY DEF IInv, StackInv, SearchInv, TypeOK, Booting, FastpathClimb
<1>2. doc \in Description /\ TreeLinks(doc) /\ OpenEquation(doc)
  BY <1>1, DocFacts
<1> DEFINE up == doc.parent[cur]
<1>3. up \in Nodes
  BY <1>1, <1>2 DEF OpenEquation, Description
<1>4. doc.next[up] \in Nodes \cup {Null}
  BY <1>2, <1>3 DEF Description
<1>5. up # path_root => doc.open[up]
  BY <1>1, <1>2 DEF OpenEquation
<1>6. up # path_root /\ doc.next[up] # Null => doc.open[doc.next[up]]
  <2> SUFFICES ASSUME up # path_root, doc.next[up] # Null
               PROVE  doc.open[doc.next[up]]
    OBVIOUS
  <2>1. doc.next[up] \in Nodes /\ doc.parent[doc.next[up]] = doc.parent[up]
    BY <1>2, <1>3, <1>4 DEF TreeLinks
  <2>2. QED
    BY <1>2, <1>3, <1>5, <2>1 DEF OpenEquation
<1>7. TypeOK'
  BY <1>1, <1>3, <1>4 DEF FastpathClimb, TypeOK, Phases, screens, context
<1>8. SearchInv'
  BY <1>1, <1>3, <1>5, <1>6, NullAssumption
     DEF FastpathClimb, SearchInv, IInv, context
<1>9. QED
  BY <1>1, <1>7, <1>8 DEF IInv, FastpathClimb, StackInv, WalkInv, ReplayInv,
                          ScopesFormPath, FastpathSound, Booting, context

-----------------------------------------------------------------------------
(* How the scope stack stays a path.  Shape is the part of StackInv that   *)
(* speaks of single scopes.                                                *)

Shape == \A i \in 1..Len(scopes) : scopes[i].node = Null <=> scopes[i].screen = Null

LEMMA PathAfterPush ==
  ASSUME TypeOK, Shape, ScopesFormPath, NEW node \in Nodes \cup {Null},
         PushAndPrepare(node), UNCHANGED context,
         scopes = <<>> => node = path_root,
         scopes # <<>> => /\ Top.node # Null
                          /\ node # Null => doc.owner[node] = Top.node
  PROVE  Shape' /\ ScopesFormPath' /\ scopes' # <<>>
<1>1. /\ scopes \in Seq(Scope) /\ scopes' \in Seq(Scope)
      /\ Len(scopes) \in Nat
      /\ Len(scopes') = Len(scopes) + 1
      /\ \A i \in 1..Len(scopes) : scopes'[i] = scopes[i]
      /\ scopes'[Len(scopes')].node = node
      /\ scopes'[Len(scopes')].screen = Null <=> node = Null
  BY PushFacts DEF TypeOK
<1>2. \A i \in 1..Len(scopes') : i \in 1..Len(scopes) \/ i = Len(scopes')
  BY <1>1
<1>3. Shape'
  BY <1>1, <1>2 DEF Shape
<1>4. scopes' # <<>>
  BY <1>1
<1>5. ScopesFormPath'
  <2>1. CASE scopes = <<>>
    <3>1. Len(scopes') = 1 /\ scopes'[1].node = path_root
      BY <1>1, <2>1
    <3>2. QED
      BY <3>1, <1>1 DEF ScopesFormPath, context
  <2>2. CASE scopes # <<>>
    <3>1. Len(scopes) >= 1 /\ scopes'[1] = scopes[1]
      BY <1>1, <2>2
    <3>2. scopes'[1].node = path_root'
      BY <2>2, <3>1 DEF ScopesFormPath, context
    <3>3. ASSUME NEW i \in 2..Len(scopes')
          PROVE  /\ scopes'[i-1].node # Null
                 /\ scopes'[i].node # Null
                       => doc'.owner[scopes'[i].node] = scopes'[i-1].node
      <4>1. i - 1 \in 1..Len(scopes) /\ scopes'[i-1] = scopes[i-1]
        BY <1>1
      <4>2. CASE i = Len(scopes')
        BY <1>1, <2>2, <4>1, <4>2 DEF Top, context
      <4>3. CASE i # Len(scopes')
        <5>1. i \in 2..Len(scopes) /\ scopes'[i] = scopes[i]
          BY <1>1, <4>3
        <5>2. QED
          BY <2>2, <4>1, <5>1 DEF ScopesFormPath, context
      <4>4. QED
        BY <4>2, <4>3
    <3>4. QED
      BY <3>2, <3>3 DEF ScopesFormPath
  <2>3. QED
    BY <2>1, <2>2
<1>6. QED
  BY <1>3, <1>4, <1>5

LEMMA PathAfterPop ==
  ASSUME TypeOK, Shape, ScopesFormPath, scopes # <<>>,
         scopes' = Popped, UNCHANGED context
  PROVE  Shape' /\ ScopesFormPath' /\ scopes' # <<>> /\ scopes' \in Seq(Scope)
<1>1. /\ scopes' \in Seq(Scope) /\ scopes' # <<>>
      /\ Len(scopes') <= Len(scopes) /\ Len(scopes) \in Nat /\ Len(scopes') \in Nat
      /\ \A i \in 1..Len(scopes') : scopes'[i] = scopes[i]
  BY PoppedFacts DEF TypeOK
<1>2. \A i \in 1..Len(scopes') : i \in 1..Len(scopes)
  BY <1>1
<1>3. Shape'
  BY <1>1, <1>2 DEF Shape
<1>4. \A i \in 2..Len(scopes') : i \in 2..Len(scopes) /\ i-1 \in 1..Len(scopes') /\ i \in 1..Len(scopes')
  BY <1>1
<1>5. 1 \in 1..Len(scopes')
  BY <1>1
<1>6. ScopesFormPath'
  BY <1>1, <1>4, <1>5 DEF ScopesFormPath, context
<1>7. QED
  BY <1>1, <1>3, <1>6

LEMMA PathAfterPut ==
  ASSUME TypeOK, Shape, ScopesFormPath, scopes # <<>>, NEW table \in Tables,
         SymbolsPut(table), UNCHANGED context
  PROVE  Shape' /\ ScopesFormPath' /\ scopes' # <<>> /\ Top'.node = Top.node
<1>1. /\ scopes' \in Seq(Scope)
      /\ Len(scopes') = Len(scopes) /\ Len(scopes) \in Nat /\ Len(scopes) > 0
      /\ \A i \in 1..Len(scopes) : /\ scopes'[i].node = scopes[i].node
                                   /\ scopes'[i].screen = scopes[i].screen
  BY SymbolsPutFacts DEF TypeOK
<1>2. Shape' /\ Top'.node = Top.node /\ scopes' # <<>>
  BY <1>1 DEF Shape, Top
<1>3. \A i \in 2..Len(scopes) : i \in 1..Len(scopes) /\ i-1 \in 1..Len(scopes)
  BY <1>1
<1>4. 1 \in 1..Len(scopes)
  BY <1>1
<1>5. ScopesFormPath'
  BY <1>1, <1>3, <1>4 DEF ScopesFormPath, context
<1>6. QED
  BY <1>2, <1>5

\* A walk begins at a child of the current element.
LEMMA StartForwardFacts ==
  ASSUME TypeOK, scopes # <<>>, Top.node \in Nodes,
         NEW id \in ScreenIds \cup {Null}, NEW back,
         StartForward(id, back)
  PROVE  /\ cur' \in Nodes \cup {Null}
         /\ cur' # Null => doc.owner[cur'] = Top.node
         /\ pc' = "forward" /\ ret' = back /\ next_id' = id /\ matched' = FALSE
<1>1. doc \in Description /\ TreeLinks(doc) /\ OwnerEquation(doc)
  BY DocFacts
<1>2. doc.child[Top.node] \in Nodes \cup {Null}
  BY <1>1 DEF Description
<1>3. ASSUME cur' # Null PROVE cur' \in Nodes /\ doc.owner[cur'] = Top.node
  <2>1. cur' = doc.child[Top.node] /\ doc.kind[Top.node] \in MenuKinds
    BY <1>3 DEF StartForward, MenuKinds
  <2>2. cur' \in Nodes /\ doc.parent[cur'] = Top.node
    BY <1>1, <1>2, <1>3, <2>1 DEF TreeLinks
  <2>3. QED
    BY <1>1, <2>1, <2>2, NullAssumption DEF OwnerEquation
<1>4. QED
  BY <1>3 DEF StartForward

-----------------------------------------------------------------------------
(* The actions that move: pushes, pops and walks.                          *)

LEMMA FirstScreenStep ==
  ASSUME IInv, FirstScreen
  PROVE  IInv'
<1>1. /\ TypeOK /\ Shape /\ ScopesFormPath
      /\ scopes = <<>> /\ path_root \in Nodes
  BY DEF IInv, StackInv, SearchInv, TypeOK, Booting, FirstScreen, Shape
<1>2. PushAndPrepare(path_root) /\ UNCHANGED context
  BY DEF FirstScreen, context
<1>3. Shape' /\ ScopesFormPath' /\ scopes' # <<>>
  BY <1>1, <1>2, PathAfterPush
<1>4. /\ scopes' \in Seq(Scope) /\ heap' \in [Objects -> Screen]
      /\ screen_cache' \in [ScreenIds -> Objects \cup {Null}]
      /\ state' \in States
  BY <1>1, <1>2, PushFacts
<1>5. TypeOK'
  BY <1>1, <1>4 DEF FirstScreen, TypeOK, Phases, context
<1>6. QED
  BY <1>1, <1>3, <1>5 DEF IInv, FirstScreen, StackInv, SearchInv, WalkInv,
          ReplayInv, FastpathSound, Booting, Shape, context

LEMMA NoFirstScreenStep ==
  ASSUME IInv, NoFirstScreen
  PROVE  IInv'
<1>1. /\ TypeOK /\ scopes = <<>> /\ path_root \in Nodes
  BY DEF IInv, StackInv, SearchInv, TypeOK, Booting, NoFirstScreen
<1>2. Fresh \in Objects /\ Fresh # Null
  BY ObjectsAssumption DEF NoFirstScreen, Fresh, Free
<1>3. NoSymbols \in Tables /\ NoScreen \in Screen
  BY DEF NoSymbols, Tables, Unset, NoScreen, Screen
<1> DEFINE first == [node |-> path_root, screen |-> Fresh, symbols |-> NoSymbols]
<1>4. first \in Scope /\ first.node = path_root /\ first.screen = Fresh
  BY <1>1, <1>2, <1>3 DEF Scope
<1>5. scopes' = <<first>>
  BY DEF NoFirstScreen
<1>6. scopes' \in Seq(Scope) /\ Len(scopes') = 1 /\ scopes'[1] = first
  BY <1>4, <1>5
<1>7. TypeOK'
  <2>1. heap' \in [Objects -> Screen]
    BY <1>1, <1>3 DEF NoFirstScreen, TypeOK
  <2>2. QED
    BY <1>1, <1>6, <2>1 DEF NoFirstScreen, TypeOK, Phases, context, walk
<1>8. StackInv' /\ ScopesFormPath'
  BY <1>1, <1>2, <1>4, <1>6, NullAssumption
     DEF StackInv, ScopesFormPath, NoFirstScreen, Booting, context
<1>9. QED
  BY <1>1, <1>7, <1>8 DEF IInv, NoFirstScreen, SearchInv, WalkInv,
          ReplayInv, FastpathSound, Booting, context, walk

LEMMA ForwardArriveStep ==
  ASSUME IInv, ForwardArrive
  PROVE  IInv'
<1>1. /\ TypeOK /\ Shape /\ ScopesFormPath /\ FastpathSound
      /\ pc = "forward" /\ scopes # <<>> /\ cur \in Nodes \cup {Null}
      /\ Top.node # Null
      /\ cur # Null => doc.owner[cur] = Top.node
      /\ path_root # Null
  BY DEF IInv, StackInv, SearchInv, WalkInv, TypeOK, Booting, ForwardArrive, Shape
<1>2. PushAndPrepare(cur) /\ UNCHANGED context
  BY DEF ForwardArrive, ForwardReturn
<1>3. Shape' /\ ScopesFormPath' /\ scopes' # <<>>
  BY <1>1, <1>2, PathAfterPush
<1>4. /\ scopes' \in Seq(Scope) /\ heap' \in [Objects -> Screen]
      /\ screen_cache' \in [ScreenIds -> Objects \cup {Null}]
      /\ state' \in States
  BY <1>1, <1>2, PushFacts
<1>5. pc' \in {"idle", "arrived", "revert"} /\ todo' = todo
  BY <1>1 DEF ForwardArrive, ForwardReturn, TypeOK
<1>6. TypeOK'
  BY <1>1, <1>4, <1>5 DEF ForwardArrive, ForwardReturn, TypeOK, Phases, context
<1>7. ReplayInv'
  BY <1>5, <1>1 DEF IInv, ReplayInv, ForwardArrive, ForwardReturn
<1>8. StackInv' /\ SearchInv' /\ WalkInv'
  BY <1>1, <1>3, <1>5, <1>6 DEF StackInv, SearchInv, WalkInv, Booting, Shape,
          ForwardArrive, ForwardReturn, context
<1>9. FastpathSound'
  BY <1>1, <1>2 DEF FastpathSound, context
<1>10. QED
  BY <1>3, <1>6, <1>7, <1>8, <1>9 DEF IInv

LEMMA ForwardBranchStep ==
  ASSUME IInv, ForwardBranch
  PROVE  IInv'
<1>1. /\ TypeOK /\ pc = "forward" /\ cur \in Nodes
      /\ doc.owner[cur] = Top.node /\ Top.node # Null
  BY DEF IInv, WalkInv, TypeOK, ForwardBranch
<1>2. doc \in Description /\ TreeLinks(doc) /\ OwnerEquation(doc)
  BY <1>1, DocFacts
<1>3. doc.child[cur] \in Nodes \cup {Null} /\ doc.next[cur] \in Nodes \cup {Null}
  BY <1>1, <1>2 DEF Description
<1>4. doc.next[cur] # Null => doc.owner[doc.next[cur]] = doc.owner[cur]
  <2> SUFFICES ASSUME doc.next[cur] # Null
               PROVE  doc.owner[doc.next[cur]] = doc.owner[cur]
    OBVIOUS
  <2>1. doc.next[cur] \in Nodes /\ doc.parent[doc.next[cur]] = doc.parent[cur]
    BY <1>1, <1>2, <1>3 DEF TreeLinks
  <2>2. QED
    BY <1>1, <1>2, <2>1 DEF OwnerEquation
<1>5. doc.kind[cur] \in BranchKinds /\ doc.child[cur] # Null
        => doc.owner[doc.child[cur]] = doc.owner[cur]
  <2> SUFFICES ASSUME doc.kind[cur] \in BranchKinds, doc.child[cur] # Null
               PROVE  doc.owner[doc.child[cur]] = doc.owner[cur]
    OBVIOUS
  <2>1. doc.child[cur] \in Nodes /\ doc.parent[doc.child[cur]] = cur
    BY <1>1, <1>2, <1>3 DEF TreeLinks
  <2>2. doc.kind[cur] \notin MenuKinds /\ cur # Null
    BY <1>1, NullAssumption DEF BranchKinds, MenuKinds
  <2>3. QED
    BY <1>2, <2>1, <2>2 DEF OwnerEquation
<1>6. \/ cur' = doc.next[cur]
      \/ cur' = doc.child[cur] /\ doc.kind[cur] \in BranchKinds
  BY DEF ForwardBranch, BranchKinds
<1>7. cur' \in Nodes \cup {Null} /\ (cur' # Null => doc.owner[cur'] = Top.node)
  BY <1>1, <1>3, <1>4, <1>5, <1>6
<1>8. matched' \in BOOLEAN
  <2>1. ASSUME NEW n PROVE MatchedAt(n) \in BOOLEAN
    BY <1>1 DEF MatchedAt, TypeOK
  <2>2. QED
    BY <1>1, <2>1 DEF ForwardBranch, TypeOK
<1>9. TypeOK'
  BY <1>1, <1>7, <1>8 DEF ForwardBranch, TypeOK, context, screens
<1>10. StackInv' /\ SearchInv' /\ WalkInv' /\ ReplayInv'
  BY <1>1, <1>7 DEF IInv, StackInv, SearchInv, WalkInv, ReplayInv, Top,
                    ForwardBranch, Booting, context
<1>11. ScopesFormPath' /\ FastpathSound'
  BY DEF IInv, ScopesFormPath, FastpathSound, ForwardBranch, context
<1>12. QED
  BY <1>9, <1>10, <1>11 DEF IInv

LEMMA PopHiddenStep ==
  ASSUME IInv, PopHidden
  PROVE  IInv'
<1>1. /\ TypeOK /\ Shape /\ ScopesFormPath /\ scopes # <<>> /\ pc = "previous"
  BY DEF IInv, StackInv, Booting, PopHidden, Shape
<1>2. scopes' = Popped /\ UNCHANGED context
  BY DEF PopHidden
<1>3. Shape' /\ ScopesFormPath' /\ scopes' # <<>> /\ scopes' \in Seq(Scope)
  BY <1>1, <1>2, PathAfterPop
<1>4. heap' \in [Objects -> Screen]
  BY <1>1, ReachableType DEF PopHidden
<1>5. TypeOK'
  BY <1>1, <1>3, <1>4 DEF PopHidden, TypeOK, context, walk
<1>6. StackInv' /\ SearchInv' /\ WalkInv' /\ ReplayInv'
  BY <1>1, <1>3 DEF IInv, StackInv, SearchInv, WalkInv, ReplayInv, Shape,
                    PopHidden, Booting, context, walk
<1>7. FastpathSound'
  BY <1>2 DEF IInv, FastpathSound, context
<1>8. QED
  BY <1>3, <1>5, <1>6, <1>7 DEF IInv

LEMMA PopVisibleStep ==
  ASSUME IInv, PopVisible
  PROVE  IInv'
<1>1. /\ TypeOK /\ Shape /\ ScopesFormPath /\ scopes # <<>> /\ pc = "previous"
      /\ path_root # Null
  BY DEF IInv, StackInv, SearchInv, Booting, PopVisible, Shape
<1>2. scopes' = Popped /\ UNCHANGED context
  BY DEF PopVisible
<1>3. Shape' /\ ScopesFormPath' /\ scopes' # <<>> /\ scopes' \in Seq(Scope)
  BY <1>1, <1>2, PathAfterPop
<1> DEFINE scope == Popped[Len(Popped)]
<1> DEFINE obj == scope.screen
<1>4. heap' \in [Objects -> Screen]
  <2>1. Reachable(Popped) \in [Objects -> Screen]
    BY <1>1, ReachableType
  <2>2. ASSUME obj \in Objects
        PROVE  Initialized(Reachable(Popped)[obj], scope.node) \in Screen
    BY <1>1, <2>1, <2>2, InitializedType
  <2>3. heap' = [Reachable(Popped) EXCEPT
                    ![obj] = Initialized(Reachable(Popped)[obj], scope.node)]
    BY DEF PopVisible
  <2>4. QED
    BY <2>1, <2>2, <2>3
<1>5. state' \in States
  <2>1. Disarmed(state) \in States
    BY <1>1 DEF Disarmed, TypeOK, States
  <2>2. StateAfterInit(Disarmed(state), heap[obj].id) \in States
    BY <2>1, StateAfterInitType
  <2>3. QED
    BY <2>2 DEF PopVisible, Disarmed, States
<1>6. pc' \in {"idle", "arrived", "revert"} /\ pc' = ret /\ ret' = "idle" /\ todo' = todo
  BY <1>1 DEF PopVisible, TypeOK
<1>7. TypeOK'
  BY <1>1, <1>3, <1>4, <1>5, <1>6 DEF PopVisible, TypeOK, Phases, context
<1>8. StackInv' /\ SearchInv' /\ WalkInv' /\ ReplayInv'
  BY <1>1, <1>2, <1>3, <1>6 DEF IInv, StackInv, SearchInv, WalkInv, ReplayInv,
                    Shape, Booting, context
<1>9. FastpathSound'
  BY <1>2 DEF IInv, FastpathSound, context
<1>10. QED
  BY <1>3, <1>7, <1>8, <1>9 DEF IInv

\* A front end moves forward from the current element.
LEMMA MoveStep ==
  ASSUME IInv, NEW id \in ScreenIds \cup {Null},
         pc = "idle", Top.node # Null, scopes # <<>>,
         StartForward(id, "idle"),
         UNCHANGED <<context, state, parser, scopes, screens, todo, saved>>
  PROVE  IInv'
<1>1. TypeOK
  BY DEF IInv
<1>2. Top \in Scope
  BY <1>1 DEF TypeOK, Top
<1>3. /\ cur' \in Nodes \cup {Null}
      /\ cur' # Null => doc.owner[cur'] = Top.node
      /\ pc' = "forward" /\ ret' = "idle" /\ next_id' = id /\ matched' = FALSE
  BY <1>1, <1>2, StartForwardFacts DEF Scope
<1>4. TypeOK'
  BY <1>1, <1>3 DEF TypeOK, Phases, context, screens
<1>5. StackInv' /\ SearchInv' /\ WalkInv' /\ ReplayInv'
  BY <1>3 DEF IInv, StackInv, SearchInv, WalkInv, ReplayInv, Top, Booting, context
<1>6. ScopesFormPath' /\ FastpathSound'
  BY DEF IInv, ScopesFormPath, FastpathSound, context
<1>7. QED
  BY <1>4, <1>5, <1>6 DEF IInv

\* The screen of the current scope tells that it has an element.
LEMMA TypedTop ==
  ASSUME IInv, pc = "idle", TopType \in {"MENU", "DIALOG", "HIDDEN", "ACTION", "NONE"}
  PROVE  scopes # <<>> /\ Top.node # Null
<1>1. scopes # <<>> /\ scopes \in Seq(Scope) /\ Shape
  BY DEF IInv, StackInv, Booting, Shape, TypeOK
<1>2. Top.screen # Null
  BY DEF TopType, TypeOf
<1>3. QED
  BY <1>1, <1>2 DEF Shape, Top

LEMMA ForwardCallStep ==
  ASSUME IInv, (\E id \in ScreenIds : MenuNext(id)) \/ DialogNext \/ HiddenNext
  PROVE  IInv'
<1>1. ASSUME NEW id \in ScreenIds, MenuNext(id) PROVE IInv'
  BY <1>1, TypedTop, MoveStep DEF MenuNext
<1>2. CASE DialogNext
  BY <1>2, TypedTop, MoveStep DEF DialogNext
<1>3. CASE HiddenNext
  BY <1>3, TypedTop, MoveStep DEF HiddenNext
<1>4. QED
  BY <1>1, <1>2, <1>3

-----------------------------------------------------------------------------
(* The actions of the replay, and the calls that stay where they are.      *)

LEMMA TravelStep ==
  ASSUME IInv, Travel
  PROVE  IInv'
<1>1. /\ TypeOK /\ Shape /\ ScopesFormPath /\ scopes # <<>> /\ pc = "travel"
      /\ todo # <<>> /\ Top.node # Null /\ path_root # Null /\ ret # "arrived"
  BY DEF IInv, StackInv, SearchInv, ReplayInv, Booting, Travel, Shape
<1>2. /\ Len(todo) \in Nat /\ Len(todo) > 0
      /\ Head(todo) \in Record
      /\ Len(todo) # 1 => /\ todo[2] \in Record
                          /\ Tail(todo) \in Seq(Record) /\ Tail(todo) # <<>>
  <2>1. todo \in Seq(Record)
    BY <1>1 DEF TypeOK
  <2>2. Len(todo) \in Nat /\ Len(todo) > 0
    BY <1>1, <2>1
  <2>3. Head(todo) \in Record
    BY <1>1, <2>1
  <2>4. Len(todo) # 1 => 2 \in 1..Len(todo)
    <3> DEFINE n == Len(todo)
    <3>1. n \in Nat /\ n > 0
      BY <2>2
    <3> HIDE DEF n
    <3>2. n # 1 => 2 \in 1..n
      BY <3>1
    <3>3. QED
      BY <3>2 DEF n
  <2>5. Len(todo) # 1 => todo[2] \in Record
    BY <2>1, <2>4
  <2>6. Tail(todo) \in Seq(Record) /\ Len(Tail(todo)) = Len(todo) - 1
    BY <1>1, <2>1
  <2>7. Len(todo) # 1 => Tail(todo) # <<>>
    <3>1. Len(todo) # 1 => Len(Tail(todo)) # 0
      BY <2>2, <2>6
    <3>2. Len(<<>>) = 0
      OBVIOUS
    <3>3. QED
      BY <3>1, <3>2
  <2>8. QED
    BY <2>2, <2>3, <2>5, <2>6, <2>7
<1>3. Head(todo).symbols \in Tables
  BY <1>2 DEF Record
<1>4. SymbolsPut(Head(todo).symbols) /\ UNCHANGED context
  BY DEF Travel
<1>5. Shape' /\ ScopesFormPath' /\ scopes' # <<>> /\ Top'.node = Top.node
  BY <1>1, <1>3, <1>4, PathAfterPut
<1>6. scopes' \in Seq(Scope)
  BY <1>1, <1>3, <1>4, SymbolsPutFacts
<1>7. Top.node \in Nodes
  <2>1. Top \in Scope
    BY <1>1 DEF TypeOK, Top
  <2>2. QED
    BY <1>1, <2>1 DEF Scope
<1>8. FastpathSound'
  BY <1>4 DEF IInv, FastpathSound, context
<1>9. CASE Len(todo) = 1
  <2>1. pc' = "idle" /\ todo' = <<>> /\ UNCHANGED walk
    BY <1>9 DEF Travel
  <2>2. <<>> \in Seq(Record)
    OBVIOUS
  <2>3. TypeOK'
    BY <1>1, <1>4, <1>6, <2>1, <2>2 DEF TypeOK, Travel, Phases, context, walk, screens
  <2>5. StackInv' /\ SearchInv' /\ WalkInv' /\ ReplayInv'
    BY <1>1, <1>4, <1>5, <2>1 DEF StackInv, SearchInv, WalkInv, ReplayInv,
       Shape, Booting, context, walk
  <2>6. QED
    BY <1>5, <1>8, <2>3, <2>5 DEF IInv
<1>10. CASE Len(todo) # 1
  <2>1. todo' = Tail(todo) /\ todo' # <<>> /\ todo' \in Seq(Record)
    BY <1>2, <1>10 DEF Travel
  <2>2. todo[2].id \in ScreenIds \cup {Null}
    BY <1>2, <1>10 DEF Record
  <2>3. \/ \E id \in ScreenIds \cup {Null} : StartForward(id, "arrived")
        \/ pc' = "revert" /\ UNCHANGED walk
    BY <1>10, <2>2 DEF Travel
  <2>4. ASSUME NEW id \in ScreenIds \cup {Null}, StartForward(id, "arrived")
        PROVE  IInv'
    <3>1. /\ cur' \in Nodes \cup {Null}
          /\ cur' # Null => doc.owner[cur'] = Top.node
          /\ pc' = "forward" /\ ret' = "arrived" /\ next_id' = id /\ matched' = FALSE
      BY <1>1, <1>7, <2>4, StartForwardFacts
    <3>2. TypeOK'
      BY <1>1, <1>4, <1>6, <2>1, <3>1 DEF TypeOK, Travel, Phases, context, screens
    <3>3. StackInv' /\ SearchInv' /\ WalkInv' /\ ReplayInv'
      BY <1>1, <1>4, <1>5, <2>1, <3>1 DEF StackInv, SearchInv, WalkInv, ReplayInv,
         Shape, Booting, context
    <3>4. QED
      BY <1>5, <1>8, <3>2, <3>3 DEF IInv
  <2>5. CASE pc' = "revert" /\ UNCHANGED walk
    <3>1. TypeOK'
      BY <1>1, <1>4, <1>6, <2>1, <2>5 DEF TypeOK, Travel, Phases, context, screens, walk
    <3>2. StackInv' /\ SearchInv' /\ WalkInv' /\ ReplayInv'
      BY <1>1, <1>4, <1>5, <2>1, <2>5 DEF StackInv, SearchInv, WalkInv, ReplayInv,
         Shape, Booting, context, walk
    <3>3. QED
      BY <1>5, <1>8, <3>1, <3>2 DEF IInv
  <2>6. QED
    BY <2>3, <2>4, <2>5
<1>11. QED
  BY <1>9, <1>10

LEMMA TravelArrivedStep ==
  ASSUME IInv, TravelArrived
  PROVE  IInv'
<1>1. TypeOK'
  BY DEF IInv, TypeOK, TravelArrived, Disarmed, States, Phases, context, screens, walk
<1>2. StackInv' /\ SearchInv' /\ WalkInv' /\ ReplayInv'
  BY DEF IInv, StackInv, SearchInv, WalkInv, ReplayInv, TravelArrived, Top,
         Booting, context, walk
<1>3. ScopesFormPath' /\ FastpathSound'
  BY DEF IInv, ScopesFormPath, FastpathSound, TravelArrived, context
<1>4. QED
  BY <1>1, <1>2, <1>3 DEF IInv

LEMMA RevertStep ==
  ASSUME IInv, Revert
  PROVE  IInv'
<1>1. /\ TypeOK /\ scopes # <<>> /\ pc = "revert" /\ path_root # Null
      /\ ret # "arrived"
  BY DEF IInv, StackInv, SearchInv, ReplayInv, Booting, Revert
<1>2. \/ pc' = "idle" /\ todo' = <<>> /\ ret' = ret
      \/ pc' = "previous" /\ ret' = "revert" /\ todo' = todo
  BY DEF Revert, StartPrevious
<1>3. todo' \in Seq(Record)
  <2>1. <<>> \in Seq(Record)
    OBVIOUS
  <2>2. QED
    BY <1>1, <1>2, <2>1 DEF TypeOK
<1>4. TypeOK'
  BY <1>1, <1>2, <1>3 DEF TypeOK, Revert, Phases, context, screens
<1>5. StackInv' /\ SearchInv' /\ WalkInv' /\ ReplayInv'
  BY <1>1, <1>2 DEF IInv, StackInv, SearchInv, WalkInv, ReplayInv,
              Revert, Booting, context
<1>6. ScopesFormPath' /\ FastpathSound'
  BY DEF IInv, ScopesFormPath, FastpathSound, Revert, context
<1>7. QED
  BY <1>4, <1>5, <1>6 DEF IInv

\* Saving touches the state file only.
LEMMA SaveStateStep ==
  ASSUME IInv, SaveState
  PROVE  IInv'
<1>1. TypeOK'
  BY EmptyFiles DEF IInv, TypeOK, SaveState, Phases, context, screens, walk
<1>2. StackInv' /\ SearchInv' /\ WalkInv' /\ ReplayInv'
  BY DEF IInv, StackInv, SearchInv, WalkInv, ReplayInv, SaveState, Booting,
         context, walk
<1>3. ScopesFormPath' /\ FastpathSound'
  BY DEF IInv, ScopesFormPath, FastpathSound, SaveState, context
<1>4. QED
  BY <1>1, <1>2, <1>3 DEF IInv

LEMMA DumpStateStep ==
  ASSUME IInv, DumpState
  PROVE  IInv'
<1>0. TypeOK /\ scopes \in Seq(Scope) /\ doc.name \in [Nodes -> ScreenIds]
  BY DocFacts DEF IInv, TypeOK, Description
<1>1. ASSUME NEW i \in 1..Len(scopes)
      PROVE  /\ [id |-> IdOf(scopes[i]), symbols |-> scopes[i].symbols] \in Record
             /\ scopes[i].node \in Nodes \cup {Null}
  <2>1. scopes[i] \in Scope
    BY <1>0
  <2>2. IdOf(scopes[i]) \in ScreenIds \cup {Null}
    BY <1>0, <2>1 DEF IdOf, Scope
  <2>3. QED
    BY <2>1, <2>2 DEF Record, Scope
<1>2. Len(scopes) \in Nat
  BY <1>0
<1>3. Snapshot \in Seq(Record)
  BY <1>1, <1>2 DEF Snapshot
<1>4. NodesOf \in Seq(Nodes \cup {Null})
  <2> DEFINE Targets == Nodes \cup {Null}
  <2>1. \A i \in 1..Len(scopes) : scopes[i].node \in Targets
    BY <1>1
  <2> HIDE DEF Targets
  <2>2. NodesOf \in Seq(Targets)
    BY <1>2, <2>1 DEF NodesOf
  <2>3. QED
    BY <2>2 DEF Targets
<1>5. saved' \in StateFile
  BY <1>0, <1>3, <1>4 DEF DumpState, StateFile, TypeOK
<1>6. TypeOK'
  BY <1>0, <1>5 DEF TypeOK, DumpState, Phases, context, screens, walk
<1>7. StackInv' /\ SearchInv' /\ WalkInv' /\ ReplayInv'
  BY DEF IInv, StackInv, SearchInv, WalkInv, ReplayInv, DumpState, Booting,
         context, walk
<1>8. ScopesFormPath' /\ FastpathSound'
  BY DEF IInv, ScopesFormPath, FastpathSound, DumpState, context
<1>9. QED
  BY <1>6, <1>7, <1>8 DEF IInv

\* A replay starts only with a document whose first SCOPE is the current one.
LEMMA PrepareStateStep ==
  ASSUME IInv, pc = "idle", PrepareState, parser' \in BOOLEAN
  PROVE  IInv'
<1>1. TypeOK /\ scopes # <<>> /\ path_root # Null /\ ret # "arrived"
  BY DEF IInv, StackInv, SearchInv, ReplayInv, Booting
<1>2. saved.scopes \in Seq(Record)
  BY <1>1 DEF TypeOK, StateFile
<1>3. CASE StateFileFits
  <2>1. todo' = saved.scopes /\ pc' = "travel" /\ todo' # <<>>
    BY <1>3 DEF PrepareState, StateFileFits
  <2>2. 1 \in 1..Len(saved.scopes)
    BY <1>2, <1>3 DEF StateFileFits
  <2>3. Top.node # Null
    BY <1>3, <2>2 DEF StateFileFits, IdOf
  <2>4. TypeOK'
    BY <1>1, <1>2, <2>1 DEF PrepareState, TypeOK, Phases, context, screens, walk
  <2>5. StackInv' /\ SearchInv' /\ WalkInv' /\ ReplayInv'
    BY <1>1, <2>1, <2>3 DEF IInv, StackInv, SearchInv, WalkInv, ReplayInv, Top,
       PrepareState, Booting, context, walk
  <2>6. ScopesFormPath' /\ FastpathSound'
    BY DEF IInv, ScopesFormPath, FastpathSound, PrepareState, context
  <2>7. QED
    BY <2>4, <2>5, <2>6 DEF IInv
<1>4. CASE ~StateFileFits
  <2>1. UNCHANGED <<todo, pc, context, state, scopes, screens, walk, saved>>
    BY <1>4 DEF PrepareState
  <2>2. TypeOK'
    BY <1>1, <2>1 DEF TypeOK, context, screens, walk
  <2>3. StackInv' /\ SearchInv' /\ WalkInv' /\ ReplayInv'
    BY <2>1 DEF IInv, StackInv, SearchInv, WalkInv, ReplayInv, Top, context, walk
  <2>4. ScopesFormPath' /\ FastpathSound'
    BY <2>1 DEF IInv, ScopesFormPath, FastpathSound, context
  <2>5. QED
    BY <2>2, <2>3, <2>4 DEF IInv
<1>5. QED
  BY <1>3, <1>4

\* The four entry points of a load.
LEMMA LoadCallStep ==
  ASSUME IInv, LoadState \/ LoadStatePush \/ ParseStateChunk \/ ParseStateChunkFails
  PROVE  IInv'
<1>1. CASE LoadState
  <2>1. parser' \in BOOLEAN
    BY <1>1 DEF LoadState, IInv, TypeOK
  <2>2. QED
    BY <1>1, <2>1, PrepareStateStep DEF LoadState
<1>2. CASE ParseStateChunk
  BY <1>2, PrepareStateStep DEF ParseStateChunk
<1>3. CASE LoadStatePush \/ ParseStateChunkFails
  <2>1. /\ parser' \in BOOLEAN
        /\ UNCHANGED <<context, state, scopes, screens, pc, walk, todo, saved>>
    BY <1>3 DEF LoadStatePush, ParseStateChunkFails
  <2>2. TypeOK'
    BY <2>1 DEF IInv, TypeOK, context, screens, walk
  <2>3. StackInv' /\ SearchInv' /\ WalkInv' /\ ReplayInv'
    BY <2>1 DEF IInv, StackInv, SearchInv, WalkInv, ReplayInv, Top, context, walk
  <2>4. ScopesFormPath' /\ FastpathSound'
    BY <2>1 DEF IInv, ScopesFormPath, FastpathSound, context
  <2>5. QED
    BY <2>2, <2>3, <2>4 DEF IInv
<1>4. QED
  BY <1>1, <1>2, <1>3

\* A field is stored, or the output of an initcommand is.
LEMMA PutStep ==
  ASSUME IInv, NEW table \in Tables, pc = "idle", SymbolsPut(table),
         state' \in States,
         UNCHANGED <<context, parser, screens, pc, walk, todo, saved>>
  PROVE  IInv'
<1>1. TypeOK /\ Shape /\ ScopesFormPath /\ scopes # <<>>
  BY DEF IInv, StackInv, Booting, Shape
<1>2. Shape' /\ ScopesFormPath' /\ scopes' # <<>>
  BY <1>1, PathAfterPut
<1>3. scopes' \in Seq(Scope)
  BY <1>1, SymbolsPutFacts
<1>4. TypeOK'
  BY <1>1, <1>3 DEF TypeOK, context, screens, walk
<1>5. StackInv' /\ SearchInv' /\ WalkInv' /\ ReplayInv'
  BY <1>2 DEF IInv, StackInv, SearchInv, WalkInv, ReplayInv, Shape, Booting,
              context, walk
<1>6. FastpathSound'
  BY DEF IInv, FastpathSound, context
<1>7. QED
  BY <1>2, <1>4, <1>5, <1>6 DEF IInv

LEMMA FieldStoredStep ==
  ASSUME IInv, NEW sym \in Symbols, NEW val \in Values, FieldStored(sym, val)
  PROVE  IInv'
<1>1. [NoSymbols EXCEPT ![sym] = val] \in Tables
  BY DEF NoSymbols, Tables, Unset
<1>2. state' \in States
  BY DEF FieldStored, IInv, TypeOK
<1>3. QED
  BY <1>1, <1>2, PutStep DEF FieldStored

LEMMA InitcommandCompleteStep ==
  ASSUME IInv, NEW table \in Tables, InitcommandComplete(table)
  PROVE  IInv'
<1>1. state' \in States
  BY StateAfterInitType DEF InitcommandComplete, IInv, TypeOK
<1>2. QED
  BY <1>1, PutStep DEF InitcommandComplete

\* A step back begins, from the user or after a failed initcommand.
LEMMA BackCallStep ==
  ASSUME IInv, Previous \/ InitcommandFailed
  PROVE  IInv'
<1>1. /\ pc = "idle" /\ pc' = "previous" /\ ret' = "idle" /\ state' \in States
      /\ UNCHANGED <<context, parser, scopes, screens, cur, next_id, matched,
                     todo, saved>>
  BY DEF Previous, InitcommandFailed, StartPrevious, IInv, TypeOK, States
<1>2. TypeOK'
  BY <1>1 DEF IInv, TypeOK, Phases, context, screens
<1>3. StackInv' /\ SearchInv' /\ WalkInv' /\ ReplayInv'
  BY <1>1 DEF IInv, StackInv, SearchInv, WalkInv, ReplayInv, Booting, context
<1>4. ScopesFormPath' /\ FastpathSound'
  BY <1>1 DEF IInv, ScopesFormPath, FastpathSound, context
<1>5. QED
  BY <1>2, <1>3, <1>4 DEF IInv

\* The end of a session leaves the state file and nothing else.
LEMMA TerminateStep ==
  ASSUME IInv, Terminate
  PROVE  IInv'
<1>1. <<>> \in Seq(Scope) /\ <<>> \in Seq(Record) /\ NoScreen \in Screen
  BY DEF NoScreen, Screen
<1>2. TypeOK'
  <2>1. heap' \in [Objects -> Screen]
    BY <1>1 DEF Terminate
  <2>2. screen_cache' \in [ScreenIds -> Objects \cup {Null}]
    BY DEF Terminate
  <2>3. QED
    BY <1>1, <2>1, <2>2 DEF Terminate, IInv, TypeOK, States, Phases
<1>3. QED
  BY <1>2 DEF Terminate, IInv, StackInv, SearchInv, WalkInv, ReplayInv,
              ScopesFormPath, FastpathSound, Booting

-----------------------------------------------------------------------------
(* The theorems.                                                           *)

\* IInv is inductive.
LEMMA NextIInv == IInv /\ [Next]_vars => IInv'
<1> SUFFICES ASSUME IInv, [Next]_vars PROVE IInv'
  OBVIOUS
<1>1. ASSUME NEW d \in Descriptions, NEW f \in ScreenIds \cup {Null}, ContextInit(d, f)
      PROVE  IInv'
  BY <1>1, ContextInitStep
<1>2. CASE LibraryStep
  BY <1>2, FastpathVisitStep, FastpathClimbStep, FirstScreenStep,
     NoFirstScreenStep, ForwardArriveStep, ForwardBranchStep, PopHiddenStep,
     PopVisibleStep, DumpStateStep, TravelStep, TravelArrivedStep, RevertStep
     DEF LibraryStep
<1>3. ASSUME NEW sym \in Symbols, NEW val \in Values, FieldStored(sym, val)
      PROVE  IInv'
  BY <1>3, FieldStoredStep
<1>4. ASSUME NEW table \in Tables, InitcommandComplete(table)
      PROVE  IInv'
  BY <1>4, InitcommandCompleteStep
<1>5. CASE FrontEndCall
  BY <1>3, <1>4, <1>5, ForwardCallStep, BackCallStep, SaveStateStep, LoadCallStep
     DEF FrontEndCall
<1>6. CASE Terminate
  BY <1>6, TerminateStep
<1>7. CASE UNCHANGED vars
  <2>1. TypeOK'
    BY <1>7 DEF IInv, TypeOK, vars
  <2>2. StackInv' /\ SearchInv' /\ WalkInv' /\ ReplayInv'
    BY <1>7 DEF IInv, StackInv, SearchInv, WalkInv, ReplayInv, Top, vars
  <2>3. ScopesFormPath' /\ FastpathSound'
    BY <1>7 DEF IInv, ScopesFormPath, FastpathSound, vars
  <2>4. QED
    BY <2>1, <2>2, <2>3 DEF IInv
<1>8. QED
  BY <1>1, <1>2, <1>5, <1>6, <1>7 DEF Next

\* Every reachable state satisfies the inductive invariant.
THEOREM Invariance == Spec => []IInv
BY InitIInv, NextIInv, PTL DEF Spec

\* Every variable of a context keeps its type, whatever the description.
THEOREM TypeCorrect == Spec => []TypeOK
<1>1. IInv => TypeOK
  BY DEF IInv
<1>2. QED
  BY <1>1, Invariance, PTL

\* The scope stack is always a path of the description: no sequence of moves,
\* steps back, saves and loads puts a screen under one it does not follow.
THEOREM StackIsPath == Spec => []ScopesFormPath
<1>1. IInv => ScopesFormPath
  BY DEF IInv
<1>2. QED
  BY <1>1, Invariance, PTL

\* A fastpath never enters a part of the description that is closed to it.
THEOREM FastpathIsSound == Spec => []FastpathSound
<1>1. IInv => FastpathSound
  BY DEF IInv
<1>2. QED
  BY <1>1, Invariance, PTL

-----------------------------------------------------------------------------
(* Symbols below the current scope.                                        *)

KeepsLower == \A i \in 1..Len(scopes) :
                 i < Len(scopes) /\ i <= Len(scopes') =>
                     scopes'[i].symbols = scopes[i].symbols

\* A push, a pop or a put leaves the tables below the current scope alone.
LEMMA ChangeKeepsLower ==
  ASSUME TypeOK,
         \/ \E node \in Nodes \cup {Null} : PushAndPrepare(node)
         \/ scopes # <<>> /\ scopes' = Popped
         \/ scopes # <<>> /\ \E table \in Tables : SymbolsPut(table)
         \/ scopes' = scopes
         \/ scopes = <<>>
         \/ scopes' = <<>>
  PROVE  KeepsLower
<1>1. ASSUME NEW node \in Nodes \cup {Null}, PushAndPrepare(node) PROVE KeepsLower
  BY <1>1, PushFacts DEF KeepsLower
<1>2. CASE scopes # <<>> /\ scopes' = Popped
  <2>1. /\ Len(Popped) <= Len(scopes) /\ Len(scopes) \in Nat /\ Len(Popped) \in Nat
        /\ \A i \in 1..Len(Popped) : Popped[i] = scopes[i]
    BY <1>2, PoppedFacts DEF TypeOK
  <2>2. QED
    BY <1>2, <2>1 DEF KeepsLower
<1>3. ASSUME scopes # <<>>, NEW table \in Tables, SymbolsPut(table) PROVE KeepsLower
  BY <1>3, SymbolsPutFacts DEF KeepsLower
<1>4. CASE scopes' = scopes
  BY <1>4 DEF KeepsLower
<1>5. CASE scopes = <<>> \/ scopes' = <<>>
  <2>1. Len(scopes) \in Nat
    BY DEF TypeOK
  <2>2. scopes = <<>> => Len(scopes) = 0
    OBVIOUS
  <2>3. scopes' = <<>> => Len(scopes') = 0
    OBVIOUS
  <2>4. QED
    BY <1>5, <2>1, <2>2, <2>3 DEF KeepsLower
<1>6. QED
  BY <1>1, <1>2, <1>3, <1>4, <1>5

\* What a step can do to the scopes.
LEMMA StepChangesScopes ==
  ASSUME IInv, Next
  PROVE  \/ \E node \in Nodes \cup {Null} : PushAndPrepare(node)
         \/ scopes # <<>> /\ scopes' = Popped
         \/ scopes # <<>> /\ \E table \in Tables : SymbolsPut(table)
         \/ scopes' = scopes
         \/ scopes = <<>>
         \/ scopes' = <<>>
<1>1. ASSUME NEW d \in Descriptions, NEW f \in ScreenIds \cup {Null}, ContextInit(d, f)
      PROVE  scopes' = scopes
  BY <1>1 DEF ContextInit
<1>2. CASE LibraryStep
  <2>1. CASE FirstScreen \/ NoFirstScreen
    BY <2>1 DEF FirstScreen, NoFirstScreen, IInv, StackInv, Booting
  <2>2. CASE ForwardArrive
    BY <2>2 DEF ForwardArrive, ForwardReturn, IInv, TypeOK
  <2>3. CASE PopHidden \/ PopVisible
    BY <2>3 DEF PopHidden, PopVisible, IInv, StackInv, Booting
  <2>4. CASE Travel
    <3>1. scopes # <<>> /\ todo # <<>> /\ todo \in Seq(Record)
      BY <2>4 DEF Travel, IInv, TypeOK, StackInv, ReplayInv, Booting
    <3>2. Head(todo) \in Record
      BY <3>1
    <3>3. Head(todo).symbols \in Tables
      BY <3>2 DEF Record
    <3>4. SymbolsPut(Head(todo).symbols)
      BY <2>4 DEF Travel
    <3>5. QED
      BY <3>1, <3>3, <3>4
  <2>5. CASE \/ FastpathVisit \/ FastpathClimb \/ ForwardBranch
             \/ DumpState \/ TravelArrived \/ Revert
    BY <2>5 DEF FastpathVisit, FastpathClimb, ForwardBranch, DumpState,
                TravelArrived, Revert
  <2>6. QED
    BY <1>2, <2>1, <2>2, <2>3, <2>4, <2>5 DEF LibraryStep
<1>3. CASE FrontEndCall
  <2>1. pc = "idle" => scopes # <<>>
    BY DEF IInv, StackInv, Booting
  <2>2. ASSUME NEW sym \in Symbols, NEW val \in Values, FieldStored(sym, val)
        PROVE  scopes # <<>> /\ \E table \in Tables : SymbolsPut(table)
    <3>1. [NoSymbols EXCEPT ![sym] = val] \in Tables
      BY DEF NoSymbols, Tables, Unset
    <3>2. QED
      BY <2>1, <2>2, <3>1 DEF FieldStored
  <2>3. ASSUME NEW table \in Tables, InitcommandComplete(table)
        PROVE  scopes # <<>> /\ SymbolsPut(table)
    BY <2>1, <2>3 DEF InitcommandComplete
  <2>4. CASE \/ \E id \in ScreenIds : MenuNext(id)
             \/ DialogNext \/ HiddenNext \/ InitcommandFailed \/ Previous
             \/ SaveState \/ LoadState \/ LoadStatePush
             \/ ParseStateChunk \/ ParseStateChunkFails
    BY <2>4 DEF MenuNext, DialogNext, HiddenNext, InitcommandFailed, Previous,
       SaveState, LoadState, LoadStatePush, ParseStateChunk,
       ParseStateChunkFails, PrepareState
  <2>5. QED
    BY <1>3, <2>2, <2>3, <2>4 DEF FrontEndCall
<1>4. CASE Terminate
  BY <1>4 DEF Terminate
<1>5. QED
  BY <1>1, <1>2, <1>3, <1>4 DEF Next

\* Neither a move, nor a step back, nor a replay ever changes what the scopes
\* below the current one hold.
THEOREM LowerScopesKept == Spec => LowerScopesKeepSymbols
<1>1. ASSUME IInv, [Next]_vars PROVE [KeepsLower]_vars
  <2>1. CASE Next
    BY <1>1, <2>1, StepChangesScopes, ChangeKeepsLower DEF IInv
  <2>2. CASE UNCHANGED vars
    BY <2>2
  <2>3. QED
    BY <1>1, <2>1, <2>2
<1>2. QED
  BY <1>1, Invariance, PTL DEF Spec, LowerScopesKeepSymbols, KeepsLower

-----------------------------------------------------------------------------
(***************************************************************************)
(* What the screens show.  librasta files a screen under its TEXT and asks *)
(* for it by ID: if the TEXT of a screen is never the ID of another one,   *)
(* this is harmless, and every scope shows the screen its element names.   *)
(* rasta_screen_init runs once per use of a screen and works on two things *)
(* that outlive the use: the flag in ctxt->state, which it toggles, and    *)
(* the structure in the cache, whose menu it rebuilds.  The flag never     *)
(* stays up for the wrong screen, never starts from the wrong side, and    *)
(* the menu is always the one of the element the session is at.            *)
(***************************************************************************)

-----------------------------------------------------------------------------
(* The screen cache.                                                       *)

\* The inductive invariant: what the cache gives for an ID has that ID, and
\* so has the screen of every scope, a refused fastpath's NONE screen aside.
CacheInv ==
    /\ \A s \in ScreenIds :
          screen_cache[s] # Null => heap[screen_cache[s]].id = s
    /\ \A i \in 1..Len(scopes) :
          scopes[i].screen # Null =>
              heap[scopes[i].screen].id \in {Null, IdOf(scopes[i])}

LEMMA InitializedKeepsId ==
  ASSUME NEW screen \in Screen, NEW node
  PROVE  Initialized(screen, node).id = screen.id
  BY DEF Initialized, Screen

\* A step that changes neither stack, heap nor cache.
LEMMA StutterKeepsCache ==
  ASSUME CacheInv, UNCHANGED <<scopes, screen_cache, heap>>,
         doc' = doc \/ scopes = <<>>
  PROVE  CacheInv'
<1>1. CASE doc' = doc
  BY <1>1 DEF CacheInv, IdOf
<1>2. CASE scopes = <<>>
  BY <1>2 DEF CacheInv
<1>3. QED
  BY <1>1, <1>2

\* Loading a screen, from the cache or not, and pushing its scope.
LEMMA PushKeepsCache ==
  ASSUME TypeOK, CacheInv, TitlesApart(doc), doc' = doc,
         NEW node \in Nodes \cup {Null}, PushAndPrepare(node)
  PROVE  CacheInv'
<1>0. scopes \in Seq(Scope)
  BY DEF TypeOK
<1>1. CASE node = Null
  <2>1. /\ scopes' = Append(scopes, [node |-> Null, screen |-> Null,
                                     symbols |-> NoSymbols])
        /\ UNCHANGED <<screen_cache, heap>>
    BY <1>1 DEF PushAndPrepare
  <2>2. \A i \in 1..Len(scopes') :
           (i \in 1..Len(scopes) /\ scopes'[i] = scopes[i]) \/ scopes'[i].screen = Null
    BY <1>0, <2>1
  <2>3. QED
    BY <2>1, <2>2 DEF CacheInv, IdOf
<1>2. CASE node # Null
  <2> DEFINE id == doc.name[node]
             o  == Loaded(id)
  <2>1. id \in ScreenIds
    BY <1>2, DocFacts DEF Description
  <2>2. /\ ScreenLoad(id, node)
        /\ scopes' = Append(scopes, [node |-> node, screen |-> o,
                                     symbols |-> NoSymbols])
    BY <1>2 DEF PushAndPrepare
  <2>3. o \in Objects
    BY <2>1, <2>2 DEF ScreenLoad, Loaded, Cached, Fresh, Free, TypeOK
  <2>4. heap'[o].id = id /\ \A p \in Objects \ {o} : heap'[p] = heap[p]
    <3>1. [id |-> id, items |-> {}] \in Screen /\ heap[o] \in Screen
      BY <2>1, <2>3 DEF Screen, TypeOK
    <3>2. Cached(id) => heap[o].id = id
      BY <2>1 DEF CacheInv, Cached, Loaded
    <3>3. QED
      BY <2>2, <2>3, <3>1, <3>2, InitializedKeepsId DEF ScreenLoad, TypeOK
  <2>5. ~Cached(id) => o \in Free
    BY <2>2 DEF ScreenLoad, Loaded, Fresh
  <2>6. \A s \in ScreenIds : screen_cache[s] \in Objects =>
           heap'[screen_cache[s]].id = heap[screen_cache[s]].id
    <3>1. Cached(id) => heap[o].id = id
      BY <2>1 DEF CacheInv, Cached, Loaded
    <3>2. ~Cached(id) => \A s \in ScreenIds : screen_cache[s] # o
      BY <2>5 DEF Free, Refers
    <3>3. QED
      BY <2>4, <3>1, <3>2
  <2>7. \A i \in 1..Len(scopes) : scopes[i].screen \in Objects =>
           heap'[scopes[i].screen].id = heap[scopes[i].screen].id
    <3>1. Cached(id) => heap[o].id = id
      BY <2>1 DEF CacheInv, Cached, Loaded
    <3>2. ~Cached(id) => \A i \in 1..Len(scopes) : scopes[i].screen # o
      BY <2>5 DEF Free, Refers
    <3>3. QED
      BY <2>4, <3>1, <3>2
  <2>8. \A s \in ScreenIds : screen_cache'[s] # Null => heap'[screen_cache'[s]].id = s
    <3>1. CASE Cached(id) \/ doc.title[id] \notin ScreenIds
      <4>1. screen_cache' = screen_cache
        BY <2>2, <3>1 DEF ScreenLoad
      <4>2. QED
        BY <2>6, <4>1 DEF CacheInv, TypeOK
    <3>2. CASE ~(Cached(id) \/ doc.title[id] \notin ScreenIds)
      <4>1. doc.title[id] = id
        BY <2>1, <3>2 DEF TitlesApart
      <4>2. screen_cache' = [screen_cache EXCEPT ![id] = o]
        BY <2>2, <3>2, <4>1 DEF ScreenLoad
      <4>3. QED
        BY <2>4, <2>6, <4>2 DEF CacheInv, TypeOK
    <3>3. QED
      BY <3>1, <3>2
  <2>9. \A i \in 1..Len(scopes') : scopes'[i].screen # Null =>
           heap'[scopes'[i].screen].id \in {Null, IdOf(scopes'[i])}
    <3>1. \A i \in 1..Len(scopes') :
             \/ i \in 1..Len(scopes) /\ scopes'[i] = scopes[i]
             \/ scopes'[i].screen = o /\ scopes'[i].node = node
      BY <1>0, <2>2
    <3>2. \A i \in 1..Len(scopes) : scopes[i] \in Scope
      BY <1>0
    <3>3. QED
      BY <1>2, <2>4, <2>7, <3>1, <3>2 DEF CacheInv, IdOf, Scope
  <2>10. QED
    BY <2>8, <2>9 DEF CacheInv, IdOf
<1>3. QED
  BY <1>1, <1>2

\* A refused fastpath takes a structure that nothing refers to.
LEMMA NoFirstScreenKeepsCache ==
  ASSUME TypeOK, CacheInv, NoFirstScreen
  PROVE  CacheInv'
<1>1. Fresh \in Free
  BY DEF NoFirstScreen, Fresh
<1>2. heap'[Fresh] = NoScreen /\ \A p \in Objects \ {Fresh} : heap'[p] = heap[p]
  BY <1>1 DEF NoFirstScreen, Free, TypeOK
<1>3. \A s \in ScreenIds : screen_cache[s] # Fresh
  BY <1>1 DEF Free, Refers
<1>4. scopes' = <<[node |-> path_root, screen |-> Fresh, symbols |-> NoSymbols]>>
      /\ screen_cache' = screen_cache
  BY DEF NoFirstScreen
<1>5. \A i \in 1..Len(scopes') : heap'[scopes'[i].screen].id = Null
  BY <1>2, <1>4 DEF NoScreen
<1>6. QED
  BY <1>2, <1>3, <1>4, <1>5 DEF CacheInv, TypeOK, IdOf

\* A structure that a remaining scope or the cache refers to survives a pop.
LEMMA PopKeepsCache ==
  ASSUME TypeOK, CacheInv, scopes # <<>>, doc' = doc, scopes' = Popped,
         screen_cache' = screen_cache,
         \A o \in Objects : o \in Refers(Popped) => heap'[o].id = heap[o].id
  PROVE  CacheInv'
<1>1. /\ Popped \in Seq(Scope) /\ Len(Popped) \in Nat /\ Len(scopes) \in Nat
      /\ Len(Popped) <= Len(scopes)
      /\ \A i \in 1..Len(Popped) : Popped[i] = scopes[i] /\ Popped[i] \in Scope
  BY PoppedFacts DEF TypeOK
<1>2. \A s \in ScreenIds : screen_cache[s] # Null =>
         screen_cache[s] \in Objects /\ screen_cache[s] \in Refers(Popped)
  BY DEF TypeOK, Refers
<1>3. \A i \in 1..Len(Popped) : Popped[i].screen # Null =>
         Popped[i].screen \in Objects /\ Popped[i].screen \in Refers(Popped)
  BY <1>1 DEF Refers, Scope
<1>4. QED
  BY <1>1, <1>2, <1>3 DEF CacheInv, IdOf

LEMMA PopStepKeepsCache ==
  ASSUME IInv, CacheInv, PopHidden \/ PopVisible
  PROVE  CacheInv'
<1>1. TypeOK /\ scopes # <<>> /\ doc' = doc /\ scopes' = Popped
      /\ screen_cache' = screen_cache
  BY DEF PopHidden, PopVisible, IInv, StackInv, Booting, context
<1>2. \A o \in Objects : o \in Refers(Popped) => heap'[o].id = heap[o].id
  <2>1. \A o \in Objects : o \in Refers(Popped) => Reachable(Popped)[o] = heap[o]
    BY DEF Reachable
  <2>2. CASE PopHidden
    BY <2>1, <2>2 DEF PopHidden
  <2>3. CASE PopVisible
    <3> DEFINE scope == Popped[Len(Popped)]
    <3>1. heap' = [Reachable(Popped) EXCEPT ![scope.screen] = Initialized(@, scope.node)]
      BY <2>3 DEF PopVisible
    <3>2. Reachable(Popped) \in [Objects -> Screen]
      BY <1>1, ReachableType
    <3>3. \A o \in Objects : heap'[o].id = Reachable(Popped)[o].id
      BY <3>1, <3>2, InitializedKeepsId
    <3>4. QED
      BY <2>1, <3>3
  <2>4. QED
    BY <2>2, <2>3
<1>3. QED
  BY <1>1, <1>2, PopKeepsCache

\* Symbols do not touch screens.
LEMMA PutKeepsCache ==
  ASSUME TypeOK, CacheInv, scopes # <<>>, UNCHANGED <<doc, screen_cache, heap>>,
         NEW table \in Tables, SymbolsPut(table)
  PROVE  CacheInv'
<1>1. /\ Len(scopes') = Len(scopes)
      /\ \A i \in 1..Len(scopes) : /\ scopes'[i].node = scopes[i].node
                                   /\ scopes'[i].screen = scopes[i].screen
  BY SymbolsPutFacts
<1>2. QED
  BY <1>1 DEF CacheInv, IdOf

LEMMA LibraryKeepsCache ==
  ASSUME IInv, CacheInv, TitlesApart(doc), LibraryStep
  PROVE  CacheInv'
<1>0. TypeOK
  BY DEF IInv
<1>1. CASE FirstScreen
  BY <1>0, <1>1, PushKeepsCache DEF FirstScreen, context, TypeOK
<1>2. CASE NoFirstScreen
  BY <1>0, <1>2, NoFirstScreenKeepsCache
<1>3. CASE ForwardArrive
  BY <1>0, <1>3, PushKeepsCache DEF ForwardArrive, ForwardReturn, context, TypeOK
<1>4. CASE PopHidden \/ PopVisible
  BY <1>4, PopStepKeepsCache
<1>5. CASE Travel
  <2>1. scopes # <<>> /\ todo # <<>> /\ todo \in Seq(Record)
    BY <1>5 DEF Travel, IInv, TypeOK, StackInv, ReplayInv, Booting
  <2>2. Head(todo).symbols \in Tables
    <3>1. Head(todo) \in Record
      BY <2>1
    <3>2. QED
      BY <3>1 DEF Record
  <2>3. QED
    BY <1>0, <1>5, <2>1, <2>2, PutKeepsCache DEF Travel, context, screens
<1>6. CASE \/ FastpathVisit \/ FastpathClimb \/ ForwardBranch
           \/ DumpState \/ TravelArrived \/ Revert
  BY <1>6, StutterKeepsCache
     DEF FastpathVisit, FastpathClimb, ForwardBranch, DumpState, TravelArrived,
         Revert, screens, context
<1>7. QED
  BY <1>1, <1>2, <1>3, <1>4, <1>5, <1>6 DEF LibraryStep

LEMMA FrontEndKeepsCache ==
  ASSUME IInv, CacheInv, FrontEndCall
  PROVE  CacheInv'
<1>0. TypeOK /\ (pc = "idle" => scopes # <<>>)
  BY DEF IInv, StackInv, Booting
<1>1. ASSUME NEW sym \in Symbols, NEW val \in Values, FieldStored(sym, val)
      PROVE  CacheInv'
  <2>1. [NoSymbols EXCEPT ![sym] = val] \in Tables
    BY DEF NoSymbols, Tables, Unset
  <2>2. QED
    BY <1>0, <1>1, <2>1, PutKeepsCache DEF FieldStored, context, screens
<1>2. ASSUME NEW table \in Tables, InitcommandComplete(table)
      PROVE  CacheInv'
  BY <1>0, <1>2, PutKeepsCache DEF InitcommandComplete, context, screens
<1>3. CASE \/ \E id \in ScreenIds : MenuNext(id)
           \/ DialogNext \/ HiddenNext \/ InitcommandFailed \/ Previous
           \/ SaveState \/ LoadState \/ LoadStatePush
           \/ ParseStateChunk \/ ParseStateChunkFails
  BY <1>3, StutterKeepsCache
     DEF MenuNext, DialogNext, HiddenNext, InitcommandFailed, Previous,
         SaveState, LoadState, LoadStatePush, ParseStateChunk,
         ParseStateChunkFails, PrepareState, screens, context
<1>4. QED
  BY <1>1, <1>2, <1>3 DEF FrontEndCall

LEMMA NextCacheInv ==
  ASSUME \A d \in Descriptions : TitlesApart(d)
  PROVE  IInv /\ CacheInv /\ [Next]_vars => CacheInv'
<1> SUFFICES ASSUME IInv, CacheInv, [Next]_vars PROVE CacheInv'
  OBVIOUS
<1>1. ASSUME NEW d \in Descriptions, NEW f \in ScreenIds \cup {Null}, ContextInit(d, f)
      PROVE  CacheInv'
  <2>1. scopes = <<>>
    BY <1>1 DEF ContextInit, IInv, StackInv, Booting
  <2>2. QED
    BY <1>1, <2>1, StutterKeepsCache DEF ContextInit, screens
<1>2. CASE LibraryStep
  BY <1>2, LibraryKeepsCache DEF IInv, TypeOK
<1>3. CASE FrontEndCall
  BY <1>3, FrontEndKeepsCache
<1>4. CASE Terminate
  BY <1>4 DEF Terminate, CacheInv
<1>5. CASE UNCHANGED vars
  BY <1>5, StutterKeepsCache DEF vars
<1>6. QED
  BY <1>1, <1>2, <1>3, <1>4, <1>5 DEF Next

\* Every scope shows the screen its element names, if no screen's TEXT is
\* another one's ID.  The hypothesis is needed: the titles run violates it.
THEOREM ScreensAreNamed ==
  ASSUME \A d \in Descriptions : TitlesApart(d)
  PROVE  Spec => []ScopeShowsNamedScreen
<1>1. Init => CacheInv
  BY DEF Init, CacheInv
<1>2. IInv /\ CacheInv /\ [Next]_vars => CacheInv'
  BY NextCacheInv
<1>3. CacheInv => ScopeShowsNamedScreen
  BY DEF CacheInv, ScopeShowsNamedScreen
<1>4. QED
  BY <1>1, <1>2, <1>3, Invariance, PTL DEF Spec

-----------------------------------------------------------------------------
(* The flag of an initcommand and the menu.                                *)

\* The current screen has an initcommand.
AsksHere == /\ TopType \in {"DIALOG", "HIDDEN"}
            /\ doc.init[heap[Top.screen].id]

\* The menu of the current screen, if it is one, is the element's own.
MenuFits ==
    (scopes # <<>> /\ TopType = "MENU") => heap[Top.screen].items = ChoicesOf(Top.node)

Settled == {"idle", "dump", "travel"}

\* Where the flag of an initcommand that is due may be up: over the screen
\* that asks for it, on the way to the next screen of a replay, which lowers
\* it, and on the way back, which lowers it too.
ToggleInv ==
    /\ pc # "off" => state # "UNINITIALIZED"
    /\ pc \in {"fastpath", "climb", "found"} => state = "INITIALIZED"
    /\ pc = "forward" => ret \in {"idle", "arrived"}
    /\ pc = "previous" => ret \in {"idle", "revert"}
    /\ state = "INITCOMMAND" =>
          \/ pc \in Settled /\ AsksHere
          \/ pc = "forward" /\ ret = "arrived"
          \/ pc \in {"arrived", "previous"}

\* The menu fits whenever no walk is under way.
MenuInv == pc \in (Settled \cup {"arrived", "revert"}) => MenuFits

-----------------------------------------------------------------------------
(* Lemmas about the operators.                                             *)

\* A screen with an initcommand is a dialog or hidden.
LEMMA OnlyFormsAsk ==
  ASSUME TypeOK, NEW s \in ScreenIds, doc.init[s]
  PROVE  doc.type[s] \in {"DIALOG", "HIDDEN"}
<1>1. doc.type[s] \in ScreenTypes
  BY DocFacts DEF Description
<1>2. QED
  BY <1>1, DocFacts DEF ScreenGrammar, ScreenTypes

\* The toggle comes on only for a screen with an initcommand, and never for
\* one that it was already on for.
LEMMA ToggleFacts ==
  ASSUME TypeOK, NEW s \in States, s # "UNINITIALIZED", NEW id \in ScreenIds \cup {Null}
  PROVE  /\ StateAfterInit(s, id) # "UNINITIALIZED"
         /\ s # "INITCOMMAND" /\ StateAfterInit(s, id) = "INITCOMMAND"
               => id # Null /\ doc.init[id]
         /\ s = "INITCOMMAND" /\ id # Null /\ doc.init[id]
               => StateAfterInit(s, id) = "SCREEN"
         /\ s # "INITCOMMAND" /\ id # Null /\ doc.init[id]
               => StateAfterInit(s, id) = "INITCOMMAND"
  BY NullAssumption DEF StateAfterInit, States

\* What a menu's structure holds after rasta_screen_init.
LEMMA RebuiltMenu ==
  ASSUME NEW screen \in Screen, NEW node, screen.id # Null,
         doc.type[screen.id] = "MENU"
  PROVE  Initialized(screen, node).items = ChoicesOf(node)
  BY DEF Initialized, Screen

\* A new screen: it asks for its own initcommand, or for none, and its menu
\* is its own.
LEMMA PushedScreen ==
  ASSUME TypeOK, doc' = doc, state # "UNINITIALIZED",
         NEW node \in Nodes \cup {Null}, PushAndPrepare(node)
  PROVE  /\ state' # "UNINITIALIZED"
         /\ (state # "INITCOMMAND" /\ state' = "INITCOMMAND") => AsksHere'
         /\ MenuFits'
<1>0. /\ scopes \in Seq(Scope) /\ state \in States
      /\ doc \in Description
  BY DocFacts DEF TypeOK
<1>1. CASE node = Null
  <2>1. /\ scopes' = Append(scopes, [node |-> Null, screen |-> Null,
                                     symbols |-> NoSymbols])
        /\ state' = state
    BY <1>1 DEF PushAndPrepare
  <2>2. Top'.screen = Null
    BY <1>0, <2>1 DEF Top
  <2>3. TopType' = "NULL"
    BY <2>2 DEF TopType, TypeOf
  <2>4. QED
    BY <2>1, <2>3 DEF MenuFits
<1>2. CASE node # Null
  <2> DEFINE id  == doc.name[node]
             o   == Loaded(id)
             scr == IF Cached(id) THEN heap[o] ELSE [id |-> id, items |-> {}]
  <2>1. id \in ScreenIds
    BY <1>0, <1>2 DEF Description
  <2>2. /\ ScreenLoad(id, node)
        /\ scopes' = Append(scopes, [node |-> node, screen |-> o,
                                     symbols |-> NoSymbols])
    BY <1>2 DEF PushAndPrepare
  <2>3. o \in Objects /\ o # Null
    BY <2>1, <2>2, ObjectsAssumption
       DEF ScreenLoad, Loaded, Cached, Fresh, Free, TypeOK
  <2>4. scr \in Screen
    BY <2>1, <2>3 DEF Screen, TypeOK
  <2>5. /\ heap' = [heap EXCEPT ![o] = Initialized(scr, node)]
        /\ state' = StateAfterInit(state, scr.id)
    BY <2>2 DEF ScreenLoad
  <2>6. heap'[o] = Initialized(scr, node)
    BY <2>3, <2>5 DEF TypeOK
  <2>7. heap'[o].id = scr.id
    BY <2>4, <2>6, InitializedKeepsId
  <2>8. Top'.screen = o /\ Top'.node = node
    BY <1>0, <2>2 DEF Top
  <2>9. TopType' = IF scr.id = Null THEN "NONE" ELSE doc.type[scr.id]
    BY <2>3, <2>7, <2>8 DEF TopType, TypeOf
  <2>10. scr.id \in ScreenIds \cup {Null}
    BY <2>4 DEF Screen
  <2> HIDE DEF scr, o
  <2>11. state' # "UNINITIALIZED"
    BY <1>0, <2>5, <2>10, ToggleFacts
  <2>12. ASSUME state # "INITCOMMAND", state' = "INITCOMMAND" PROVE AsksHere'
    <3>1. scr.id # Null /\ doc.init[scr.id]
      BY <1>0, <2>5, <2>10, <2>12, ToggleFacts
    <3>2. doc.type[scr.id] \in {"DIALOG", "HIDDEN"}
      BY <2>10, <3>1, OnlyFormsAsk
    <3>3. QED
      BY <2>7, <2>8, <2>9, <3>1, <3>2 DEF AsksHere
  <2>13. MenuFits'
    <3>1. SUFFICES ASSUME TopType' = "MENU"
                   PROVE  heap'[Top'.screen].items = ChoicesOf(Top.node)'
      BY DEF MenuFits
    <3>2. scr.id # Null /\ doc.type[scr.id] = "MENU"
      BY <2>9, <3>1
    <3>3. heap'[o].items = ChoicesOf(node)
      BY <2>4, <2>6, <3>2, RebuiltMenu
    <3>4. ChoicesOf(Top.node)' = ChoicesOf(node)
      BY <2>8 DEF ChoicesOf
    <3>5. QED
      BY <2>8, <3>3, <3>4
  <2>14. QED
    BY <2>11, <2>12, <2>13
<1>3. QED
  BY <1>1, <1>2

\* A step that leaves the current screen alone keeps what is said of it.
LEMMA SameScreen ==
  ASSUME doc' = doc, heap' = heap, Len(scopes') = Len(scopes),
         scopes' # <<>> => scopes # <<>>,
         Top'.node = Top.node, Top'.screen = Top.screen
  PROVE  /\ AsksHere => AsksHere'
         /\ MenuFits => MenuFits'
<1>1. TopType' = TopType
  BY DEF TopType, TypeOf
<1>2. ChoicesOf(Top.node)' = ChoicesOf(Top.node)
  BY DEF ChoicesOf
<1>3. QED
  BY <1>1, <1>2 DEF AsksHere, MenuFits

\* Nothing of the stack changes.
LEMMA SameStack ==
  ASSUME UNCHANGED <<doc, heap, scopes>>
  PROVE  /\ AsksHere => AsksHere'
         /\ MenuFits => MenuFits'
         /\ TopType' = TopType
  BY DEF AsksHere, MenuFits, TopType, TypeOf, Top, ChoicesOf

\* Symbols do not touch the screen.
LEMMA PutSameScreen ==
  ASSUME TypeOK, scopes # <<>>, doc' = doc, heap' = heap,
         NEW table \in Tables, SymbolsPut(table)
  PROVE  /\ AsksHere => AsksHere'
         /\ MenuFits => MenuFits'
<1>1. /\ Len(scopes') = Len(scopes) /\ Len(scopes) \in Nat /\ Len(scopes) > 0
      /\ scopes'[Len(scopes)].node = scopes[Len(scopes)].node
      /\ scopes'[Len(scopes)].screen = scopes[Len(scopes)].screen
  <2>1. Len(scopes) \in Nat /\ Len(scopes) > 0
    BY DEF TypeOK
  <2>2. QED
    BY <2>1, SymbolsPutFacts
<1>2. QED
  BY <1>1, SameScreen DEF Top

-----------------------------------------------------------------------------
(* The actions of the library.                                             *)

LEMMA BootKeepsToggle ==
  ASSUME IInv, ToggleInv,
         \/ \E d \in Descriptions, f \in ScreenIds \cup {Null} : ContextInit(d, f)
         \/ FastpathVisit \/ FastpathClimb
  PROVE  ToggleInv' /\ MenuInv'
<1>1. /\ state' = "INITIALIZED"
      /\ pc' \in {"fastpath", "climb", "found"}
  BY DEF ContextInit, FastpathVisit, FastpathClimb, ToggleInv
<1>2. QED
  BY <1>1 DEF ToggleInv, MenuInv, Settled

LEMMA FirstScreenKeepsToggle ==
  ASSUME IInv, ToggleInv, FirstScreen \/ NoFirstScreen
  PROVE  ToggleInv' /\ MenuInv'
<1>1. TypeOK /\ doc' = doc /\ state = "INITIALIZED" /\ pc' = "idle"
  BY DEF IInv, ToggleInv, FirstScreen, NoFirstScreen, context
<1>2. CASE FirstScreen
  <2>1. path_root \in Nodes \cup {Null} /\ PushAndPrepare(path_root)
    BY <1>1, <1>2 DEF FirstScreen, TypeOK
  <2>2. state' # "UNINITIALIZED" /\ (state' = "INITCOMMAND" => AsksHere') /\ MenuFits'
    BY <1>1, <2>1, PushedScreen
  <2>3. QED
    BY <1>1, <2>2 DEF ToggleInv, MenuInv, Settled
<1>3. CASE NoFirstScreen
  <2>1. Fresh \in Objects /\ Fresh # Null
    BY <1>3, ObjectsAssumption DEF NoFirstScreen, Fresh, Free
  <2>2. /\ state' = state
        /\ scopes' = <<[node |-> path_root, screen |-> Fresh, symbols |-> NoSymbols]>>
        /\ heap' = [heap EXCEPT ![Fresh] = NoScreen]
    BY <1>3 DEF NoFirstScreen
  <2>3. Top'.screen = Fresh /\ heap'[Fresh].id = Null
    BY <1>1, <2>1, <2>2 DEF Top, NoScreen, TypeOK
  <2>4. TopType' = "NONE"
    BY <2>1, <2>3 DEF TopType, TypeOf
  <2>5. QED
    BY <1>1, <2>2, <2>4 DEF ToggleInv, MenuInv, MenuFits, Settled
<1>4. QED
  BY <1>2, <1>3

LEMMA ForwardKeepsToggle ==
  ASSUME IInv, ToggleInv, ForwardArrive
  PROVE  ToggleInv' /\ MenuInv'
<1>1. /\ TypeOK /\ doc' = doc /\ pc = "forward" /\ pc' = ret
      /\ ret \in {"idle", "arrived"} /\ state # "UNINITIALIZED"
      /\ cur \in Nodes \cup {Null} /\ PushAndPrepare(cur)
  BY DEF IInv, ToggleInv, ForwardArrive, ForwardReturn, TypeOK, context
<1>2. CASE state # "INITCOMMAND"
  <2>1. state' # "UNINITIALIZED" /\ (state' = "INITCOMMAND" => AsksHere') /\ MenuFits'
    BY <1>1, <1>2, PushedScreen
  <2>2. QED
    BY <1>1, <2>1 DEF ToggleInv, MenuInv, Settled
<1>3. CASE state = "INITCOMMAND"
  \* Only on the way of a replay: the flag is lowered on arrival.
  <2>1. ret = "arrived"
    BY <1>1, <1>3 DEF ToggleInv, Settled
  <2>2. state' # "UNINITIALIZED" /\ MenuFits'
    BY <1>1, PushedScreen
  <2>3. QED
    BY <1>1, <2>1, <2>2 DEF ToggleInv, MenuInv, Settled
<1>4. QED
  BY <1>2, <1>3

LEMMA WalkKeepsToggle ==
  ASSUME IInv, ToggleInv, ForwardBranch \/ PopHidden
  PROVE  ToggleInv' /\ MenuInv'
<1>1. /\ pc \in {"forward", "previous"}
      /\ pc' = pc /\ ret' = ret /\ state' = state
  BY DEF ForwardBranch, PopHidden, walk
<1>2. QED
  BY <1>1 DEF ToggleInv, MenuInv, Settled

\* A screen that is returned to is initialised anew, and its initcommand is
\* not due.
LEMMA BackKeepsToggle ==
  ASSUME IInv, ToggleInv, PopVisible
  PROVE  ToggleInv' /\ MenuInv'
<1> DEFINE scope == Popped[Len(Popped)]
           obj   == scope.screen
<1>1. /\ TypeOK /\ scopes # <<>> /\ doc' = doc
      /\ pc = "previous" /\ pc' = ret /\ ret \in {"idle", "revert"}
  BY DEF IInv, StackInv, Booting, ToggleInv, PopVisible, context
<1>2. state' \notin {"UNINITIALIZED", "INITCOMMAND"}
  BY <1>1 DEF PopVisible, ToggleInv, StateAfterInit, Disarmed, IInv, TypeOK, States
<1>3. /\ scopes' = Popped
      /\ heap' = [Reachable(Popped) EXCEPT ![obj] = Initialized(@, scope.node)]
  BY DEF PopVisible
<1>4. /\ Len(Popped) \in 1..Len(Popped) /\ scope \in Scope
  <2>1. Popped \in Seq(Scope) /\ Popped # <<>>
    BY <1>1, PoppedFacts
  <2>2. QED
    BY <2>1
<1>5. Top' = scope
  BY <1>3 DEF Top
<1>6. MenuFits'
  <2> HIDE DEF scope
  <2>1. CASE obj = Null
    BY <1>5, <2>1 DEF MenuFits, TopType, TypeOf
  <2>2. CASE obj # Null
    <3>1. obj \in Objects /\ Reachable(Popped) \in [Objects -> Screen]
      BY <1>1, <1>4, <2>2, ReachableType DEF Scope
    <3> DEFINE scr == Reachable(Popped)[obj]
    <3>2. scr \in Screen /\ heap'[obj] = Initialized(scr, scope.node)
      BY <1>3, <3>1
    <3> HIDE DEF scr
    <3>3. heap'[obj].id = scr.id
      BY <3>2, InitializedKeepsId
    <3>4. SUFFICES ASSUME TopType' = "MENU"
                   PROVE  heap'[obj].items = ChoicesOf(Top.node)'
      BY <1>5 DEF MenuFits
    <3>5. scr.id # Null /\ doc.type[scr.id] = "MENU"
      BY <1>1, <1>5, <2>2, <3>3, <3>4 DEF TopType, TypeOf
    <3>6. heap'[obj].items = ChoicesOf(scope.node)
      BY <3>2, <3>5, RebuiltMenu
    <3>7. ChoicesOf(Top.node)' = ChoicesOf(scope.node)
      BY <1>1, <1>5 DEF ChoicesOf
    <3>8. QED
      BY <3>6, <3>7
  <2>3. QED
    BY <2>1, <2>2
<1>7. QED
  BY <1>1, <1>2, <1>6 DEF ToggleInv, MenuInv, Settled

LEMMA ReplayKeepsToggle ==
  ASSUME IInv, ToggleInv, MenuInv, DumpState \/ TravelArrived \/ Revert
  PROVE  ToggleInv' /\ MenuInv'
<1>1. UNCHANGED <<doc, heap, scopes>>
  BY DEF DumpState, TravelArrived, Revert, context, screens
<1>2. (AsksHere => AsksHere') /\ (MenuFits => MenuFits')
  BY <1>1, SameStack
<1>3. CASE DumpState
  BY <1>2, <1>3 DEF DumpState, ToggleInv, MenuInv, Settled
<1>4. CASE TravelArrived
  <2>1. state' \notin {"UNINITIALIZED", "INITCOMMAND"}
    BY <1>4 DEF TravelArrived, Disarmed, ToggleInv
  <2>2. pc = "arrived" /\ pc' \in {"travel", "revert"}
    BY <1>4 DEF TravelArrived
  <2>3. QED
    BY <1>2, <2>1, <2>2 DEF ToggleInv, MenuInv, Settled
<1>5. CASE Revert
  BY <1>2, <1>5 DEF Revert, StartPrevious, ToggleInv, MenuInv, Settled
<1>6. QED
  BY <1>3, <1>4, <1>5

LEMMA TravelKeepsToggle ==
  ASSUME IInv, ToggleInv, MenuInv, Travel
  PROVE  ToggleInv' /\ MenuInv'
<1>1. /\ TypeOK /\ scopes # <<>> /\ todo # <<>> /\ todo \in Seq(Record)
      /\ pc = "travel" /\ doc' = doc /\ heap' = heap /\ state' = state
  BY DEF Travel, IInv, TypeOK, StackInv, ReplayInv, Booting, context, screens
<1>2. (AsksHere => AsksHere') /\ (MenuFits => MenuFits')
  <2>1. Head(todo) \in Record
    BY <1>1
  <2>2. Head(todo).symbols \in Tables
    BY <2>1 DEF Record
  <2>3. QED
    BY <1>1, <2>2, PutSameScreen DEF Travel
<1>3. CASE pc' = "idle"
  BY <1>1, <1>2, <1>3 DEF ToggleInv, MenuInv, Settled
<1>4. CASE pc' # "idle"
  <2>1. \/ pc' = "forward" /\ ret' = "arrived"
        \/ pc' = "revert" /\ TopType \notin {"DIALOG", "HIDDEN"}
    BY <1>4 DEF Travel, StartForward
  <2>2. QED
    BY <1>1, <1>2, <2>1 DEF ToggleInv, MenuInv, AsksHere, Settled
<1>5. QED
  BY <1>3, <1>4

-----------------------------------------------------------------------------
(* The calls of a front end.                                               *)

LEMMA MoveKeepsToggle ==
  ASSUME IInv, ToggleInv, MenuInv,
         \/ \E id \in ScreenIds : MenuNext(id)
         \/ DialogNext \/ HiddenNext \/ InitcommandFailed \/ Previous
  PROVE  ToggleInv' /\ MenuInv'
<1>1. CASE (\E id \in ScreenIds : MenuNext(id)) \/ DialogNext \/ HiddenNext
  <2>1. pc = "idle" /\ state' = state /\ state # "INITCOMMAND"
    BY <1>1 DEF MenuNext, DialogNext, HiddenNext, ToggleInv, AsksHere, Settled
  <2>2. pc' = "forward" /\ ret' = "idle"
    BY <1>1 DEF MenuNext, DialogNext, HiddenNext, StartForward
  <2>3. QED
    BY <2>1, <2>2 DEF ToggleInv, MenuInv, Settled
<1>2. CASE InitcommandFailed \/ Previous
  BY <1>2 DEF InitcommandFailed, Previous, StartPrevious, ToggleInv, MenuInv, Settled
<1>3. QED
  BY <1>1, <1>2

LEMMA StayKeepsToggle ==
  ASSUME IInv, ToggleInv, MenuInv,
         \/ SaveState \/ LoadState \/ LoadStatePush
         \/ ParseStateChunk \/ ParseStateChunkFails
  PROVE  ToggleInv' /\ MenuInv'
<1>1. /\ UNCHANGED <<doc, heap, scopes>> /\ state' = state
      /\ pc = "idle" /\ pc' \in Settled
  BY DEF SaveState, LoadState, LoadStatePush, ParseStateChunk, PrepareState,
         ParseStateChunkFails, context, screens, Settled
<1>2. (AsksHere => AsksHere') /\ (MenuFits => MenuFits')
  BY <1>1, SameStack
<1>3. QED
  BY <1>1, <1>2 DEF ToggleInv, MenuInv, Settled

LEMMA StoreKeepsToggle ==
  ASSUME IInv, ToggleInv, MenuInv, NEW sym \in Symbols, NEW val \in Values,
         FieldStored(sym, val)
  PROVE  ToggleInv' /\ MenuInv'
<1>1. /\ TypeOK /\ scopes # <<>> /\ doc' = doc /\ heap' = heap
      /\ state' = state /\ pc = "idle" /\ pc' = "idle"
  BY DEF FieldStored, IInv, StackInv, Booting, context, screens
<1>2. [NoSymbols EXCEPT ![sym] = val] \in Tables
  BY DEF NoSymbols, Tables, Unset
<1>3. (AsksHere => AsksHere') /\ (MenuFits => MenuFits')
  BY <1>1, <1>2, PutSameScreen DEF FieldStored
<1>4. QED
  BY <1>1, <1>3 DEF ToggleInv, MenuInv, Settled

\* The second initialisation lowers the flag: the screen that asked is still
\* the current one.
LEMMA CompleteKeepsToggle ==
  ASSUME IInv, ToggleInv, MenuInv, NEW table \in Tables, InitcommandComplete(table)
  PROVE  ToggleInv' /\ MenuInv'
<1>1. /\ TypeOK /\ scopes # <<>> /\ doc' = doc /\ heap' = heap
      /\ state = "INITCOMMAND" /\ pc = "idle" /\ pc' = "idle" /\ AsksHere
      /\ state' = StateAfterInit(state, heap[Top.screen].id)
  BY DEF InitcommandComplete, InitcommandDue, IInv, StackInv, Booting, ToggleInv,
         Settled, context, screens
<1>2. MenuFits => MenuFits'
  BY <1>1, PutSameScreen DEF InitcommandComplete
<1>3. state' = "SCREEN"
  <2>1. heap[Top.screen].id # Null
    BY <1>1 DEF AsksHere, TopType, TypeOf
  <2>2. QED
    BY <1>1, <2>1 DEF AsksHere, StateAfterInit
<1>4. QED
  BY <1>1, <1>2, <1>3 DEF ToggleInv, MenuInv, Settled

-----------------------------------------------------------------------------
(* The theorems.                                                           *)

LEMMA NextToggleInv ==
  IInv /\ ToggleInv /\ MenuInv /\ [Next]_vars => ToggleInv' /\ MenuInv'
<1> SUFFICES ASSUME IInv, ToggleInv, MenuInv, [Next]_vars PROVE ToggleInv' /\ MenuInv'
  OBVIOUS
<1>1. CASE \E d \in Descriptions, f \in ScreenIds \cup {Null} : ContextInit(d, f)
  BY <1>1, BootKeepsToggle
<1>2. CASE LibraryStep
  BY <1>2, BootKeepsToggle, FirstScreenKeepsToggle, ForwardKeepsToggle,
     WalkKeepsToggle, BackKeepsToggle, ReplayKeepsToggle, TravelKeepsToggle
     DEF LibraryStep
<1>3. CASE FrontEndCall
  BY <1>3, MoveKeepsToggle, StayKeepsToggle, StoreKeepsToggle, CompleteKeepsToggle
     DEF FrontEndCall
<1>4. CASE Terminate
  BY <1>4 DEF Terminate, ToggleInv, MenuInv, Settled
<1>5. CASE UNCHANGED vars
  <2>1. (AsksHere => AsksHere') /\ (MenuFits => MenuFits')
    BY <1>5, SameStack DEF vars
  <2>2. QED
    BY <1>5, <2>1 DEF vars, ToggleInv, MenuInv, Settled
<1>6. QED
  BY <1>1, <1>2, <1>3, <1>4, <1>5 DEF Next

LEMMA ScreensInvariant == Spec => [](IInv /\ ToggleInv /\ MenuInv)
<1>1. Init => ToggleInv /\ MenuInv
  BY DEF Init, ToggleInv, MenuInv, Settled
<1>2. QED
  BY <1>1, NextToggleInv, NextIInv, InitIInv, PTL DEF Spec

\* The flag of an initcommand that is due always belongs to the current
\* screen, although ctxt->state outlives every screen.
THEOREM InitcommandsBelong == Spec => []InitcommandBelongs
<1>1. ToggleInv => InitcommandBelongs
  BY DEF ToggleInv, InitcommandBelongs, AsksHere, Settled
<1>2. QED
  BY <1>1, ScreensInvariant, PTL

\* The menu shown is the one of the element the session is at, although the
\* cache gives all uses of a screen one structure.
THEOREM MenusShowOwnChoices == Spec => []MenuShowsOwnChoices
<1>1. IInv /\ MenuInv => MenuShowsOwnChoices
  BY DEF IInv, StackInv, Booting, MenuInv, MenuFits, MenuShowsOwnChoices, Settled
<1>2. QED
  BY <1>1, ScreensInvariant, PTL

\* The screen that a forward step shows is the one its element names, so the
\* toggle is worked for the right screen.
LEMMA ArrivalAsks ==
  ASSUME IInv, ToggleInv, CacheInv, ForwardArrive, pc' = "idle", cur # Null
  PROVE  /\ scopes'[Len(scopes')].node = cur
         /\ state' = "INITCOMMAND" <=> doc.init[doc.name[cur]]
<1> DEFINE id  == doc.name[cur]
           scr == IF Cached(id) THEN heap[Loaded(id)] ELSE [id |-> id, items |-> {}]
<1>1. /\ TypeOK /\ cur \in Nodes /\ state \in States
      /\ state \notin {"UNINITIALIZED", "INITCOMMAND"}
      /\ PushAndPrepare(cur)
  BY DEF ForwardArrive, ForwardReturn, IInv, TypeOK, ToggleInv, Settled
<1>2. id \in ScreenIds
  BY <1>1, DocFacts DEF Description
<1>3. scopes'[Len(scopes')].node = cur
  BY <1>1, PushFacts
<1>4. state' = StateAfterInit(state, scr.id)
  BY <1>1, NullAssumption DEF PushAndPrepare, ScreenLoad
<1>5. scr.id = id
  BY <1>2 DEF CacheInv, Cached, Loaded
<1>6. id # Null
  BY <1>2, NullAssumption
<1>7. CASE doc.init[id]
  BY <1>1, <1>2, <1>3, <1>4, <1>5, <1>6, <1>7, ToggleFacts
<1>8. CASE ~doc.init[id]
  BY <1>1, <1>2, <1>3, <1>4, <1>5, <1>6, <1>8, ToggleFacts
<1>9. QED
  BY <1>7, <1>8

\* What NewScreenAsksInitcommand says of one step.
NewScreenAsks ==
    pc = "forward" /\ pc' = "idle" /\ scopes'[Len(scopes')].node # Null =>
        (state' = "INITCOMMAND"
            <=> doc.init[doc.name[scopes'[Len(scopes')].node]])

LEMMA StepAsks ==
  IInv /\ ToggleInv /\ CacheInv /\ [Next]_vars => NewScreenAsks
<1> SUFFICES ASSUME IInv, ToggleInv, CacheInv, [Next]_vars,
                    pc = "forward", pc' = "idle", scopes'[Len(scopes')].node # Null
             PROVE  state' = "INITCOMMAND"
                       <=> doc.init[doc.name[scopes'[Len(scopes')].node]]
  BY DEF NewScreenAsks
<1>1. ForwardArrive
  <2>1. ASSUME NEW d \in Descriptions, NEW f \in ScreenIds \cup {Null}
        PROVE  ~ContextInit(d, f)
    BY DEF ContextInit
  <2>2. ~FrontEndCall
    BY DEF FrontEndCall, MenuNext, DialogNext, HiddenNext, FieldStored,
           InitcommandComplete, InitcommandFailed, Previous, SaveState,
           LoadState, LoadStatePush, ParseStateChunk, ParseStateChunkFails
  <2>3. ~Terminate /\ ~UNCHANGED vars
    BY DEF Terminate, vars
  <2>4. LibraryStep
    BY <2>1, <2>2, <2>3 DEF Next
  <2>5. QED
    BY <2>4 DEF LibraryStep, FastpathVisit, FastpathClimb, FirstScreen,
       NoFirstScreen, ForwardBranch, PopHidden, PopVisible, DumpState, Travel,
       TravelArrived, Revert
<1>2. cur # Null
  <2>1. SUFFICES ASSUME cur = Null PROVE FALSE
    OBVIOUS
  <2>2. TypeOK /\ PushAndPrepare(Null)
    BY <1>1, <2>1 DEF ForwardArrive, ForwardReturn, IInv
  <2>3. QED
    BY <2>2, PushFacts
<1>3. QED
  BY <1>1, <1>2, ArrivalAsks

\* A screen that a session moves to asks for its initcommand exactly if it
\* has one: the toggle is never on when a step forward begins.  It is the
\* named screen's initcommand only where titles and IDs do not clash.
THEOREM NewScreensAskInitcommand ==
  ASSUME \A d \in Descriptions : TitlesApart(d)
  PROVE  Spec => NewScreenAsksInitcommand
<1>1. Init => CacheInv
  BY DEF Init, CacheInv
<1>2. IInv /\ CacheInv /\ [Next]_vars => CacheInv'
  BY NextCacheInv
<1>3. IInv /\ ToggleInv /\ CacheInv /\ [Next]_vars => [NewScreenAsks]_vars
  BY StepAsks
<1>4. Spec => [][NewScreenAsks]_vars
  BY <1>1, <1>2, <1>3, ScreensInvariant, PTL DEF Spec
<1>5. QED
  BY <1>4 DEF NewScreenAsks, NewScreenAsksInitcommand
=============================================================================
