------------------------- MODULE RastaSession_proofs -------------------------
(***************************************************************************)
(* What a session does as a whole: where it may start, that its menus lead *)
(* on, what its user sees of it, and that it can be saved and loaded.      *)
(***************************************************************************)
EXTENDS RastaContext_proofs

-----------------------------------------------------------------------------
(* What a step does to the stack of scopes and the screens.                *)

Quiet  == UNCHANGED <<context, scopes, screens>>
Starts == scopes = <<>> /\ UNCHANGED <<scopes, screens>>
Puts   == /\ pc \in {"idle", "travel"}
          /\ scopes # <<>>
          /\ \E table \in Tables : SymbolsPut(table)
          /\ UNCHANGED <<context, screens>>
Pops   == /\ pc = "previous"
          /\ scopes # <<>>
          /\ scopes' = Popped
          /\ \A o \in Objects : o \in Refers(Popped) => heap'[o].id = heap[o].id
          /\ UNCHANGED <<context, screen_cache>>

LEMMA PopSteps ==
  ASSUME IInv, PopHidden \/ PopVisible
  PROVE  Pops
<1>1. /\ TypeOK /\ scopes # <<>> /\ UNCHANGED context /\ scopes' = Popped
      /\ screen_cache' = screen_cache /\ pc = "previous"
  BY DEF PopHidden, PopVisible, IInv, StackInv, Booting
<1>2. \A o \in Objects : o \in Refers(Popped) => Reachable(Popped)[o] = heap[o]
  BY DEF Reachable
<1>3. \A o \in Objects : heap'[o].id = Reachable(Popped)[o].id
  <2>1. CASE PopHidden
    BY <2>1 DEF PopHidden
  <2>2. CASE PopVisible
    <3> DEFINE scope == Popped[Len(Popped)]
    <3>1. heap' = [Reachable(Popped) EXCEPT ![scope.screen] = Initialized(@, scope.node)]
      BY <2>2 DEF PopVisible
    <3>2. Reachable(Popped) \in [Objects -> Screen]
      BY <1>1, ReachableType
    <3> QED BY <3>1, <3>2, InitializedKeepsId
  <2> QED BY <2>1, <2>2
<1> QED BY <1>1, <1>2, <1>3 DEF Pops

LEMMA PutSteps ==
  ASSUME IInv,
         \/ \E sym \in Symbols, val \in Values : FieldStored(sym, val)
         \/ \E table \in Tables : InitcommandComplete(table)
         \/ Travel
  PROVE  Puts
<1>1. pc \in {"idle", "travel"} /\ scopes # <<>> /\ UNCHANGED <<context, screens>>
  BY DEF FieldStored, InitcommandComplete, Travel, IInv, StackInv, Booting
<1>2. ASSUME NEW sym \in Symbols, NEW val \in Values, FieldStored(sym, val)
      PROVE  Puts
  <2>1. [NoSymbols EXCEPT ![sym] = val] \in Tables
    BY DEF NoSymbols, Tables, Unset
  <2> QED BY <1>1, <1>2, <2>1 DEF FieldStored, Puts
<1>3. ASSUME NEW table \in Tables, InitcommandComplete(table)
      PROVE  Puts
  BY <1>1, <1>3 DEF InitcommandComplete, Puts
<1>4. CASE Travel
  <2>1. todo # <<>> /\ todo \in Seq(Record)
    BY <1>4 DEF Travel, IInv, TypeOK, ReplayInv
  <2>2. Head(todo) \in Record
    BY <2>1
  <2> QED BY <1>1, <1>4, <2>2 DEF Record, Travel, Puts
<1> QED BY <1>2, <1>3, <1>4

LEMMA StackSteps ==
  ASSUME IInv, [Next]_vars
  PROVE  \/ Quiet \/ Starts \/ Puts \/ Pops \/ Terminate
         \/ FirstScreen \/ NoFirstScreen \/ ForwardArrive
<1>1. CASE \E d \in Descriptions, f \in ScreenIds \cup {Null} : ContextInit(d, f)
  BY <1>1 DEF ContextInit, IInv, StackInv, Booting, Starts
<1>2. CASE \/ FastpathVisit \/ FastpathClimb
  BY <1>2 DEF FastpathVisit, FastpathClimb, IInv, StackInv, Booting, Starts
<1>3. CASE ForwardBranch \/ DumpState \/ TravelArrived \/ Revert
  BY <1>3 DEF ForwardBranch, DumpState, TravelArrived, Revert, Quiet
<1>4. CASE \/ \E id \in ScreenIds : MenuNext(id)
           \/ DialogNext \/ HiddenNext \/ InitcommandFailed \/ Previous
           \/ SaveState \/ LoadState \/ LoadStatePush
           \/ ParseStateChunk \/ ParseStateChunkFails
  BY <1>4 DEF MenuNext, DialogNext, HiddenNext, InitcommandFailed, Previous,
     SaveState, LoadState, LoadStatePush, ParseStateChunk,
     ParseStateChunkFails, PrepareState, Quiet
<1>5. CASE UNCHANGED vars
  BY <1>5 DEF vars, Quiet, context, screens
<1> QED
  BY <1>1, <1>2, <1>3, <1>4, <1>5, PopSteps, PutSteps
     DEF Next, LibraryStep, FrontEndCall

-----------------------------------------------------------------------------
(* A structure in the heap keeps its screen while anything refers to it.   *)

Kept(o) == o \in Objects /\ o \in Refers(scopes)

\* rasta_screen_load gives a cached structure or a fresh one.
LEMMA LoadedFacts ==
  ASSUME TypeOK, NEW id \in ScreenIds, NEW node, ScreenLoad(id, node)
  PROVE  /\ Loaded(id) \in Objects /\ Loaded(id) # Null
         /\ ~Cached(id) => Loaded(id) \notin Refers(scopes) /\ heap'[Loaded(id)].id = id
         /\ Cached(id) => Loaded(id) = screen_cache[id]
         /\ \A o \in Objects : Kept(o) => heap'[o].id = heap[o].id
         /\ \A s \in ScreenIds : screen_cache'[s] \in {screen_cache[s], Loaded(id)}
<1> DEFINE o == Loaded(id)
           screen == IF Cached(id) THEN heap[o] ELSE [id |-> id, items |-> {}]
<1>1. o \in Objects /\ o # Null /\ (~Cached(id) => o \in Free)
  BY ObjectsAssumption DEF ScreenLoad, Loaded, Cached, Fresh, Free, TypeOK
<1>2. screen \in Screen
  BY <1>1 DEF Screen, TypeOK
<1>3. heap'[o].id = screen.id /\ \A p \in Objects \ {o} : heap'[p] = heap[p]
  <2>1. heap' = [heap EXCEPT ![o] = Initialized(screen, node)]
    BY DEF ScreenLoad
  <2>2. Initialized(screen, node).id = screen.id
    BY <1>2, InitializedKeepsId
  <2> QED BY <1>1, <2>1, <2>2 DEF TypeOK
<1>4. ~Cached(id) => o \notin Refers(scopes)
  BY <1>1 DEF Free
<1>5. \A p \in Objects : Kept(p) => heap'[p].id = heap[p].id
  BY <1>3, <1>4 DEF Kept
<1>6. \A s \in ScreenIds : screen_cache'[s] \in {screen_cache[s], o}
  BY DEF ScreenLoad, TypeOK
<1> QED BY <1>1, <1>3, <1>4, <1>5, <1>6 DEF Loaded

-----------------------------------------------------------------------------
(* The search for the fastpath misses nothing.                             *)

\* What the search looks for.
Target(n) == doc.open[n] /\ MayDescend(doc, n) /\ doc.name[n] = fastpath
NoTarget  == \A n \in Nodes : ~Target(n)

\* What the search has passed holds no target.
PassedInv ==
    /\ pc \in {"fastpath", "climb"} => fastpath # Null
    /\ pc = "fastpath" /\ cur = Null => NoTarget
    /\ pc = "fastpath" /\ cur # Null =>
          \A n \in Nodes : Target(n) => doc.pos[cur] <= doc.pos[n]
    /\ pc = "climb" =>
          /\ doc.next[cur] = Null
          /\ \A n \in Nodes : Target(n) => doc.last[cur] < doc.pos[n]

\* Everything open is beneath the root ...
LEMMA OpenBeneathRoot ==
  ASSUME TypeOK, NEW n \in Nodes, doc.open[n]
  PROVE  Beneath(doc, n, doc.root)
<1>0. doc \in Description /\ OpenEquation(doc) /\ DocumentOrder(doc) /\ TreeLinks(doc)
  BY DocFacts
<1> DEFINE Astray(m) == doc.open[m] /\ ~Beneath(doc, m, doc.root)
           S == {k \in 0..doc.pos[n] : \E m \in Nodes : doc.pos[m] = k /\ Astray(m)}
<1>1. SUFFICES ASSUME Astray(n) PROVE FALSE
  OBVIOUS
<1>2. doc.pos \in [Nodes -> Nat] /\ doc.parent \in [Nodes -> Nodes \cup {Null}]
      /\ doc.root \in Nodes
  BY <1>0 DEF Description
<1>3. PICK k \in S : \A j \in S : k <= j
  <2>1. doc.pos[n] \in Nat /\ S \in SUBSET Nat /\ \A i \in S : i <= doc.pos[n]
    BY <1>2
  <2>2. doc.pos[n] \in S
    BY <1>1, <1>2
  <2> HIDE DEF S
  <2> QED BY <2>1, <2>2, LowestExists
<1>4. PICK m \in Nodes : doc.pos[m] = k /\ Astray(m)
  OBVIOUS
<1> DEFINE up == doc.parent[m]
<1>5. up # Null /\ up \in Nodes /\ up # doc.root /\ doc.open[up]
  BY <1>0, <1>2, <1>4 DEF OpenEquation, DocumentOrder
<1>6. doc.pos[up] < doc.pos[m] /\ ~Beneath(doc, up, doc.root)
  <2>1. Beneath(doc, m, up)
    BY <1>0, <1>5 DEF DocumentOrder
  <2> QED BY <1>0, <1>2, <1>4, <1>5, <2>1 DEF DocumentOrder, Beneath
<1>7. doc.pos[up] \in S
  BY <1>2, <1>4, <1>5, <1>6
<1> QED
  <2>1. k <= doc.pos[up] /\ doc.pos[up] < k
    <3> HIDE DEF S
    <3> QED BY <1>3, <1>4, <1>6, <1>7
  <2> QED BY <1>2, <1>4, <1>5, <2>1

\* ... and nothing open is beneath an element that a fastpath may not pass.
LEMMA OpenPathDescends ==
  ASSUME TypeOK, NEW n \in Nodes, doc.open[n], NEW a \in Nodes, a # doc.root,
         Beneath(doc, n, a)
  PROVE  MayDescend(doc, a)
<1>0. doc \in Description /\ OpenEquation(doc) /\ DocumentOrder(doc) /\ TreeLinks(doc)
  BY DocFacts
<1> DEFINE Below(m) == doc.open[m] /\ Beneath(doc, m, a)
           S == {k \in 0..doc.pos[n] : \E m \in Nodes : doc.pos[m] = k /\ Below(m)}
<1>1. doc.pos \in [Nodes -> Nat] /\ doc.parent \in [Nodes -> Nodes \cup {Null}]
      /\ doc.root \in Nodes
  BY <1>0 DEF Description
<1>2. PICK k \in S : \A j \in S : k <= j
  <2>1. doc.pos[n] \in Nat /\ S \in SUBSET Nat /\ \A i \in S : i <= doc.pos[n]
    BY <1>1
  <2>2. doc.pos[n] \in S
    BY <1>1
  <2> HIDE DEF S
  <2> QED BY <2>1, <2>2, LowestExists
<1>3. PICK m \in Nodes : doc.pos[m] = k /\ Below(m)
  OBVIOUS
<1> DEFINE up == doc.parent[m]
<1>4. up # Null /\ up \in Nodes /\ (up = a \/ Beneath(doc, up, a))
  BY <1>0, <1>1, <1>3 DEF DocumentOrder
<1>5. CASE up = a
  BY <1>0, <1>3, <1>4, <1>5 DEF OpenEquation
<1>6. CASE up # a
  <2>1. Beneath(doc, up, a)
    BY <1>4, <1>6
  <2>2. doc.parent[up] # Null
    BY <1>0, <1>4, <2>1 DEF DocumentOrder
  <2>3. up # doc.root /\ doc.open[up]
    BY <1>0, <1>3, <1>4, <2>2 DEF OpenEquation, TreeLinks
  <2>4. doc.pos[up] < doc.pos[m]
    BY <1>0, <1>4 DEF DocumentOrder, Beneath
  <2>5. doc.pos[up] \in S
    BY <1>1, <1>3, <1>4, <2>1, <2>3, <2>4
  <2>6. k <= doc.pos[up] /\ doc.pos[up] < k
    <3> HIDE DEF S
    <3> QED BY <1>2, <1>3, <2>4, <2>5
  <2> QED BY <1>1, <1>3, <1>4, <2>6
<1> QED BY <1>5, <1>6

\* One turn of the outer loop.
LEMMA VisitPasses ==
  ASSUME IInv, PassedInv, FastpathVisit
  PROVE  PassedInv'
<1>0. /\ TypeOK /\ pc = "fastpath" /\ cur \in Nodes /\ cur # Null
      /\ doc.open[cur] /\ UNCHANGED <<doc, fastpath>> /\ fastpath # Null
      /\ \A n \in Nodes : Target(n) => doc.pos[cur] <= doc.pos[n]
  BY DEF IInv, SearchInv, TypeOK, FastpathVisit, PassedInv
<1>1. doc \in Description /\ OpenEquation(doc) /\ DocumentOrder(doc) /\ TreeLinks(doc)
  BY <1>0, DocFacts
<1>2. /\ doc.pos \in [Nodes -> Nat] /\ doc.last \in [Nodes -> Nat]
      /\ doc.child[cur] \in Nodes \cup {Null} /\ doc.next[cur] \in Nodes \cup {Null}
  BY <1>0, <1>1 DEF Description
<1>3. cur # doc.root
  BY <1>0, <1>1 DEF OpenEquation, TreeLinks
<1>4. CASE Candidate(cur) /\ ~Pruned(cur) /\ doc.name[cur] = fastpath
  BY <1>4 DEF FastpathVisit, PassedInv
<1>5. CASE ~(Candidate(cur) /\ ~Pruned(cur) /\ doc.name[cur] = fastpath)
  <2>1. ~Target(cur)
    BY <1>5 DEF Target, MayDescend, Candidate, Pruned
  <2>2. \A n \in Nodes : Target(n) => doc.pos[cur] < doc.pos[n]
    BY <1>0, <1>1, <1>2, <2>1 DEF DocumentOrder
  <2>3. CASE Candidate(cur) /\ ~Pruned(cur) /\ doc.child[cur] # Null
    <3>1. cur' = doc.child[cur] /\ pc' = "fastpath"
      BY <1>0, <1>5, <2>3 DEF FastpathVisit
    <3>2. doc.pos[cur'] = doc.pos[cur] + 1 /\ cur' # Null
      BY <1>0, <1>1, <2>3, <3>1 DEF DocumentOrder
    <3>3. \A n \in Nodes : Target(n) => doc.pos[cur'] <= doc.pos[n]
      BY <1>0, <1>2, <2>2, <3>2
    <3> QED BY <1>0, <3>1, <3>2, <3>3 DEF PassedInv, Target
  <2>4. CASE ~(Candidate(cur) /\ ~Pruned(cur) /\ doc.child[cur] # Null)
    <3>1. \A n \in Nodes : Target(n) => doc.last[cur] < doc.pos[n]
      <4> SUFFICES ASSUME NEW n \in Nodes, Target(n), ~(doc.last[cur] < doc.pos[n])
                   PROVE  FALSE
        OBVIOUS
      <4>1. Beneath(doc, n, cur)
        BY <1>0, <1>2, <2>2 DEF Beneath
      <4>2. MayDescend(doc, cur)
        BY <1>0, <1>3, <4>1, OpenPathDescends DEF Target
      <4>3. doc.child[cur] = Null
        BY <2>4, <4>2 DEF MayDescend, Candidate, Pruned
      <4>4. doc.last[cur] = doc.pos[cur]
        BY <1>0, <1>1, <4>3 DEF DocumentOrder
      <4> QED BY <1>0, <1>2, <4>1, <4>4 DEF Beneath
    <3>2. CASE doc.next[cur] # Null
      <4>1. cur' = doc.next[cur] /\ pc' = "fastpath"
        BY <1>0, <1>5, <2>4, <3>2 DEF FastpathVisit
      <4>2. doc.pos[cur'] = doc.last[cur] + 1 /\ cur' # Null
        BY <1>0, <1>1, <3>2, <4>1 DEF DocumentOrder
      <4>3. \A n \in Nodes : Target(n) => doc.pos[cur'] <= doc.pos[n]
        BY <1>0, <1>2, <3>1, <4>2
      <4> QED BY <1>0, <4>1, <4>2, <4>3 DEF PassedInv, Target
    <3>3. CASE doc.next[cur] = Null
      <4>1. cur' = cur /\ pc' = "climb"
        BY <1>0, <1>5, <2>4, <3>3 DEF FastpathVisit
      <4> QED BY <1>0, <3>1, <3>3, <4>1 DEF PassedInv, Target
    <3> QED BY <3>2, <3>3
  <2> QED BY <2>3, <2>4
<1> QED BY <1>4, <1>5

\* One turn of the inner loop.
LEMMA ClimbPasses ==
  ASSUME IInv, PassedInv, FastpathClimb
  PROVE  PassedInv'
<1> DEFINE up == doc.parent[cur]
<1>0. /\ TypeOK /\ pc = "climb" /\ cur \in Nodes
      /\ doc.open[cur] /\ UNCHANGED <<doc, fastpath>> /\ fastpath # Null
      /\ path_root = doc.root /\ doc.next[cur] = Null
      /\ \A n \in Nodes : Target(n) => doc.last[cur] < doc.pos[n]
  BY DEF IInv, SearchInv, TypeOK, FastpathClimb, PassedInv, context
<1>1. doc \in Description /\ OpenEquation(doc) /\ DocumentOrder(doc) /\ TreeLinks(doc)
  BY <1>0, DocFacts
<1>2. /\ doc.pos \in [Nodes -> Nat] /\ doc.last \in [Nodes -> Nat] /\ up \in Nodes
      /\ doc.next[up] \in Nodes \cup {Null}
  BY <1>0, <1>1 DEF Description, OpenEquation
<1>3. up # Null /\ doc.last[cur] = doc.last[up]
  BY <1>0, <1>1, <1>2, NullAssumption DEF DocumentOrder
<1>4. CASE up = path_root
  <2>1. cur' = Null /\ pc' = "fastpath"
    BY <1>4 DEF FastpathClimb
  <2>2. NoTarget
    <3> SUFFICES ASSUME NEW n \in Nodes, Target(n) PROVE FALSE
      BY DEF NoTarget
    <3>1. Beneath(doc, n, doc.root)
      BY <1>0, OpenBeneathRoot DEF Target
    <3>2. doc.pos[n] <= doc.last[up] /\ doc.last[up] < doc.pos[n]
      BY <1>0, <1>3, <1>4, <3>1 DEF Beneath
    <3> QED BY <1>2, <3>2
  <2> QED BY <1>0, <2>1, <2>2 DEF PassedInv, NoTarget, Target
<1>5. CASE up # path_root /\ doc.next[up] # Null
  <2>1. cur' = doc.next[up] /\ pc' = "fastpath"
    BY <1>5 DEF FastpathClimb
  <2>2. doc.pos[cur'] = doc.last[cur] + 1 /\ cur' # Null
    BY <1>1, <1>2, <1>3, <1>5, <2>1 DEF DocumentOrder
  <2>3. \A n \in Nodes : Target(n) => doc.pos[cur'] <= doc.pos[n]
    BY <1>0, <1>2, <2>2
  <2> QED BY <1>0, <2>1, <2>2, <2>3 DEF PassedInv, Target
<1>6. CASE up # path_root /\ doc.next[up] = Null
  <2>1. cur' = up /\ pc' = "climb"
    BY <1>0, <1>6 DEF FastpathClimb
  <2> QED BY <1>0, <1>3, <1>6, <2>1 DEF PassedInv, Target
<1> QED BY <1>4, <1>5, <1>6

\* The search begins at the root's first child.
LEMMA SearchStarts ==
  ASSUME IInv, NEW d \in Descriptions, NEW f \in ScreenIds \cup {Null},
         ContextInit(d, f)
  PROVE  PassedInv'
<1>1. TypeOK' /\ doc' = d /\ fastpath' = f
  BY ContextInitStep DEF IInv, ContextInit
<1>2. CASE f = Null
  BY <1>2 DEF ContextInit, PassedInv
<1>3. CASE f # Null
  <2>1. pc' = "fastpath" /\ cur' = d.child[d.root]
    BY <1>3 DEF ContextInit
  <2>2. d \in Description /\ DocumentOrder(d)
    BY DescriptionsAssumption DEF WellFormed
  <2>3. d.pos \in [Nodes -> Nat] /\ d.last \in [Nodes -> Nat] /\ d.root \in Nodes
        /\ d.child[d.root] \in Nodes \cup {Null}
    BY <2>2 DEF Description
  <2>4. ASSUME NEW n \in Nodes, Target(n)'
        PROVE  d.pos[d.root] < d.pos[n] /\ d.pos[n] <= d.last[d.root]
    <3>1. (doc.open[n] => Beneath(doc, n, doc.root))'
      BY <1>1, OpenBeneathRoot, PTL
    <3> QED BY <1>1, <2>4, <3>1 DEF Target, Beneath
  <2>5. CASE cur' = Null
    <3>1. d.last[d.root] = d.pos[d.root]
      BY <2>1, <2>2, <2>3, <2>5 DEF DocumentOrder
    <3>2. NoTarget'
      BY <2>3, <2>4, <3>1 DEF NoTarget
    <3> QED BY <1>1, <1>3, <2>1, <2>5, <3>2 DEF PassedInv
  <2>6. CASE cur' # Null
    <3>1. d.pos[cur'] = d.pos[d.root] + 1
      BY <2>1, <2>2, <2>3, <2>6 DEF DocumentOrder
    <3>2. \A n \in Nodes : Target(n)' => d.pos[cur'] <= d.pos[n]
      BY <2>1, <2>3, <2>4, <2>6, <3>1
    <3> QED BY <1>1, <1>3, <2>1, <2>6, <3>2 DEF PassedInv, Target
  <2> QED BY <2>5, <2>6
<1> QED BY <1>2, <1>3

LEMMA NextPassedInv == IInv /\ PassedInv /\ [Next]_vars => PassedInv'
<1> SUFFICES ASSUME IInv, PassedInv, [Next]_vars PROVE PassedInv'
  OBVIOUS
<1>1. CASE \E d \in Descriptions, f \in ScreenIds \cup {Null} : ContextInit(d, f)
  BY <1>1, SearchStarts
<1>2. CASE FastpathVisit \/ FastpathClimb
  BY <1>2, VisitPasses, ClimbPasses
<1>3. CASE UNCHANGED vars
  BY <1>3 DEF vars, PassedInv, NoTarget, Target
<1>4. CASE /\ Next /\ ~(FastpathVisit \/ FastpathClimb)
           /\ ~\E d \in Descriptions, f \in ScreenIds \cup {Null} : ContextInit(d, f)
  <2>1. pc' \notin {"fastpath", "climb"}
    BY <1>4 DEF Next, LibraryStep, FrontEndCall, FirstScreen, NoFirstScreen,
       ForwardArrive, ForwardReturn, ForwardBranch, PopHidden, PopVisible, DumpState,
       Travel, StartForward, TravelArrived, Revert, StartPrevious, MenuNext, DialogNext,
       HiddenNext, FieldStored, InitcommandComplete, InitcommandFailed, Previous,
       SaveState, LoadState, LoadStatePush, ParseStateChunk, PrepareState,
       ParseStateChunkFails, Terminate, IInv, TypeOK
  <2> QED BY <2>1 DEF PassedInv
<1> QED BY <1>1, <1>2, <1>3, <1>4

-----------------------------------------------------------------------------
(* A refused fastpath.  Only its screen, at the bottom of the stack, has   *)
(* no ID: RASTA_SCREEN_NONE.                                               *)

\* A refused fastpath had no target.
Refused == fastpath # Null /\ NoTarget

NoneInv ==
    /\ \A s \in ScreenIds : screen_cache[s] # Null => heap[screen_cache[s]].id # Null
    /\ \A i \in 1..Len(scopes) :
          scopes[i].screen # Null /\ heap[scopes[i].screen].id = Null => i = 1 /\ Refused

\* A step that only takes references away, or none, keeps what they refer to.
LEMMA FewerReferences ==
  ASSUME TypeOK, NoneInv, UNCHANGED <<doc, fastpath>>,
         Len(scopes') <= Len(scopes), Len(scopes') \in Nat,
         \A i \in 1..Len(scopes') : scopes'[i].screen = scopes[i].screen,
         screen_cache' = screen_cache,
         \A o \in Objects : o \in Refers(scopes') => heap'[o].id = heap[o].id
  PROVE  NoneInv'
<1>1. scopes \in Seq(Scope) /\ Len(scopes) \in Nat
  BY DEF TypeOK
<1>2. \A i \in 1..Len(scopes') :
         /\ i \in 1..Len(scopes) /\ scopes[i] \in Scope
         /\ scopes'[i].screen # Null =>
              scopes'[i].screen \in Objects /\ scopes'[i].screen \in Refers(scopes')
  <2> SUFFICES ASSUME NEW i \in 1..Len(scopes')
               PROVE  /\ i \in 1..Len(scopes) /\ scopes[i] \in Scope
                      /\ scopes'[i].screen # Null =>
                           scopes'[i].screen \in Objects /\ scopes'[i].screen \in Refers(scopes')
    OBVIOUS
  <2>1. i \in 1..Len(scopes) /\ scopes[i] \in Scope
    BY <1>1
  <2>2. scopes'[i].screen \in Objects \cup {Null}
    BY <2>1 DEF Scope
  <2> QED BY <2>1, <2>2 DEF Refers
<1>3. \A s \in ScreenIds : screen_cache[s] # Null =>
         screen_cache[s] \in Objects /\ screen_cache[s] \in Refers(scopes')
  BY DEF TypeOK, Refers
<1>4. Refused => Refused'
  BY DEF Refused, NoTarget, Target
<1> QED BY <1>1, <1>2, <1>3, <1>4 DEF NoneInv

\* A pushed screen has an ID.
LEMMA PushedHasId ==
  ASSUME TypeOK, NoneInv, UNCHANGED <<doc, fastpath>>,
         NEW node \in Nodes \cup {Null}, PushAndPrepare(node)
  PROVE  NoneInv'
<1>0. Refused => Refused'
  BY DEF Refused, NoTarget, Target
<1>1. /\ scopes \in Seq(Scope) /\ Len(scopes) \in Nat
      /\ Len(scopes') = Len(scopes) + 1
      /\ \A i \in 1..Len(scopes) : scopes'[i] = scopes[i]
  BY PushFacts DEF TypeOK
<1>2. \A i \in 1..Len(scopes') : i \in 1..Len(scopes) \/ i = Len(scopes')
  BY <1>1
<1>3. CASE node = Null
  <2>1. /\ scopes' = Append(scopes, [node |-> Null, screen |-> Null, symbols |-> NoSymbols])
        /\ UNCHANGED <<screen_cache, heap>>
    BY <1>3 DEF PushAndPrepare
  <2>2. scopes'[Len(scopes')].screen = Null
    BY <1>1, <2>1
  <2> QED BY <1>0, <1>1, <1>2, <2>1, <2>2 DEF NoneInv
<1>4. CASE node # Null
  <2> DEFINE id == doc.name[node]
             o  == Loaded(id)
  <2>1. id \in ScreenIds /\ id # Null
    BY <1>4, DocFacts, NullAssumption DEF Description
  <2>2. /\ ScreenLoad(id, node)
        /\ scopes' = Append(scopes, [node |-> node, screen |-> o, symbols |-> NoSymbols])
    BY <1>4 DEF PushAndPrepare
  <2> HIDE DEF id
  <2>3. /\ o \in Objects /\ o # Null
        /\ ~Cached(id) => heap'[o].id = id
        /\ Cached(id) => o = screen_cache[id]
        /\ \A p \in Objects : Kept(p) => heap'[p].id = heap[p].id
        /\ \A s \in ScreenIds : screen_cache'[s] \in {screen_cache[s], o}
    BY <2>1, <2>2, LoadedFacts
  <2>4. \A s \in ScreenIds : screen_cache[s] # Null => Kept(screen_cache[s])
    BY DEF TypeOK, Kept, Refers
  <2>5. \A i \in 1..Len(scopes) : scopes[i].screen # Null => Kept(scopes[i].screen)
    <3>1. \A i \in 1..Len(scopes) : scopes[i] \in Scope
      BY <1>1
    <3> QED BY <3>1 DEF Kept, Refers, Scope
  <2>6. heap'[o].id # Null
    BY <2>1, <2>3, <2>4 DEF NoneInv, Cached
  <2>7. \A s \in ScreenIds : screen_cache'[s] # Null => heap'[screen_cache'[s]].id # Null
    BY <2>3, <2>4, <2>6 DEF NoneInv, Kept
  <2>8. scopes'[Len(scopes')].screen = o
    BY <1>1, <2>2
  <2>9. \A i \in 1..Len(scopes') :
           scopes'[i].screen # Null /\ heap'[scopes'[i].screen].id = Null => i = 1 /\ Refused'
    BY <1>0, <1>1, <1>2, <2>3, <2>5, <2>6, <2>8 DEF NoneInv, Kept
  <2> QED BY <2>7, <2>9 DEF NoneInv
<1> QED BY <1>3, <1>4

LEMMA NextNoneInv == IInv /\ PassedInv /\ NoneInv /\ [Next]_vars => NoneInv'
<1> SUFFICES ASSUME IInv, PassedInv, NoneInv, [Next]_vars PROVE NoneInv'
  OBVIOUS
<1>0. TypeOK /\ scopes \in Seq(Scope) /\ Len(scopes) \in Nat
  BY DEF IInv, TypeOK
<1>1. CASE Quiet
  BY <1>0, <1>1, FewerReferences DEF Quiet, context, screens
<1>2. CASE Starts
  BY <1>0, <1>2 DEF Starts, screens, NoneInv
<1>3. CASE Puts
  <2>1. PICK table \in Tables : SymbolsPut(table)
    BY <1>3 DEF Puts
  <2>2. /\ Len(scopes') = Len(scopes)
        /\ \A i \in 1..Len(scopes) : scopes'[i].screen = scopes[i].screen
    BY <1>0, <1>3, <2>1, SymbolsPutFacts DEF Puts
  <2> QED BY <1>0, <1>3, <2>2, FewerReferences DEF Puts, context, screens
<1>4. CASE Pops
  <2>1. /\ Len(Popped) <= Len(scopes) /\ Len(Popped) \in Nat
        /\ \A i \in 1..Len(Popped) : Popped[i] = scopes[i]
    BY <1>0, <1>4, PoppedFacts DEF Pops
  <2> QED BY <1>0, <1>4, <2>1, FewerReferences DEF Pops, context
<1>5. CASE Terminate
  BY <1>5 DEF Terminate, NoneInv
<1>6. CASE FirstScreen
  BY <1>0, <1>6, PushedHasId DEF FirstScreen, context, TypeOK
<1>7. CASE ForwardArrive
  BY <1>0, <1>7, PushedHasId DEF ForwardArrive, ForwardReturn, context, TypeOK
<1>8. CASE NoFirstScreen
  <2>1. Refused /\ UNCHANGED <<doc, fastpath>>
    BY <1>8 DEF NoFirstScreen, PassedInv, Refused, context
  <2>2. Refused'
    BY <2>1 DEF Refused, NoTarget, Target
  <2>3. Fresh \in Free
    BY <1>8 DEF NoFirstScreen, Fresh
  <2>4. \A s \in ScreenIds : screen_cache[s] # Fresh
    BY <2>3 DEF Free, Refers
  <2>5. /\ screen_cache' = screen_cache /\ Len(scopes') = 1
        /\ heap' = [heap EXCEPT ![Fresh] = NoScreen]
    BY <1>8 DEF NoFirstScreen
  <2>6. \A s \in ScreenIds : screen_cache[s] # Null => heap'[screen_cache[s]] = heap[screen_cache[s]]
    BY <1>0, <2>4, <2>5 DEF TypeOK
  <2> QED BY <2>2, <2>5, <2>6 DEF NoneInv
<1> QED
  BY <1>1, <1>2, <1>3, <1>4, <1>5, <1>6, <1>7, <1>8, StackSteps

LEMMA StartsInvariant == Spec => [](IInv /\ PassedInv /\ NoneInv)
<1>1. Init => PassedInv /\ NoneInv
  BY DEF Init, PassedInv, NoneInv
<1> QED BY <1>1, NextPassedInv, NextNoneInv, NextIInv, InitIInv, PTL DEF Spec

\* A fastpath is refused only if no screen of that ID is open to it: the
\* search, although it leaves closed branches out and climbs over several
\* levels at once, visits every element that it may stop at.
THEOREM FastpathIsComplete == Spec => []FastpathComplete
<1>1. IInv /\ NoneInv => FastpathComplete
  <2> SUFFICES ASSUME IInv, NoneInv, pc = "idle", TopType = "NONE" PROVE NoTarget
    BY DEF FastpathComplete, NoTarget, Target
  <2>1. scopes # <<>> /\ scopes \in Seq(Scope)
    BY DEF IInv, StackInv, Booting, TypeOK
  <2>2. Len(scopes) \in 1..Len(scopes)
    BY <2>1
  <2>3. Top.screen # Null /\ heap[Top.screen].id = Null
    <3>1. doc.type \in [ScreenIds -> ScreenTypes] /\ heap \in [Objects -> Screen]
      BY DocFacts DEF IInv, TypeOK, Description
    <3>2. Top \in Scope
      BY <2>1, <2>2 DEF Top
    <3>3. Top.screen # Null => heap[Top.screen].id \in ScreenIds \cup {Null}
      BY <3>1, <3>2 DEF Scope, Screen
    <3> QED BY <3>1, <3>3 DEF TopType, TypeOf, ScreenTypes
  <2> QED BY <2>2, <2>3 DEF NoneInv, Refused, Top
<1> QED BY <1>1, StartsInvariant, PTL

-----------------------------------------------------------------------------
(* The elements of the scopes and what they show.                          *)

\* Every scope that has an element has one that names a screen.
ScreenNodes == \A i \in 1..Len(scopes) :
                  scopes[i].node # Null => doc.kind[scopes[i].node] \in MenuKinds

LEMMA RootNamesScreen ==
  ASSUME TypeOK, FastpathSound, path_root # Null
  PROVE  doc.kind[path_root] \in {"MENU", "DIALOG"}
  BY DocFacts DEF FastpathSound, MayDescend, PathGrammar

LEMMA NextScreenNodes == IInv /\ ScreenNodes /\ [Next]_vars => ScreenNodes'
<1> SUFFICES ASSUME IInv, ScreenNodes, [Next]_vars PROVE ScreenNodes'
  OBVIOUS
<1>0. TypeOK /\ scopes \in Seq(Scope) /\ Len(scopes) \in Nat
  BY DEF IInv, TypeOK
<1>1. CASE Quiet \/ Starts \/ Terminate
  BY <1>1 DEF Quiet, Starts, Terminate, context, ScreenNodes
<1>2. CASE Puts
  BY <1>0, <1>2, SymbolsPutFacts DEF Puts, context, ScreenNodes
<1>3. CASE Pops
  <2>1. /\ Len(Popped) <= Len(scopes) /\ Len(Popped) \in Nat
        /\ \A i \in 1..Len(Popped) : Popped[i] = scopes[i]
    BY <1>0, <1>3, PoppedFacts DEF Pops
  <2> QED BY <1>0, <1>3, <2>1 DEF Pops, context, ScreenNodes
<1>4. ASSUME NEW node \in Nodes \cup {Null}, PushAndPrepare(node), doc' = doc,
             node # Null => doc.kind[node] \in MenuKinds
      PROVE  ScreenNodes'
  <2>1. /\ Len(scopes') = Len(scopes) + 1
        /\ \A i \in 1..Len(scopes) : scopes'[i] = scopes[i]
        /\ scopes'[Len(scopes')].node = node
    BY <1>0, <1>4, PushFacts
  <2>2. \A i \in 1..Len(scopes') : i \in 1..Len(scopes) \/ i = Len(scopes')
    BY <1>0, <2>1
  <2> QED BY <1>4, <2>1, <2>2 DEF ScreenNodes
<1>5. pc \in {"found", "fastpath"} => path_root \in Nodes /\ doc.kind[path_root] \in MenuKinds
  BY <1>0, RootNamesScreen DEF IInv, SearchInv, TypeOK, MenuKinds
<1>6. CASE FirstScreen
  BY <1>4, <1>5, <1>6 DEF FirstScreen, context
<1>7. CASE NoFirstScreen
  <2>1. scopes' = <<[node |-> path_root, screen |-> Fresh, symbols |-> NoSymbols]>>
        /\ doc' = doc
    BY <1>7 DEF NoFirstScreen, context
  <2> QED BY <1>5, <1>7, <2>1 DEF NoFirstScreen, ScreenNodes
<1>8. CASE ForwardArrive
  <2>1. cur \in Nodes \cup {Null} /\ PushAndPrepare(cur) /\ doc' = doc
    BY <1>0, <1>8 DEF ForwardArrive, ForwardReturn, context, TypeOK
  <2>2. cur # Null => doc.kind[cur] \in MenuKinds
    BY <1>8 DEF ForwardArrive, Arrives, MenuKinds
  <2> QED BY <1>4, <2>1, <2>2
<1> QED BY <1>1, <1>2, <1>3, <1>6, <1>7, <1>8, StackSteps

\* The type of the current screen is the kind of the current element.
LEMMA TopTypeIsKind ==
  ASSUME IInv, CacheInv, ScreenNodes, scopes # <<>>, TopType \notin {"NULL", "NONE"}
  PROVE  Top.node \in Nodes /\ TopType = doc.kind[Top.node]
<1>1. TypeOK /\ scopes \in Seq(Scope) /\ Len(scopes) \in 1..Len(scopes) /\ Shape
  BY DEF IInv, TypeOK, StackInv, Shape
<1>2. Top \in Scope /\ Top.screen # Null /\ heap[Top.screen].id # Null
  BY <1>1 DEF Top, TopType, TypeOf
<1>3. Top.node # Null /\ Top.node \in Nodes
  BY <1>1, <1>2 DEF Top, Shape, Scope
<1>4. heap[Top.screen].id = doc.name[Top.node]
  BY <1>1, <1>2, <1>3 DEF CacheInv, Top, IdOf
<1>5. doc.kind[Top.node] \in MenuKinds
  BY <1>1, <1>3 DEF ScreenNodes, Top
<1>6. doc.type[doc.name[Top.node]] = doc.kind[Top.node]
  BY <1>1, <1>3, <1>5, DocFacts DEF KindMatchesType
<1> QED BY <1>2, <1>3, <1>4, <1>6 DEF TopType, TypeOf

-----------------------------------------------------------------------------
(* The choices of a menu lead on.                                          *)

\* The stack does not end in a dead end behind a menu.
NoDeadMenu == scopes # <<>> /\ Top.node = Null =>
                 doc.kind[scopes[Len(scopes) - 1].node] # "MENU"

\* A walk that a choice began has the chosen element still before it.
ChoiceInv ==
    /\ pc \in {"idle", "dump"} => NoDeadMenu
    /\ pc = "forward" /\ ret = "idle" /\ doc.kind[Top.node] = "MENU" =>
          /\ next_id # Null /\ cur # Null /\ doc.parent[cur] = Top.node
          /\ \E m \in Nodes : /\ doc.parent[m] = Top.node
                              /\ doc.kind[m] \in MenuKinds /\ doc.name[m] = next_id
                              /\ doc.pos[cur] <= doc.pos[m]

\* What comes after a child, among its siblings, is its next sibling or later.
LEMMA LaterSibling ==
  ASSUME TypeOK, NEW n \in Nodes, NEW m \in Nodes, doc.parent[n] # Null,
         doc.parent[m] = doc.parent[n], doc.pos[n] < doc.pos[m]
  PROVE  /\ doc.next[n] \in Nodes /\ doc.next[n] # Null
         /\ doc.parent[doc.next[n]] = doc.parent[n]
         /\ doc.pos[doc.next[n]] <= doc.pos[m]
<1> DEFINE up == doc.parent[n]
<1>1. doc \in Description /\ DocumentOrder(doc) /\ TreeLinks(doc)
  BY DocFacts
<1>2. /\ doc.pos \in [Nodes -> Nat] /\ doc.last \in [Nodes -> Nat] /\ up \in Nodes
      /\ doc.next[n] \in Nodes \cup {Null}
  BY <1>1 DEF Description
<1>3. Beneath(doc, n, up) /\ Beneath(doc, m, up)
  BY <1>1, <1>2 DEF DocumentOrder
<1>4. ~Beneath(doc, m, n)
  <2>1. ~Beneath(doc, up, n) /\ up # n
    BY <1>2, <1>3 DEF Beneath
  <2> QED BY <1>1, <2>1 DEF DocumentOrder
<1>5. doc.last[n] < doc.pos[m]
  BY <1>2, <1>4 DEF Beneath
<1>6. doc.next[n] # Null
  <2>1. doc.pos[m] <= doc.last[up]
    BY <1>3 DEF Beneath
  <2>2. doc.next[n] = Null => doc.last[n] = doc.last[up]
    BY <1>1 DEF DocumentOrder
  <2> QED BY <1>2, <1>5, <2>1, <2>2
<1>7. doc.pos[doc.next[n]] = doc.last[n] + 1
  BY <1>1, <1>6 DEF DocumentOrder
<1>8. doc.pos[doc.next[n]] <= doc.pos[m]
  BY <1>2, <1>5, <1>7
<1> QED BY <1>1, <1>2, <1>6, <1>8 DEF TreeLinks

\* An element with children has a first one, before all others.
LEMMA FirstChild ==
  ASSUME TypeOK, NEW n \in Nodes, NEW m \in Nodes, doc.parent[m] = n
  PROVE  /\ doc.child[n] \in Nodes /\ doc.child[n] # Null
         /\ doc.parent[doc.child[n]] = n
         /\ doc.pos[doc.child[n]] <= doc.pos[m]
<1>1. doc \in Description /\ DocumentOrder(doc) /\ TreeLinks(doc)
  BY DocFacts
<1>2. /\ doc.pos \in [Nodes -> Nat] /\ doc.last \in [Nodes -> Nat]
      /\ doc.child[n] \in Nodes \cup {Null}
  BY <1>1 DEF Description
<1>3. Beneath(doc, m, n)
  BY <1>1, NullAssumption DEF DocumentOrder
<1>4. doc.child[n] # Null
  BY <1>1, <1>2, <1>3 DEF DocumentOrder, Beneath
<1>5. doc.pos[doc.child[n]] = doc.pos[n] + 1
  BY <1>1, <1>4 DEF DocumentOrder
<1>6. doc.pos[doc.child[n]] <= doc.pos[m]
  BY <1>2, <1>3, <1>5 DEF Beneath
<1> QED BY <1>1, <1>2, <1>4, <1>6 DEF TreeLinks

\* A choice is made.
LEMMA ChoiceBegins ==
  ASSUME IInv, CacheInv, ScreenNodes, MenuInv, NEW id \in ScreenIds, MenuNext(id)
  PROVE  ChoiceInv'
<1>1. /\ TypeOK /\ scopes # <<>> /\ pc = "idle" /\ TopType = "MENU"
      /\ id \in heap[Top.screen].items /\ UNCHANGED <<doc, scopes>>
      /\ StartForward(id, "idle")
  BY DEF MenuNext, IInv, StackInv, Booting, context
<1>2. Top.node \in Nodes /\ doc.kind[Top.node] = "MENU"
  BY <1>1, TopTypeIsKind
<1>3. id \in ChoicesOf(Top.node)
  BY <1>1 DEF MenuInv, MenuFits, Settled
<1>4. PICK m \in Nodes : /\ doc.parent[m] = Top.node
                         /\ doc.kind[m] \in MenuKinds /\ doc.name[m] = id
  BY <1>3 DEF ChoicesOf
<1>5. /\ cur' = doc.child[Top.node] /\ next_id' = id /\ pc' = "forward"
      /\ id # Null
  BY <1>1, <1>2, NullAssumption DEF StartForward
<1>6. Top' = Top
  BY <1>1 DEF Top
<1>7. /\ cur' # Null /\ doc.parent[cur'] = Top.node /\ doc.pos[cur'] <= doc.pos[m]
  BY <1>1, <1>2, <1>4, <1>5, FirstChild
<1>8. pc' \notin {"idle", "dump"} /\ next_id' # Null
  BY <1>5
<1> QED BY <1>1, <1>4, <1>5, <1>6, <1>7, <1>8 DEF ChoiceInv

\* One turn of its walk.
LEMMA ChoiceGoesOn ==
  ASSUME IInv, ChoiceInv, ForwardBranch
  PROVE  ChoiceInv'
<1>1. /\ TypeOK /\ cur \in Nodes /\ ~Arrives(cur) /\ pc = "forward" /\ pc' = "forward"
      /\ UNCHANGED <<doc, scopes, ret, next_id>>
  BY DEF ForwardBranch, IInv, TypeOK, context
<1>2. Top' = Top
  BY <1>1 DEF Top
<1>3. SUFFICES ASSUME ret = "idle", doc.kind[Top.node] = "MENU" PROVE ChoiceInv'
  BY <1>1, <1>2 DEF ChoiceInv
<1>4. /\ next_id # Null /\ cur # Null /\ doc.parent[cur] = Top.node /\ Top.node # Null
  BY <1>1, <1>3 DEF ChoiceInv, IInv, WalkInv
<1>5. PICK m \in Nodes : /\ doc.parent[m] = Top.node
                         /\ doc.kind[m] \in MenuKinds /\ doc.name[m] = next_id
                         /\ doc.pos[cur] <= doc.pos[m]
  BY <1>1, <1>3 DEF ChoiceInv
<1>6. m # cur
  BY <1>1, <1>4, <1>5 DEF Arrives
<1>7. doc.pos[cur] < doc.pos[m]
  <2>1. doc \in Description /\ DocumentOrder(doc)
    BY <1>1, DocFacts
  <2>2. doc.pos[cur] \in Nat /\ doc.pos[m] \in Nat /\ doc.pos[cur] # doc.pos[m]
    BY <1>1, <1>6, <2>1 DEF DocumentOrder, Description
  <2> QED BY <1>5, <2>2
<1>8. cur' = doc.next[cur]
  BY <1>4 DEF ForwardBranch
<1>9. /\ cur' # Null /\ doc.parent[cur'] = Top.node /\ doc.pos[cur'] <= doc.pos[m]
  BY <1>1, <1>4, <1>5, <1>7, <1>8, LaterSibling
<1>10. pc' \notin {"idle", "dump"} /\ next_id' # Null
  BY <1>1, <1>4
<1> QED BY <1>1, <1>2, <1>5, <1>9, <1>10 DEF ChoiceInv

\* A step back, and the first screen, end on an element.
LEMMA BackOnElement ==
  ASSUME IInv, Pops
  PROVE  scopes' # <<>> /\ Top'.node # Null
<1>1. /\ TypeOK /\ scopes \in Seq(Scope) /\ Len(scopes) \in Nat /\ Len(scopes) > 0
      /\ scopes' = Popped /\ ScopesFormPath /\ path_root # Null
  BY DEF IInv, TypeOK, Pops, SearchInv
<1>2. scopes' \in Seq(Scope) /\ scopes' # <<>>
  BY <1>1, PoppedFacts
<1>3. CASE IsInitial
  <2>1. scopes' = scopes /\ Len(scopes) = 1
    BY <1>1, <1>3 DEF Popped, IsInitial
  <2>2. scopes[1].node = path_root
    BY <1>1 DEF ScopesFormPath
  <2> QED BY <1>1, <1>2, <2>1, <2>2 DEF Top
<1>4. CASE ~IsInitial
  <2>1. Len(scopes) # 1 /\ Len(scopes) \in Nat /\ Len(scopes) > 0
    BY <1>1, <1>4 DEF IsInitial
  <2>2. Len(scopes) \in 2..Len(scopes) /\ Len(scopes) - 1 \in 1..Len(scopes)
    BY <2>1
  <2>3. scopes' = SubSeq(scopes, 1, Len(scopes) - 1)
    BY <1>1, <1>4 DEF Popped
  <2>4. /\ Len(scopes') = Len(scopes) - 1
        /\ scopes'[Len(scopes) - 1] = scopes[Len(scopes) - 1]
    BY <1>1, <2>2, <2>3
  <2>5. scopes[Len(scopes) - 1].node # Null
    BY <1>1, <2>2 DEF ScopesFormPath
  <2> QED BY <1>2, <2>4, <2>5 DEF Top
<1> QED BY <1>3, <1>4

LEMMA NextChoiceInv ==
  IInv /\ CacheInv /\ ScreenNodes /\ MenuInv /\ ToggleInv /\ ChoiceInv /\ [Next]_vars
      => ChoiceInv'
<1> SUFFICES ASSUME IInv, CacheInv, ScreenNodes, MenuInv, ToggleInv, ChoiceInv,
                    [Next]_vars
             PROVE  ChoiceInv'
  OBVIOUS
<1>0. TypeOK /\ scopes \in Seq(Scope) /\ Len(scopes) \in Nat
      /\ (pc \notin Booting => scopes # <<>>)
  BY DEF IInv, TypeOK, StackInv
<1>1. ASSUME NEW id \in ScreenIds, MenuNext(id) PROVE ChoiceInv'
  BY <1>1, ChoiceBegins
<1>2. CASE ForwardBranch
  BY <1>2, ChoiceGoesOn
<1>3. CASE DialogNext \/ HiddenNext
  <2>1. doc.kind[Top.node] # "MENU"
    BY <1>0, <1>3, TopTypeIsKind DEF DialogNext, HiddenNext, Booting
  <2>2. pc' = "forward" /\ UNCHANGED <<doc, scopes>>
    BY <1>3 DEF DialogNext, HiddenNext, StartForward, context
  <2> QED BY <2>1, <2>2 DEF ChoiceInv, Top
<1>4. CASE pc \in {"idle", "dump"} /\ Quiet /\ pc' # "forward"
  BY <1>4 DEF ChoiceInv, NoDeadMenu, Quiet, Top, context
<1>5. CASE pc = "idle" /\ pc' = "idle" /\ Puts
  <2>1. /\ Len(scopes') = Len(scopes)
        /\ \A i \in 1..Len(scopes) : scopes'[i].node = scopes[i].node
    BY <1>0, <1>5, SymbolsPutFacts DEF Puts
  <2>2. NoDeadMenu'
    <3> SUFFICES ASSUME scopes' # <<>>, Top'.node = Null
                 PROVE  doc'.kind[scopes'[Len(scopes') - 1].node] # "MENU"
      BY DEF NoDeadMenu
    <3>1. Top.node = Null /\ Len(scopes) \in 1..Len(scopes) /\ NoDeadMenu
      BY <1>0, <1>5, <2>1 DEF Top, ChoiceInv, Puts
    <3>2. Len(scopes) # 1
      BY <3>1 DEF IInv, ScopesFormPath, Top, SearchInv, Puts, StackInv, Booting
    <3>3. scopes'[Len(scopes) - 1].node = scopes[Len(scopes) - 1].node
      BY <2>1, <3>1, <3>2
    <3> QED BY <1>5, <2>1, <3>1, <3>3 DEF NoDeadMenu, Puts, context
  <2> QED BY <1>5, <2>2 DEF ChoiceInv
<1>6. CASE Travel
  <2>1. CASE pc' = "idle"
    <3>1. SymbolsPut(Head(todo).symbols) /\ Puts
      BY <1>6, PutSteps DEF Travel
    <3>2. PICK table \in Tables : SymbolsPut(table)
      BY <3>1 DEF Puts
    <3>3. Top'.node = Top.node /\ Top.node # Null
      BY <1>0, <1>6, <3>1, <3>2, PathAfterPut DEF IInv, ReplayInv, Travel, Puts, StackInv, Shape
    <3> QED BY <2>1, <3>3 DEF ChoiceInv, NoDeadMenu
  <2>2. CASE pc' # "idle"
    <3>1. pc' = "revert" \/ (pc' = "forward" /\ ret' = "arrived")
      BY <1>6, <2>2 DEF Travel, StartForward
    <3> QED BY <3>1 DEF ChoiceInv
  <2> QED BY <2>1, <2>2
<1>7. CASE Pops
  <2>1. pc' # "forward"
    BY <1>7 DEF Pops, Next, vars, LibraryStep, FrontEndCall, FastpathVisit, FastpathClimb,
       FirstScreen, NoFirstScreen,
       ForwardArrive, ForwardBranch, PopHidden, PopVisible, DumpState, ContextInit,
       Travel, TravelArrived, Revert, MenuNext, DialogNext,
       HiddenNext, FieldStored, InitcommandComplete, InitcommandFailed, Previous,
       SaveState, LoadState, LoadStatePush, ParseStateChunk,
       ParseStateChunkFails, Terminate, ToggleInv
  <2> QED BY <1>7, <2>1, BackOnElement DEF ChoiceInv, NoDeadMenu
<1>8. CASE FirstScreen \/ NoFirstScreen
  <2>1. Top'.node = path_root /\ path_root # Null /\ pc' = "idle"
    <3>1. pc' = "idle" /\ path_root \in Nodes /\ path_root # Null
      BY <1>0, <1>8 DEF FirstScreen, NoFirstScreen, IInv, SearchInv, TypeOK
    <3>2. CASE FirstScreen
      BY <1>0, <3>1, <3>2, PushFacts DEF FirstScreen, Top
    <3>3. CASE NoFirstScreen
      BY <3>1, <3>3 DEF NoFirstScreen, Top
    <3> QED BY <1>8, <3>1, <3>2, <3>3
  <2> QED BY <2>1 DEF ChoiceInv, NoDeadMenu
<1>9. CASE ForwardArrive
  <2>1. /\ pc' = ret /\ ret \in {"idle", "arrived"} /\ cur \in Nodes \cup {Null}
        /\ PushAndPrepare(cur) /\ doc' = doc /\ scopes # <<>>
    BY <1>0, <1>9 DEF ForwardArrive, ForwardReturn, ToggleInv, TypeOK, context, Booting
  <2>2. /\ Len(scopes') = Len(scopes) + 1 /\ Len(scopes) \in 1..Len(scopes)
        /\ \A i \in 1..Len(scopes) : scopes'[i] = scopes[i]
        /\ scopes'[Len(scopes')].node = cur
    BY <1>0, <2>1, PushFacts
  <2>3. CASE ret = "idle" /\ cur = Null
    <3>1. doc.kind[Top.node] # "MENU"
      BY <1>9, <2>3 DEF ChoiceInv, ForwardArrive
    <3>2. scopes'[Len(scopes') - 1] = Top
      BY <1>0, <2>2 DEF Top
    <3> QED BY <2>1, <2>3, <3>1, <3>2 DEF ChoiceInv, NoDeadMenu
  <2>4. CASE ret # "idle" \/ cur # Null
    BY <2>1, <2>2, <2>4 DEF ChoiceInv, NoDeadMenu, Top
  <2> QED BY <2>3, <2>4
<1>10. CASE Terminate
  BY <1>10 DEF Terminate, ChoiceInv
<1>11. CASE UNCHANGED vars
  BY <1>11 DEF vars, ChoiceInv, NoDeadMenu, Top
<1>12. CASE \E d \in Descriptions, f \in ScreenIds \cup {Null} : ContextInit(d, f)
  BY <1>12 DEF ContextInit, ChoiceInv
<1>13. CASE \/ FastpathVisit \/ FastpathClimb \/ TravelArrived
  BY <1>13 DEF FastpathVisit, FastpathClimb, TravelArrived, ChoiceInv
<1>14. CASE Revert
  <2>1. CASE IsInitial
    <3>1. scopes[1].node = path_root /\ path_root # Null
      BY <1>0, <1>14 DEF Revert, Booting, IInv, ScopesFormPath, SearchInv
    <3> QED BY <1>14, <2>1, <3>1 DEF Revert, IsInitial, ChoiceInv, NoDeadMenu, Top
  <2>2. CASE ~IsInitial
    BY <1>14, <2>2 DEF Revert, StartPrevious, ChoiceInv
  <2> QED BY <2>1, <2>2
<1>15. CASE PopHidden \/ PopVisible
  BY <1>7, <1>15, PopSteps
<1>16. CASE DumpState \/ InitcommandFailed \/ Previous
             \/ SaveState \/ LoadState \/ LoadStatePush
             \/ ParseStateChunk \/ ParseStateChunkFails
  <2>1. pc \in {"idle", "dump"} /\ Quiet /\ pc' # "forward"
    BY <1>16 DEF DumpState, InitcommandFailed, Previous, SaveState, LoadState,
       LoadStatePush, ParseStateChunk, ParseStateChunkFails, PrepareState,
       StartPrevious, Quiet
  <2> QED BY <1>4, <2>1
<1>17. CASE \/ \E sym \in Symbols, val \in Values : FieldStored(sym, val)
            \/ \E table \in Tables : InitcommandComplete(table)
  <2>1. pc = "idle" /\ pc' = "idle"
    BY <1>17 DEF FieldStored, InitcommandComplete
  <2> QED BY <1>5, <1>17, <2>1, PutSteps
<1> QED
  BY <1>1, <1>2, <1>3, <1>6, <1>8, <1>9, <1>10, <1>11, <1>12, <1>13, <1>14, <1>15,
     <1>16, <1>17 DEF Next, LibraryStep, FrontEndCall

LEMMA ChoicesInvariant ==
  ASSUME \A d \in Descriptions : TitlesApart(d)
  PROVE  Spec => [](IInv /\ CacheInv /\ ScreenNodes /\ MenuInv /\ ToggleInv /\ ChoiceInv)
<1>1. Init => CacheInv /\ ScreenNodes /\ ChoiceInv
  BY DEF Init, CacheInv, ScreenNodes, ChoiceInv
<1>2. IInv /\ CacheInv /\ [Next]_vars => CacheInv'
  BY NextCacheInv
<1> QED BY <1>1, <1>2, NextScreenNodes, NextChoiceInv, ScreensInvariant, PTL DEF Spec

\* A choice offered by a menu always leads to a screen: a walk that begins
\* with a choice cannot run past the element it was offered for.  A screen
\* filed under another one's ID could put a dialog where a menu belongs,
\* and then it could: hence the hypothesis.
THEOREM EveryChoiceLeads ==
  ASSUME \A d \in Descriptions : TitlesApart(d)
  PROVE  Spec => []ChoicesLead
<1>1. ChoiceInv => ChoicesLead
  BY DEF ChoiceInv, NoDeadMenu, ChoicesLead
<1> QED BY <1>1, ChoicesInvariant, PTL

-----------------------------------------------------------------------------
(* The trail that a user sees.  It is the stack without the scopes of      *)
(* hidden screens, and it changes as RastaTrail says.                      *)

Entry(scope) == [node |-> scope.node, symbols |-> scope.symbols]
Entries      == [node : Nodes \cup {Null}, symbols : Tables]
Shown(stack, places) ==
    LET seen == Sift(stack, places) IN [i \in 1..Len(seen) |-> Entry(seen[i])]
VisibleAt == {i \in 1..Len(scopes) : Visible(scopes[i])}

LEMMA TrailIsShown == VisibleTrail = Shown(scopes, VisibleAt)
  BY DEF VisibleTrail, Shown, VisibleAt, Entry

LEMMA ShownFacts ==
  ASSUME NEW s \in Seq(Scope), NEW V, NEW W, \A i \in 1..Len(s) : i \in V <=> i \in W
  PROVE  /\ Shown(s, V) = Shown(s, W)
         /\ Shown(s, V) \in Seq(Entries)
         /\ \A c \in 1..Len(s) : c \in V => Shown(s, V) # <<>>
<1>1. Sift(s, V) = Sift(s, W) /\ Sift(s, V) \in Seq(Scope)
  BY SiftSame
<1>2. PICK t \in Seq(Scope) : t = Sift(s, V)
  BY <1>1
<1>3. /\ \A i \in 1..Len(t) : Entry(t[i]) \in Entries
      /\ Shown(s, V) = [i \in 1..Len(t) |-> Entry(t[i])]
      /\ Len(t) \in Nat
  <2>1. ASSUME NEW i \in 1..Len(t) PROVE Entry(t[i]) \in Entries
    <3>1. t[i] \in Scope
      OBVIOUS
    <3> QED BY <3>1 DEF Entry, Entries, Scope
  <2> QED BY <1>2, <2>1 DEF Shown
<1>4. Shown(s, V) \in Seq(Entries) /\ Len(Shown(s, V)) = Len(t)
  BY <1>3
<1>5. ASSUME NEW c \in 1..Len(s), c \in V PROVE Shown(s, V) # <<>>
  <2>1. t # <<>>
    BY <1>2, <1>5, SiftNonEmpty
  <2>2. Len(t) # 0
    BY <2>1
  <2>3. Len(<<>>) = 0
    OBVIOUS
  <2> QED BY <1>4, <2>2, <2>3, Zenon
<1> QED BY <1>1, <1>4, <1>5 DEF Shown

LEMMA ShownAppend ==
  ASSUME NEW s \in Seq(Scope), NEW e \in Scope, NEW V, NEW W,
         \A i \in 1..Len(s) : i \in V <=> i \in W
  PROVE  Shown(Append(s, e), W) = IF Len(s) + 1 \in W THEN Append(Shown(s, V), Entry(e))
                                  ELSE Shown(s, V)
<1>1. Sift(Append(s, e), W) = IF Len(s) + 1 \in W THEN Append(Sift(s, V), e)
                              ELSE Sift(s, V)
  BY SiftAppend
<1>2. CASE Len(s) + 1 \notin W
  BY <1>1, <1>2 DEF Shown
<1>3. CASE Len(s) + 1 \in W
  <2>1. PICK t \in Seq(Scope) : t = Sift(s, V)
    BY SiftSame
  <2>2. PICK u \in Seq(Entries) : u = Shown(s, V)
    BY ShownFacts
  <2>3. u = [i \in 1..Len(t) |-> Entry(t[i])] /\ Len(t) \in Nat
    BY <2>1, <2>2 DEF Shown
  <2>4. Len(u) = Len(t) /\ \A i \in 1..Len(t) : u[i] = Entry(t[i])
    BY <2>3
  <2>5. PICK w \in Seq(Scope) : w = Append(t, e)
    <3>1. Append(t, e) \in Seq(Scope)
      OBVIOUS
    <3> QED BY <3>1
  <2>6. /\ Len(w) = Len(t) + 1 /\ w[Len(t) + 1] = e
        /\ \A i \in 1..Len(t) : w[i] = t[i]
    BY <2>5
  <2>7. Entry(e) \in Entries
    BY DEF Entry, Entries, Scope
  <2>8. /\ Append(u, Entry(e)) \in Seq(Entries)
        /\ Len(Append(u, Entry(e))) = Len(t) + 1
        /\ Append(u, Entry(e))[Len(t) + 1] = Entry(e)
        /\ \A i \in 1..Len(t) : Append(u, Entry(e))[i] = u[i]
    BY <2>4, <2>7
  <2>9. Shown(Append(s, e), W) = [i \in 1..(Len(t) + 1) |-> Entry(w[i])]
    BY <1>1, <1>3, <2>1, <2>5, <2>6 DEF Shown
  <2>10. \A i \in 1..(Len(t) + 1) : Append(u, Entry(e))[i] = Entry(w[i])
    <3> TAKE i \in 1..(Len(t) + 1)
    <3>1. i \in 1..Len(t) \/ i = Len(t) + 1
      BY <2>3
    <3> QED BY <2>4, <2>6, <2>8, <3>1
  <2>11. Append(u, Entry(e)) = [i \in 1..(Len(t) + 1) |-> Entry(w[i])]
    <3>1. \A q \in Seq(Entries) : q = [i \in 1..Len(q) |-> q[i]]
      OBVIOUS
    <3>2. Append(u, Entry(e)) = [i \in 1..(Len(t) + 1) |-> Append(u, Entry(e))[i]]
      BY <2>8, <3>1
    <3> QED BY <2>10, <3>2
  <2> QED BY <1>3, <2>2, <2>9, <2>11
<1> QED BY <1>2, <1>3

LEMMA ShownEmpty == \A V : Shown(<<>>, V) = <<>>
  BY SiftEmpty DEF Shown

\* A stack is what is below its last scope, and that scope.
LEMMA SplitLast ==
  ASSUME NEW s \in Seq(Scope), s # <<>>
  PROVE  \E front \in Seq(Scope), top \in Scope :
            /\ s = Append(front, top) /\ top = s[Len(s)]
            /\ front = SubSeq(s, 1, Len(s) - 1) /\ Len(front) = Len(s) - 1
            /\ \A i \in 1..Len(front) : front[i] = s[i]
<1>1. Len(s) \in Nat /\ Len(s) # 0
  OBVIOUS
<1>2. PICK front \in Seq(Scope) : front = SubSeq(s, 1, Len(s) - 1)
  <2>1. SubSeq(s, 1, Len(s) - 1) \in Seq(Scope)
    BY <1>1
  <2> QED BY <2>1
<1>3. Len(front) = Len(s) - 1 /\ \A i \in 1..Len(front) : front[i] = s[i]
  <2>1. Len(s) - 1 \in Nat /\ Len(s) - 1 <= Len(s)
    BY <1>1
  <2>2. Len(front) = Len(s) - 1
    <3>1. CASE Len(s) = 1
      <4>1. front = SubSeq(s, 1, 0)
        BY <1>2, <3>1
      <4>2. front = <<>>
        BY <4>1
      <4> QED BY <3>1, <4>2
    <3>2. CASE Len(s) # 1
      <4>1. Len(s) \in Nat /\ Len(s) > 0 /\ Len(s) # 1
        BY <1>1, <3>2
      <4>2. Len(s) - 1 \in 1..Len(s)
        <5>1. \A n \in Nat : n > 0 /\ n # 1 => n - 1 \in 1..n
          OBVIOUS
        <5> QED BY <4>1, <5>1
      <4> QED BY <1>2, <4>2
    <3> QED BY <3>1, <3>2
  <2>3. ASSUME NEW i \in 1..Len(front) PROVE front[i] = s[i]
    BY <1>1, <1>2, <2>1, <2>2
  <2> QED BY <2>2, <2>3
<1>4. PICK top \in Scope : top = s[Len(s)]
  BY <1>1
<1>5. s = Append(front, top)
  BY <1>1, <1>3, <1>4
<1> QED BY <1>2, <1>3, <1>4, <1>5

\* A scope that stays on the stack stays what it is, and stays visible or
\* hidden, although its structure in the heap is shared with other scopes.
Stays == \A i \in 1..Len(scopes) :
            i <= Len(scopes') =>
               /\ scopes'[i].node = scopes[i].node
               /\ scopes'[i].screen = scopes[i].screen
               /\ Visible(scopes[i])' <=> Visible(scopes[i])

LEMMA ScreensStay ==
  ASSUME IInv, Quiet \/ Puts \/ Pops \/ ForwardArrive
  PROVE  Stays
<1>0. /\ TypeOK /\ scopes \in Seq(Scope) /\ Len(scopes) \in Nat /\ doc' = doc
      /\ \A i \in 1..Len(scopes) : scopes[i] \in Scope
  BY DEF IInv, TypeOK, Quiet, Puts, Pops, ForwardArrive, ForwardReturn, context
<1>1. /\ \A i \in 1..Len(scopes) : i <= Len(scopes') =>
            scopes'[i].node = scopes[i].node /\ scopes'[i].screen = scopes[i].screen
      /\ \A i \in 1..Len(scopes) : i <= Len(scopes') /\ scopes[i].screen # Null =>
            heap'[scopes[i].screen].id = heap[scopes[i].screen].id
  <2>1. CASE Quiet
    BY <2>1 DEF Quiet, screens
  <2>2. CASE Puts
    <3>1. PICK table \in Tables : SymbolsPut(table)
      BY <2>2 DEF Puts
    <3> QED BY <1>0, <2>2, <3>1, SymbolsPutFacts DEF Puts, screens
  <2>3. CASE Pops
    <3>1. /\ Len(Popped) <= Len(scopes) /\ Len(Popped) \in Nat
          /\ \A i \in 1..Len(Popped) : Popped[i] = scopes[i]
      BY <1>0, <2>3, PoppedFacts DEF Pops
    <3>2. \A i \in 1..Len(scopes) : i <= Len(Popped) =>
             i \in 1..Len(Popped) /\ scopes[i].screen \in Refers(Popped)
      BY <3>1 DEF Refers
    <3>3. \A i \in 1..Len(scopes) : scopes[i].screen # Null => scopes[i].screen \in Objects
      BY <1>0 DEF Scope
    <3> QED BY <2>3, <3>1, <3>2, <3>3 DEF Pops
  <2>4. CASE ForwardArrive
    <3>1. cur \in Nodes \cup {Null} /\ PushAndPrepare(cur)
      BY <1>0, <2>4 DEF ForwardArrive, ForwardReturn, TypeOK
    <3>2. \A i \in 1..Len(scopes) : scopes'[i] = scopes[i]
      BY <1>0, <3>1, PushFacts
    <3>3. CASE cur = Null
      BY <3>1, <3>2, <3>3 DEF PushAndPrepare
    <3>4. CASE cur # Null
      <4>1. doc.name[cur] \in ScreenIds /\ ScreenLoad(doc.name[cur], cur)
        BY <1>0, <3>1, <3>4, DocFacts DEF PushAndPrepare, Description
      <4>2. \A o \in Objects : Kept(o) => heap'[o].id = heap[o].id
        BY <1>0, <4>1, LoadedFacts
      <4>3. \A i \in 1..Len(scopes) : scopes[i].screen # Null => Kept(scopes[i].screen)
        BY <1>0 DEF Scope, Kept, Refers
      <4> QED BY <3>2, <4>2, <4>3 DEF Kept
    <3> QED BY <3>3, <3>4
  <2> QED BY <2>1, <2>2, <2>3, <2>4
<1> QED BY <1>0, <1>1 DEF Stays, Visible, TypeOf

\* The first screen of a session is visible: it is a menu, a dialog or, with
\* a refused fastpath, none, and nothing is cached yet when it is loaded.
FirstInv ==
    /\ scopes = <<>> => \A s \in ScreenIds : screen_cache[s] = Null
    /\ scopes # <<>> => Visible(scopes[1])

LEMMA FirstIsVisible ==
  ASSUME IInv, FirstInv, FirstScreen \/ NoFirstScreen
  PROVE  /\ scopes = <<>> /\ Len(scopes') = 1 /\ scopes' \in Seq(Scope)
         /\ scopes'[1].node = path_root /\ path_root \in Nodes
         /\ scopes'[1].symbols = NoSymbols
         /\ Visible(scopes[1])'
<1>1. /\ TypeOK /\ scopes = <<>> /\ path_root \in Nodes /\ path_root # Null /\ doc' = doc
      /\ FastpathSound /\ NoSymbols \in Tables
  BY DEF IInv, StackInv, SearchInv, TypeOK, Booting, FirstScreen, NoFirstScreen, context,
         NoSymbols, Tables, Unset
<1>2. CASE FirstScreen
  <2> DEFINE id == doc.name[path_root]
             o  == Loaded(id)
             e  == [node |-> path_root, screen |-> o, symbols |-> NoSymbols]
  <2>1. id \in ScreenIds /\ id # Null
    BY <1>1, DocFacts, NullAssumption DEF Description
  <2>2. ScreenLoad(id, path_root) /\ scopes' = Append(scopes, e)
    BY <1>1, <1>2 DEF FirstScreen, PushAndPrepare
  <2>3. ~Cached(id)
    BY <1>1, <2>1 DEF FirstInv, Cached
  <2>4. o \in Objects /\ o # Null /\ heap'[o].id = id
    <3> HIDE DEF id
    <3> QED BY <1>1, <2>1, <2>2, <2>3, LoadedFacts
  <2>5. scopes' = <<e>> /\ e \in Scope
    BY <1>1, <2>2, <2>4 DEF Scope
  <2>6. doc.type[id] \in {"MENU", "DIALOG"}
    BY <1>1, RootNamesScreen, DocFacts DEF KindMatchesType, MenuKinds
  <2>7. scopes'[1] = e /\ Len(scopes') = 1 /\ scopes' \in Seq(Scope)
    <3> HIDE DEF e
    <3> QED BY <2>5
  <2>8. scopes'[1].screen = o /\ scopes'[1].node = path_root /\ scopes'[1].symbols = NoSymbols
    BY <2>7
  <2> HIDE DEF id, o, e
  <2>9. Visible(scopes[1])'
    BY <1>1, <2>1, <2>4, <2>6, <2>8 DEF Visible, TypeOf
  <2> QED BY <1>1, <2>7, <2>8, <2>9
<1>3. CASE NoFirstScreen
  <2> DEFINE e == [node |-> path_root, screen |-> Fresh, symbols |-> NoSymbols]
  <2>1. Fresh \in Objects /\ Fresh # Null
    BY <1>3, ObjectsAssumption DEF NoFirstScreen, Fresh, Free
  <2>2. scopes' = <<e>> /\ e \in Scope /\ heap'[Fresh].id = Null
    BY <1>1, <1>3, <2>1 DEF NoFirstScreen, Scope, TypeOK, NoScreen
  <2>3. scopes'[1] = e /\ Len(scopes') = 1 /\ scopes' \in Seq(Scope)
    <3> HIDE DEF e
    <3> QED BY <2>2
  <2>4. scopes'[1].screen = Fresh
    BY <2>3
  <2> QED BY <1>1, <2>1, <2>2, <2>3, <2>4 DEF Visible, TypeOf
<1> QED BY <1>2, <1>3

LEMMA NextFirstInv == IInv /\ FirstInv /\ [Next]_vars => FirstInv'
<1> SUFFICES ASSUME IInv, FirstInv, [Next]_vars PROVE FirstInv'
  OBVIOUS
<1>0. TypeOK /\ scopes \in Seq(Scope) /\ Len(scopes) \in Nat
  BY DEF IInv, TypeOK
<1>1. CASE FirstScreen \/ NoFirstScreen
  <2>1. Len(<<>>) = 0
    OBVIOUS
  <2>2. scopes' # <<>> /\ Visible(scopes[1])'
    BY <1>1, <2>1, FirstIsVisible
  <2> QED BY <2>2 DEF FirstInv
<1>2. CASE Starts
  BY <1>2 DEF Starts, screens, FirstInv
<1>3. CASE Terminate
  BY <1>3 DEF Terminate, FirstInv
<1>4. CASE Quiet
  <2>1. scopes # <<>> => (Visible(scopes[1])' <=> Visible(scopes[1]))
    <3>1. Stays /\ scopes' = scopes
      BY <1>4, ScreensStay DEF Quiet
    <3>2. scopes # <<>> => 1 \in 1..Len(scopes) /\ 1 <= Len(scopes)
      BY <1>0
    <3> QED BY <3>1, <3>2 DEF Stays
  <2> QED BY <1>4, <2>1 DEF Quiet, screens, FirstInv
<1>5. CASE Puts \/ Pops \/ ForwardArrive
  <2>1. scopes # <<>> /\ scopes' # <<>> /\ scopes' \in Seq(Scope)
    <3>1. CASE Puts
      BY <1>0, <3>1, SymbolsPutFacts DEF Puts
    <3>2. CASE Pops
      BY <1>0, <3>2, PoppedFacts DEF Pops
    <3>3. CASE ForwardArrive
      <4>1. cur \in Nodes \cup {Null} /\ PushAndPrepare(cur) /\ scopes # <<>>
        BY <1>0, <3>3 DEF ForwardArrive, ForwardReturn, TypeOK, IInv, StackInv, Booting
      <4>2. scopes' \in Seq(Scope) /\ Len(scopes') = Len(scopes) + 1
        BY <1>0, <4>1, PushFacts
      <4> QED BY <1>0, <4>1, <4>2
    <3> QED BY <1>5, <3>1, <3>2, <3>3
  <2>2. 1 \in 1..Len(scopes) /\ 1 <= Len(scopes')
    BY <2>1
  <2>3. Visible(scopes[1])' <=> Visible(scopes[1])
    BY <1>5, <2>2, ScreensStay DEF Stays
  <2> QED BY <2>1, <2>3 DEF FirstInv
<1> QED BY <1>1, <1>2, <1>3, <1>4, <1>5, StackSteps

\* There is a trail from the first screen on.
LEMMA TrailNonEmpty ==
  ASSUME TypeOK, FirstInv, scopes # <<>>
  PROVE  VisibleTrail # <<>> /\ VisibleTrail \in Seq(Entries)
<1>1. scopes \in Seq(Scope) /\ 1 \in 1..Len(scopes) /\ 1 \in VisibleAt
  BY DEF TypeOK, FirstInv, VisibleAt
<1> QED BY <1>1, ShownFacts, TrailIsShown

\* The trail before and after a change of the last scope.
LEMMA TrailOfSplit ==
  ASSUME scopes \in Seq(Scope), NEW front \in Seq(Scope), NEW top \in Scope,
         scopes = Append(front, top), NEW V,
         \A i \in 1..Len(front) : i \in V <=> Visible(front[i])
  PROVE  VisibleTrail = IF Visible(top) THEN Append(Shown(front, V), Entry(top))
                        ELSE Shown(front, V)
<1>1. /\ Len(scopes) = Len(front) + 1 /\ scopes[Len(front) + 1] = top
      /\ \A i \in 1..Len(front) : scopes[i] = front[i]
      /\ Len(front) \in Nat
  OBVIOUS
<1>2. \A i \in 1..Len(front) : i \in V <=> i \in VisibleAt
  BY <1>1 DEF VisibleAt
<1>3. Len(front) + 1 \in VisibleAt <=> Visible(top)
  BY <1>1 DEF VisibleAt
<1> QED BY <1>2, <1>3, ShownAppend, TrailIsShown

\* A move forward adds a screen that is seen, or none.
LEMMA ForwardOnTrail ==
  ASSUME IInv, FirstInv, ForwardArrive
  PROVE  Trail!Forward \/ VisibleTrail' = VisibleTrail
<1>1. /\ TypeOK /\ scopes # <<>> /\ scopes \in Seq(Scope) /\ Len(scopes) \in Nat
      /\ cur \in Nodes \cup {Null} /\ PushAndPrepare(cur)
  BY DEF ForwardArrive, ForwardReturn, IInv, StackInv, Booting, TypeOK
<1>2. scopes' \in Seq(Scope) /\ Len(scopes') = Len(scopes) + 1
  BY <1>1, PushFacts
<1>3. PICK e \in Scope : scopes' = Append(scopes, e) /\ e.node = cur /\ e.symbols = NoSymbols
  <2>1. PICK e : scopes' = Append(scopes, e) /\ e.node = cur /\ e.symbols = NoSymbols
    BY <1>1 DEF PushAndPrepare
  <2>2. e = scopes'[Len(scopes')]
    BY <1>1, <1>2, <2>1
  <2>3. e \in Scope
    BY <1>1, <1>2, <2>2
  <2> QED BY <2>1, <2>3
<1>4. \A i \in 1..Len(scopes) : Visible(scopes[i])' <=> Visible(scopes[i])
  BY <1>1, <1>2, ScreensStay DEF Stays
<1>5. \A i \in 1..Len(scopes) : i \in VisibleAt' <=> i \in VisibleAt
  BY <1>1, <1>2, <1>4 DEF VisibleAt
<1>6. VisibleTrail' = Shown(Append(scopes, e), VisibleAt')
  BY <1>3, TrailIsShown DEF VisibleTrail, Shown, VisibleAt, Entry
<1>7. VisibleTrail' = IF Len(scopes) + 1 \in VisibleAt' THEN Append(VisibleTrail, Entry(e))
                      ELSE VisibleTrail
  BY <1>1, <1>5, <1>6, ShownAppend, TrailIsShown
<1>8. VisibleTrail # <<>>
  BY <1>1, TrailNonEmpty
<1>9. Entry(e) = [node |-> cur, symbols |-> Trail!Blank]
  BY <1>3 DEF Entry, Trail!Blank, NoSymbols, Unset
<1>10. CASE Len(scopes) + 1 \in VisibleAt'
  BY <1>1, <1>7, <1>8, <1>9, <1>10 DEF Trail!Forward
<1> QED BY <1>7, <1>10

\* The first screen begins the trail.
LEMMA FirstOnTrail ==
  ASSUME IInv, FirstInv, FirstScreen \/ NoFirstScreen
  PROVE  Trail!Start
<1>1. /\ scopes = <<>> /\ Len(scopes') = 1 /\ scopes' \in Seq(Scope)
      /\ scopes'[1].node = path_root /\ path_root \in Nodes
      /\ scopes'[1].symbols = NoSymbols
      /\ Visible(scopes[1])'
  BY FirstIsVisible
<1>2. VisibleTrail = <<>>
  BY <1>1, ShownEmpty, TrailIsShown
<1>3. PICK e \in Scope : scopes' = Append(<<>>, e) /\ e = scopes'[1]
  <2>1. scopes'[1] \in Scope /\ scopes' = <<scopes'[1]>>
    BY <1>1
  <2>2. scopes' = Append(<<>>, scopes'[1])
    BY <2>1
  <2> QED BY <2>1, <2>2
<1>4. VisibleTrail' = Shown(Append(<<>>, e), VisibleAt') /\ 1 \in VisibleAt'
  BY <1>1, <1>3 DEF VisibleTrail, Shown, VisibleAt, Entry
<1>5. VisibleTrail' = Append(<<>>, Entry(e))
  <2>1. PICK nil \in Seq(Scope) : nil = <<>>
    <3>1. <<>> \in Seq(Scope)
      OBVIOUS
    <3> QED BY <3>1
  <2>2. Len(nil) = 0 /\ Len(nil) + 1 \in VisibleAt'
    BY <1>4, <2>1
  <2>3. \A i \in 1..Len(nil) : i \in {} <=> i \in VisibleAt'
    BY <2>2
  <2>4. Shown(Append(nil, e), VisibleAt') = Append(Shown(nil, {}), Entry(e))
    BY <2>2, <2>3, ShownAppend
  <2> QED BY <1>4, <2>1, <2>4, ShownEmpty
<1>6. Entry(e) = [node |-> path_root, symbols |-> Trail!Blank]
  BY <1>1, <1>3 DEF Entry, Trail!Blank, NoSymbols, Unset
<1>7. VisibleTrail' = <<[node |-> path_root, symbols |-> Trail!Blank]>>
  BY <1>5, <1>6
<1> QED BY <1>1, <1>2, <1>7 DEF Trail!Start

\* A step back takes one screen that is seen off, or none.
LEMMA BackOnTrail ==
  ASSUME IInv, FirstInv, FirstInv', Pops
  PROVE  Trail!Back \/ VisibleTrail' = VisibleTrail
<1>1. /\ TypeOK /\ scopes # <<>> /\ scopes \in Seq(Scope) /\ Len(scopes) \in Nat
      /\ scopes' = Popped /\ Stays
  BY ScreensStay DEF Pops, IInv, TypeOK
<1>2. PICK front \in Seq(Scope), top \in Scope :
            /\ scopes = Append(front, top)
            /\ front = SubSeq(scopes, 1, Len(scopes) - 1) /\ Len(front) = Len(scopes) - 1
            /\ \A i \in 1..Len(front) : front[i] = scopes[i]
  BY <1>1, SplitLast
<1>3. CASE IsInitial
  <2>1. scopes' = scopes /\ \A i \in 1..Len(scopes) : Visible(scopes[i])' <=> Visible(scopes[i])
    BY <1>1, <1>3 DEF Popped, Stays
  <2>2. VisibleAt' = VisibleAt
    BY <2>1 DEF VisibleAt
  <2>3. VisibleTrail' = Shown(scopes', VisibleAt')
    BY DEF VisibleTrail, Shown, VisibleAt, Entry
  <2> QED BY <2>1, <2>2, <2>3, TrailIsShown
<1>4. CASE ~IsInitial
  <2>1. scopes' = front
    BY <1>1, <1>2, <1>4 DEF Popped
  <2>2. \A i \in 1..Len(front) : i \in VisibleAt' <=> Visible(front[i])
    <3>1. \A i \in 1..Len(front) : /\ i \in 1..Len(scopes) /\ i <= Len(front)
                                   /\ Visible(scopes[i]) <=> Visible(front[i])
      BY <1>1, <1>2
    <3> QED BY <1>1, <2>1, <3>1 DEF VisibleAt, Stays
  <2>3. VisibleTrail' = Shown(front, VisibleAt')
    BY <2>1 DEF VisibleTrail, Shown, VisibleAt, Entry
  <2>4. VisibleTrail = IF Visible(top) THEN Append(VisibleTrail', Entry(top))
                       ELSE VisibleTrail'
    BY <1>1, <1>2, <2>2, <2>3, TrailOfSplit
  <2>5. CASE Visible(top)
    <3>1. front # <<>>
      BY <1>1, <2>1, PoppedFacts
    <3>2. VisibleTrail' # <<>> /\ VisibleTrail' \in Seq(Entries) /\ Entry(top) \in Entries
      <4>1. 1 \in 1..Len(front)
        BY <3>1
      <4>2. 1 \in VisibleAt'
        BY <2>1, <3>1, <4>1 DEF FirstInv, VisibleAt
      <4> QED BY <2>3, <4>1, <4>2, ShownFacts DEF Entry, Entries, Scope
    <3>3. VisibleTrail = Append(VisibleTrail', Entry(top))
      BY <2>4, <2>5
    <3>4. PICK t \in Seq(Entries) : t = VisibleTrail' /\ t # <<>>
      BY <3>2
    <3>5. PICK u \in Seq(Entries) : u = Append(t, Entry(top))
      <4>1. Append(t, Entry(top)) \in Seq(Entries)
        BY <3>2
      <4> QED BY <4>1
    <3>6. Len(u) > 1 /\ t = SubSeq(u, 1, Len(u) - 1)
      <4>1. Len(t) \in Nat /\ Len(t) > 0 /\ Len(u) = Len(t) + 1
        BY <3>2, <3>4, <3>5
      <4>2. \A i \in 1..Len(t) : u[i] = t[i]
        BY <3>2, <3>5
      <4>3. SubSeq(u, 1, Len(t)) \in Seq(Entries) /\ Len(SubSeq(u, 1, Len(t))) = Len(t)
            /\ \A i \in 1..Len(t) : SubSeq(u, 1, Len(t))[i] = u[i]
        BY <4>1
      <4>4. t = SubSeq(u, 1, Len(t))
        BY <4>1, <4>2, <4>3
      <4> QED BY <4>1, <4>4
    <3> QED BY <3>3, <3>4, <3>5, <3>6 DEF Trail!Back
  <2> QED BY <2>4, <2>5
<1> QED BY <1>3, <1>4

\* Replacing what was appended is appending something else.
LEMMA LastReplaced ==
  ASSUME NEW S, NEW t \in Seq(S), NEW d \in S, NEW e \in S, NEW u \in Seq(S),
         u = Append(t, d)
  PROVE  [u EXCEPT ![Len(u)] = e] = Append(t, e)
<1>1. PICK w \in Seq(S) : w = Append(t, e)
  <2>1. Append(t, e) \in Seq(S)
    OBVIOUS
  <2> QED BY <2>1
<1>2. /\ Len(t) \in Nat /\ Len(u) = Len(t) + 1 /\ Len(w) = Len(t) + 1
      /\ w[Len(t) + 1] = e /\ \A i \in 1..Len(t) : w[i] = u[i]
  BY <1>1
<1>3. DOMAIN u = 1..Len(u) /\ DOMAIN w = 1..Len(u)
  BY <1>1, <1>2
<1>4. \A i \in 1..Len(u) : w[i] = IF i = Len(u) THEN e ELSE u[i]
  <2> TAKE i \in 1..Len(u)
  <2>1. i \in 1..Len(t) \/ i = Len(t) + 1
    BY <1>2
  <2>2. i \in 1..Len(t) => i # Len(u)
    BY <1>2
  <2> QED BY <1>2, <2>1, <2>2
<1>5. w = [i \in 1..Len(u) |-> w[i]]
  BY <1>3
<1>6. [u EXCEPT ![Len(u)] = e] = [i \in 1..Len(u) |-> IF i = Len(u) THEN e ELSE u[i]]
  BY <1>3
<1>7. w = [i \in 1..Len(u) |-> IF i = Len(u) THEN e ELSE u[i]]
  BY <1>4, <1>5
<1> QED BY <1>1, <1>6, <1>7

\* Putting symbols sets them on the screen that is seen last, or on none.
LEMMA PutOnTrail ==
  ASSUME IInv, FirstInv, Puts
  PROVE  Trail!Set \/ VisibleTrail' = VisibleTrail
<1>1. /\ TypeOK /\ scopes # <<>> /\ scopes \in Seq(Scope) /\ Len(scopes) \in Nat /\ Stays
  BY ScreensStay DEF Puts, IInv, TypeOK
<1>2. PICK table \in Tables : SymbolsPut(table)
  BY DEF Puts
<1>3. PICK front \in Seq(Scope), top \in Scope :
            /\ scopes = Append(front, top) /\ top = scopes[Len(scopes)]
            /\ Len(front) = Len(scopes) - 1
            /\ \A i \in 1..Len(front) : front[i] = scopes[i]
  BY <1>1, SplitLast
<1>4. /\ scopes' \in Seq(Scope) /\ Len(scopes') = Len(scopes)
      /\ \A i \in 1..Len(scopes) : i < Len(scopes) => scopes'[i] = scopes[i]
  BY <1>1, <1>2, SymbolsPutFacts
<1>5. PICK new \in Scope : /\ scopes' = Append(front, new)
                           /\ new = scopes'[Len(scopes')] /\ new = Bind(top, table)
  <2>1. scopes'[Len(scopes')] \in Scope
    BY <1>1, <1>4
  <2>2. scopes'[Len(scopes)] = Bind(top, table)
    BY <1>1, <1>2, <1>3 DEF SymbolsPut
  <2>3. PICK new \in Scope : new = scopes'[Len(scopes')]
    BY <2>1
  <2>4. scopes' = Append(front, new)
    <3>1. PICK u \in Seq(Scope) : u = Append(front, new)
      <4>1. Append(front, new) \in Seq(Scope)
        OBVIOUS
      <4> QED BY <4>1
    <3>2. Len(u) = Len(scopes') /\ u[Len(scopes')] = new
      BY <1>1, <1>3, <1>4, <3>1
    <3>3. \A i \in 1..Len(front) : u[i] = front[i] /\ scopes'[i] = front[i]
      BY <1>1, <1>3, <1>4, <3>1
    <3>4. ASSUME NEW i \in 1..Len(scopes') PROVE u[i] = scopes'[i]
      <4>1. i \in 1..Len(front) \/ i = Len(scopes')
        BY <1>1, <1>3, <1>4
      <4> QED BY <2>3, <3>2, <3>3, <4>1
    <3>5. u = scopes'
      BY <1>4, <3>2, <3>4
    <3> QED BY <3>1, <3>5
  <2> QED BY <1>4, <2>2, <2>3, <2>4
<1>6. /\ Len(scopes) = Len(front) + 1 /\ Len(front) \in Nat
      /\ \A i \in 1..Len(front) : i \in 1..Len(scopes)
      /\ Len(scopes) \in 1..Len(scopes)
  BY <1>1, <1>3
<1>7. /\ \A i \in 1..Len(front) : i \in VisibleAt <=> Visible(front[i])
      /\ \A i \in 1..Len(front) : i \in VisibleAt <=> i \in VisibleAt'
      /\ Len(scopes) \in VisibleAt <=> Visible(top)
      /\ Len(scopes) \in VisibleAt' <=> Visible(top)
  BY <1>1, <1>3, <1>4, <1>6 DEF VisibleAt, Stays
<1> DEFINE below == Shown(front, VisibleAt)
<1>8. VisibleTrail = IF Visible(top) THEN Append(below, Entry(top)) ELSE below
  BY <1>1, <1>3, <1>7, TrailOfSplit
<1>9. VisibleTrail' = IF Visible(top) THEN Append(below, Entry(new)) ELSE below
  <2>1. VisibleTrail' = Shown(Append(front, new), VisibleAt')
    BY <1>5 DEF VisibleTrail, Shown, VisibleAt, Entry
  <2> QED BY <1>6, <1>7, <2>1, ShownAppend
<1>10. CASE Visible(top)
  <2>1. PICK t \in Seq(Entries) : t = below
    BY <1>7, ShownFacts
  <2>2. Entry(top) \in Entries /\ Entry(new) \in Entries
    BY DEF Entry, Entries, Scope
  <2>3. PICK u \in Seq(Entries) : u = Append(t, Entry(top))
    <3>1. Append(t, Entry(top)) \in Seq(Entries)
      BY <2>2
    <3> QED BY <3>1
  <2>4. Len(u) = Len(t) + 1 /\ u[Len(u)] = Entry(top) /\ u # <<>>
    BY <2>2, <2>3
  <2>5. new.node = top.node
    BY <1>1, <1>3, <1>4, <1>5, <1>6 DEF Stays
  <2>6. [Entry(top) EXCEPT !.symbols = new.symbols] = Entry(new)
    BY <2>5 DEF Entry
  <2>7. Append(t, Entry(new)) = [u EXCEPT ![Len(u)].symbols = new.symbols]
    <3>1. [u EXCEPT ![Len(u)].symbols = new.symbols] = [u EXCEPT ![Len(u)] = Entry(new)]
      BY <2>4, <2>6
    <3>2. PICK e \in Entries : e = Entry(new)
      BY <2>2
    <3>3. PICK d \in Entries : d = Entry(top)
      BY <2>2
    <3>4. u = Append(t, d)
      BY <2>3, <3>3
    <3>5. [u EXCEPT ![Len(u)] = e] = Append(t, e)
      BY <3>4, LastReplaced
    <3> QED BY <3>1, <3>2, <3>5
  <2>8. new.symbols \in Trail!Tables
    BY DEF Scope, Tables, Trail!Tables, Unset
  <2>9. Trail!Extends(new.symbols, u[Len(u)].symbols)
    <3>1. new.symbols = top.symbols \/
             \A s \in Symbols : new.symbols[s] =
                IF table[s] = Unset THEN top.symbols[s] ELSE table[s]
      BY <1>5 DEF Bind, Scope, Tables
    <3> QED BY <2>4, <3>1 DEF Trail!Extends, Entry, Unset
  <2>10. VisibleTrail = u /\ VisibleTrail' = Append(t, Entry(new))
    BY <1>8, <1>9, <1>10, <2>1, <2>3
  <2> QED BY <2>4, <2>7, <2>8, <2>9, <2>10 DEF Trail!Set
<1> QED BY <1>8, <1>9, <1>10

\* Every step of the library, a front end or a crash is a step of the trail.
LEMMA StepOnTrail ==
  IInv /\ FirstInv /\ FirstInv' /\ [Next]_vars => [Trail!Next]_VisibleTrail
<1> SUFFICES ASSUME IInv, FirstInv, FirstInv', [Next]_vars
             PROVE  Trail!Next \/ VisibleTrail' = VisibleTrail
  OBVIOUS
<1>1. CASE Quiet
  BY <1>1 DEF Quiet, VisibleTrail, Visible, TypeOf, context, screens
<1>2. CASE Starts
  <2>1. VisibleTrail = <<>> /\ VisibleTrail' = <<>>
    BY <1>2, ShownEmpty DEF Starts, VisibleTrail, Shown, Entry
  <2> QED BY <2>1
<1>3. CASE Terminate
  <2>1. VisibleTrail' = <<>>
    BY <1>3, ShownEmpty DEF Terminate, VisibleTrail, Shown, Entry
  <2> QED BY <2>1 DEF Trail!Next, Trail!End
<1> QED
  BY <1>1, <1>2, <1>3, StackSteps, PutOnTrail, BackOnTrail, ForwardOnTrail, FirstOnTrail
     DEF Trail!Next

\* The library implements the trail: whatever its loops, its hidden screens
\* and its replays do in between, the user sees one screen more, one screen
\* less or a symbol set at a time, and never loses the first screen.
THEOREM ContextImplementsTrail == Spec => ImplementsTrail
<1>1. Init => FirstInv /\ Trail!Init
  <2> SUFFICES ASSUME Init PROVE FirstInv /\ Trail!Init
    OBVIOUS
  <2>1. VisibleTrail = <<>>
    BY ShownEmpty DEF Init, VisibleTrail, Shown, Entry
  <2> QED BY <2>1 DEF Init, FirstInv, Trail!Init
<1> QED
  BY <1>1, NextFirstInv, StepOnTrail, Invariance, PTL DEF Spec, ImplementsTrail, Trail!Spec

-----------------------------------------------------------------------------
(* Loading a state.  rasta_context_travel_state puts the symbols of one    *)
(* SCOPE after the other and moves on between them.                        *)

Replaying == pc \in {"travel", "arrived"} \/ ret = "arrived"

\* The scopes of the file still to be replayed are those after the first n.
Awaits(n) == /\ Len(saved.scopes) = n + Len(todo)
             /\ \A j \in 1..Len(todo) : todo[j] = saved.scopes[n + j]

\* The i-th scope is on the saved screen and has the saved symbols.
Restored(i) ==
    /\ scopes[i].node # Null
    /\ doc.name[scopes[i].node] = saved.scopes[i].id
    /\ \A s \in Symbols : saved.scopes[i].symbols[s] # Unset =>
                              scopes[i].symbols[s] = saved.scopes[i].symbols[s]

\* What has been replayed is restored; at a SCOPE whose symbols are to be
\* put, the current screen is the one it names.
LoadInv ==
    /\ pc \in {"travel", "arrived"} =>
          /\ Awaits(Len(scopes) - 1)
          /\ \A i \in 1..Len(scopes) : i < Len(scopes) => Restored(i)
    /\ pc = "travel" => doc.name[Top.node] = Head(todo).id
    /\ ret = "arrived" => /\ Awaits(Len(scopes))
                          /\ \A i \in 1..Len(scopes) : Restored(i)

\* A state that is replayed was so before, or begins to be.
LoadBegins == /\ pc = "idle" /\ pc' = "travel" /\ ret' # "arrived"
              /\ IsInitial /\ StateFileFits /\ todo' = saved.scopes
              /\ UNCHANGED <<context, scopes, screens, saved>>
WalksOn    == ForwardBranch /\ ret = "arrived"
WalkEnds   == ForwardArrive /\ ret = "arrived"
MovesOn    == Travel /\ pc' = "forward"

LEMMA ReplaySteps ==
  ASSUME IInv, [Next]_vars, IInv', Replaying'
  PROVE  \/ LoadBegins \/ WalksOn \/ WalkEnds \/ MovesOn \/ TravelArrived
         \/ UNCHANGED vars
<1>1. /\ ret = "arrived" => pc = "forward"
      /\ ret' = "arrived" => pc' = "forward"
      /\ pc' \in {"travel", "arrived"} => ret' # "arrived"
      /\ pc' \in {"travel", "arrived", "forward"}
  BY DEF IInv, ReplayInv, Replaying
<1>2. CASE LoadState \/ ParseStateChunk
  <2>1. pc = "idle" /\ IsInitial /\ PrepareState
    BY <1>2 DEF LoadState, ParseStateChunk
  <2>2. pc' = "travel" /\ StateFileFits /\ todo' = saved.scopes
    BY <1>1, <2>1 DEF PrepareState
  <2> QED BY <1>1, <2>1, <2>2 DEF PrepareState, LoadBegins
<1>3. CASE \/ \E d \in Descriptions, f \in ScreenIds \cup {Null} : ContextInit(d, f)
           \/ FastpathVisit \/ FastpathClimb \/ FirstScreen \/ NoFirstScreen
           \/ DumpState \/ Revert \/ Terminate
  BY <1>1, <1>3 DEF ContextInit, FastpathVisit, FastpathClimb, FirstScreen, NoFirstScreen,
     DumpState, Revert, StartPrevious, Terminate
<1>4. CASE PopHidden \/ PopVisible
  <2>1. pc = "previous" /\ pc' \in {pc, ret} /\ ret \in {"idle", "arrived", "revert"}
    BY <1>4 DEF PopHidden, PopVisible, IInv, TypeOK
  <2> QED BY <1>1, <2>1
<1>5. CASE ForwardArrive \/ ForwardBranch
  BY <1>1, <1>5 DEF ForwardArrive, ForwardReturn, ForwardBranch, WalksOn, WalkEnds,
     IInv, TypeOK, Replaying
<1>6. CASE Travel
  BY <1>1, <1>6 DEF Travel, MovesOn, StartForward
<1>7. CASE (\E id \in ScreenIds : MenuNext(id)) \/ DialogNext \/ HiddenNext
  BY <1>1, <1>7 DEF MenuNext, DialogNext, HiddenNext, StartForward, Replaying
<1>8. CASE \/ \E sym \in Symbols, val \in Values : FieldStored(sym, val)
           \/ \E table \in Tables : InitcommandComplete(table)
           \/ InitcommandFailed \/ Previous \/ SaveState
           \/ LoadStatePush \/ ParseStateChunkFails
  BY <1>1, <1>8 DEF FieldStored, InitcommandComplete, InitcommandFailed, Previous, SaveState,
     LoadStatePush, ParseStateChunkFails, StartPrevious
<1> QED
  BY <1>2, <1>3, <1>4, <1>5, <1>6, <1>7, <1>8 DEF Next, LibraryStep, FrontEndCall

\* The table that rasta_symbol_put leaves in the current scope.
LEMMA SymbolsPutTable ==
  ASSUME TypeOK, scopes # <<>>, Top.node # Null, NEW table \in Tables, SymbolsPut(table)
  PROVE  scopes'[Len(scopes)].symbols =
            [s \in Symbols |-> IF table[s] = Unset THEN Top.symbols[s] ELSE table[s]]
<1>1. scopes \in Seq(Scope) /\ Len(scopes) \in 1..Len(scopes) /\ Top \in Scope
  BY DEF TypeOK, Top
<1>2. scopes'[Len(scopes)] = Bind(Top, table)
  BY <1>1 DEF SymbolsPut, Top
<1> DEFINE t == [s \in Symbols |-> IF table[s] = Unset THEN Top.symbols[s] ELSE table[s]]
<1>3. Bind(Top, table) = [Top EXCEPT !.symbols = t]
  BY DEF Bind
<1> HIDE DEF t
<1>4. [Top EXCEPT !.symbols = t].symbols = t
  BY <1>1 DEF Scope
<1> QED BY <1>2, <1>3, <1>4 DEF t

\* Putting the symbols of a SCOPE on the screen it names restores the scope.
LEMMA PutRestores ==
  ASSUME TypeOK, LoadInv, pc = "travel", scopes # <<>>, Top.node # Null, todo # <<>>,
         SymbolsPut(Head(todo).symbols), UNCHANGED <<doc, saved>>
  PROVE  /\ \A i \in 1..Len(scopes') : Restored(i)'
         /\ Len(scopes') = Len(scopes)
         /\ Len(saved.scopes) = Len(scopes) + Len(todo) - 1
         /\ todo' = Tail(todo) => Awaits(Len(scopes))'
<1>0. /\ scopes \in Seq(Scope) /\ Len(scopes) \in 1..Len(scopes)
      /\ todo \in Seq(Record) /\ Len(todo) \in Nat /\ Len(todo) > 0
  BY DEF TypeOK
<1>1. /\ Awaits(Len(scopes) - 1) /\ doc.name[Top.node] = Head(todo).id
      /\ \A i \in 1..Len(scopes) : i < Len(scopes) => Restored(i)
  BY DEF LoadInv
<1>2. Head(todo) = todo[1] /\ Head(todo) \in Record
  BY <1>0
<1>3. todo[1] = saved.scopes[Len(scopes)] /\ Len(saved.scopes) = Len(scopes) + Len(todo) - 1
  BY <1>0, <1>1 DEF Awaits
<1>4. PICK table \in Tables : table = Head(todo).symbols
  BY <1>2 DEF Record
<1>5. /\ Len(scopes') = Len(scopes)
      /\ \A i \in 1..Len(scopes) : /\ scopes'[i].node = scopes[i].node
                                   /\ i < Len(scopes) => scopes'[i] = scopes[i]
  BY <1>4, SymbolsPutFacts
<1>6. scopes'[Len(scopes)].symbols =
         [s \in Symbols |-> IF table[s] = Unset THEN Top.symbols[s] ELSE table[s]]
  BY <1>4, SymbolsPutTable
<1>7. ASSUME NEW i, i = Len(scopes) PROVE Restored(i)'
  BY <1>0, <1>1, <1>2, <1>3, <1>4, <1>5, <1>6, <1>7 DEF Restored, Top
<1>8. ASSUME NEW i \in 1..Len(scopes) PROVE Restored(i)'
  <2>1. CASE i < Len(scopes)
    BY <1>1, <1>5, <2>1 DEF Restored
  <2>2. CASE i = Len(scopes)
    BY <1>7, <2>2
  <2> QED BY <1>0, <2>1, <2>2
<1>9. ASSUME todo' = Tail(todo) PROVE Awaits(Len(scopes))'
  <2>1. Len(todo') = Len(todo) - 1 /\ \A j \in 1..Len(todo') : todo'[j] = todo[j + 1]
    BY <1>0, <1>9
  <2>2. \A j \in 1..Len(todo') : j + 1 \in 1..Len(todo)
    BY <1>0, <2>1
  <2>3. \A j \in 1..Len(todo') : todo'[j] = saved.scopes[Len(scopes) + j]
    BY <1>0, <1>1, <2>1, <2>2 DEF Awaits
  <2> QED BY <1>0, <1>3, <1>5, <2>1, <2>3 DEF Awaits
<1> QED BY <1>3, <1>5, <1>8, <1>9

LEMMA NextLoadInv == IInv /\ IInv' /\ LoadInv /\ [Next]_vars => LoadInv'
<1> SUFFICES ASSUME IInv, IInv', LoadInv, [Next]_vars, Replaying' PROVE LoadInv'
  BY DEF LoadInv, Replaying
<1>0. /\ TypeOK /\ scopes \in Seq(Scope) /\ Len(scopes) \in Nat
      /\ todo \in Seq(Record) /\ saved.scopes \in Seq(Record)
  BY DEF IInv, TypeOK, StateFile
<1>1. /\ ret = "arrived" => pc = "forward"
      /\ pc \in {"travel", "arrived", "forward"} => scopes # <<>>
  BY DEF IInv, ReplayInv, StackInv, Booting
<1>2. CASE UNCHANGED vars \/ WalksOn
  <2>1. UNCHANGED <<doc, scopes, pc, ret, todo, saved>>
    BY <1>2 DEF vars, WalksOn, ForwardBranch, context
  <2> QED BY <2>1 DEF LoadInv, Awaits, Restored, Top
<1>3. CASE LoadBegins
  <2>1. /\ Len(scopes) = 1 /\ scopes' = scopes /\ doc' = doc /\ saved' = saved
        /\ todo' = saved.scopes /\ pc' = "travel" /\ ret' # "arrived"
        /\ saved.scopes # <<>> /\ saved.scopes[1].id # Null /\ saved.scopes[1].id = IdOf(Top)
    <3>1. saved.scopes # <<>> => 1 \in 1..Len(saved.scopes)
      BY <1>0
    <3> QED BY <1>3, <3>1 DEF LoadBegins, IsInitial, StateFileFits, context
  <2>2. Head(todo') = saved.scopes[1] /\ doc.name[Top.node] = saved.scopes[1].id
    BY <1>0, <2>1 DEF IdOf
  <2>3. Awaits(Len(scopes) - 1)'
    <3>1. Len(scopes') - 1 = 0
      BY <2>1
    <3>2. /\ Len(saved.scopes) = 0 + Len(saved.scopes)
          /\ \A j \in 1..Len(saved.scopes) : 0 + j = j
      BY <1>0
    <3> QED BY <2>1, <3>1, <3>2 DEF Awaits
  <2>4. \A i \in 1..Len(scopes') : ~ (i < Len(scopes'))
    <3>1. Len(scopes') = 1
      BY <2>1
    <3>2. \A n \in Nat : n = 1 => \A i \in 1..n : ~ (i < n)
      OBVIOUS
    <3> QED BY <3>1, <3>2
  <2> QED BY <2>1, <2>2, <2>3, <2>4 DEF LoadInv, Top
<1>4. CASE TravelArrived
  <2>1. /\ UNCHANGED <<doc, scopes, todo, saved>> /\ pc = "arrived" /\ pc' = "travel"
        /\ ret' = ret /\ Top.node # Null /\ IdOf(Top) = Head(todo).id
    <3>1. pc = "arrived" /\ ret' = ret /\ ret # "arrived"
      BY <1>1, <1>4 DEF TravelArrived, walk
    <3> QED BY <1>4, <3>1 DEF TravelArrived, context, Replaying
  <2>2. Awaits(Len(scopes) - 1) /\ \A i \in 1..Len(scopes) : i < Len(scopes) => Restored(i)
    BY <2>1 DEF LoadInv
  <2>3. Awaits(Len(scopes) - 1)' /\ \A i \in 1..Len(scopes) : i < Len(scopes) => Restored(i)'
    BY <2>1, <2>2 DEF Awaits, Restored
  <2>4. ret' # "arrived"
    BY <1>1, <2>1
  <2> QED BY <2>1, <2>3, <2>4 DEF LoadInv, Top, IdOf
<1>5. CASE WalkEnds
  <2>1. /\ UNCHANGED <<doc, todo, saved>> /\ PushAndPrepare(cur) /\ pc' = "arrived"
        /\ ret' # "arrived" /\ cur \in Nodes \cup {Null} /\ ret = "arrived"
    BY <1>0, <1>5 DEF WalkEnds, ForwardArrive, ForwardReturn, context, TypeOK
  <2>2. Len(scopes') = Len(scopes) + 1 /\ \A i \in 1..Len(scopes) : scopes'[i] = scopes[i]
    BY <1>0, <2>1, PushFacts
  <2>3. Awaits(Len(scopes)) /\ \A i \in 1..Len(scopes) : Restored(i)
    BY <2>1 DEF LoadInv
  <2>4. Len(scopes') - 1 = Len(scopes)
    BY <1>0, <2>2
  <2>5. Awaits(Len(scopes) - 1)'
    BY <2>1, <2>3, <2>4 DEF Awaits
  <2>6. \A i \in 1..Len(scopes') : i < Len(scopes') => i \in 1..Len(scopes)
    BY <1>0, <2>2
  <2>7. \A i \in 1..Len(scopes') : i < Len(scopes') => Restored(i)'
    BY <2>1, <2>2, <2>3, <2>6 DEF Restored
  <2> QED BY <2>1, <2>5, <2>7 DEF LoadInv
<1>6. CASE MovesOn
  <2>1. /\ pc = "travel" /\ pc' = "forward" /\ SymbolsPut(Head(todo).symbols)
        /\ Len(todo) # 1 /\ todo' = Tail(todo) /\ UNCHANGED <<doc, saved>>
    BY <1>6 DEF MovesOn, Travel, context
  <2>2. /\ todo # <<>> /\ Top.node # Null /\ scopes # <<>> /\ Awaits(Len(scopes) - 1)
        /\ \A i \in 1..Len(scopes) : i < Len(scopes) => Restored(i)
    BY <1>1, <2>1 DEF IInv, ReplayInv, LoadInv
  <2> QED BY <1>0, <2>1, <2>2, PutRestores DEF LoadInv
<1> QED BY <1>2, <1>3, <1>4, <1>5, <1>6, ReplaySteps


\* A load that succeeds ends on the saved screens, as many of them, with
\* every saved symbol: no SCOPE of the file is left out, none is replayed on
\* another screen than its own, and no symbol of one is put into another.
THEOREM LoadsRestore == Spec => LoadRestores
<1>1. Init => LoadInv
  BY DEF Init, LoadInv
<1>2. ASSUME IInv, LoadInv, [Next]_vars, pc = "travel", pc' = "idle"
      PROVE  /\ Len(scopes') = Len(saved.scopes)
             /\ \A i \in 1..Len(scopes') : Restored(i)'
             /\ UNCHANGED <<doc, saved>>
  <2>1. Travel
    BY <1>2 DEF Next, vars, LibraryStep, FrontEndCall, ContextInit, FastpathVisit,
       FastpathClimb, FirstScreen, NoFirstScreen, ForwardArrive, ForwardBranch, PopHidden,
       PopVisible, DumpState, TravelArrived, Revert, MenuNext, DialogNext, HiddenNext,
       FieldStored, InitcommandComplete, InitcommandFailed, Previous, SaveState, LoadState,
       LoadStatePush, ParseStateChunk, ParseStateChunkFails, Terminate
  <2>2. Len(todo) = 1 /\ SymbolsPut(Head(todo).symbols) /\ UNCHANGED <<doc, saved>>
    BY <1>2, <2>1 DEF Travel, StartForward, context
  <2>3. TypeOK /\ scopes # <<>> /\ Top.node # Null /\ todo # <<>>
    BY <1>2 DEF IInv, ReplayInv, StackInv, Booting
  <2>4. Len(scopes) \in Nat
    BY <2>3 DEF TypeOK
  <2> QED BY <1>2, <2>2, <2>3, <2>4, PutRestores
<1>3. IInv /\ LoadInv /\ [Next]_vars =>
         (pc = "travel" /\ pc' = "idle" =>
          /\ Len(scopes') = Len(saved.scopes)
          /\ \A i \in 1..Len(scopes') :
              /\ doc.name[scopes'[i].node] = saved.scopes[i].id
              /\ \A s \in Symbols : saved.scopes[i].symbols[s] # Unset =>
                    scopes'[i].symbols[s] = saved.scopes[i].symbols[s])
  BY <1>2 DEF Restored
<1> QED BY <1>1, <1>3, NextLoadInv, Invariance, PTL DEF Spec, LoadRestores

-----------------------------------------------------------------------------
(* Save and load are inverse.  A walk depends on the element it starts at, *)
(* the choice that was made and the symbols that are bound; the invariants *)
(* below say where the walks that built the stack, and the one under way,  *)
(* have come from, so that the walks of a load can be seen to take the     *)
(* same turns.                                                             *)

\* What rasta_symbol_lookup finds from the k-th scope of a stack.
Highest(S) == CHOOSE i \in S : \A j \in S : j <= i
Binding(stack, k, sym) == {i \in 1..k : stack[i].symbols[sym] # Unset}
View(stack, k) ==
    [s \in Symbols |-> IF Binding(stack, k, s) = {} THEN Unset
                       ELSE stack[Highest(Binding(stack, k, s))].symbols[s]]

LEMMA LookupIsView ==
  ASSUME NEW sym \in Symbols
  PROVE  Lookup(sym) = View(scopes, Len(scopes))[sym]
  BY DEF Lookup, View, Binding, Highest

LEMMA ViewSame ==
  ASSUME NEW k \in Nat, NEW t, NEW u, \A i \in 1..k : t[i].symbols = u[i].symbols
  PROVE  View(t, k) = View(u, k)
<1> SUFFICES ASSUME NEW s \in Symbols
             PROVE  (IF Binding(t, k, s) = {} THEN Unset
                     ELSE t[Highest(Binding(t, k, s))].symbols[s])
                    = (IF Binding(u, k, s) = {} THEN Unset
                       ELSE u[Highest(Binding(u, k, s))].symbols[s])
  BY DEF View
<1>1. PICK b \in SUBSET (1..k) : b = Binding(t, k, s)
  BY DEF Binding
<1>2. Binding(u, k, s) = b
  BY <1>1 DEF Binding
<1>3. CASE b = {}
  BY <1>1, <1>2, <1>3
<1>4. CASE b # {}
  <2>1. Highest(b) \in b
    <3>1. b \in SUBSET Nat /\ \A i \in b : i <= k
      OBVIOUS
    <3>2. \E i \in b : \A j \in b : j <= i
      BY <1>4, <3>1, HighestExists
    <3> QED BY <3>2 DEF Highest
  <2> QED BY <1>1, <1>2, <1>4, <2>1
<1> QED BY <1>3, <1>4

\* rasta_traverse_forward, for a description, a view of the symbols and a
\* choice (Null in a dialog): where it stops, and its next turn.
Stops(d, id, n) ==
    IF id # Null
    THEN d.kind[n] \in MenuKinds /\ d.name[n] = id
    ELSE d.kind[n] \in {"DIALOG", "HIDDEN", "ACTION"}

Matches(d, view, n, m) == IF view[d.symbol[n]] = Unset THEN m
                          ELSE view[d.symbol[n]] = d.value[n]

Onward(d, view, id, n, m) ==
    LET multi == id = Null /\ d.kind[n] = "MULTIPATH"
        now   == IF multi THEN Matches(d, view, n, m) ELSE m
    IN  <<IF (id = Null /\ d.kind[n] = "DEFAULTPATH") \/ (multi /\ now)
          THEN d.child[n] ELSE d.next[n], now>>

Turns == Nodes \X BOOLEAN

\* From any turn in V, the walk goes through turns in V and stops at one
\* element only.
Route(V, d, view, id, to) ==
    \A n \in Nodes, m \in BOOLEAN : <<n, m>> \in V =>
        IF Stops(d, id, n) THEN n = to ELSE Onward(d, view, id, n, m) \in V

ChosenBy(d, from, to) == IF d.kind[from] = "MENU" THEN d.name[to] ELSE Null

Walks(V, d, from) == /\ d.kind[from] \in {"MENU", "DIALOG", "HIDDEN"}
                     /\ <<d.child[from], FALSE>> \in V

Leads(d, view, from, to) ==
    \E V \in SUBSET Turns : Walks(V, d, from)
                               /\ Route(V, d, view, ChosenBy(d, from, to), to)

\* The turns that a walk under way has taken.
WalkedInv ==
    pc = "forward" /\ cur # Null =>
        /\ next_id = Null <=> doc.kind[Top.node] # "MENU"
        /\ \E V \in SUBSET Turns :
              /\ Walks(V \cup {<<cur, matched>>}, doc, Top.node)
              /\ \A n \in Nodes, m \in BOOLEAN : <<n, m>> \in V =>
                    /\ ~Stops(doc, next_id, n)
                    /\ Onward(doc, View(scopes, Len(scopes)), next_id, n, m)
                          \in V \cup {<<cur, matched>>}

\* Every scope is where the walk from the one before it leads, with the
\* symbols as they are.
SessionInv ==
    \A i \in 1..Len(scopes) : i < Len(scopes) /\ scopes[i+1].node # Null =>
        Leads(doc, View(scopes, i), scopes[i].node, scopes[i+1].node)

\* And so it is in a state file.
Names(file) == \A i \in 1..Len(file.scopes) : file.scopes[i].id # Null
SavedInv ==
    saved.scopes # <<>> /\ Names(saved) =>
        /\ saved.of \in Descriptions /\ Len(saved.nodes) = Len(saved.scopes)
        /\ \A i \in 1..Len(saved.scopes) :
              /\ saved.nodes[i] \in Nodes
              /\ saved.of.name[saved.nodes[i]] = saved.scopes[i].id
              /\ i < Len(saved.scopes) =>
                    Leads(saved.of, View(saved.scopes, i), saved.nodes[i], saved.nodes[i+1])

\* What a load needs: no fastpath, a file with a name for every scope.
FileInv ==
    /\ parser => pc \notin Booting /\ fastpath = Null
    /\ Replaying => fastpath = Null /\ saved.scopes # <<>> /\ Names(saved)
    /\ pc = "arrived" => Len(scopes) > 1

-----------------------------------------------------------------------------
(* The turns of the walks, of the session and of the file.                 *)

\* A turn of ForwardBranch is a turn of the walk.
LEMMA BranchIsOnward ==
  ASSUME TypeOK, ForwardBranch
  PROVE  /\ cur \in Nodes /\ matched \in BOOLEAN /\ ~Stops(doc, next_id, cur)
         /\ <<cur', matched'>> =
               Onward(doc, View(scopes, Len(scopes)), next_id, cur, matched)
         /\ UNCHANGED <<doc, path_root, fastpath, scopes, pc, ret, next_id, todo, saved, parser>>
<1>1. cur \in Nodes /\ matched \in BOOLEAN /\ ~Stops(doc, next_id, cur)
  BY DEF ForwardBranch, TypeOK, Arrives, Stops
<1> DEFINE view == View(scopes, Len(scopes))
<1>2. MatchedAt(cur) = Matches(doc, view, cur, matched)
  <2>1. doc.symbol[cur] \in Symbols
    BY <1>1, DocFacts DEF Description
  <2> QED BY <2>1, LookupIsView DEF MatchedAt, Matches
<1> HIDE DEF view
<1>3. <<cur', matched'>> = Onward(doc, view, next_id, cur, matched)
  BY <1>2 DEF ForwardBranch, Onward
<1> QED BY <1>1, <1>3 DEF view, ForwardBranch, context

\* How a step can be, or come to be, in a walk.
Begins(id) == /\ \E back \in {"idle", "arrived"} : StartForward(id, back)
              /\ doc' = doc /\ Top'.node = Top.node

LEMMA WalkSteps ==
  ASSUME IInv, [Next]_vars, pc' = "forward"
  PROVE  \/ UNCHANGED vars \/ ForwardBranch
         \/ \E id \in ScreenIds \cup {Null} : Begins(id)
<1>1. CASE (\E id \in ScreenIds : MenuNext(id)) \/ DialogNext \/ HiddenNext
  BY <1>1 DEF MenuNext, DialogNext, HiddenNext, Begins, context, Top
<1>2. CASE Travel
  <2>1. /\ todo \in Seq(Record) /\ todo # <<>> /\ Len(todo) # 1 /\ Len(todo) \in Nat
        /\ scopes # <<>> /\ TypeOK
    BY <1>2 DEF Travel, IInv, TypeOK, ReplayInv, StackInv, Booting
  <2>2. todo[2].id \in ScreenIds \cup {Null} /\ Head(todo).symbols \in Tables
    <3>1. 1 \in 1..Len(todo) /\ 2 \in 1..Len(todo)
      <4>1. Len(todo) > 0 /\ Len(todo) # 1 /\ Len(todo) \in Nat
        BY <2>1
      <4>2. \A n \in Nat : n > 0 /\ n # 1 => 1 \in 1..n /\ 2 \in 1..n
        OBVIOUS
      <4> QED BY <4>1, <4>2
    <3>2. todo[1] \in Record /\ todo[2] \in Record /\ Head(todo) = todo[1]
      BY <2>1, <3>1
    <3> QED BY <3>2 DEF Record
  <2>3. PICK id \in ScreenIds \cup {Null} : StartForward(id, "arrived")
    <3>1. CASE TopType = "MENU"
      BY <1>2, <2>1, <2>2, <3>1 DEF Travel
    <3>2. CASE TopType \in {"DIALOG", "HIDDEN"}
      BY <1>2, <2>1, <3>2 DEF Travel
    <3>3. CASE TopType \notin {"MENU", "DIALOG", "HIDDEN"}
      BY <1>2, <2>1, <3>3 DEF Travel
    <3> QED BY <3>1, <3>2, <3>3
  <2>4. Top'.node = Top.node
    <3>1. SymbolsPut(Head(todo).symbols) /\ Len(scopes) \in 1..Len(scopes)
      BY <1>2, <2>1 DEF Travel, TypeOK
    <3> QED BY <2>1, <2>2, <3>1, SymbolsPutFacts DEF Top
  <2> QED BY <1>2, <2>3, <2>4 DEF Travel, context, Begins
<1>4. CASE ForwardArrive
  BY <1>4 DEF ForwardArrive, ForwardReturn, IInv, TypeOK
<1>5. CASE PopHidden \/ PopVisible
  BY <1>5 DEF PopHidden, PopVisible, IInv, TypeOK
<1>6. CASE \/ \E sym \in Symbols, val \in Values : FieldStored(sym, val)
           \/ \E table \in Tables : InitcommandComplete(table)
           \/ InitcommandFailed \/ Previous \/ SaveState
           \/ LoadState \/ LoadStatePush \/ ParseStateChunk \/ ParseStateChunkFails
  BY <1>6 DEF FieldStored, InitcommandComplete, InitcommandFailed, Previous, SaveState,
     LoadState, LoadStatePush, ParseStateChunk, ParseStateChunkFails, PrepareState,
     StartPrevious
<1>7. CASE \/ \E d \in Descriptions, f \in ScreenIds \cup {Null} : ContextInit(d, f)
           \/ FastpathVisit \/ FastpathClimb \/ FirstScreen \/ NoFirstScreen
           \/ DumpState \/ TravelArrived \/ Revert \/ Terminate
  BY <1>7 DEF ContextInit, FastpathVisit, FastpathClimb, FirstScreen, NoFirstScreen,
     DumpState, TravelArrived, Revert, StartPrevious, Terminate
<1> QED
  BY <1>1, <1>2, <1>4, <1>5, <1>6, <1>7 DEF Next, LibraryStep, FrontEndCall

LEMMA NextWalkedInv == IInv /\ WalkedInv /\ [Next]_vars => WalkedInv'
<1> SUFFICES ASSUME IInv, WalkedInv, [Next]_vars, pc' = "forward", cur' # Null
             PROVE  WalkedInv'
  BY DEF WalkedInv
<1>1. TypeOK
  BY DEF IInv
<1>2. CASE UNCHANGED vars
  BY <1>2 DEF vars, WalkedInv, Top
<1>3. ASSUME NEW id \in ScreenIds \cup {Null}, Begins(id) PROVE WalkedInv'
  <2>1. /\ next_id' = id /\ matched' = FALSE /\ doc' = doc /\ Top'.node = Top.node
        /\ cur' = doc.child[Top.node]
        /\ IF id = Null THEN doc.kind[Top.node] \in {"DIALOG", "HIDDEN"}
           ELSE doc.kind[Top.node] = "MENU"
    BY <1>3 DEF Begins, StartForward
  <2>2. PICK V \in SUBSET Turns : V = {}
    OBVIOUS
  <2>3. Walks(V \cup {<<cur', matched'>>}, doc', Top'.node)
    BY <2>1 DEF Walks
  <2>4. next_id' = Null <=> doc'.kind[Top'.node] # "MENU"
    BY <2>1
  <2>5. \A n \in Nodes, m \in BOOLEAN : <<n, m>> \notin V
    BY <2>2
  <2> QED BY <2>3, <2>4, <2>5 DEF WalkedInv
<1>4. CASE ForwardBranch
  <2>1. /\ cur \in Nodes /\ matched \in BOOLEAN /\ ~Stops(doc, next_id, cur)
        /\ <<cur', matched'>> =
              Onward(doc, View(scopes, Len(scopes)), next_id, cur, matched)
        /\ UNCHANGED <<doc, scopes, pc, next_id>> /\ cur # Null
    BY <1>1, <1>4, NullAssumption, BranchIsOnward
  <2>2. PICK view : view = View(scopes, Len(scopes))
    OBVIOUS
  <2>3. PICK here : here = <<cur, matched>>
    OBVIOUS
  <2>4. PICK there : there = <<cur', matched'>>
    OBVIOUS
  <2>5. PICK V \in SUBSET Turns :
              /\ Walks(V \cup {here}, doc, Top.node)
              /\ \A n \in Nodes, m \in BOOLEAN : <<n, m>> \in V =>
                    /\ ~Stops(doc, next_id, n)
                    /\ Onward(doc, view, next_id, n, m) \in V \cup {here}
    BY <2>1, <2>2, <2>3 DEF WalkedInv
  <2>6. PICK W \in SUBSET Turns : W = V \cup {here}
    <3>1. here \in Turns
      BY <2>1, <2>3 DEF Turns
    <3>2. V \cup {here} \in SUBSET Turns
      BY <3>1
    <3> QED BY <3>2
  <2>7. Walks(W \cup {there}, doc, Top.node)
    BY <2>5, <2>6 DEF Walks
  <2>8. ASSUME NEW n \in Nodes, NEW m \in BOOLEAN, <<n, m>> \in W
        PROVE  /\ ~Stops(doc, next_id, n)
               /\ Onward(doc, view, next_id, n, m) \in W \cup {there}
    <3>1. CASE <<n, m>> \in V
      BY <2>5, <2>6, <3>1
    <3>2. CASE <<n, m>> = here
      <4>1. n = cur /\ m = matched
        BY <2>3, <3>2
      <4> QED BY <2>1, <2>2, <2>4, <4>1
    <3> QED BY <2>6, <2>8, <3>1, <3>2
  <2>9. Top' = Top /\ View(scopes', Len(scopes')) = view
    BY <2>1, <2>2 DEF Top
  <2>10. next_id' = Null <=> doc'.kind[Top'.node] # "MENU"
    BY <2>1, <2>9 DEF WalkedInv
  <2> QED BY <2>1, <2>4, <2>7, <2>8, <2>9, <2>10 DEF WalkedInv
<1> QED BY <1>2, <1>3, <1>4, WalkSteps

\* A pushed scope has no symbols yet.
LEMMA PushedIsBare ==
  ASSUME TypeOK, NEW node \in Nodes \cup {Null}, PushAndPrepare(node)
  PROVE  scopes'[Len(scopes')].symbols = NoSymbols
<1>1. scopes \in Seq(Scope)
  BY DEF TypeOK
<1>2. PICK e : scopes' = Append(scopes, e) /\ e.symbols = NoSymbols
  BY DEF PushAndPrepare
<1>3. Len(scopes') = Len(scopes) + 1 /\ scopes'[Len(scopes) + 1] = e
  BY <1>1, <1>2
<1> QED BY <1>2, <1>3

\* Where a walk stops, there it leads.
LEMMA ArrivalLeads ==
  ASSUME IInv, WalkedInv, ForwardArrive, cur # Null
  PROVE  Leads(doc, View(scopes, Len(scopes)), Top.node, cur)
<1>1. cur \in Nodes /\ matched \in BOOLEAN /\ pc = "forward" /\ Stops(doc, next_id, cur)
  BY DEF ForwardArrive, Arrives, Stops, IInv, TypeOK
<1>2. PICK view : view = View(scopes, Len(scopes))
  OBVIOUS
<1>3. PICK here : here = <<cur, matched>>
  OBVIOUS
<1>4. PICK V \in SUBSET Turns :
            /\ Walks(V \cup {here}, doc, Top.node)
            /\ \A n \in Nodes, m \in BOOLEAN : <<n, m>> \in V =>
                  /\ ~Stops(doc, next_id, n)
                  /\ Onward(doc, view, next_id, n, m) \in V \cup {here}
  BY <1>1, <1>2, <1>3 DEF WalkedInv
<1>5. PICK W \in SUBSET Turns : W = V \cup {here}
  <2>1. here \in Turns
    BY <1>1, <1>3 DEF Turns
  <2>2. V \cup {here} \in SUBSET Turns
    BY <2>1
  <2> QED BY <2>2
<1>6. next_id = ChosenBy(doc, Top.node, cur)
  <2>1. next_id = Null <=> doc.kind[Top.node] # "MENU"
    BY <1>1 DEF WalkedInv
  <2> QED BY <1>1, <2>1 DEF ChosenBy, Stops
<1>7. Route(W, doc, view, next_id, cur)
  <2> SUFFICES ASSUME NEW n \in Nodes, NEW m \in BOOLEAN, <<n, m>> \in W
               PROVE  IF Stops(doc, next_id, n) THEN n = cur
                      ELSE Onward(doc, view, next_id, n, m) \in W
    BY DEF Route
  <2>1. CASE <<n, m>> \in V
    BY <1>4, <1>5, <2>1
  <2>2. CASE <<n, m>> = here
    <3>1. n = cur
      BY <1>3, <2>2
    <3> QED BY <1>1, <3>1
  <2> QED BY <1>5, <2>1, <2>2
<1> QED BY <1>2, <1>4, <1>5, <1>6, <1>7 DEF Leads

LEMMA NextSessionInv == IInv /\ WalkedInv /\ SessionInv /\ [Next]_vars => SessionInv'
<1> SUFFICES ASSUME IInv, WalkedInv, SessionInv, [Next]_vars,
                    NEW i \in 1..Len(scopes'), i < Len(scopes'), scopes'[i+1].node # Null
             PROVE  Leads(doc', View(scopes', i), scopes'[i].node, scopes'[i+1].node)
  BY DEF SessionInv
<1>0. TypeOK /\ scopes \in Seq(Scope) /\ Len(scopes) \in Nat /\ i \in Nat
  BY DEF IInv, TypeOK
\* What is kept below a change at the top.
<1>1. ASSUME doc' = doc, i \in 1..Len(scopes), i < Len(scopes),
             scopes'[i].node = scopes[i].node, scopes'[i+1].node = scopes[i+1].node,
             \A j \in 1..i : scopes'[j].symbols = scopes[j].symbols
      PROVE  Leads(doc', View(scopes', i), scopes'[i].node, scopes'[i+1].node)
  <2>1. View(scopes', i) = View(scopes, i)
    BY <1>0, <1>1, ViewSame
  <2> QED BY <1>1, <2>1 DEF SessionInv
<1>2. CASE Quiet
  <2>1. scopes' = scopes /\ doc' = doc
    BY <1>2 DEF Quiet, context
  <2> QED BY <1>1, <2>1
<1>3. CASE Starts \/ Terminate
  <2>1. Len(scopes') = 0
    BY <1>3 DEF Starts, Terminate
  <2> QED BY <2>1
<1>4. CASE Puts
  <2>1. PICK table \in Tables : SymbolsPut(table)
    BY <1>4 DEF Puts
  <2>2. /\ Len(scopes') = Len(scopes) /\ doc' = doc
        /\ \A j \in 1..Len(scopes) : /\ scopes'[j].node = scopes[j].node
                                     /\ j < Len(scopes) => scopes'[j] = scopes[j]
    BY <1>0, <1>4, <2>1, SymbolsPutFacts DEF Puts, context
  <2>3. /\ i + 1 \in 1..Len(scopes)
        /\ \A j \in 1..i : j \in 1..Len(scopes) /\ j < Len(scopes)
    BY <1>0, <2>2
  <2> QED BY <1>1, <2>2, <2>3
<1>5. CASE Pops
  <2>1. /\ Len(Popped) <= Len(scopes) /\ Len(Popped) \in Nat /\ scopes' = Popped
        /\ \A j \in 1..Len(Popped) : Popped[j] = scopes[j]
    BY <1>0, <1>5, PoppedFacts DEF Pops
  <2>2. /\ i + 1 \in 1..Len(Popped) /\ i \in 1..Len(scopes) /\ i < Len(scopes)
        /\ \A j \in 1..i : j \in 1..Len(Popped)
    BY <1>0, <2>1
  <2> QED BY <1>1, <1>5, <2>1, <2>2 DEF Pops, context
<1>6. CASE FirstScreen \/ NoFirstScreen
  <2>1. scopes = <<>>
    BY <1>6 DEF FirstScreen, NoFirstScreen, IInv, StackInv, Booting
  <2>2. Len(scopes') = 1
    <3>1. CASE FirstScreen
      BY <1>0, <2>1, <3>1, PushFacts DEF FirstScreen, TypeOK
    <3>2. CASE NoFirstScreen
      BY <3>2 DEF NoFirstScreen
    <3> QED BY <1>6, <3>1, <3>2
  <2>3. \A n \in Nat : n = 1 => \A k \in 1..n : ~ (k < n)
    OBVIOUS
  <2> QED BY <2>2, <2>3
<1>7. CASE ForwardArrive
  <2>1. cur \in Nodes \cup {Null} /\ PushAndPrepare(cur) /\ doc' = doc /\ scopes # <<>>
    BY <1>0, <1>7 DEF ForwardArrive, ForwardReturn, context, TypeOK, IInv, StackInv, Booting
  <2>2. /\ Len(scopes') = Len(scopes) + 1 /\ scopes'[Len(scopes')].node = cur
        /\ \A j \in 1..Len(scopes) : scopes'[j] = scopes[j]
    BY <1>0, <2>1, PushFacts
  <2>3. i \in 1..Len(scopes) /\ \A j \in 1..i : j \in 1..Len(scopes)
    BY <1>0, <2>2
  <2>4. CASE i < Len(scopes)
    <3>1. i + 1 \in 1..Len(scopes)
      BY <1>0, <2>4
    <3> QED BY <1>1, <2>1, <2>2, <2>3, <2>4, <3>1
  <2>5. CASE i = Len(scopes)
    <3>1. scopes'[i+1].node = cur /\ scopes'[i].node = Top.node
      BY <2>2, <2>3, <2>5 DEF Top
    <3>2. View(scopes', i) = View(scopes, i)
      BY <1>0, <2>2, <2>3, ViewSame
    <3> QED BY <1>7, <2>1, <2>5, <3>1, <3>2, ArrivalLeads
  <2> QED BY <1>0, <2>3, <2>4, <2>5
<1> QED BY <1>2, <1>3, <1>4, <1>5, <1>6, <1>7, StackSteps

\* Only a save writes the file.
LEMMA FileSteps ==
  ASSUME [Next]_vars
  PROVE  saved' = saved \/ SaveState \/ DumpState
  BY DEF Next, vars, LibraryStep, FrontEndCall, ContextInit, FastpathVisit,
     FastpathClimb, FirstScreen, NoFirstScreen, ForwardArrive, ForwardReturn, ForwardBranch,
     PopHidden, PopVisible, Travel, TravelArrived, Revert, MenuNext, DialogNext, HiddenNext,
     FieldStored, InitcommandComplete, InitcommandFailed, Previous, LoadState,
     LoadStatePush, ParseStateChunk, ParseStateChunkFails, PrepareState, Terminate

LEMMA NextSavedInv == IInv /\ SessionInv /\ SavedInv /\ [Next]_vars => SavedInv'
<1> SUFFICES ASSUME IInv, SessionInv, SavedInv, [Next]_vars PROVE SavedInv'
  OBVIOUS
<1>0. TypeOK /\ scopes \in Seq(Scope) /\ Len(scopes) \in Nat
  BY DEF IInv, TypeOK
<1>1. CASE saved' = saved
  BY <1>1 DEF SavedInv, Names
<1>2. CASE SaveState
  BY <1>2 DEF SaveState, SavedInv, Truncated
<1>3. CASE DumpState
  <2>1. /\ saved'.scopes = Snapshot /\ saved'.nodes = NodesOf /\ saved'.of = doc
    BY <1>3 DEF DumpState
  <2>2. /\ Len(Snapshot) = Len(scopes) /\ Len(NodesOf) = Len(scopes)
        /\ \A i \in 1..Len(scopes) : /\ Snapshot[i].id = IdOf(scopes[i])
                                     /\ Snapshot[i].symbols = scopes[i].symbols
                                     /\ NodesOf[i] = scopes[i].node
    BY <1>0 DEF Snapshot, NodesOf
  <2>3. ASSUME Names(saved'), NEW i \in 1..Len(scopes)
        PROVE  /\ NodesOf[i] \in Nodes /\ doc.name[NodesOf[i]] = Snapshot[i].id
               /\ i < Len(scopes) => Leads(doc, View(Snapshot, i), NodesOf[i], NodesOf[i+1])
    <3>1. \A j \in 1..Len(scopes) : scopes[j].node # Null /\ scopes[j].node \in Nodes
                                    /\ IdOf(scopes[j]) = doc.name[scopes[j].node]
      <4> TAKE j \in 1..Len(scopes)
      <4>1. Snapshot[j].id # Null
        BY <2>1, <2>2, <2>3 DEF Names
      <4>2. IdOf(scopes[j]) # Null
        BY <2>2, <4>1
      <4>3. scopes[j] \in Scope
        BY <1>0
      <4> QED BY <4>2, <4>3 DEF IdOf, Scope
    <3>2. ASSUME i < Len(scopes)
          PROVE  Leads(doc, View(Snapshot, i), NodesOf[i], NodesOf[i+1])
      <4>1. i + 1 \in 1..Len(scopes) /\ i \in Nat /\ \A j \in 1..i : j \in 1..Len(scopes)
        BY <1>0, <3>2
      <4>2. View(Snapshot, i) = View(scopes, i)
        BY <2>2, <4>1, ViewSame
      <4>3. Leads(doc, View(scopes, i), scopes[i].node, scopes[i+1].node)
        BY <3>1, <3>2, <4>1 DEF SessionInv
      <4> QED BY <2>2, <4>1, <4>2, <4>3
    <3> QED BY <2>2, <3>1, <3>2
  <2> QED BY <1>0, <2>1, <2>2, <2>3 DEF SavedInv, TypeOK
<1> QED BY <1>1, <1>2, <1>3, FileSteps

LEMMA NextFileInv == IInv /\ IInv' /\ FileInv /\ [Next]_vars => FileInv'
<1> SUFFICES ASSUME IInv, IInv', FileInv, [Next]_vars PROVE FileInv'
  OBVIOUS
<1>0. TypeOK /\ scopes \in Seq(Scope) /\ Len(scopes) \in Nat
  BY DEF IInv, TypeOK
<1>1. parser' => pc' \notin Booting /\ fastpath' = Null
  <2>1. CASE \E d \in Descriptions, f \in ScreenIds \cup {Null} : ContextInit(d, f)
    BY <2>1 DEF ContextInit, FileInv, Booting
  <2>2. CASE FastpathVisit \/ FastpathClimb \/ FirstScreen \/ NoFirstScreen
    BY <2>2 DEF FastpathVisit, FastpathClimb, FirstScreen, NoFirstScreen, FileInv, Booting
  <2>3. CASE ForwardArrive \/ ForwardBranch \/ PopHidden \/ PopVisible
    BY <1>0, <2>3 DEF ForwardArrive, ForwardReturn, ForwardBranch, PopHidden, PopVisible,
       FileInv, Booting, context, TypeOK
  <2>4. CASE DumpState \/ TravelArrived \/ Revert
    BY <2>4 DEF DumpState, TravelArrived, Revert, StartPrevious, FileInv, Booting, context
  <2>5. CASE Travel
    <3>1. pc' \in {"idle", "forward", "revert"}
      BY <2>5 DEF Travel, StartForward
    <3> QED BY <2>5, <3>1 DEF Travel, FileInv, Booting, context
  <2>6. CASE (\E id \in ScreenIds : MenuNext(id)) \/ DialogNext \/ HiddenNext
    BY <2>6 DEF MenuNext, DialogNext, HiddenNext, StartForward, FileInv, Booting, context
  <2>7. CASE \/ \E sym \in Symbols, val \in Values : FieldStored(sym, val)
             \/ \E table \in Tables : InitcommandComplete(table)
             \/ InitcommandFailed \/ Previous \/ SaveState
    BY <2>7 DEF FieldStored, InitcommandComplete, InitcommandFailed, Previous, SaveState,
       StartPrevious, FileInv, Booting, context
  <2>8. CASE LoadState \/ LoadStatePush \/ ParseStateChunk \/ ParseStateChunkFails
    BY <2>8 DEF LoadState, LoadStatePush, ParseStateChunk, ParseStateChunkFails,
       PrepareState, FileInv, Booting, context
  <2>9. CASE Terminate \/ UNCHANGED vars
    BY <2>9 DEF Terminate, vars, FileInv
  <2> QED
    BY <2>1, <2>2, <2>3, <2>4, <2>5, <2>6, <2>7, <2>8, <2>9 DEF Next, LibraryStep, FrontEndCall
<1>2. ASSUME Replaying' PROVE fastpath' = Null /\ saved'.scopes # <<>> /\ Names(saved')
  <2>1. CASE LoadBegins
    <3>1. LoadState \/ ParseStateChunk
      BY <2>1 DEF LoadBegins, Next, vars, LibraryStep, FrontEndCall, ContextInit,
         FastpathVisit, FastpathClimb, FirstScreen, NoFirstScreen, ForwardArrive,
         ForwardBranch, PopHidden, PopVisible, DumpState, Travel, TravelArrived, Revert,
         MenuNext, DialogNext, HiddenNext, StartForward, StartPrevious, FieldStored,
         InitcommandComplete, InitcommandFailed, Previous, SaveState, LoadStatePush,
         ParseStateChunkFails, Terminate
    <3>2. fastpath = Null
      BY <3>1 DEF LoadState, ParseStateChunk, FileInv
    <3> QED BY <2>1, <3>2 DEF LoadBegins, StateFileFits, Names, context
  <2>2. CASE UNCHANGED vars \/ WalksOn \/ WalkEnds \/ MovesOn \/ TravelArrived
    <3>1. Replaying
      BY <1>2, <2>2 DEF vars, Replaying, WalksOn, WalkEnds, MovesOn, Travel, TravelArrived
    <3>2. fastpath' = fastpath /\ saved' = saved
      BY <2>2 DEF vars, WalksOn, ForwardBranch, WalkEnds, ForwardArrive, ForwardReturn,
         MovesOn, Travel, TravelArrived, context
    <3> QED BY <3>1, <3>2 DEF FileInv
  <2> QED BY <1>2, <2>1, <2>2, ReplaySteps
<1>3. ASSUME pc' = "arrived" PROVE Len(scopes') > 1
  <2>1. CASE UNCHANGED vars
    BY <1>3, <2>1 DEF vars, FileInv
  <2>2. CASE WalkEnds
    <3>1. PushAndPrepare(cur) /\ cur \in Nodes \cup {Null} /\ scopes # <<>>
      BY <1>0, <2>2 DEF WalkEnds, ForwardArrive, ForwardReturn, TypeOK, IInv, StackInv, Booting
    <3>2. Len(scopes') = Len(scopes) + 1 /\ Len(scopes) > 0
      BY <1>0, <3>1, PushFacts
    <3> QED BY <1>0, <3>2
  <2>3. ~ (LoadBegins \/ WalksOn \/ MovesOn \/ TravelArrived)
    BY <1>3 DEF LoadBegins, WalksOn, ForwardBranch, MovesOn, TravelArrived
  <2> QED BY <1>3, <2>1, <2>2, <2>3, ReplaySteps DEF Replaying
<1> QED BY <1>1, <1>2, <1>3 DEF FileInv

-----------------------------------------------------------------------------
(* A load takes the turns that the saved session took.                     *)

\* The state was saved from the description it is loaded into, at the root
\* it is loaded at, and the first scope holds what it held then.
SameRoot  == saved.of = doc /\ saved.nodes[1] = path_root
FirstKept == scopes[1].symbols = saved.scopes[1].symbols

RetraceInv ==
    Replaying /\ SameRoot /\ ((pc = "travel" /\ Len(scopes) = 1) \/ FirstKept) =>
        /\ \A i \in 1..Len(scopes) :
              /\ scopes[i].node = saved.nodes[i]
              /\ i < Len(scopes) => scopes[i].symbols = saved.scopes[i].symbols
        /\ ret # "arrived" /\ Len(scopes) > 1 => Top.symbols = NoSymbols
        /\ ret = "arrived" =>
              /\ Top.symbols = saved.scopes[Len(scopes)].symbols
              /\ \E V \in SUBSET Turns :
                    /\ <<cur, matched>> \in V
                    /\ Route(V, doc, View(saved.scopes, Len(scopes)), next_id,
                             saved.nodes[Len(scopes) + 1])

\* The saved walk from the current scope to the one that is replayed next.
LEMMA SavedWalk ==
  ASSUME IInv, LoadInv, FileInv, SavedInv, Replaying, saved.of = doc,
         NEW k \in 1..Len(scopes), k < Len(saved.scopes)
  PROVE  /\ Len(saved.nodes) = Len(saved.scopes) /\ saved.nodes[k + 1] \in Nodes
         /\ doc.name[saved.nodes[k + 1]] = saved.scopes[k + 1].id
         /\ Leads(doc, View(saved.scopes, k), saved.nodes[k], saved.nodes[k + 1])
<1>1. saved.scopes \in Seq(Record) /\ scopes \in Seq(Scope)
  BY DEF IInv, TypeOK, StateFile
<1>2. k \in 1..Len(saved.scopes) /\ k + 1 \in 1..Len(saved.scopes)
  BY <1>1
<1>3. saved.scopes # <<>> /\ Names(saved)
  BY DEF FileInv
<1> QED BY <1>2, <1>3 DEF SavedInv

\* In a load, the type of a screen is the kind of its element.
LEMMA LoadedType ==
  ASSUME IInv, CacheInv, ScreenNodes, NoneInv, FileInv, pc = "travel"
  PROVE  TopType = doc.kind[Top.node] /\ Top.node \in Nodes
<1>1. /\ scopes \in Seq(Scope) /\ Len(scopes) \in 1..Len(scopes) /\ Top.node # Null
      /\ scopes # <<>> /\ doc \in Description /\ heap \in [Objects -> Screen]
  BY DocFacts DEF IInv, TypeOK, StackInv, ReplayInv, Booting
<1>2. Top \in Scope /\ Top.screen # Null
  BY <1>1 DEF Top, IInv, StackInv
<1>3. heap[Top.screen].id # Null
  <2>1. fastpath = Null
    BY DEF FileInv, Replaying
  <2> QED BY <1>1, <1>2, <2>1 DEF NoneInv, Refused, Top
<1>4. TopType \in ScreenTypes
  <2>1. heap[Top.screen].id \in ScreenIds
    BY <1>1, <1>2, <1>3 DEF Scope, Screen
  <2>2. doc.type \in [ScreenIds -> ScreenTypes]
    BY <1>1 DEF Description
  <2> QED BY <1>2, <1>3, <2>1, <2>2 DEF TopType, TypeOf
<1> QED BY <1>1, <1>4, TopTypeIsKind DEF ScreenTypes

LEMMA MoreThanOne ==
  ASSUME NEW s, Len(s) \in Nat, Len(s) > 0, Len(s) # 1
  PROVE  Len(s) > 1 /\ 1 \in 1..Len(s) /\ 2 \in 1..Len(s)
<1>1. \A n \in Nat : n > 0 /\ n # 1 => n > 1 /\ 1 \in 1..n /\ 2 \in 1..n
  OBVIOUS
<1> QED BY <1>1

\* The SYMBOLs of a SCOPE are put, and the walk the file was saved after
\* begins again.
LEMMA MovesOnRetraces ==
  ASSUME IInv, CacheInv, ScreenNodes, NoneInv, LoadInv, FileInv, SavedInv, RetraceInv,
         Travel, Len(todo) # 1, SameRoot, FirstKept'
  PROVE  /\ pc' = "forward" /\ ret' = "arrived"
         /\ Len(scopes') = Len(scopes) /\ UNCHANGED <<doc, path_root, saved>>
         /\ \A i \in 1..Len(scopes) : /\ scopes'[i].node = saved.nodes[i]
                                      /\ scopes'[i].symbols = saved.scopes[i].symbols
         /\ \E V \in SUBSET Turns :
               /\ <<cur', matched'>> \in V
               /\ Route(V, doc, View(saved.scopes, Len(scopes)), next_id',
                        saved.nodes[Len(scopes) + 1])
<1>0. /\ TypeOK /\ scopes \in Seq(Scope) /\ Len(scopes) \in 1..Len(scopes) /\ pc = "travel"
      /\ scopes # <<>> /\ todo \in Seq(Record) /\ Len(todo) \in Nat /\ Len(todo) > 0
      /\ Len(scopes) \in Nat /\ Len(scopes) > 0 /\ Len(todo) # 1 /\ Top.node # Null /\ ret # "arrived" /\ Replaying
      /\ saved.scopes \in Seq(Record)
  <2>1. pc = "travel" /\ TypeOK /\ scopes # <<>> /\ todo # <<>> /\ Top.node # Null
        /\ ret # "arrived"
    BY DEF Travel, IInv, StackInv, ReplayInv, Booting
  <2> QED BY <2>1 DEF TypeOK, StateFile, Replaying
<1>1. PICK k \in 1..Len(scopes) : k = Len(scopes)
  BY <1>0
<1>2. /\ Head(todo) = todo[1] /\ 1 \in 1..Len(todo) /\ 2 \in 1..Len(todo)
      /\ Head(todo) \in Record
  <2>1. 1 \in 1..Len(todo) /\ 2 \in 1..Len(todo)
    BY <1>0, MoreThanOne
  <2> QED BY <1>0, <2>1
<1>3. /\ Len(saved.scopes) = k - 1 + Len(todo) /\ todo[1] = saved.scopes[k]
      /\ todo[2] = saved.scopes[k + 1] /\ k < Len(saved.scopes)
  <2>1. Awaits(Len(scopes) - 1)
    BY <1>0 DEF LoadInv
  <2>2. k - 1 + 1 = k /\ k - 1 + 2 = k + 1
    BY <1>0
  <2> QED BY <1>0, <1>1, <1>2, <2>1, <2>2 DEF Awaits
<1>4. PICK table \in Tables : table = Head(todo).symbols
  BY <1>2 DEF Record
<1>5. SymbolsPut(table) /\ UNCHANGED <<doc, path_root, saved>>
  BY <1>4 DEF Travel, context
<1>6. /\ Len(scopes') = Len(scopes)
      /\ \A i \in 1..Len(scopes) : /\ scopes'[i].node = scopes[i].node
                                   /\ i < Len(scopes) => scopes'[i] = scopes[i]
  BY <1>0, <1>5, SymbolsPutFacts
<1>7. (pc = "travel" /\ Len(scopes) = 1) \/ FirstKept
  <2>1. CASE Len(scopes) # 1
    <3>1. 1 \in 1..Len(scopes) /\ Len(scopes) > 1
      BY <1>0, <2>1, MoreThanOne
    <3>2. scopes'[1] = scopes[1]
      BY <1>0, <1>6, <3>1
    <3> QED BY <1>5, <3>2 DEF FirstKept
  <2> QED BY <1>0, <2>1
<1>8. /\ \A i \in 1..Len(scopes) :
            /\ scopes[i].node = saved.nodes[i]
            /\ i < Len(scopes) => scopes[i].symbols = saved.scopes[i].symbols
      /\ Len(scopes) > 1 => Top.symbols = NoSymbols
  BY <1>0, <1>7 DEF RetraceInv
<1>9. scopes'[k].symbols = saved.scopes[k].symbols
  <2>1. CASE Len(scopes) = 1
    BY <1>1, <1>5, <2>1 DEF FirstKept
  <2>2. CASE Len(scopes) # 1
    <3>1. Top.symbols = NoSymbols
      BY <1>0, <1>8, <2>2, MoreThanOne
    <3>2. scopes'[k].symbols =
             [s \in Symbols |-> IF table[s] = Unset THEN Top.symbols[s] ELSE table[s]]
      BY <1>0, <1>1, <1>5, SymbolsPutTable
    <3>3. [s \in Symbols |-> IF table[s] = Unset THEN Top.symbols[s] ELSE table[s]] = table
      BY <3>1 DEF NoSymbols, Tables
    <3> QED BY <1>2, <1>3, <1>4, <3>2, <3>3
  <2> QED BY <2>1, <2>2
<1>10. \A i \in 1..Len(scopes) : /\ scopes'[i].node = saved.nodes[i]
                                 /\ scopes'[i].symbols = saved.scopes[i].symbols
  <2> TAKE i \in 1..Len(scopes)
  <2>1. i < Len(scopes) \/ i = k
    BY <1>0, <1>1
  <2> QED BY <1>6, <1>8, <1>9, <2>1
<1>11. /\ saved.nodes[k] = Top.node
       /\ saved.nodes[k + 1] \in Nodes
       /\ doc.name[saved.nodes[k + 1]] = saved.scopes[k + 1].id
       /\ Leads(doc, View(saved.scopes, k), saved.nodes[k], saved.nodes[k + 1])
  BY <1>0, <1>1, <1>3, <1>8, SavedWalk DEF SameRoot, Top
<1>12. PICK V \in SUBSET Turns :
          /\ Walks(V, doc, Top.node)
          /\ Route(V, doc, View(saved.scopes, k),
                   ChosenBy(doc, Top.node, saved.nodes[k + 1]), saved.nodes[k + 1])
  BY <1>11 DEF Leads
<1>13. TopType = doc.kind[Top.node] /\ Top.node \in Nodes
  BY <1>0, LoadedType
<1>14. /\ pc' = "forward" /\ ret' = "arrived" /\ matched' = FALSE
       /\ cur' = doc.child[Top.node]
       /\ next_id' = ChosenBy(doc, Top.node, saved.nodes[k + 1])
  <2>1. CASE TopType = "MENU"
    <3>1. StartForward(todo[2].id, "arrived")
      BY <1>0, <2>1 DEF Travel
    <3>2. todo[2].id = doc.name[saved.nodes[k + 1]] /\ todo[2].id # Null
      <4>1. doc.name \in [Nodes -> ScreenIds]
        BY <1>0, DocFacts DEF Description
      <4> QED BY <1>3, <1>11, <4>1, NullAssumption
    <3> QED BY <1>13, <2>1, <3>1, <3>2 DEF StartForward, ChosenBy
  <2>2. CASE TopType \in {"DIALOG", "HIDDEN"}
    <3>1. StartForward(Null, "arrived")
      BY <1>0, <2>2 DEF Travel
    <3> QED BY <1>13, <2>2, <3>1 DEF StartForward, ChosenBy
  <2> QED BY <1>12, <1>13, <2>1, <2>2 DEF Walks
<1>15. <<cur', matched'>> \in V
  BY <1>12, <1>14 DEF Walks
<1> QED BY <1>1, <1>5, <1>6, <1>10, <1>12, <1>14, <1>15

LEMMA NextRetraceInv ==
  ASSUME IInv, IInv', CacheInv, ScreenNodes, NoneInv, LoadInv, FileInv, FileInv', SavedInv,
         RetraceInv, [Next]_vars
  PROVE  RetraceInv'
<1> SUFFICES ASSUME Replaying', SameRoot', (pc' = "travel" /\ Len(scopes') = 1) \/ FirstKept'
             PROVE  RetraceInv'
  BY DEF RetraceInv
<1>0. TypeOK /\ scopes \in Seq(Scope) /\ Len(scopes) \in Nat
  BY DEF IInv, TypeOK
<1>1. /\ ret = "arrived" => pc = "forward"
      /\ ret' = "arrived" => pc' = "forward"
      /\ pc \in {"travel", "arrived", "forward"} => scopes # <<>>
  BY DEF IInv, ReplayInv, StackInv, Booting
<1>2. CASE UNCHANGED vars
  <2>1. UNCHANGED <<doc, path_root, scopes, pc, ret, cur, matched, next_id, saved>>
    BY <1>2 DEF vars
  <2>2. /\ Replaying /\ SameRoot /\ ((pc = "travel" /\ Len(scopes) = 1) \/ FirstKept)
        /\ Top' = Top
    BY <2>1 DEF Replaying, SameRoot, FirstKept, Top
  <2> QED BY <2>1, <2>2 DEF RetraceInv
<1>3. CASE LoadBegins
  <2>1. /\ scopes' = scopes /\ Len(scopes) = 1 /\ ret' # "arrived"
        /\ UNCHANGED <<saved, path_root>> /\ scopes # <<>>
    BY <1>3 DEF LoadBegins, IsInitial, context
  <2>2. scopes[1].node = saved.nodes[1]
    BY <2>1 DEF IInv, ScopesFormPath, SameRoot
  <2>3. \A i \in 1..Len(scopes') : i = 1 /\ ~(i < Len(scopes'))
    <3>1. \A n \in Nat : n = 1 => \A i \in 1..n : i = 1 /\ ~(i < n)
      OBVIOUS
    <3> QED BY <2>1, <3>1
  <2>4. ~ (Len(scopes') > 1)
    BY <2>1
  <2> QED BY <2>1, <2>2, <2>3, <2>4 DEF RetraceInv
<1>4. CASE TravelArrived
  <2>1. /\ UNCHANGED <<doc, path_root, scopes, saved>> /\ pc = "arrived" /\ ret' = ret
    BY <1>4 DEF TravelArrived, context, walk
  <2>2. Replaying /\ SameRoot /\ FirstKept /\ Top' = Top /\ ret # "arrived"
    <3>1. Len(scopes') # 1
      <4>1. Len(scopes) > 1 /\ Len(scopes') = Len(scopes)
        BY <2>1 DEF FileInv
      <4>2. \A n \in Nat : n > 1 => n # 1
        OBVIOUS
      <4> QED BY <1>0, <4>1, <4>2
    <3> QED BY <1>1, <2>1, <3>1 DEF Replaying, SameRoot, FirstKept, Top
  <2> QED BY <2>1, <2>2 DEF RetraceInv
<1>5. CASE WalksOn
  <2>1. /\ cur \in Nodes /\ matched \in BOOLEAN /\ ~Stops(doc, next_id, cur)
        /\ <<cur', matched'>> =
              Onward(doc, View(scopes, Len(scopes)), next_id, cur, matched)
        /\ UNCHANGED <<doc, path_root, scopes, pc, ret, next_id, saved>>
        /\ ret = "arrived" /\ pc = "forward"
    BY <1>0, <1>1, <1>5, BranchIsOnward DEF WalksOn
  <2>2. Replaying /\ SameRoot /\ FirstKept /\ Top' = Top
    BY <2>1 DEF Replaying, SameRoot, FirstKept, Top
  <2>3. /\ \A i \in 1..Len(scopes) :
              /\ scopes[i].node = saved.nodes[i]
              /\ i < Len(scopes) => scopes[i].symbols = saved.scopes[i].symbols
        /\ Top.symbols = saved.scopes[Len(scopes)].symbols
    BY <2>1, <2>2 DEF RetraceInv
  <2>4. View(scopes, Len(scopes)) = View(saved.scopes, Len(scopes))
    <3>1. ASSUME NEW i \in 1..Len(scopes)
          PROVE  scopes[i].symbols = saved.scopes[i].symbols
      <4>1. i < Len(scopes) \/ i = Len(scopes)
        BY <1>0
      <4> QED BY <2>3, <4>1 DEF Top
    <3> QED BY <1>0, <3>1, ViewSame
  <2>5. PICK view : view = View(saved.scopes, Len(scopes))
    OBVIOUS
  <2>6. PICK to : to = saved.nodes[Len(scopes) + 1]
    OBVIOUS
  <2>7. PICK V \in SUBSET Turns : <<cur, matched>> \in V /\ Route(V, doc, view, next_id, to)
    BY <2>1, <2>2, <2>5, <2>6 DEF RetraceInv
  <2>8. <<cur', matched'>> \in V
    BY <2>1, <2>4, <2>5, <2>7 DEF Route
  <2>9. Route(V, doc', View(saved'.scopes, Len(scopes')), next_id', saved'.nodes[Len(scopes') + 1])
    BY <2>1, <2>5, <2>6, <2>7
  <2> QED BY <2>1, <2>2, <2>3, <2>8, <2>9 DEF RetraceInv
<1>6. CASE WalkEnds
  <2>1. /\ UNCHANGED <<doc, path_root, saved>> /\ PushAndPrepare(cur) /\ pc = "forward"
        /\ ret = "arrived" /\ ret' # "arrived" /\ pc' = "arrived"
        /\ cur \in Nodes \cup {Null} /\ matched \in BOOLEAN
        /\ cur # Null => Stops(doc, next_id, cur)
    BY <1>0, <1>6 DEF WalkEnds, ForwardArrive, ForwardReturn, context, TypeOK, Arrives, Stops
  <2>2. /\ Len(scopes') = Len(scopes) + 1 /\ \A i \in 1..Len(scopes) : scopes'[i] = scopes[i]
        /\ scopes'[Len(scopes')].node = cur
        /\ scopes'[Len(scopes')].symbols = NoSymbols
    BY <1>0, <2>1, PushFacts, PushedIsBare
  <2>3. Replaying /\ SameRoot /\ FirstKept
    <3>1. 1 \in 1..Len(scopes)
      BY <1>0, <1>1, <2>1
    <3> QED BY <2>1, <2>2, <3>1 DEF Replaying, SameRoot, FirstKept
  <2>4. PICK to : to = saved.nodes[Len(scopes) + 1]
    OBVIOUS
  <2>5. PICK V \in SUBSET Turns :
              <<cur, matched>> \in V /\ Route(V, doc, View(saved.scopes, Len(scopes)), next_id, to)
    BY <2>1, <2>3, <2>4 DEF RetraceInv
  <2>6. cur \in Nodes
    BY <2>5 DEF Turns
  <2>7. cur = to
    BY <2>1, <2>5, <2>6, NullAssumption DEF Route
  <2>8. /\ \A i \in 1..Len(scopes) :
              /\ scopes[i].node = saved.nodes[i]
              /\ i < Len(scopes) => scopes[i].symbols = saved.scopes[i].symbols
        /\ Top.symbols = saved.scopes[Len(scopes)].symbols
    BY <2>1, <2>3 DEF RetraceInv
  <2>9. ASSUME NEW i \in 1..Len(scopes')
        PROVE  /\ scopes'[i].node = saved.nodes[i]
               /\ i < Len(scopes') => scopes'[i].symbols = saved.scopes[i].symbols
    <3>1. (i \in 1..Len(scopes) /\ i < Len(scopes))
             \/ (i \in 1..Len(scopes) /\ i = Len(scopes))
             \/ (i = Len(scopes) + 1 /\ ~ (i < Len(scopes')))
      BY <1>0, <2>2
    <3>2. CASE i \in 1..Len(scopes) /\ i < Len(scopes)
      BY <2>2, <2>8, <3>2
    <3>3. CASE i \in 1..Len(scopes) /\ i = Len(scopes)
      BY <2>2, <2>8, <3>3 DEF Top
    <3>4. CASE i = Len(scopes) + 1 /\ ~ (i < Len(scopes'))
      BY <2>2, <2>4, <2>7, <3>4
    <3> QED BY <3>1, <3>2, <3>3, <3>4
  <2> QED BY <2>1, <2>2, <2>9 DEF RetraceInv, Top
<1>7. CASE MovesOn
  <2>1. /\ Travel /\ pc' = "forward" /\ Len(todo) # 1 /\ SameRoot /\ FirstKept'
    BY <1>7 DEF MovesOn, Travel, SameRoot, context
  <2>2. /\ pc' = "forward" /\ ret' = "arrived"
        /\ Len(scopes') = Len(scopes) /\ UNCHANGED <<doc, path_root, saved>>
        /\ \A i \in 1..Len(scopes) : /\ scopes'[i].node = saved.nodes[i]
                                     /\ scopes'[i].symbols = saved.scopes[i].symbols
        /\ \E V \in SUBSET Turns :
              /\ <<cur', matched'>> \in V
              /\ Route(V, doc, View(saved.scopes, Len(scopes)), next_id',
                       saved.nodes[Len(scopes) + 1])
    BY <2>1, MovesOnRetraces
  <2>3. Len(scopes) \in 1..Len(scopes)
    BY <1>0, <1>1, <2>1 DEF Travel
  <2> QED BY <2>2, <2>3 DEF RetraceInv, Top
<1> QED BY <1>2, <1>3, <1>4, <1>5, <1>6, <1>7, ReplaySteps

\* Everything the replay rests on, together.
ReplayIInv == /\ LoadInv /\ WalkedInv /\ SessionInv /\ SavedInv /\ FileInv /\ RetraceInv

LEMMA ReplayInvariant ==
  ASSUME \A d \in Descriptions : TitlesApart(d)
  PROVE  Spec => [](IInv /\ CacheInv /\ ScreenNodes /\ NoneInv /\ ReplayIInv)
<1>1. Init => ReplayIInv
  BY DEF Init, ReplayIInv, LoadInv, WalkedInv, SessionInv, SavedInv, FileInv, RetraceInv,
     Replaying, Absent
<1>2. IInv /\ IInv' /\ CacheInv /\ ScreenNodes /\ NoneInv /\ ReplayIInv /\ [Next]_vars
         => ReplayIInv'
  BY NextLoadInv, NextWalkedInv, NextSessionInv, NextSavedInv, NextFileInv, NextRetraceInv
     DEF ReplayIInv
<1> QED BY <1>1, <1>2, ChoicesInvariant, StartsInvariant, PTL DEF Spec

\* A step of a load that ends it, either way.
LEMMA LoadEnds ==
  ASSUME IInv, CacheInv, ScreenNodes, NoneInv, ReplayIInv, [Next]_vars,
         pc \in {"travel", "arrived"}, pc' \in {"idle", "revert"},
         SameRoot, scopes'[1].symbols = saved.scopes[1].symbols
  PROVE  pc' = "idle" /\ saved.nodes = [i \in 1..Len(scopes') |-> scopes'[i].node]
<1>0. /\ TypeOK /\ scopes \in Seq(Scope) /\ Len(scopes) \in 1..Len(scopes) /\ Len(scopes) \in Nat
      /\ scopes # <<>> /\ Replaying /\ todo \in Seq(Record) /\ todo # <<>> /\ ret # "arrived"
      /\ Len(scopes) > 0
  <2>1. TypeOK /\ scopes # <<>> /\ todo # <<>> /\ ret # "arrived"
    BY DEF IInv, StackInv, ReplayInv, Booting
  <2> QED BY <2>1 DEF TypeOK, Replaying
<1>1. Travel \/ TravelArrived
  BY DEF Next, vars, LibraryStep, FrontEndCall, ContextInit, FastpathVisit,
     FastpathClimb, FirstScreen, NoFirstScreen, ForwardArrive, ForwardBranch, PopHidden,
     PopVisible, DumpState, Revert, MenuNext, DialogNext, HiddenNext,
     FieldStored, InitcommandComplete, InitcommandFailed, Previous, SaveState, LoadState,
     LoadStatePush, ParseStateChunk, ParseStateChunkFails, Terminate
<1>2. Awaits(Len(scopes) - 1) /\ Len(todo) > 0 /\ Len(todo) \in Nat
  BY <1>0 DEF ReplayIInv, LoadInv
<1>3. PICK k \in 1..Len(scopes) : k = Len(scopes)
  BY <1>0
<1>4. Len(saved.scopes) = k - 1 + Len(todo) /\ Head(todo) = saved.scopes[k] /\ k \in 1..Len(saved.scopes)
  <2>1. k - 1 + 1 = k /\ 1 \in 1..Len(todo) /\ Head(todo) = todo[1]
    BY <1>0, <1>2, <1>3
  <2> QED BY <1>0, <1>2, <1>3, <2>1 DEF Awaits
<1>5. /\ Len(saved.nodes) = Len(saved.scopes) /\ saved.nodes \in Seq(Nodes \cup {Null})
      /\ \A i \in 1..Len(saved.scopes) : /\ saved.nodes[i] \in Nodes
                                         /\ doc.name[saved.nodes[i]] = saved.scopes[i].id
  BY <1>0 DEF ReplayIInv, SavedInv, FileInv, SameRoot, TypeOK, StateFile
<1>6. CASE TravelArrived
  <2>1. pc' = "revert" /\ pc = "arrived" /\ ~ (Top.node # Null /\ IdOf(Top) = Head(todo).id)
        /\ scopes' = scopes
    BY <1>6 DEF TravelArrived
  <2>2. scopes[k].node = saved.nodes[k]
    BY <1>0, <2>1 DEF ReplayIInv, RetraceInv, FirstKept
  <2> QED BY <1>3, <1>4, <1>5, <2>1, <2>2, NullAssumption DEF Top, IdOf
<1>7. CASE Travel
  <2>1. pc = "travel" /\ Head(todo).symbols \in Tables /\ SymbolsPut(Head(todo).symbols)
    <3>1. Head(todo) \in Record
      BY <1>0
    <3> QED BY <1>7, <3>1 DEF Travel, Record
  <2>2. Len(todo) = 1
    <3> SUFFICES ASSUME Len(todo) # 1 PROVE FALSE
      OBVIOUS
    <3>1. UNCHANGED saved
      BY <1>7 DEF Travel
    <3>2. FirstKept'
      BY <3>1 DEF FirstKept
    <3>3. pc' = "forward"
      BY <1>7, <3>2, MovesOnRetraces DEF ReplayIInv
    <3> QED BY <3>3
  <2>3. pc' = "idle"
    BY <1>7, <2>2 DEF Travel
  <2>4. /\ Len(scopes') = Len(scopes)
        /\ \A i \in 1..Len(scopes) : /\ scopes'[i].node = scopes[i].node
                                     /\ i < Len(scopes) => scopes'[i] = scopes[i]
    BY <1>0, <2>1, SymbolsPutFacts
  <2>5. (pc = "travel" /\ Len(scopes) = 1) \/ FirstKept
    <3>1. CASE Len(scopes) # 1
      <4>1. 1 \in 1..Len(scopes) /\ Len(scopes) > 1
        BY <1>0, <3>1, MoreThanOne
      <4>2. scopes'[1] = scopes[1]
        BY <1>0, <2>4, <4>1
      <4> QED BY <4>2 DEF FirstKept
    <3> QED BY <2>1, <3>1
  <2>6. \A i \in 1..Len(scopes) : scopes[i].node = saved.nodes[i]
    BY <1>0, <2>5 DEF ReplayIInv, RetraceInv
  <2>7. Len(saved.nodes) = Len(scopes)
    BY <1>0, <1>3, <1>4, <1>5, <2>2
  <2>8. saved.nodes = [i \in 1..Len(scopes') |-> scopes'[i].node]
    <3>1. saved.nodes = [i \in 1..Len(saved.nodes) |-> saved.nodes[i]]
      BY <1>5
    <3> QED BY <2>4, <2>6, <2>7, <3>1
  <2> QED BY <2>3, <2>8
<1> QED BY <1>1, <1>6, <1>7

\* A state loaded into the description it was saved from, with nothing else
\* in the first scope, is never given up and passes through the elements it
\* was saved on: a menu is left by the choice that the next SCOPE names, and
\* a MULTIPATH is decided by the same symbols as when it was first passed.
THEOREM LoadsRetrace ==
  ASSUME \A d \in Descriptions : TitlesApart(d)
  PROVE  Spec => LoadRetraces
<1>1. IInv /\ CacheInv /\ ScreenNodes /\ NoneInv /\ ReplayIInv /\ [Next]_vars =>
         (/\ pc \in {"travel", "arrived"} /\ pc' \in {"idle", "revert"}
          /\ saved.of = doc /\ saved.nodes[1] = path_root
          /\ scopes'[1].symbols = saved.scopes[1].symbols
          => pc' = "idle" /\ saved.nodes = [i \in 1..Len(scopes') |-> scopes'[i].node])
  BY LoadEnds DEF SameRoot
<1> QED BY <1>1, ReplayInvariant, PTL DEF Spec, LoadRetraces

=============================================================================
