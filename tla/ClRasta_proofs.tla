--------------------------- MODULE ClRasta_proofs ---------------------------
(***************************************************************************)
(* Theorems about ClRasta, for every description, every dialog, every page *)
(* size and every capacity of a pipe.                                      *)
(***************************************************************************)
EXTENDS ClRasta, OrderLemmas

Scope == [node : Nodes \cup {Null}, symbols : [Symbols -> Values \cup {Null}]]

Command == [kind : {"none", "ic", "lc", "ac"}, for : Nodes \cup {Null},
            leader : {"none", "running", "zombie"}, rest : BOOLEAN, ok : BOOLEAN,
            writing : Streams \cup {"none"}, shut : BOOLEAN, torn : BOOLEAN,
            wrote : [Streams -> Seq(Lines)]]

-----------------------------------------------------------------------------
(* What the helpers of the model return.                                   *)

LEMMA DocFacts ==
    /\ doc.init \in [ScreenIds -> BOOLEAN] /\ doc.name \in [Nodes -> ScreenIds]
    /\ doc.root \in Nodes
BY DocAssumption, DescriptionsAssumption DEF WellFormed, Description

LEMMA TopType == trail \in Seq(Scope) /\ trail # <<>> => Top \in Scope
BY DEF Top

LEMMA FieldFacts ==
    ASSUME NEW n \in Nodes
    PROVE  FieldsOf(n) \in Seq(Field)
BY DocFacts, FieldsAssumption DEF FieldsOf, NameOf

\* rasta_screen_previous leaves a scope, and adds none.
LEMMA BackType ==
    ASSUME NEW t \in Seq(Scope), t # <<>>
    PROVE  Back(t) \in Seq(Scope) /\ Back(t) # <<>> /\ Len(Back(t)) <= Len(t)
<1>1. Shown(t) \subseteq 0..Len(t) /\ Shown(t) \subseteq 1..Len(t) /\ 1 \in Shown(t)
  BY DEF Shown
<1> DEFINE i0 == CHOOSE k \in Shown(t) : \A j \in Shown(t) : j <= k
<1>2. i0 \in Shown(t)
  BY <1>1, HighestOf
<1>3. i0 \in 1..Len(t)
  BY <1>1, <1>2
<1>4. Back(t) = SubSeq(t, 1, i0)
  BY DEF Back
<1> HIDE DEF i0
<1> QED BY <1>3, <1>4

\* rasta_symbol_lookup returns the value of the innermost scope that has one.
LEMMA LookupIs ==
    ASSUME NEW t \in Seq(Scope), NEW sym \in Symbols
    PROVE  /\ Lookup(t, sym) \in Values \cup {Null}
           /\ \A h \in 1..Len(t) :
                 /\ t[h].symbols[sym] # Null
                 /\ \A j \in 1..Len(t) : j > h => t[j].symbols[sym] = Null
                 => Lookup(t, sym) = t[h].symbols[sym]
           /\ (\A j \in 1..Len(t) : t[j].symbols[sym] = Null) => Lookup(t, sym) = Null
<1> DEFINE bound == {i \in 1..Len(t) : t[i].symbols[sym] # Null}
           i0 == CHOOSE i \in bound : \A j \in bound : j <= i
<1>1. CASE bound = {}
  BY <1>1 DEF Lookup
<1>2. CASE bound # {}
  <2>1. bound \subseteq 0..Len(t) /\ Len(t) \in Nat
    OBVIOUS
  <2>2. i0 \in bound /\ \A j \in bound : j <= i0
    <3> HIDE DEF bound
    <3> QED BY <1>2, <2>1, HighestOf
  <2>3. t[i0] \in Scope
    BY <2>2
  <2>4. Lookup(t, sym) = t[i0].symbols[sym]
    BY <1>2 DEF Lookup
  <2> HIDE DEF i0
  <2>5. ASSUME NEW h \in 1..Len(t), t[h].symbols[sym] # Null,
               \A j \in 1..Len(t) : j > h => t[j].symbols[sym] = Null
        PROVE  h = i0
    <3>1. h \in bound /\ h <= i0
      BY <2>2, <2>5
    <3>2. i0 \in 1..Len(t) /\ ~(i0 > h)
      BY <2>2, <2>5
    <3> QED BY <3>1, <3>2
  <2>6. \E j \in 1..Len(t) : t[j].symbols[sym] # Null
    BY <2>2
  <2> QED BY <2>3, <2>4, <2>5, <2>6 DEF Scope
<1> QED BY <1>1, <1>2

LEMMA HighestMark ==
    ASSUME NEW S, NEW n \in Nat, S \subseteq 1..n
    PROVE  IF S = {} THEN Highest(S) = 0 ELSE Highest(S) \in S
<1>1. CASE S = {}
  BY <1>1 DEF Highest, None
<1>2. CASE S # {}
  <2>1. S \subseteq 0..n
    OBVIOUS
  <2> QED BY <1>2, <2>1, HighestOf DEF Highest
<1> QED BY <1>1, <1>2

LEMMA WiderSeq ==
    ASSUME NEW S, NEW T, S \subseteq T, NEW t \in Seq(S)
    PROVE  t \in Seq(T)
<1>1. t = [i \in 1..Len(t) |-> t[i]] /\ Len(t) \in Nat
  OBVIOUS
<1>2. \A i \in 1..Len(t) : t[i] \in T
  OBVIOUS
<1> QED BY <1>1, <1>2

LEMMA GotoType ==
    ASSUME NEW t \in Seq(Scope), NEW n \in Nodes \cup {Null}, Goto(t, n)
    PROVE  trail' \in Seq(Scope) /\ trail' # <<>> /\ due' \in BOOLEAN
<1>1. [node |-> n, symbols |-> NoSymbols] \in Scope
  BY DEF Scope, NoSymbols
<1>2. DueAt(n) \in BOOLEAN
  BY DEF DueAt
<1> QED BY <1>1, <1>2 DEF Goto

LEMMA MoveTypes ==
    ASSUME NEW t \in Seq(Scope), t # <<>>, StepForward(t) \/ StepBack(t)
    PROVE  trail' \in Seq(Scope) /\ trail' # <<>> /\ due' \in BOOLEAN
<1>1. CASE StepForward(t)
  <2>1. PICK n \in StepsOf(Top.node) \cup {Null} : Goto(t, n)
    BY <1>1 DEF StepForward
  <2>2. n \in Nodes \cup {Null}
    BY <2>1 DEF StepsOf
  <2> QED BY <2>1, <2>2, GotoType
<1>2. CASE StepBack(t)
  BY <1>2, BackType DEF StepBack
<1> QED BY <1>1, <1>2

\* The current scope's symbols change, and nothing else of the stack.
LEMMA PutType ==
    ASSUME NEW t \in Seq(Scope), t # <<>>, NEW table \in [Symbols -> Values \cup {Null}]
    PROVE  LET u == [t EXCEPT ![Len(t)].symbols = table]
           IN  /\ u \in Seq(Scope) /\ Len(u) = Len(t) /\ u # <<>>
               /\ u[Len(t)] = [t[Len(t)] EXCEPT !.symbols = table]
               /\ u[Len(t)].node = t[Len(t)].node /\ u[Len(t)].symbols = table
               /\ \A i \in 1..Len(t) : i # Len(t) => u[i] = t[i]
<1> DEFINE u == [t EXCEPT ![Len(t)].symbols = table]
<1>1. Len(t) \in DOMAIN t /\ t[Len(t)] \in Scope
  OBVIOUS
<1>2. [t[Len(t)] EXCEPT !.symbols = table] \in Scope
  BY <1>1 DEF Scope
<1>3. u \in Seq(Scope) /\ Len(u) = Len(t)
  BY <1>1, <1>2
<1>4. u[Len(t)] = [t[Len(t)] EXCEPT !.symbols = table]
  BY <1>1
<1>5. u[Len(t)].node = t[Len(t)].node /\ u[Len(t)].symbols = table
  BY <1>1, <1>4 DEF Scope
<1> QED BY <1>3, <1>4, <1>5

\* What a field stores.
LEMMA StoredType ==
    ASSUME trail \in Seq(Scope), trail # <<>>, Top.node \in Nodes,
           field \in DOMAIN FieldsOf(Top.node), new \in Values \cup {Null}
    PROVE  /\ Stored \in Seq(Scope) /\ Stored # <<>> /\ Len(Stored) = Len(trail)
           /\ Stored[Len(trail)].node = Top.node
           /\ \A i \in 1..Len(trail) : i # Len(trail) => Stored[i] = trail[i]
           /\ \A s \in Symbols : s # FieldHere.sym =>
                 Stored[Len(trail)].symbols[s] = trail[Len(trail)].symbols[s]
           /\ Text(new) # Empty => Text(Lookup(Stored, FieldHere.sym)) # Empty
<1>1. FieldHere \in Field /\ FieldHere.sym \in Symbols
  <2>1. FieldHere \in Field
    BY FieldFacts DEF FieldHere
  <2> QED BY <2>1 DEF Field
<1>2. CASE Text(new) = Text(Lookup(trail, FieldHere.sym))
  BY <1>2 DEF Stored, Top
<1>3. CASE Text(new) # Text(Lookup(trail, FieldHere.sym))
  <2> DEFINE table == [Top.symbols EXCEPT ![FieldHere.sym] = new]
  <2>1. Top \in Scope
    BY TopType
  <2>2. table \in [Symbols -> Values \cup {Null}] /\ table[FieldHere.sym] = new
        /\ \A s \in Symbols : s # FieldHere.sym => table[s] = Top.symbols[s]
    BY <1>1, <2>1 DEF Scope
  <2>3. Stored = [trail EXCEPT ![Len(trail)].symbols = table]
    BY <1>3 DEF Stored, Top
  <2> HIDE DEF table
  <2>4. /\ Stored \in Seq(Scope) /\ Len(Stored) = Len(trail)
        /\ Stored[Len(trail)].symbols = table
    BY <2>2, <2>3, PutType
  <2>5. ASSUME Text(new) # Empty PROVE Lookup(Stored, FieldHere.sym) = new
    <3>1. new # Null
      BY <2>5 DEF Text
    <3>2. Len(Stored) \in 1..Len(Stored) /\ \A j \in 1..Len(Stored) : ~(j > Len(Stored))
      BY <2>4
    <3> QED BY <1>1, <2>2, <2>4, <3>1, <3>2, LookupIs
  <2>6. Stored # <<>>
    BY <2>4
  <2> QED BY <2>2, <2>3, <2>4, <2>5, <2>6, PutType DEF Top
<1> QED BY <1>2, <1>3

\* Only the scopes' values of a symbol decide what it is looked up as.
LEMMA LookupSame ==
    ASSUME NEW t \in Seq(Scope), NEW u \in Seq(Scope), NEW sym \in Symbols, Len(t) = Len(u),
           \A i \in 1..Len(t) : t[i].symbols[sym] = u[i].symbols[sym]
    PROVE  Lookup(t, sym) = Lookup(u, sym)
<1> DEFINE bt == {i \in 1..Len(t) : t[i].symbols[sym] # Null}
           bu == {i \in 1..Len(u) : u[i].symbols[sym] # Null}
           i0 == CHOOSE i \in bt : \A j \in bt : j <= i
<1>1. bt = bu
  OBVIOUS
<1>2. CASE bt = {}
  BY <1>1, <1>2 DEF Lookup
<1>3. CASE bt # {}
  <2>1. bt \subseteq 0..Len(t) /\ Len(t) \in Nat
    OBVIOUS
  <2>2. i0 \in bt
    <3> HIDE DEF bt
    <3> QED BY <1>3, <2>1, HighestOf
  <2>3. Lookup(t, sym) = t[i0].symbols[sym]
    BY <1>3 DEF Lookup
  <2>4. Lookup(u, sym) = u[i0].symbols[sym]
    BY <1>1, <1>3 DEF Lookup
  <2> HIDE DEF i0
  <2> QED BY <2>2, <2>3, <2>4
<1> QED BY <1>2, <1>3

\* A new scope hides nothing.
LEMMA LookupPushed ==
    ASSUME NEW t \in Seq(Scope), NEW n \in Nodes \cup {Null}, NEW sym \in Symbols
    PROVE  LET u == Append(t, [node |-> n, symbols |-> NoSymbols])
           IN  Len(u) = Len(t) + 1 /\ Lookup(u, sym) = Lookup(t, sym)
<1> DEFINE u == Append(t, [node |-> n, symbols |-> NoSymbols])
<1>1. [node |-> n, symbols |-> NoSymbols] \in Scope
  BY DEF Scope, NoSymbols
<1>2. /\ u \in Seq(Scope) /\ Len(u) = Len(t) + 1
      /\ \A i \in 1..Len(t) : u[i] = t[i] /\ i \in 1..Len(u)
      /\ u[Len(t) + 1].symbols[sym] = Null /\ Len(t) + 1 \in 1..Len(u)
  BY <1>1 DEF NoSymbols
<1> HIDE DEF u
<1> DEFINE bt == {i \in 1..Len(t) : t[i].symbols[sym] # Null}
           bu == {i \in 1..Len(u) : u[i].symbols[sym] # Null}
           i0 == CHOOSE i \in bt : \A j \in bt : j <= i
<1>3. bt = bu
  <2>1. \A i \in bu : i \in 1..Len(t)
    BY <1>2
  <2> QED BY <1>2, <2>1
<1>4. CASE bt = {}
  BY <1>2, <1>3, <1>4 DEF Lookup, u
<1>5. CASE bt # {}
  <2>1. bt \subseteq 0..Len(t) /\ Len(t) \in Nat
    OBVIOUS
  <2>2. i0 \in bt
    <3> HIDE DEF bt
    <3> QED BY <1>5, <2>1, HighestOf
  <2>3. Lookup(t, sym) = t[i0].symbols[sym]
    BY <1>5 DEF Lookup
  <2>4. Lookup(u, sym) = u[i0].symbols[sym]
    BY <1>3, <1>5 DEF Lookup
  <2> HIDE DEF i0
  <2>5. Lookup(u, sym) = Lookup(t, sym)
    BY <1>2, <2>2, <2>3, <2>4
  <2> QED BY <1>2, <2>5 DEF u
<1> QED BY <1>4, <1>5

\* The field that is asked for next, and what its loop starts with.
LEMMA AskFromType ==
    ASSUME NEW t \in Seq(Scope), t # <<>>, Top.node \in Nodes, t[Len(t)].node = Top.node,
           NEW i \in Nat, 1 <= i, due \in BOOLEAN, AskFrom(t, i)
    PROVE  /\ trail' \in Seq(Scope) /\ trail' # <<>> /\ due' \in BOOLEAN
           /\ new' \in Values \cup {Null} /\ items' = <<>>
           /\ \/ /\ pc' = "screen" /\ StepForward(t)
                 /\ \A j \in i..Len(FieldsOf(Top.node)) :
                       FieldsOf(Top.node)[j].type \notin Prompted
              \/ /\ pc' = "field" /\ trail' = t /\ Top'.node = Top.node
                 /\ field' \in DOMAIN FieldsOf(Top.node) /\ i <= field'
                 /\ \A j \in i..(field' - 1) : FieldsOf(Top.node)[j].type \notin Prompted
                 /\ FieldsOf(Top.node)[field'].type \in Prompted
                 /\ marks' \subseteq 1..Count'
<1> DEFINE n == Top.node
           rest == {j \in i..Len(FieldsOf(n)) : FieldsOf(n)[j].type \in Prompted}
           j0 == CHOOSE j \in rest : \A k \in rest : j <= k
<1>1. FieldsOf(n) \in Seq(Field) /\ Len(FieldsOf(n)) \in Nat
  BY FieldFacts
<1>2. CASE rest = {}
  <2>1. FirstAsked(n, i) = 0
    BY <1>2 DEF FirstAsked
  <2>2. StepForward(t) /\ pc' = "screen" /\ NoField
    BY <2>1 DEF AskFrom
  <2>3. \A j \in i..Len(FieldsOf(n)) : FieldsOf(n)[j].type \notin Prompted
    BY <1>2
  <2>4. <<>> \in Seq(Values)
    OBVIOUS
  <2> QED BY <2>2, <2>3, <2>4, MoveTypes DEF NoField
<1>3. CASE rest # {}
  <2>1. rest \subseteq 0..Len(FieldsOf(n))
    OBVIOUS
  <2>2. j0 \in rest /\ \A k \in rest : j0 <= k
    <3> HIDE DEF rest
    <3> QED BY <1>1, <1>3, <2>1, LowestOf
  <2>3. FirstAsked(n, i) = j0
    BY <1>3 DEF FirstAsked
  <2> HIDE DEF j0
  <2>4. /\ j0 \in i..Len(FieldsOf(n)) /\ j0 \in DOMAIN FieldsOf(n) /\ j0 # 0
        /\ FieldsOf(n)[j0].type \in Prompted
        /\ \A j \in i..(j0 - 1) : FieldsOf(n)[j].type \notin Prompted
    <3>1. j0 \in i..Len(FieldsOf(n)) /\ j0 \in DOMAIN FieldsOf(n) /\ j0 # 0
          /\ FieldsOf(n)[j0].type \in Prompted
      BY <1>1, <2>2
    <3>2. ASSUME NEW j \in i..(j0 - 1) PROVE FieldsOf(n)[j].type \notin Prompted
      <4>1. j \notin rest
        BY <2>2, <3>1
      <4> QED BY <3>1, <4>1
    <3> QED BY <3>1, <3>2
  <2>5. trail' = t /\ UNCHANGED due /\ pc' = "field" /\ Ask(t, n, j0)
    BY <2>3, <2>4 DEF AskFrom
  <2>6. Top'.node = n
    BY <2>5 DEF Top
  <2> DEFINE f == FieldsOf(n)[j0]
  <2>7. f \in Field /\ f.sym \in Symbols
    <3>1. f \in Field
      BY <1>1, <2>4
    <3> QED BY <3>1 DEF Field
  <2>8. /\ field' = j0 /\ new' = Lookup(t, f.sym) /\ items' = <<>>
        /\ marks' = IF f.type = "RING" THEN RingMark(new') ELSE {}
    BY <2>5 DEF Ask
  <2>9. new' \in Values \cup {Null}
    BY <2>7, <2>8, LookupIs
  <2>10. FieldHere' = f
    BY <2>6, <2>8 DEF FieldHere
  <2> HIDE DEF f
  <2>11. ASSUME NEW v PROVE RingMark(v) \subseteq 1..Len(Ring)
    <3> DEFINE fits == {k \in DOMAIN Ring : Ring[k].value = v}
    <3>1. fits \subseteq 0..Len(Ring) /\ Len(Ring) \in Nat /\ DOMAIN Ring = 1..Len(Ring)
      BY ValuesAssumption
    <3>2. CASE fits = {}
      BY <3>2 DEF RingMark
    <3>3. CASE fits # {}
      <4>1. (CHOOSE k \in fits : \A l \in fits : l <= k) \in fits
        <5> HIDE DEF fits
        <5> QED BY <3>1, <3>3, HighestOf
      <4> QED BY <3>1, <4>1 DEF RingMark
    <3> QED BY <3>2, <3>3
  <2>12. marks' \subseteq 1..Count'
    BY <2>8, <2>10, <2>11 DEF Count
  <2> QED BY <2>4, <2>5, <2>6, <2>8, <2>9, <2>12
<1> QED BY <1>2, <1>3

-----------------------------------------------------------------------------
(* The invariant.                                                          *)
SessionTyped ==
    /\ trail \in Seq(Scope)
    /\ due \in BOOLEAN /\ ended \in BOOLEAN /\ helping \in BOOLEAN
    /\ pc \in {"load", "screen", "menu", "field", "listed", "list", "collect", "action", "quit"}
    /\ pc \notin {"load", "quit"} => trail # <<>>
    /\ new \in Values \cup {Null} /\ items \in Seq(Values)
    /\ start \in Nat /\ last \in Int

CommandTyped ==
    /\ proc \in Command
    /\ reading \in Streams \cup {"none", "wait"}
    /\ data \in Seq(Lines) /\ pipe \in [Streams -> Seq(Lines)]
    /\ given \in [to : Nodes \cup {Null}, ok : BOOLEAN, out : Seq(Lines), lost : BOOLEAN]

\* A command is there exactly while it is collected, and it is the screen's.
CollectsOwn ==
    /\ pc # "collect" => proc = NoProc /\ data = <<>> /\ pipe = Blank
    /\ pc = "collect" =>
          /\ proc.kind # "none" /\ proc.leader # "none"
          /\ proc.for = Top.node /\ Top.node # Null
          /\ given = NotGiven

\* What was read and what the pipe holds is what the command wrote; once its
\* output was read to the end it writes no more.
NothingLost ==
    /\ data \o pipe["out"] = proc.wrote["out"]
    /\ \A s \in Streams : Len(proc.wrote[s]) <= MaxPieces
    /\ proc.writing # "none" =>
          /\ proc.leader = "running" /\ ~proc.shut
          /\ Len(proc.wrote[proc.writing]) < MaxPieces
    /\ proc.kind = "ac" => proc.writing = "none" /\ reading = "wait" /\ proc.wrote = Blank /\ ~proc.torn
    /\ proc.kind \in {"ic", "lc"} /\ reading \in {"err", "wait"} =>
          pipe["out"] = <<>> /\ (proc.shut \/ proc.leader # "running")

\* The field that is asked for, and the marks of its list.
AtField == pc \in {"field", "listed", "list"} \/ (pc = "collect" /\ proc.kind = "lc")

FieldMarks ==
    /\ AtField => Top.node \in Nodes /\ field \in DOMAIN FieldsOf(Top.node)
    /\ pc = "field" => marks \subseteq 1..Count
    /\ pc \in {"listed", "collect"} /\ AtField => marks = {} /\ FieldHere.type # "RING"
    /\ pc = "collect" /\ AtField => items = <<>>
    /\ pc = "listed" => items # <<>>
    /\ pc = "list" => marks = {} /\ marked \subseteq 1..Count /\ start < Count
    /\ Len(items) <= MaxPieces
    /\ pc = "menu" => Top.node \in Nodes /\ start < Len(Menu)

IInv == SessionTyped /\ CommandTyped /\ CollectsOwn /\ NothingLost /\ FieldMarks

Blanked ==
    /\ trail = <<>> /\ due = FALSE /\ ended = FALSE
    /\ field = 0 /\ new = Null /\ marks = {} /\ items = <<>>
    /\ start = 0 /\ helping = FALSE /\ marked = {} /\ last = None
    /\ reading = "none" /\ data = <<>> /\ proc = NoProc /\ pipe = Blank
    /\ given = NotGiven

LEMMA BlankCommand ==
    ASSUME proc = NoProc, data = <<>>, pipe = Blank, reading = "none"
    PROVE  /\ proc \in Command /\ data \in Seq(Lines) /\ pipe \in [Streams -> Seq(Lines)]
           /\ NothingLost
<1>1. <<>> \in Seq(Lines) /\ Blank \in [Streams -> Seq(Lines)]
      /\ \A s \in Streams : Blank[s] = <<>> /\ Len(Blank[s]) = 0
  BY DEF Blank
<1>2. "out" \in Streams
  BY DEF Streams
<1>3. /\ NoProc.kind = "none" /\ NoProc.writing = "none" /\ NoProc.wrote = Blank
      /\ NoProc \in Command
  BY <1>1 DEF NoProc, Command
<1>4. <<>> \o <<>> = <<>>
  OBVIOUS
<1> QED BY <1>1, <1>2, <1>3, <1>4, BoundsAssumption DEF NothingLost

LEMMA BlankIInv == Blanked /\ pc \in {"load", "quit"} => IInv
<1> SUFFICES ASSUME Blanked, pc \in {"load", "quit"} PROVE IInv
  OBVIOUS
<1>1. <<>> \in Seq(Scope) /\ <<>> \in Seq(Values) /\ <<>> \in Seq(Lines) /\ Len(<<>>) = 0
  OBVIOUS
<1>2. SessionTyped
  <2>1. trail \in Seq(Scope) /\ items \in Seq(Values)
    BY <1>1 DEF Blanked
  <2>2. start \in Nat /\ last \in Int
    BY DEF Blanked, None
  <2> QED BY <2>1, <2>2 DEF Blanked, SessionTyped
<1>3. CommandTyped /\ NothingLost
  BY <1>1, BlankCommand DEF Blanked, CommandTyped, NotGiven
<1>4. CollectsOwn
  BY DEF Blanked, CollectsOwn
<1>5. FieldMarks
  BY <1>1, BoundsAssumption DEF Blanked, FieldMarks, AtField
<1> QED BY <1>2, <1>3, <1>4, <1>5 DEF IInv

LEMMA EndIInv == End => IInv'
<1>1. End => Blanked' /\ (pc \in {"load", "quit"})'
  BY DEF End, Blanked, NoField, NoList, Idle
<1> QED BY <1>1, BlankIInv, PTL

-----------------------------------------------------------------------------
(* The steps that leave the fields and the commands alone go last in each  *)
(* of the following lemmas.                                                *)
Ends == LoadFails \/ Unusable \/ Quit \/ FieldListFails \/ ListOverrun \/ End

LEMMA EndsIInv == Ends => IInv'
BY EndIInv DEF Ends, LoadFails, Unusable, Quit, FieldListFails, ListOverrun

LEMMA SpawnType ==
    ASSUME NEW k \in {"ic", "lc", "ac"}, NEW first, Spawn(k, first)
    PROVE  /\ proc'.kind = k /\ proc'.for = Top.node /\ proc'.leader = "running"
           /\ proc'.writing = "none" /\ ~proc'.shut /\ ~proc'.torn /\ ~proc'.rest /\ proc'.ok
           /\ proc'.wrote = Blank /\ pipe' = Blank /\ data' = <<>> /\ reading' = first
           /\ given' = NotGiven
           /\ Top.node \in Nodes \cup {Null} => proc' \in Command
<1>1. /\ proc' = [NoProc EXCEPT !.kind = k, !.for = Top.node, !.leader = "running"]
      /\ pipe' = Blank /\ data' = <<>> /\ reading' = first /\ given' = NotGiven
  BY DEF Spawn
<1>2. /\ proc'.kind = k /\ proc'.for = Top.node /\ proc'.leader = "running"
      /\ proc'.writing = "none" /\ ~proc'.shut /\ ~proc'.torn /\ ~proc'.rest /\ proc'.ok
      /\ proc'.wrote = Blank
  BY <1>1 DEF NoProc
<1>3. Blank \in [Streams -> Seq(Lines)]
  BY DEF Blank
<1>4. ASSUME Top.node \in Nodes \cup {Null} PROVE proc' \in Command
  BY <1>1, <1>3, <1>4 DEF NoProc, Command
<1> QED BY <1>1, <1>2, <1>4

\* The symbols that an initcommand binds.
LEMMA ParsedType ==
    ASSUME trail \in Seq(Scope), trail # <<>>, NEW table \in [Symbols -> Values \cup {Null}]
    PROVE  /\ Parsed(table) \in Seq(Scope) /\ Parsed(table) # <<>>
           /\ Len(Parsed(table)) = Len(trail) /\ Parsed(table)[Len(trail)].node = Top.node
<1> DEFINE both == [s \in Symbols |-> IF table[s] = Null THEN Top.symbols[s] ELSE table[s]]
<1>1. Top \in Scope
  BY TopType
<1>2. both \in [Symbols -> Values \cup {Null}]
  BY <1>1 DEF Scope
<1>3. Parsed(table) = [trail EXCEPT ![Len(trail)].symbols = both]
  BY DEF Parsed, Top
<1> HIDE DEF both
<1> QED BY <1>2, <1>3, PutType DEF Top

\* The positions that a list starts with are positions of it.
LEMMA InitialIn ==
    ASSUME SessionTyped, FieldMarks, pc \in {"field", "listed"}
    PROVE  Initial \subseteq 1..Count /\ Count \in Nat
<1>1. Count \in Nat /\ items \in Seq(Values)
  BY ValuesAssumption DEF Count, SessionTyped
<1>2. marks \subseteq 1..Count
  <2>1. AtField
    BY DEF AtField
  <2> QED BY <2>1 DEF FieldMarks
<1>3. ASSUME FieldHere.type # "RING", Fits # {}
      PROVE  (CHOOSE i \in Fits : \A j \in Fits : i <= j) \in 1..Count
  <2>1. Fits \subseteq 0..Len(items) /\ Fits \subseteq 1..Len(items) /\ Count = Len(items)
    BY <1>1, <1>3 DEF Fits, Count
  <2>2. (CHOOSE i \in Fits : \A j \in Fits : i <= j) \in Fits
    BY <1>1, <1>3, <2>1, LowestOf
  <2> QED BY <2>1, <2>2
<1> QED BY <1>1, <1>2, <1>3 DEF Initial

\* What a list is left with is a value.
LEMMA ChosenIn ==
    ASSUME SessionTyped, FieldMarks, pc = "list", marked # {}
    PROVE  Chosen \in Values
<1>1. Count \in Nat /\ items \in Seq(Values) /\ Len(items) <= MaxPieces
      /\ Len(items) \in Nat
  BY ValuesAssumption DEF Count, SessionTyped, FieldMarks
<1>2. marked \subseteq 1..Count
  BY DEF FieldMarks
<1>3. ASSUME NEW i \in 1..Count PROVE ItemValue(i) \in Values
  <2>1. CASE FieldHere.type = "RING"
    <3>1. Ring[i] \in RingValue /\ ItemValue(i) = Ring[i].value
      BY <1>3, <2>1, ValuesAssumption DEF Count, ItemValue
    <3> QED BY <3>1 DEF RingValue
  <2>2. CASE FieldHere.type # "RING"
    <3>1. items[i] \in Values
      BY <1>1, <1>3, <2>2 DEF Count
    <3> QED BY <2>2, <3>1, ValuesAssumption DEF ItemValue
  <2> QED BY <2>1, <2>2
<1>4. CASE Multiple
  <2>1. Count = Len(items)
    BY <1>4 DEF Multiple, Count
  <2>2. marked \in SUBSET (1..MaxPieces)
    BY <1>1, <1>2, <2>1, BoundsAssumption
  <2>3. [i \in marked |-> ItemValue(i)] \in [marked -> Values]
    BY <1>2, <1>3
  <2>4. Joined[[i \in marked |-> ItemValue(i)]] \in Values
    BY <2>2, <2>3, BoundsAssumption
  <2> QED BY <1>4, <2>4 DEF Chosen
<1>5. CASE ~Multiple
  <2>1. Highest(marked) \in 1..Count
    BY <1>1, <1>2, HighestMark
  <2> QED BY <1>3, <1>5, <2>1 DEF Chosen
<1> QED BY <1>4, <1>5

\* The session: the screens, their symbols, the value that is edited.
LEMMA SessionStep ==
    ASSUME IInv, [Next]_vars
    PROVE  SessionTyped'
<1> USE DEF library, asked, pages, list, command, Environment
<1>0. SessionTyped
  BY DEF IInv
<1>1. ASSUME Ends PROVE SessionTyped'
  BY <1>1, EndsIInv DEF IInv
<1>2. ASSUME UNCHANGED <<due, ended, helping, new, items, start, last, trail>>,
             pc' \in {"screen", "menu", "field", "listed", "list", "collect", "action"},
             pc \notin {"load", "quit"}
      PROVE  SessionTyped'
  BY <1>0, <1>2 DEF SessionTyped
<1>3. ASSUME Loaded PROVE SessionTyped'
  <2>1. ASSUME NEW n \in Entries \cup {Null}, Goto(<<>>, n)
        PROVE  trail' \in Seq(Scope) /\ trail' # <<>> /\ due' \in BOOLEAN
    <3>1. n \in Nodes \cup {Null} /\ <<>> \in Seq(Scope)
      BY DocFacts DEF Entries
    <3> QED BY <2>1, <3>1, GotoType
  <2>2. ASSUME NEW t \in Saved, trail' = t, due' = (Len(t) = 1 /\ DueAt(doc.root))
        PROVE  trail' \in Seq(Scope) /\ trail' # <<>> /\ due' \in BOOLEAN
    <3>1. t \in Seq([node : Nodes, symbols : [Symbols -> Values \cup {Null}]]) /\ t # <<>>
      BY SavedAssumption
    <3>2. [node : Nodes, symbols : [Symbols -> Values \cup {Null}]] \subseteq Scope
      BY DEF Scope
    <3>3. t \in Seq(Scope)
      BY <3>1, <3>2, WiderSeq
    <3>5. due' \in BOOLEAN
      BY <2>2
    <3> QED BY <2>2, <3>1, <3>3, <3>5
  <2>3. trail' \in Seq(Scope) /\ trail' # <<>> /\ due' \in BOOLEAN
    BY <1>3, <2>1, <2>2 DEF Loaded
  <2> QED BY <1>0, <1>3, <2>3 DEF Loaded, SessionTyped
<1>4. ASSUME UNCHANGED <<ended, new, items, last>>, start' \in Nat, helping' \in BOOLEAN,
             pc' = "screen" \/ UNCHANGED pc, pc \notin {"load", "quit"},
             StepForward(trail) \/ StepBack(trail)
      PROVE  SessionTyped'
  BY <1>0, <1>4, MoveTypes DEF SessionTyped
<1>5. ASSUME RunMenu \/ RunHidden \/ RunInitcommand \/ RunAction, ~Ends PROVE SessionTyped'
  <2>1. CASE RunMenu
    BY <1>0, <2>1 DEF RunMenu, At, SessionTyped
  <2>2. CASE RunHidden
    BY <1>0, <1>4, <2>2 DEF RunHidden, At, SessionTyped
  <2>3. CASE RunInitcommand
    BY <1>2, <1>5, <2>3 DEF RunInitcommand, Ends
  <2>4. CASE RunAction
    BY <1>0, <1>2, <1>4, <2>4 DEF RunAction, At, SessionTyped
  <2> QED BY <1>5, <2>1, <2>2, <2>3, <2>4
<1>6. ASSUME NEW k \in Numbers, MenuChoose(k) PROVE SessionTyped'
  <2>1. CASE helping
    BY <1>0, <1>6, <2>1 DEF MenuChoose, LeavePages, SessionTyped
  <2>2. CASE ~helping
    <3>1. Menu \in Seq(Nodes)
      BY <1>6, SiblingsAssumption DEF IInv, FieldMarks, MenuChoose, Menu
    <3>2. k \in Int /\ k > 0 /\ k <= Len(Menu) - start /\ start \in Nat
      BY <1>0, <1>6, BoundsAssumption DEF MenuChoose, OnPage, SessionTyped
    <3>3. Menu[start + k] \in Nodes
      BY <3>1, <3>2
    <3>4. Goto(trail, Menu[start + k]) /\ pc' = "screen"
      BY <1>6, <2>2 DEF MenuChoose
    <3> QED BY <1>0, <1>6, <3>3, <3>4, GotoType DEF MenuChoose, LeavePages, SessionTyped
  <2> QED BY <2>1, <2>2
<1>7. ASSUME NEW result \in {"MORE", "HELP", "BACK"}, MenuAnswer(result) PROVE SessionTyped'
  <2>1. PageSize \in Nat /\ start \in Nat
    BY <1>0, BoundsAssumption DEF SessionTyped
  <2>2. CASE result = "MORE"
    <3>1. start' \in Nat /\ UNCHANGED <<library, pc, helping, ended, asked, list>>
      BY <1>7, <2>1, <2>2 DEF MenuAnswer, Turn, Gets
    <3> QED BY <1>0, <3>1 DEF SessionTyped
  <2>3. CASE result = "HELP"
    BY <1>0, <1>7, <2>3 DEF MenuAnswer, Gets, SessionTyped
  <2>4. CASE result = "BACK"
    <3>1. /\ StepBack(trail) /\ pc' = "screen" /\ start' = 0 /\ helping' = FALSE
          /\ UNCHANGED <<ended, asked, list>> /\ pc = "menu"
      BY <1>7, <2>4 DEF MenuAnswer, Gets, LeavePages
    <3> QED BY <1>0, <3>1, MoveTypes DEF SessionTyped
  <2> QED BY <1>7, <2>2, <2>3, <2>4
<1>8. ASSUME ActionBack PROVE SessionTyped'
  BY <1>0, <1>4, <1>8 DEF ActionBack, Gets, SessionTyped
<1>9. ASSUME RunDialog PROVE SessionTyped'
  <2>1. Top.node \in Nodes /\ trail # <<>>
    BY <1>0, <1>9, TopType DEF RunDialog, At, TypeOf, SessionTyped, Scope
  <2>2. AskFrom(trail, 1) /\ UNCHANGED <<ended, pages, list>>
    BY <1>9 DEF RunDialog
  <2>3. /\ trail' \in Seq(Scope) /\ trail' # <<>> /\ due' \in BOOLEAN
        /\ new' \in Values \cup {Null} /\ items' = <<>> /\ pc' \in {"screen", "field"}
    BY <1>0, <2>1, <2>2, AskFromType DEF SessionTyped, Top
  <2> QED BY <1>0, <2>2, <2>3 DEF SessionTyped
<1>10. pc = "field" =>
          /\ Top.node \in Nodes /\ trail # <<>> /\ field \in DOMAIN FieldsOf(Top.node)
          /\ field \in Nat /\ FieldHere \in Field
          /\ Stored \in Seq(Scope) /\ Stored # <<>> /\ Stored[Len(Stored)].node = Top.node
  <2> SUFFICES ASSUME pc = "field"
      PROVE  /\ Top.node \in Nodes /\ trail # <<>> /\ field \in DOMAIN FieldsOf(Top.node)
             /\ field \in Nat /\ FieldHere \in Field
             /\ Stored \in Seq(Scope) /\ Stored # <<>> /\ Stored[Len(Stored)].node = Top.node
    OBVIOUS
  <2>1. Top.node \in Nodes /\ trail # <<>> /\ field \in DOMAIN FieldsOf(Top.node)
    <3>1. AtField /\ pc \notin {"load", "quit"}
      BY DEF AtField
    <3> QED BY <1>0, <3>1 DEF IInv, FieldMarks, SessionTyped
  <2>2. field \in Nat /\ FieldHere \in Field
    BY <2>1, FieldFacts DEF FieldHere
  <2> QED BY <1>0, <2>1, <2>2, StoredType DEF SessionTyped
<1>11. ASSUME FieldNext PROVE SessionTyped'
  <2>1. pc = "field" /\ AskFrom(Stored, field + 1) /\ UNCHANGED <<ended, pages, list>>
    BY <1>11 DEF FieldNext, Gets
  <2>2. /\ trail' \in Seq(Scope) /\ trail' # <<>> /\ due' \in BOOLEAN
        /\ new' \in Values \cup {Null} /\ items' = <<>> /\ pc' \in {"screen", "field"}
    <3>1. field + 1 \in Nat /\ 1 <= field + 1 /\ due \in BOOLEAN
      BY <1>0, <1>10, <2>1 DEF SessionTyped
    <3> HIDE DEF Stored
    <3> QED BY <1>10, <2>1, <3>1, AskFromType
  <2> QED BY <1>0, <2>1, <2>2 DEF SessionTyped
<1>12. ASSUME FieldBack PROVE SessionTyped'
  <2>1. trail' \in Seq(Scope) /\ trail' # <<>> /\ due' \in BOOLEAN
    BY <1>10, <1>12, MoveTypes DEF FieldBack
  <2> QED BY <1>0, <1>12, <2>1 DEF FieldBack, Gets, NoField, SessionTyped
<1>13. ASSUME NEW v \in Values \cup {Null}, FieldChange(v) PROVE SessionTyped'
  BY <1>0, <1>13 DEF FieldChange, Gets, SessionTyped
<1>14. ASSUME FieldList PROVE SessionTyped'
  <2>1. pc = "field" /\ pc' \in {"list", "collect"} /\ start' \in {start, 0} /\ last' \in Int
        /\ UNCHANGED <<trail, due, ended, new, items, helping>>
    <3>1. CASE Count > 0
      <4>1. OpenList(Initial) /\ pc = "field"
            /\ UNCHANGED <<trail, due, ended, new, items, helping>>
        BY <1>14, <3>1 DEF FieldList, Gets
      <4>2. Initial \subseteq 1..Count /\ Count \in Nat
        BY <4>1, InitialIn DEF IInv
      <4>3. last' \in Int
        BY <4>1, <4>2, HighestMark DEF OpenList, None
      <4> QED BY <4>1, <4>3 DEF OpenList
    <3>2. CASE ~(Count > 0)
      BY <1>0, <1>14, <3>2 DEF FieldList, Gets, Spawn, SessionTyped
    <3> QED BY <3>1, <3>2
  <2> QED BY <1>0, <2>1 DEF SessionTyped
<1>15. ASSUME NEW k \in Numbers, ListChoose(k) PROVE SessionTyped'
  <2>1. start + k \in Int
    BY <1>0, BoundsAssumption DEF SessionTyped
  <2>2. last' \in Int
    BY <1>0, <1>15, <2>1 DEF ListChoose, None, SessionTyped
  <2> QED BY <1>0, <1>15, <2>2 DEF ListChoose, SessionTyped
<1>16. ASSUME ListMore PROVE SessionTyped'
  BY <1>0, <1>16, BoundsAssumption DEF ListMore, Turn, SessionTyped
<1>17. ASSUME ListCancel PROVE SessionTyped'
  BY <1>0, <1>17 DEF ListCancel, CloseList, NoList, None, SessionTyped
<1>18. ASSUME ListDone PROVE SessionTyped'
  <2>1. new' \in Values
    BY <1>18, ChosenIn, ValuesAssumption DEF ListDone, IInv
  <2> QED BY <1>0, <1>18, <2>1 DEF ListDone, CloseList, NoList, None, SessionTyped
<1>19. ASSUME InputEnds PROVE SessionTyped'
  BY <1>0, <1>19 DEF InputEnds, SessionTyped
<1>20. ASSUME Collect PROVE SessionTyped'
  <2>1. ASSUME NEW s \in Streams, ReadSome(s) \/ ReadEnd(s) PROVE SessionTyped'
    BY <1>0, <2>1 DEF ReadSome, ReadEnd, SessionTyped
  <2>2. CASE GiveUp
    BY <1>0, <2>2 DEF GiveUp, SessionTyped
  <2>3. CASE FinishInitcommand
    <3>1. pc = "collect" /\ pc' = "screen" /\ trail # <<>> /\ trail \in Seq(Scope)
          /\ UNCHANGED <<ended, asked, pages, list>>
      BY <1>0, <2>3 DEF FinishInitcommand, Finish, Reading, SessionTyped
    <3>2. trail' \in Seq(Scope) /\ trail' # <<>> /\ due' \in BOOLEAN
      <4>1. CASE StepBack(trail)
        BY <3>1, <4>1, MoveTypes
      <4>2. ASSUME NEW table \in [Symbols -> Values \cup {Null}], trail' = Parsed(table),
                   due' = FALSE
            PROVE  trail' \in Seq(Scope) /\ trail' # <<>> /\ due' \in BOOLEAN
        BY <3>1, <4>2, ParsedType
      <4> QED BY <2>3, <4>1, <4>2 DEF FinishInitcommand
    <3> QED BY <1>0, <3>1, <3>2 DEF SessionTyped
  <2>4. CASE FinishList
    <3>1. pc = "collect" /\ pc' \in {"field", "listed"} /\ items' \in {items, data}
          /\ UNCHANGED <<library, ended, new, pages, list>>
      BY <2>4 DEF FinishList, Finish, Reading
    <3>2. data \in Seq(Values)
      BY ValuesAssumption DEF IInv, CommandTyped
    <3> QED BY <1>0, <3>1, <3>2 DEF SessionTyped
  <2>5. CASE FinishAction
    BY <1>0, <2>5 DEF FinishAction, Finish, Reading, SessionTyped
  <2>6. CASE ShowList
    <3>1. OpenList(Initial) /\ pc = "listed" /\ UNCHANGED <<library, ended, new, items, helping>>
      BY <2>6 DEF ShowList
    <3>2. Initial \subseteq 1..Count /\ Count \in Nat
      BY <3>1, InitialIn DEF IInv
    <3>3. last' \in Int
      BY <3>1, <3>2, HighestMark DEF OpenList, None
    <3> QED BY <1>0, <3>1, <3>3 DEF OpenList, SessionTyped
  <2> QED BY <1>20, <2>1, <2>2, <2>3, <2>4, <2>5, <2>6 DEF Collect
<1>21. ASSUME NEW s \in Streams, ReadError(s) PROVE SessionTyped'
  BY <1>0, <1>21 DEF ReadError, SessionTyped
<1>22. ASSUME Processes PROVE SessionTyped'
  <2>1. UNCHANGED <<library, pc, ended, asked, pages, list>>
    BY <1>22 DEF Processes, Write, Written, Exit, Fork, CloseStreams, RestExits
  <2> QED BY <1>0, <2>1 DEF SessionTyped
<1>23. CASE UNCHANGED vars
  BY <1>0, <1>23 DEF vars, SessionTyped
<1> QED
  BY <1>1, <1>3, <1>5, <1>6, <1>7, <1>8, <1>9, <1>11, <1>12, <1>13, <1>14, <1>15, <1>16,
     <1>17, <1>18, <1>19, <1>20, <1>21, <1>22, <1>23
     DEF Next, Screen, Answers, Ends

-----------------------------------------------------------------------------
CommandPart == CommandTyped /\ CollectsOwn /\ NothingLost

\* No command runs, and none is started.
LEMMA CommandQuiet ==
    ASSUME CommandPart, pc # "collect", pc' # "collect", UNCHANGED command,
           given' \in [to : Nodes \cup {Null}, ok : BOOLEAN, out : Seq(Lines), lost : BOOLEAN]
    PROVE  CommandPart'
BY DEF CommandPart, CommandTyped, CollectsOwn, NothingLost, command

\* A command is started by a screen.
LEMMA CommandStarts ==
    ASSUME CommandPart, NEW k \in {"ic", "lc", "ac"}, NEW first \in {"out", "wait"},
           k = "ac" <=> first = "wait",
           Spawn(k, first), pc' = "collect", UNCHANGED trail, Top.node \in Nodes
    PROVE  CommandPart'
<1>1. /\ proc'.kind = k /\ proc'.for = Top.node /\ proc'.leader = "running"
      /\ proc'.writing = "none" /\ proc'.wrote = Blank /\ pipe' = Blank /\ data' = <<>> /\ ~proc'.torn
      /\ reading' = first /\ given' = NotGiven /\ proc' \in Command
  BY SpawnType
<1>2. Top'.node = Top.node /\ Top.node # Null
  BY NullAssumption DEF Top
<1>3. CollectsOwn'
  BY <1>1, <1>2 DEF CollectsOwn
<1>4. NothingLost'
  <2>1. Blank["out"] = <<>> /\ <<>> \o <<>> = <<>> /\ \A s \in Streams : Len(Blank[s]) = 0
    BY DEF Blank, Streams
  <2> QED BY <1>1, <2>1, BoundsAssumption DEF NothingLost
<1>5. CommandTyped'
  <2>1. NotGiven \in [to : Nodes \cup {Null}, ok : BOOLEAN, out : Seq(Lines), lost : BOOLEAN]
    BY DEF NotGiven
  <2>2. Blank \in [Streams -> Seq(Lines)] /\ <<>> \in Seq(Lines)
    BY DEF Blank
  <2> QED BY <1>1, <2>1, <2>2 DEF CommandTyped, Streams
<1> QED BY <1>3, <1>4, <1>5 DEF CommandPart

\* What a step of a process may change.
LEMMA ProcessStep ==
    ASSUME IInv, Processes
    PROVE  CommandPart'
<1> USE DEF Environment
<1>0. CommandTyped /\ CollectsOwn /\ NothingLost /\ proc \in Command
  BY DEF IInv, CommandTyped
<1>1. pc = "collect" /\ proc.kind \in {"ic", "lc", "ac"}
  <2>1. proc.leader = "running" \/ proc.writing \in Streams \/ proc.rest
    BY DEF Processes, Write, Written, Exit, Fork, CloseStreams, RestExits
  <2>2. proc # NoProc
    BY <2>1 DEF NoProc, Streams
  <2> QED BY <1>0, <2>2 DEF CollectsOwn, Command
<1>2. UNCHANGED <<trail, pc, reading, data, given>> /\ UNCHANGED Top
  BY DEF Processes, Write, Written, Exit, Fork, CloseStreams, RestExits, library, Top
<1>3. SUFFICES ASSUME proc' \in Command, proc'.kind = proc.kind, proc'.for = proc.for,
                      proc'.leader # "none"
               PROVE  NothingLost' /\ pipe' \in [Streams -> Seq(Lines)]
  <2>1. proc' \in Command /\ proc'.kind = proc.kind /\ proc'.for = proc.for
        /\ proc'.leader # "none"
    <3>1. CASE \E s \in Streams : Write(s)
      BY <1>0, <3>1 DEF Write, Command
    <3>2. ASSUME NEW line \in Lines, Written(line)
          PROVE  /\ proc' \in Command /\ proc'.kind = proc.kind /\ proc'.for = proc.for
                 /\ proc'.leader # "none"
      <4>1. proc.writing \in Streams
            /\ proc' = [proc EXCEPT !.writing = "none",
                                    !.wrote = [proc.wrote EXCEPT ![proc.writing] =
                                                  Append(proc.wrote[proc.writing], line)]]
        BY <3>2 DEF Written
      <4>2. [proc.wrote EXCEPT ![proc.writing] = Append(proc.wrote[proc.writing], line)]
                \in [Streams -> Seq(Lines)]
        BY <1>0, <4>1 DEF Command
      <4>3. proc.leader # "none"
        BY <1>0, <1>1 DEF CollectsOwn
      <4> QED BY <1>0, <4>1, <4>2, <4>3 DEF Command
    <3>3. CASE \E ok \in BOOLEAN : Exit(ok)
      BY <1>0, <3>3 DEF Exit, Command
    <3>4. CASE Fork \/ CloseStreams \/ RestExits
      BY <1>0, <1>1, <3>4 DEF Fork, CloseStreams, RestExits, Command, CollectsOwn
    <3> QED BY <3>1, <3>2, <3>3, <3>4 DEF Processes
  <2>2. CommandTyped' <=> pipe' \in [Streams -> Seq(Lines)]
    BY <1>0, <1>2, <2>1 DEF CommandTyped
  <2>3. CollectsOwn'
    BY <1>0, <1>1, <1>2, <2>1 DEF CollectsOwn
  <2> QED BY <2>1, <2>2, <2>3 DEF CommandPart
<1>4. pipe \in [Streams -> Seq(Lines)] /\ data \in Seq(Lines) /\ proc.wrote \in [Streams -> Seq(Lines)]
      /\ "out" \in Streams
  BY <1>0 DEF CommandTyped, Command, Streams
<1>5. ASSUME NEW s \in Streams, Write(s)
      PROVE  NothingLost' /\ pipe' \in [Streams -> Seq(Lines)]
  <2>1. /\ proc.leader = "running" /\ proc.kind # "ac" /\ ~proc.shut
        /\ Len(proc.wrote[s]) < MaxPieces /\ UNCHANGED pipe
        /\ proc'.writing = s /\ proc'.leader = "running" /\ ~proc'.shut
        /\ proc'.wrote = proc.wrote /\ proc'.torn = proc.torn
    BY <1>0, <1>5 DEF Write, Command
  <2> QED BY <1>0, <1>2, <1>3, <1>4, <2>1 DEF NothingLost
<1>6. ASSUME NEW line \in Lines, Written(line)
      PROVE  NothingLost' /\ pipe' \in [Streams -> Seq(Lines)]
  <2> DEFINE s == proc.writing
  <2>1. /\ s \in Streams /\ proc.leader = "running" /\ ~proc.shut
        /\ Len(proc.wrote[s]) < MaxPieces /\ proc.kind \in {"ic", "lc"}
        /\ reading \notin {"err", "wait"}
    BY <1>0, <1>1, <1>6 DEF NothingLost, Written, Streams
  <2>2. /\ proc'.writing = "none"
        /\ proc'.wrote = [proc.wrote EXCEPT ![s] = Append(proc.wrote[s], line)]
        /\ pipe' = [pipe EXCEPT ![s] = Append(pipe[s], line)]
    BY <1>0, <1>6 DEF Written, Command
  <2>3. pipe' \in [Streams -> Seq(Lines)]
    BY <1>4, <2>1, <2>2
  <2>4. ASSUME NEW r \in Streams PROVE Len(proc'.wrote[r]) <= MaxPieces
    <3>1. CASE r = s
      <4>1. proc'.wrote[r] = Append(proc.wrote[s], line)
        BY <1>4, <2>2, <3>1
      <4>2. Len(Append(proc.wrote[s], line)) = Len(proc.wrote[s]) + 1 /\ Len(proc.wrote[s]) \in Nat
        BY <1>4, <2>1
      <4> QED BY <2>1, <4>1, <4>2, BoundsAssumption
    <3>2. CASE r # s
      BY <1>0, <1>4, <2>2, <3>2 DEF NothingLost
    <3> QED BY <3>1, <3>2
  <2>5. data' \o pipe'["out"] = proc'.wrote["out"]
    <3>1. data \o pipe["out"] = proc.wrote["out"] /\ data' = data
      BY <1>0, <1>2 DEF NothingLost
    <3>2. CASE s = "out"
      <4>1. pipe'["out"] = Append(pipe["out"], line)
            /\ proc'.wrote["out"] = Append(proc.wrote["out"], line)
        BY <1>4, <2>2, <3>2
      <4>2. data \o Append(pipe["out"], line) = Append(data \o pipe["out"], line)
        BY <1>4
      <4> QED BY <3>1, <4>1, <4>2
    <3>3. CASE s # "out"
      BY <1>4, <2>2, <3>1, <3>3
    <3> QED BY <3>2, <3>3
  <2> QED BY <1>2, <1>3, <2>1, <2>2, <2>3, <2>4, <2>5 DEF NothingLost
<1>7. ASSUME NEW ok \in BOOLEAN, Exit(ok)
      PROVE  NothingLost' /\ pipe' \in [Streams -> Seq(Lines)]
  <2>1. /\ proc.writing = "none" /\ proc'.writing = "none" /\ proc'.leader = "zombie"
        /\ proc'.wrote = proc.wrote /\ proc'.torn = proc.torn /\ UNCHANGED pipe
    BY <1>0, <1>7 DEF Exit, Command
  <2> QED BY <1>0, <1>2, <1>3, <1>4, <2>1 DEF NothingLost
<1>8. CASE Fork \/ CloseStreams \/ RestExits
  <2>1. /\ proc'.wrote = proc.wrote /\ proc'.torn = proc.torn /\ UNCHANGED pipe /\ proc'.leader = proc.leader
        /\ proc'.writing = proc.writing /\ (proc.shut => proc'.shut)
        /\ (proc'.shut => proc.shut \/ proc.writing = "none")
    BY <1>0, <1>8 DEF Fork, CloseStreams, RestExits, Command
  <2> QED BY <1>0, <1>2, <1>3, <1>4, <2>1 DEF NothingLost
<1> QED BY <1>5, <1>6, <1>7, <1>8 DEF Processes

\* Reading a stream, and what ends the collection.
LEMMA CollectStep ==
    ASSUME IInv, Collect \/ \E s \in Streams : ReadError(s)
    PROVE  CommandPart'
<1> USE DEF library, command
<1>0. CommandTyped /\ CollectsOwn /\ NothingLost /\ CommandPart /\ proc \in Command
  BY DEF IInv, CommandTyped, CommandPart
<1>1. /\ pipe \in [Streams -> Seq(Lines)] /\ data \in Seq(Lines)
      /\ proc.wrote \in [Streams -> Seq(Lines)] /\ Streams = {"out", "err"}
      /\ <<>> \in Seq(Lines)
  BY <1>0 DEF CommandTyped, Command, Streams
<1>2. pc = "collect" => proc.kind \in {"ic", "lc", "ac"}
  BY <1>0 DEF CollectsOwn, Command
<1>3. ASSUME NEW s \in Streams, ReadSome(s) PROVE CommandPart'
  <2>1. /\ pc = "collect" /\ reading = s /\ pipe' = [pipe EXCEPT ![s] = <<>>]
        /\ data' = IF s = "out" THEN data \o pipe[s] ELSE data
        /\ UNCHANGED <<trail, pc, reading, proc, given>>
    BY <1>3 DEF ReadSome, Reading
  <2>2. pipe' \in [Streams -> Seq(Lines)] /\ data' \in Seq(Lines)
    BY <1>1, <2>1
  <2>3. CommandTyped' /\ CollectsOwn'
    BY <1>0, <2>1, <2>2 DEF CommandTyped, CollectsOwn, Top
  <2>4. data' \o pipe'["out"] = proc'.wrote["out"]
    <3>1. data \o pipe["out"] = proc.wrote["out"]
      BY <1>0 DEF NothingLost
    <3>2. CASE s = "out"
      <4>1. data' = data \o pipe["out"] /\ pipe'["out"] = <<>>
        BY <1>1, <2>1, <3>2
      <4>2. (data \o pipe["out"]) \o <<>> = data \o pipe["out"]
        BY <1>1
      <4> QED BY <2>1, <3>1, <4>1, <4>2
    <3>3. CASE s # "out"
      BY <1>1, <2>1, <3>1, <3>3
    <3> QED BY <3>2, <3>3
  <2>5. s = "err" => pipe'["out"] = pipe["out"]
    BY <1>1, <2>1
  <2>6. s # "wait"
    BY <1>1
  <2>7. NothingLost'
    <3>1. proc'.kind \in {"ic", "lc"} /\ reading' \in {"err", "wait"} =>
              pipe'["out"] = <<>> /\ (proc'.shut \/ proc'.leader # "running")
      BY <1>0, <2>1, <2>5, <2>6 DEF NothingLost
    <3> QED BY <1>0, <2>1, <2>4, <3>1 DEF NothingLost
  <2> QED BY <2>3, <2>7 DEF CommandPart
<1>4. ASSUME NEW s \in Streams, ReadEnd(s) PROVE CommandPart'
  <2>1. /\ pc = "collect" /\ reading = s /\ pipe[s] = <<>>
        /\ proc.shut \/ proc.leader # "running"
        /\ reading' = IF s = "out" THEN "err" ELSE "wait"
        /\ UNCHANGED <<trail, pc, data, proc, pipe, given>>
    BY <1>4 DEF ReadEnd, Reading
  <2>2. CommandTyped' /\ CollectsOwn'
    BY <1>0, <1>1, <2>1 DEF CommandTyped, CollectsOwn, Top
  <2>3. pipe["out"] = <<>> \/ proc.kind = "ac"
    BY <1>0, <1>1, <1>2, <2>1 DEF NothingLost
  <2>4. proc.kind # "ac"
    BY <1>0, <1>1, <2>1 DEF NothingLost
  <2>5. NothingLost'
    BY <1>0, <2>1, <2>3, <2>4 DEF NothingLost
  <2> QED BY <2>2, <2>5 DEF CommandPart
<1>5. ASSUME NEW s \in Streams, ReadError(s) PROVE CommandPart'
  <2>1. /\ proc' = [proc EXCEPT !.torn = TRUE]
        /\ pc = "collect" /\ reading = s /\ UNCHANGED <<trail, pc, reading, data, pipe, given>>
    BY <1>5 DEF ReadError, Reading
  <2>2. /\ proc' \in Command /\ proc'.kind = proc.kind /\ proc'.for = proc.for
        /\ proc'.leader = proc.leader /\ proc'.writing = proc.writing
        /\ proc'.shut = proc.shut /\ proc'.wrote = proc.wrote
    BY <1>0, <2>1 DEF Command
  <2>3. CommandTyped' /\ CollectsOwn'
    BY <1>0, <2>1, <2>2 DEF CommandTyped, CollectsOwn, Top
  <2>4. proc.kind # "ac"
    BY <1>0, <1>1, <2>1 DEF NothingLost
  <2>5. NothingLost'
    BY <1>0, <2>1, <2>2, <2>4 DEF NothingLost
  <2> QED BY <2>3, <2>5 DEF CommandPart
<1>6. ASSUME Idle, pc' # "collect",
             given' \in [to : Nodes \cup {Null}, ok : BOOLEAN, out : Seq(Lines), lost : BOOLEAN]
      PROVE  CommandPart'
  <2>1. (proc = NoProc)' /\ (data = <<>>)' /\ (pipe = Blank)' /\ (reading = "none")'
    BY <1>6 DEF Idle
  <2>2. (/\ proc \in Command /\ data \in Seq(Lines) /\ pipe \in [Streams -> Seq(Lines)]
         /\ NothingLost)'
    BY <2>1, BlankCommand, PTL
  <2> QED BY <1>6, <2>1, <2>2 DEF CommandPart, CommandTyped, CollectsOwn
<1>7. CASE GiveUp
  <2>1. given' \in [to : Nodes \cup {Null}, ok : BOOLEAN, out : Seq(Lines), lost : BOOLEAN]
    BY <1>1, <1>7 DEF GiveUp, NotGiven
  <2> QED BY <1>6, <1>7, <2>1 DEF GiveUp
<1>8. ASSUME NEW k, Finish(k), pc' # "collect" PROVE CommandPart'
  <2>1. given' = [to |-> Top.node, ok |-> proc.ok, out |-> data, lost |-> FALSE] /\ Idle
        /\ pc = "collect"
    BY <1>8 DEF Finish, Reading
  <2>2. Top.node \in Nodes \cup {Null} /\ proc.ok \in BOOLEAN
    BY <1>0, <2>1 DEF CollectsOwn, Command
  <2> QED BY <1>1, <1>6, <1>8, <2>1, <2>2
<1>9. CASE FinishInitcommand \/ FinishList \/ FinishAction
  BY <1>8, <1>9 DEF FinishInitcommand, FinishList, FinishAction
<1>10. CASE ShowList
  BY <1>0, <1>10, CommandQuiet DEF ShowList, OpenList, CommandTyped
<1> QED BY <1>3, <1>4, <1>5, <1>7, <1>9, <1>10 DEF Collect

LEMMA CommandStep ==
    ASSUME IInv, [Next]_vars
    PROVE  CommandPart'
<1> USE DEF library, asked, pages, list
<1>0. /\ CommandPart /\ CommandTyped /\ CollectsOwn /\ SessionTyped /\ FieldMarks
      /\ given \in [to : Nodes \cup {Null}, ok : BOOLEAN, out : Seq(Lines), lost : BOOLEAN]
  BY DEF IInv, CommandTyped, CommandPart
<1>1. CASE Ends
  BY <1>1, EndsIInv DEF IInv, CommandPart
<1>2. CASE \/ Loaded \/ RunMenu \/ RunHidden \/ ActionBack \/ FieldBack
           \/ (\E k \in Numbers : MenuChoose(k) \/ ListChoose(k))
           \/ ListMore \/ ListCancel \/ ListDone
           \/ \E v \in Values \cup {Null} : FieldChange(v)
  <2>1. pc # "collect" /\ pc' # "collect" /\ UNCHANGED <<command, given>>
    BY <1>2 DEF Loaded, RunMenu, RunHidden, At, ActionBack, FieldBack, MenuChoose, ListChoose,
                ListMore, ListCancel, ListDone, CloseList, FieldChange, Gets
  <2> QED BY <1>0, <2>1, CommandQuiet
<1>3. CASE \E result \in {"MORE", "HELP", "BACK"} : MenuAnswer(result)
  <2>1. pc # "collect" /\ pc' # "collect" /\ UNCHANGED <<command, given>>
    BY <1>3 DEF MenuAnswer
  <2> QED BY <1>0, <2>1, CommandQuiet
<1>4. CASE RunDialog \/ FieldNext
  <2>1. pc # "collect" /\ pc' # "collect" /\ UNCHANGED <<command, given>>
    BY <1>4 DEF RunDialog, FieldNext, At, AskFrom
  <2> QED BY <1>0, <2>1, CommandQuiet
<1>5. ASSUME pc = "screen", TypeOf(Top.node) \in {"DIALOG", "HIDDEN", "ACTION"}
      PROVE  Top.node \in Nodes
  BY <1>0, <1>5, TopType DEF TypeOf, SessionTyped, Scope
<1>6. CASE RunInitcommand
  <2>1. CASE End
    BY <1>1, <2>1 DEF Ends
  <2>2. CASE Spawn("ic", FirstRead) /\ pc' = "collect" /\ UNCHANGED <<library, ended, asked, pages, list>>
    BY <1>0, <1>5, <1>6, <2>2, CommandStarts DEF RunInitcommand, FirstRead
  <2> QED BY <1>6, <2>1, <2>2 DEF RunInitcommand
<1>7. CASE RunAction
  <2>1. pc = "screen" /\ Top.node \in Nodes
    BY <1>5, <1>7 DEF RunAction, At
  <2>2. CASE Spawn("ac", "wait") /\ pc' = "collect" /\ UNCHANGED library
    BY <1>0, <2>1, <2>2, CommandStarts
  <2>3. CASE StepBack(trail) /\ UNCHANGED <<pc, command, given>>
    BY <1>0, <2>1, <2>3, CommandQuiet
  <2>4. CASE pc' = "action" /\ given' = [NotGiven EXCEPT !.to = Top.node, !.ok = FALSE]
             /\ UNCHANGED <<library, command>>
    <3>1. given' \in [to : Nodes \cup {Null}, ok : BOOLEAN, out : Seq(Lines), lost : BOOLEAN]
      <4>1. <<>> \in Seq(Lines)
        OBVIOUS
      <4> QED BY <2>1, <2>4, <4>1 DEF NotGiven
    <3> QED BY <1>0, <2>1, <2>4, <3>1, CommandQuiet
  <2> QED BY <1>7, <2>2, <2>3, <2>4 DEF RunAction
<1>8. CASE FieldList
  <2>1. pc = "field" /\ UNCHANGED trail /\ Top.node \in Nodes
    <3>1. AtField => Top.node \in Nodes
      BY <1>0 DEF FieldMarks
    <3> QED BY <1>8, <3>1 DEF FieldList, AtField
  <2>2. CASE OpenList(Initial) /\ UNCHANGED <<command, given>>
    BY <1>0, <2>1, <2>2, CommandQuiet DEF OpenList
  <2>3. CASE Spawn("lc", FirstRead) /\ pc' = "collect"
    BY <1>0, <2>1, <2>3, CommandStarts DEF FirstRead
  <2> QED BY <1>8, <2>2, <2>3 DEF FieldList
<1>9. CASE InputEnds \/ UNCHANGED vars
  <2>1. UNCHANGED <<pc, trail, reading, data, proc, pipe, given>>
    BY <1>9 DEF InputEnds, command, vars
  <2> QED BY <1>0, <2>1 DEF CommandPart, CommandTyped, CollectsOwn, NothingLost, Top
<1>10. CASE Collect \/ \E s \in Streams : ReadError(s)
  BY <1>10, CollectStep
<1>11. CASE Processes
  BY <1>11, ProcessStep
<1> QED
  BY <1>1, <1>2, <1>3, <1>4, <1>6, <1>7, <1>8, <1>9, <1>10, <1>11
     DEF Next, Screen, Answers, Ends

-----------------------------------------------------------------------------
\* The field that is asked for keeps its place, its marks and its items.
LEMMA FieldMarksStep ==
    ASSUME IInv, [Next]_vars
    PROVE  FieldMarks'
<1> USE DEF library, asked, pages, list
<1>0. /\ CommandTyped /\ CollectsOwn /\ SessionTyped /\ FieldMarks /\ NothingLost
      /\ Len(items) <= MaxPieces /\ items \in Seq(Values) /\ Len(<<>>) <= MaxPieces
      /\ start \in Nat /\ PageSize \in Nat \ {0} /\ Count \in Nat
  BY BoundsAssumption, ValuesAssumption DEF IInv, SessionTyped, FieldMarks, Count
<1>1. CASE Ends
  BY <1>1, EndsIInv DEF IInv
<1>2. ASSUME \/ pc' \in {"screen", "action", "load", "quit"}
             \/ pc' = "collect" /\ proc'.kind # "lc",
             items' \in {items, <<>>}
      PROVE  FieldMarks'
  BY <1>0, <1>2 DEF FieldMarks, AtField
<1>3. UNCHANGED <<trail, field, items>> => UNCHANGED <<Top, FieldHere, Count, Menu, Multiple>>
  BY DEF Top, FieldHere, Count, Menu, Multiple
<1>4. AtField => Top.node \in Nodes /\ field \in DOMAIN FieldsOf(Top.node)
  BY <1>0 DEF FieldMarks
<1>5. \A n \in Nodes : ChoicesOf(n) \in Seq(Nodes)
  BY SiblingsAssumption
<1>6. ASSUME \/ Loaded \/ RunHidden \/ ActionBack \/ FieldBack \/ FinishInitcommand
             \/ FinishAction
      PROVE  FieldMarks'
  <2>1. pc' = "screen" \/ pc' = "action"
    BY <1>6 DEF Loaded, RunHidden, At, ActionBack, FieldBack, FinishInitcommand, FinishAction
  <2>2. items' \in {items, <<>>}
    BY <1>6 DEF Loaded, RunHidden, ActionBack, FieldBack, FinishInitcommand, FinishAction, NoField
  <2> QED BY <1>2, <2>1, <2>2
<1>7. ASSUME RunInitcommand \/ RunAction, ~Ends PROVE FieldMarks'
  <2>1. UNCHANGED items
    BY <1>7 DEF RunInitcommand, RunAction, Ends
  <2>2. \/ pc' \in {"screen", "action"}
        \/ pc' = "collect" /\ proc'.kind # "lc"
    BY <1>7, SpawnType DEF RunInitcommand, RunAction, Ends, At
  <2> QED BY <1>2, <2>1, <2>2
<1>8. CASE RunMenu
  <2>1. Top.node \in Nodes
    BY <1>0, <1>8, TopType DEF RunMenu, At, TypeOf, SessionTyped, Scope
  <2>2. Menu \in Seq(Nodes) /\ Menu # <<>>
    BY <1>5, <1>8, <2>1 DEF RunMenu, Menu
  <2>3. 0 < Len(Menu)
    BY <2>2
  <2>4. pc' = "menu" /\ start' = 0 /\ UNCHANGED <<trail, field, items>>
    BY <1>8 DEF RunMenu
  <2> QED BY <1>0, <1>3, <2>1, <2>3, <2>4 DEF FieldMarks, AtField
<1>9. pc = "menu" => Top.node \in Nodes /\ Menu \in Seq(Nodes) /\ start < Len(Menu)
  BY <1>0, <1>5 DEF FieldMarks, Menu
<1>10. ASSUME pc = "menu", pc' = "menu", start' = start \/ start' = 0 \/ start' < Len(Menu),
              UNCHANGED <<trail, field, items>>
       PROVE  FieldMarks'
  BY <1>0, <1>3, <1>9, <1>10 DEF FieldMarks, AtField
<1>11. ASSUME NEW k \in Numbers, MenuChoose(k) PROVE FieldMarks'
  <2>1. CASE helping
    BY <1>10, <1>11, <2>1 DEF MenuChoose, LeavePages
  <2>2. CASE ~helping
    BY <1>2, <1>11, <2>2 DEF MenuChoose
  <2> QED BY <2>1, <2>2
<1>12. ASSUME NEW result \in {"MORE", "HELP", "BACK"}, MenuAnswer(result) PROVE FieldMarks'
  <2>1. CASE result = "MORE"
    <3>1. pc = "menu" /\ Turn(Len(Menu)) /\ UNCHANGED <<trail, pc, field, items>>
      BY <1>12, <2>1 DEF MenuAnswer
    <3>2. start' = 0 \/ start' < Len(Menu)
      BY <1>0, <1>9, <3>1 DEF Turn
    <3> QED BY <1>10, <3>1, <3>2
  <2>2. CASE result = "HELP"
    BY <1>10, <1>12, <2>2 DEF MenuAnswer
  <2>3. CASE result = "BACK"
    BY <1>2, <1>12, <2>3 DEF MenuAnswer
  <2> QED BY <1>12, <2>1, <2>2, <2>3
<1>13. ASSUME NEW t \in Seq(Scope), t # <<>>, Top.node \in Nodes, t[Len(t)].node = Top.node,
              NEW i \in Nat, 1 <= i, AskFrom(t, i)
       PROVE  FieldMarks'
  <2>1. due \in BOOLEAN
    BY <1>0 DEF SessionTyped
  <2>2. /\ items' = <<>>
        /\ \/ pc' = "screen"
           \/ /\ pc' = "field" /\ Top'.node = Top.node
              /\ field' \in DOMAIN FieldsOf(Top.node) /\ marks' \subseteq 1..Count'
    BY <1>13, <2>1, AskFromType
  <2> QED BY <1>0, <1>2, <1>13, <2>2 DEF FieldMarks, AtField
<1>14. CASE RunDialog
  <2>1. Top.node \in Nodes /\ trail # <<>> /\ trail \in Seq(Scope)
    BY <1>0, <1>14, TopType DEF RunDialog, At, TypeOf, SessionTyped, Scope
  <2> QED BY <1>13, <1>14, <2>1 DEF RunDialog, Top
<1>15. CASE FieldNext
  <2>1. pc = "field" /\ AskFrom(Stored, field + 1) /\ trail # <<>> /\ trail \in Seq(Scope)
        /\ new \in Values \cup {Null}
    BY <1>0, <1>15 DEF FieldNext, SessionTyped
  <2>2. AtField
    BY <2>1 DEF AtField
  <2>3. Top.node \in Nodes /\ field \in DOMAIN FieldsOf(Top.node)
    BY <1>4, <2>2
  <2>4. field \in Nat /\ field + 1 \in Nat /\ 1 <= field + 1
    BY <2>3, FieldFacts
  <2>5. Stored \in Seq(Scope) /\ Stored # <<>> /\ Stored[Len(Stored)].node = Top.node
    BY <2>1, <2>3, StoredType
  <2> HIDE DEF Stored
  <2> QED BY <1>13, <2>1, <2>3, <2>4, <2>5
\* The field stays where it is.
<1>16. ASSUME AtField, pc' \in {"field", "list"}, UNCHANGED <<trail, field, items>>,
              pc' = "field" => marks' \subseteq 1..Count,
              pc' = "list" => marks' = {} /\ marked' \subseteq 1..Count /\ start' < Count
       PROVE  FieldMarks'
  BY <1>0, <1>3, <1>4, <1>16 DEF FieldMarks, AtField
<1>17. pc \in {"field", "listed", "list"} => AtField
  BY DEF AtField
<1>18. ASSUME NEW v \in Values \cup {Null}, FieldChange(v) PROVE FieldMarks'
  BY <1>16, <1>17, <1>18 DEF FieldChange
<1>19. ASSUME OpenList(Initial), pc \in {"field", "listed"}, Count > 0,
              UNCHANGED <<trail, field, items>>
       PROVE  FieldMarks'
  <2>1. Initial \subseteq 1..Count
    BY <1>0, <1>19, InitialIn
  <2>2. marked' \subseteq 1..Count
    BY <1>0, <1>19, <2>1, HighestMark DEF OpenList
  <2>3. pc' = "list" /\ marks' = {} /\ start' < Count
    BY <1>0, <1>19 DEF OpenList
  <2> QED BY <1>16, <1>17, <1>19, <2>2, <2>3
<1>20. CASE FieldList
  <2>1. pc = "field" /\ UNCHANGED <<trail, field, items>> /\ AtField
    BY <1>17, <1>20 DEF FieldList
  <2>2. CASE Count > 0
    BY <1>19, <1>20, <2>1, <2>2 DEF FieldList
  <2>3. CASE ~(Count > 0)
    <3>1. FieldHere.type # "RING" /\ Spawn("lc", FirstRead) /\ pc' = "collect" /\ UNCHANGED marks
      BY <1>20, <2>3 DEF FieldList
    <3>2. Count = 0 /\ items = <<>>
      BY <1>0, <2>3, <3>1 DEF Count
    <3>3. marks = {}
      <4>1. marks \subseteq 1..Count
        BY <1>0, <2>1 DEF FieldMarks
      <4> QED BY <3>2, <4>1
    <3> QED BY <1>0, <1>3, <1>4, <2>1, <3>1, <3>2, <3>3 DEF FieldMarks, AtField
  <2> QED BY <2>2, <2>3
<1>21. pc = "list" => marks = {} /\ marked \subseteq 1..Count /\ start < Count
  BY <1>0 DEF FieldMarks
<1>22. ASSUME NEW k \in Numbers, ListChoose(k) PROVE FieldMarks'
  <2>1. pc = "list" /\ UNCHANGED <<trail, pc, field, items, marks, start>>
    BY <1>22 DEF ListChoose
  <2> DEFINE i == start + k
             flipped == IF OnPage(k, Count) THEN Flip(marked, i) ELSE marked
  <2>2. flipped \subseteq 1..Count
    <3>1. OnPage(k, Count) => i \in 1..Count
      BY <1>0, BoundsAssumption DEF OnPage
    <3> QED BY <1>21, <2>1, <3>1 DEF Flip
  <2>3. marked' = flipped \/ marked' = flipped \ {last}
    BY <1>22 DEF ListChoose
  <2> HIDE DEF flipped
  <2>4. marked' \subseteq 1..Count
    BY <2>2, <2>3
  <2> QED BY <1>16, <1>17, <1>21, <2>1, <2>4
<1>23. CASE ListMore
  <2>1. pc = "list" /\ Turn(Count) /\ UNCHANGED <<trail, pc, field, items, marks, marked>>
    BY <1>23 DEF ListMore
  <2>2. start' < Count
    BY <1>0, <1>21, <2>1 DEF Turn
  <2> QED BY <1>16, <1>17, <1>21, <2>1, <2>2
<1>24. CASE ListCancel
  BY <1>16, <1>17, <1>21, <1>24 DEF ListCancel, CloseList
<1>25. CASE ListDone
  <2>1. pc = "list" /\ pc' = "field" /\ UNCHANGED <<trail, field, items>>
        /\ marks' = IF Multiple \/ marked = {} THEN marked ELSE {Highest(marked)}
    BY <1>25 DEF ListDone, CloseList
  <2>2. marks' \subseteq 1..Count
    BY <1>0, <1>21, <2>1, HighestMark
  <2> QED BY <1>16, <1>17, <2>1, <2>2
<1>26. CASE ShowList
  <2>1. pc = "listed" /\ OpenList(Initial) /\ UNCHANGED <<trail, field, items>>
    BY <1>26 DEF ShowList
  <2>2. Count > 0
    BY <1>0, <1>17, <2>1 DEF FieldMarks, Count
  <2> QED BY <1>19, <2>1, <2>2
\* A command is collected.
<1>27. ASSUME UNCHANGED <<trail, pc, field, items, marks, marked, start>>,
              proc'.kind = proc.kind
       PROVE  FieldMarks'
  BY <1>0, <1>3, <1>27 DEF FieldMarks, AtField
<1>28. ASSUME pc = "collect", proc.kind = "lc"
       PROVE  AtField /\ marks = {} /\ FieldHere.type # "RING" /\ items = <<>>
  BY <1>0, <1>28 DEF FieldMarks, AtField
<1>29. CASE GiveUp
  <2>1. pc = "collect" /\ proc.torn /\ UNCHANGED <<trail, field, items, marks>>
        /\ pc' = IF proc.kind = "ic" THEN "screen" ELSE "field"
    BY <1>29 DEF GiveUp
  <2>2. proc.kind \in {"ic", "lc"}
    BY <1>0, <2>1 DEF NothingLost, CollectsOwn, CommandTyped, Command
  <2> QED BY <1>2, <1>16, <1>28, <2>1, <2>2
<1>30. CASE FinishList
  <2>1. /\ pc = "collect" /\ proc.kind = "lc" /\ UNCHANGED <<trail, field, marks>>
        /\ \/ data # <<>> /\ items' = data /\ pc' = "listed"
           \/ pc' = "field" /\ UNCHANGED items
    BY <1>30 DEF FinishList, Finish, Reading
  <2>2. CASE pc' = "field" /\ UNCHANGED items
    BY <1>16, <1>28, <2>1, <2>2
  <2>3. CASE data # <<>> /\ items' = data /\ pc' = "listed"
    <3>1. Len(data) <= MaxPieces
      <4>1. data \o pipe["out"] = proc.wrote["out"] /\ Len(proc.wrote["out"]) <= MaxPieces
        BY <1>0 DEF NothingLost, Streams
      <4>2. data \in Seq(Lines) /\ pipe["out"] \in Seq(Lines)
        BY <1>0 DEF CommandTyped, Streams
      <4>3. Len(data \o pipe["out"]) = Len(data) + Len(pipe["out"]) /\ Len(pipe["out"]) \in Nat
            /\ Len(data) \in Nat
        BY <4>2
      <4> QED BY <4>1, <4>3, BoundsAssumption
    <3>2. Top' = Top /\ FieldHere' = FieldHere
      BY <2>1 DEF Top, FieldHere
    <3> QED BY <1>4, <1>28, <2>1, <2>3, <3>1, <3>2 DEF FieldMarks, AtField
  <2> QED BY <2>1, <2>2, <2>3
<1>31. ASSUME NEW s \in Streams, ReadSome(s) \/ ReadEnd(s) \/ ReadError(s) PROVE FieldMarks'
  <2>1. UNCHANGED <<trail, pc, field, items, marks, marked, start>>
    BY <1>31 DEF ReadSome, ReadEnd, ReadError
  <2>2. proc'.kind = proc.kind
    BY <1>0, <1>31 DEF ReadSome, ReadEnd, ReadError, CommandTyped, Command
  <2> QED BY <1>27, <2>1, <2>2
<1>32. CASE Processes
  <2>1. UNCHANGED <<trail, pc, field, items, marks, marked, start>>
    BY <1>32 DEF Processes, Environment, Write, Written, Exit, Fork, CloseStreams, RestExits
  <2>2. proc'.kind = proc.kind
    BY <1>0, <1>32 DEF Processes, Write, Written, Exit, Fork, CloseStreams, RestExits,
                       CommandTyped, Command
  <2> QED BY <1>27, <2>1, <2>2
<1>33. CASE InputEnds \/ UNCHANGED vars
  <2>1. UNCHANGED <<trail, pc, field, items, marks, marked, start, proc>>
    BY <1>33 DEF InputEnds, command, vars
  <2> QED BY <1>27, <2>1
<1> QED
  BY <1>1, <1>6, <1>7, <1>8, <1>11, <1>12, <1>14, <1>15, <1>18, <1>20, <1>22, <1>23, <1>24,
     <1>25, <1>26, <1>29, <1>30, <1>31, <1>32, <1>33
     DEF Next, Screen, Answers, Collect, Ends

LEMMA IInvAlways == Spec => []IInv
<1>1. Init => IInv
  <2>1. Init => Blanked /\ pc \in {"load", "quit"}
    BY DEF Init, Blanked
  <2> QED BY <2>1, BlankIInv
<1>2. IInv /\ [Next]_vars => IInv'
  BY SessionStep, CommandStep, FieldMarksStep DEF IInv, CommandPart
<1> QED BY <1>1, <1>2, PTL DEF Spec

\* The session keeps its type: a mark is a position of the list that is
\* shown, and a page of a menu or of a list has something to show, whatever
\* was typed, listed, turned and collected before.
THEOREM TypeCorrect == Spec => []TypeOK
<1>1. IInv => TypeOK
  BY DEF IInv, SessionTyped, CommandTyped, FieldMarks, TypeOK, Scope, Command, AtField
<1> QED BY <1>1, IInvAlways, PTL

-----------------------------------------------------------------------------
(* The promises of a front end about its commands.                         *)
mapped == <<Place, Running, WroteOut, Torn, Exited, Heard, Over>>

\* What is seen of a program that runs no command, and of one that does.
LEMMA SeenIdle ==
    ASSUME proc = NoProc
    PROVE  Running = Nobody /\ WroteOut = <<>> /\ Torn = FALSE /\ Exited = "no"
BY DEF NoProc, Running, WroteOut, Torn, Exited, Blank, Streams

LEMMA SeenCollecting ==
    ASSUME CommandPart, pc = "collect"
    PROVE  /\ Running = proc.for /\ proc.for = Top.node /\ Top.node \in Nodes /\ Running # Nobody
           /\ Heard = FrontEnd!Silence /\ ~Over
<1>1. proc.kind # "none" /\ proc.for = Top.node /\ Top.node # Null /\ given = NotGiven
  BY DEF CommandPart, CollectsOwn
<1>2. Top.node \in Nodes
  BY <1>1 DEF CommandPart, CommandTyped, Command
<1> QED BY <1>1, <1>2, NobodyAssumption DEF Running, Heard, NotGiven, FrontEnd!Silence, Over

LEMMA SeenPlace ==
    ASSUME SessionTyped
    PROVE  /\ Place \in Nodes \cup {Null}
           /\ trail # <<>> => Place = Top.node
BY TopType DEF SessionTyped, Place, Scope

LEMMA PlaceLater == IInv' => (Place \in Nodes \cup {Null})'
<1>1. IInv => Place \in Nodes \cup {Null}
  BY SeenPlace DEF IInv
<1> QED BY <1>1, PTL

\* A step that moves the session, or does nothing that is seen.
LEMMA MovesOnly ==
    ASSUME IInv, IInv', pc \notin {"collect", "quit"}, pc' \notin {"collect", "quit"},
           UNCHANGED <<command, given>>
    PROVE  FrontEnd!Move
<1>1. proc = NoProc /\ proc' = NoProc
  BY DEF IInv, CollectsOwn, command
<1>2. Running = Nobody /\ UNCHANGED <<Running, WroteOut, Torn, Exited>>
  BY <1>1, SeenIdle DEF Running, WroteOut, Torn, Exited
<1>3. ~Over /\ UNCHANGED Over /\ UNCHANGED Heard
  BY DEF Over, Heard
<1>4. Place' \in Nodes \cup {Null}
  BY PlaceLater
<1> QED BY <1>2, <1>3, <1>4 DEF FrontEnd!Move

\* The program ends.
LEMMA Stops ==
    ASSUME IInv, IInv', End, ~Over
    PROVE  FrontEnd!Stop
<1>1. proc' = NoProc /\ given' = NotGiven /\ Over'
  BY DEF End, Idle, Over
<1>2. Running' = Nobody /\ WroteOut' = <<>> /\ Torn' = FALSE /\ Exited' = "no"
  BY <1>1, SeenIdle DEF NoProc, Running, WroteOut, Torn, Exited, Blank, Streams
<1>3. Heard' = FrontEnd!Silence
  BY <1>1 DEF Heard, NotGiven, FrontEnd!Silence
<1> QED BY <1>1, <1>2, <1>3, PlaceLater DEF FrontEnd!Stop, Over

\* A screen starts a command.
LEMMA Starts ==
    ASSUME IInv, IInv', NEW k \in {"ic", "lc", "ac"}, NEW first, Spawn(k, first),
           pc \notin {"collect", "quit"}, pc' = "collect", UNCHANGED trail
    PROVE  FrontEnd!Start
<1>1. proc = NoProc /\ trail # <<>> /\ Place = Top.node
  BY SeenPlace DEF IInv, CollectsOwn, SessionTyped
<1>2. Running = Nobody /\ WroteOut = <<>> /\ Torn = FALSE /\ Exited = "no" /\ ~Over
  BY <1>1, SeenIdle DEF Over
<1>3. /\ proc'.for = Top.node /\ proc'.kind = k /\ proc'.wrote = Blank /\ ~proc'.torn
      /\ proc'.leader = "running" /\ given' = NotGiven
  BY SpawnType
<1>4. Running' = Place /\ WroteOut' = <<>> /\ Torn' = FALSE /\ Exited' = "no" /\ ~Over'
  BY <1>1, <1>3 DEF Running, WroteOut, Torn, Exited, Blank, Streams, Over
<1>5. Place' = Place /\ Heard' = FrontEnd!Silence
  BY <1>3 DEF Place, Top, Heard, NotGiven, FrontEnd!Silence
<1>6. UNCHANGED Over
  BY DEF Over
<1> QED BY <1>2, <1>4, <1>5, <1>6 DEF FrontEnd!Start

\* Nothing of it is seen.
LEMMA Unseen ==
    ASSUME UNCHANGED <<trail, given, Over>>, proc'.kind = proc.kind, proc'.for = proc.for,
           proc'.wrote["out"] = proc.wrote["out"], proc'.torn = proc.torn,
           proc'.leader = proc.leader, proc'.ok = proc.ok
    PROVE  UNCHANGED mapped
BY DEF mapped, Place, Top, Running, WroteOut, Torn, Exited, Heard

\* A process of the command goes on, or a stream of it cannot be read.
LEMMA CommandSeen ==
    ASSUME IInv, Processes \/ \E s \in Streams : ReadError(s)
    PROVE  FrontEnd!Command \/ UNCHANGED mapped
<1>1. UNCHANGED <<trail, pc, given>>
  BY DEF Processes, Environment, Write, Written, Exit, Fork, CloseStreams, RestExits, ReadError,
         library
<1>2. UNCHANGED Place /\ UNCHANGED Heard /\ UNCHANGED Over
  BY <1>1 DEF Place, Top, Heard, Over
<1>3. pc = "collect" /\ proc \in Command /\ proc.kind # "none" /\ Running # Nobody
  <2>1. proc.leader = "running" \/ proc.writing \in Streams \/ proc.rest \/ pc = "collect"
    BY DEF Processes, Write, Written, Exit, Fork, CloseStreams, RestExits, ReadError, Reading
  <2>2. proc # NoProc \/ pc = "collect"
    BY <2>1 DEF NoProc, Streams
  <2>3. pc = "collect" /\ CommandPart
    BY <2>2 DEF IInv, CollectsOwn, CommandPart
  <2> QED BY <2>3, SeenCollecting DEF CommandPart, CommandTyped, CollectsOwn
<1>4. ASSUME NEW s \in Streams, Write(s) PROVE UNCHANGED mapped
  BY <1>1, <1>2, <1>3, <1>4, Unseen DEF Write, Command
<1>5. CASE Fork \/ CloseStreams \/ RestExits
  BY <1>1, <1>2, <1>3, <1>5, Unseen DEF Fork, CloseStreams, RestExits, Command
<1>6. ASSUME NEW line \in Lines, Written(line) PROVE FrontEnd!Command \/ UNCHANGED mapped
  <2> DEFINE s == proc.writing
  <2>1. /\ s \in Streams
        /\ proc'.wrote = [proc.wrote EXCEPT ![s] = Append(proc.wrote[s], line)]
        /\ proc'.kind = proc.kind /\ proc'.for = proc.for /\ proc'.torn = proc.torn
        /\ proc'.leader = proc.leader /\ proc'.ok = proc.ok
    BY <1>3, <1>6 DEF Written, Command
  <2>2. proc.wrote \in [Streams -> Seq(Lines)] /\ "out" \in Streams
    BY <1>3 DEF Command, Streams
  <2>3. UNCHANGED Running /\ UNCHANGED Torn /\ UNCHANGED Exited
    BY <2>1 DEF Running, Torn, Exited
  <2>4. CASE s = "out"
    <3>1. WroteOut' = Append(WroteOut, line)
      BY <2>1, <2>2, <2>4 DEF WroteOut
    <3> QED BY <1>2, <1>3, <2>3, <3>1 DEF FrontEnd!Command
  <2>5. CASE s # "out"
    BY <1>1, <1>2, <2>1, <2>2, <2>5, Unseen
  <2> QED BY <2>4, <2>5
<1>7. ASSUME NEW ok \in BOOLEAN, Exit(ok) PROVE FrontEnd!Command
  <2>1. /\ proc.leader = "running" /\ proc'.leader = "zombie" /\ proc'.ok = ok
        /\ proc'.kind = proc.kind /\ proc'.for = proc.for /\ proc'.torn = proc.torn
        /\ proc'.wrote = proc.wrote
    BY <1>3, <1>7 DEF Exit, Command
  <2>2. Exited = "no" /\ Exited' \in {"ok", "failed"}
    BY <2>1 DEF Exited
  <2>3. UNCHANGED Running /\ UNCHANGED Torn /\ UNCHANGED WroteOut
    BY <2>1 DEF Running, Torn, WroteOut
  <2> QED BY <1>2, <1>3, <2>2, <2>3 DEF FrontEnd!Command
<1>8. ASSUME NEW s \in Streams, ReadError(s) PROVE FrontEnd!Command
  <2>1. /\ proc'.torn /\ proc'.leader = proc.leader /\ proc'.ok = proc.ok
        /\ proc'.kind = proc.kind /\ proc'.for = proc.for /\ proc'.wrote = proc.wrote
        /\ proc'.torn = TRUE
    BY <1>3, <1>8 DEF ReadError, Command
  <2>2. Torn' = TRUE /\ UNCHANGED Running /\ UNCHANGED Exited /\ UNCHANGED WroteOut
    BY <2>1 DEF Running, Torn, WroteOut, Exited
  <2> QED BY <1>2, <1>3, <2>2 DEF FrontEnd!Command
<1> QED BY <1>4, <1>5, <1>6, <1>7, <1>8 DEF Processes

\* The screen hears of its command, with all that it wrote.
LEMMA Hears ==
    ASSUME IInv, IInv', NEW k, Finish(k), pc' # "quit"
    PROVE  FrontEnd!Hear
<1>1. /\ pc = "collect" /\ reading = "wait" /\ ~proc.torn /\ proc.leader = "zombie"
      /\ given' = [to |-> Top.node, ok |-> proc.ok, out |-> data, lost |-> FALSE]
      /\ proc' = NoProc
  BY DEF Finish, Reading, Idle, Waited
<1>2. CommandPart /\ trail # <<>> /\ Place = Top.node
  BY <1>1, SeenPlace DEF IInv, CommandPart, SessionTyped
<1>3. Running = Top.node /\ Top.node \in Nodes /\ Running # Nobody /\ ~Over
  BY <1>1, <1>2, SeenCollecting
<1>4. Exited # "no" /\ proc.ok = (Exited = "ok") /\ Torn = FALSE
  BY <1>1, <1>2 DEF Exited, Torn, CommandPart, CommandTyped, Command
<1>5. Heard'.to = Place /\ Heard'.ok = proc.ok /\ Heard'.out = data
  BY <1>1, <1>2, <1>3, NullAssumption DEF Heard
<1>6. data = WroteOut
  <2>1. data \o pipe["out"] = WroteOut /\ data \in Seq(Lines) /\ pipe["out"] \in Seq(Lines)
    BY <1>2 DEF CommandPart, NothingLost, WroteOut, CommandTyped, Streams
  <2>2. CASE proc.kind = "ac"
    <3>1. WroteOut = <<>>
      BY <1>2, <2>2 DEF CommandPart, NothingLost, WroteOut, Blank, Streams
    <3>2. Len(data \o pipe["out"]) = Len(data) + Len(pipe["out"]) /\ Len(data) \in Nat
          /\ Len(pipe["out"]) \in Nat
      BY <2>1
    <3>3. Len(data) = 0
      BY <2>1, <3>1, <3>2
    <3> QED BY <2>1, <3>1, <3>3
  <2>3. CASE proc.kind # "ac"
    <3>1. pipe["out"] = <<>>
      BY <1>1, <1>2, <2>3 DEF CommandPart, NothingLost, CollectsOwn, CommandTyped, Command
    <3> QED BY <2>1, <3>1
  <2> QED BY <2>2, <2>3
<1>7. WroteOut \in Seq(Lines)
  BY <1>2 DEF CommandPart, CommandTyped, Command, WroteOut, Streams
<1>8. FrontEnd!Same(Heard'.out, WroteOut)
  BY <1>5, <1>6, <1>7 DEF FrontEnd!Same
<1>9. Running' = Nobody /\ WroteOut' = <<>> /\ Torn' = FALSE /\ Exited' = "no" /\ ~Over'
  BY <1>1 DEF NoProc, Running, WroteOut, Torn, Exited, Blank, Streams, Over
<1> QED BY <1>2, <1>3, <1>4, <1>5, <1>8, <1>9, PlaceLater DEF FrontEnd!Hear, Over

\* The command is left to itself.
LEMMA Abandons ==
    ASSUME IInv, GiveUp
    PROVE  FrontEnd!Abandon
<1>1. /\ pc = "collect" /\ proc.torn /\ proc' = NoProc /\ UNCHANGED trail
      /\ given' = [NotGiven EXCEPT !.lost = proc.kind = "ic"] /\ pc' \in {"screen", "field"}
  BY DEF GiveUp, Idle, library
<1>2. CommandPart
  BY DEF IInv, CommandPart
<1>3. Running # Nobody /\ Heard = FrontEnd!Silence /\ Torn = TRUE
  BY <1>1, <1>2, SeenCollecting DEF Torn, CommandPart, CommandTyped, Command
<1>4. Running' = Nobody /\ WroteOut' = <<>> /\ Torn' = FALSE /\ Exited' = "no"
  BY <1>1 DEF NoProc, Running, WroteOut, Torn, Exited, Blank, Streams
<1>5. Heard' = FrontEnd!Silence /\ UNCHANGED Place
  BY <1>1 DEF Heard, NotGiven, FrontEnd!Silence, Place, Top
<1>6. UNCHANGED Over
  BY <1>1 DEF Over
<1> QED BY <1>3, <1>4, <1>5, <1>6 DEF FrontEnd!Abandon

\* The action of a screen cannot be started.
LEMMA NotStarts ==
    ASSUME IInv, IInv', pc = "screen", pc' = "action", UNCHANGED command,
           given' = [NotGiven EXCEPT !.to = Top.node, !.ok = FALSE], Top.node \in Nodes
    PROVE  FrontEnd!NotStarted
<1>1. proc = NoProc /\ proc' = NoProc /\ Place = Top.node
  BY SeenPlace DEF IInv, CollectsOwn, SessionTyped, command
<1>2. Running = Nobody /\ UNCHANGED <<Running, WroteOut, Torn, Exited>>
  BY <1>1, SeenIdle DEF Running, WroteOut, Torn, Exited
<1>3. ~Over /\ UNCHANGED Over
  BY DEF Over
<1>4. Heard' = [to |-> Place, ok |-> FALSE, out |-> <<>>]
  BY <1>1, NullAssumption DEF Heard, NotGiven
<1> QED BY <1>2, <1>3, <1>4, PlaceLater DEF FrontEnd!NotStarted

LEMMA FrontEndStep ==
    ASSUME IInv, IInv', [Next]_vars
    PROVE  [FrontEnd!Next]_mapped
<1> USE DEF library, asked, pages, list
<1>1. CASE LoadFails \/ Unusable \/ Quit \/ FieldListFails \/ ListOverrun
           \/ (End /\ pc = "screen")
  <2>1. End /\ ~Over
    BY <1>1 DEF LoadFails, Unusable, Quit, Quitting, FieldListFails, ListOverrun, Over
  <2> QED BY <2>1, Stops DEF FrontEnd!Next
<1>2. CASE \/ Loaded \/ RunMenu \/ RunHidden \/ ActionBack \/ FieldBack
           \/ (\E k \in Numbers : MenuChoose(k) \/ ListChoose(k))
           \/ ListMore \/ ListCancel \/ ListDone \/ ShowList
           \/ \E v \in Values \cup {Null} : FieldChange(v)
  <2>1. pc \notin {"collect", "quit"} /\ pc' \notin {"collect", "quit"}
        /\ UNCHANGED <<command, given>>
    BY <1>2 DEF Loaded, RunMenu, RunHidden, At, ActionBack, FieldBack, MenuChoose, ListChoose,
                ListMore, ListCancel, ListDone, ShowList, OpenList, CloseList, FieldChange, Gets
  <2> QED BY <2>1, MovesOnly DEF FrontEnd!Next
<1>3. CASE RunDialog \/ FieldNext \/ \E result \in {"MORE", "HELP", "BACK"} : MenuAnswer(result)
  <2>1. pc \notin {"collect", "quit"} /\ pc' \notin {"collect", "quit"}
        /\ UNCHANGED <<command, given>>
    BY <1>3 DEF RunDialog, FieldNext, At, AskFrom, MenuAnswer
  <2> QED BY <2>1, MovesOnly DEF FrontEnd!Next
<1>4. CASE RunInitcommand /\ ~End
  <2>1. pc = "screen" /\ Spawn("ic", FirstRead) /\ pc' = "collect" /\ UNCHANGED trail
    BY <1>4 DEF RunInitcommand
  <2> QED BY <2>1, Starts DEF FrontEnd!Next
<1>5. CASE RunAction
  <2>1. pc = "screen" /\ Top.node \in Nodes
    BY <1>5, TopType DEF RunAction, At, TypeOf, IInv, SessionTyped, Scope
  <2>2. CASE Spawn("ac", "wait") /\ pc' = "collect" /\ UNCHANGED library
    BY <2>1, <2>2, Starts DEF FrontEnd!Next
  <2>3. CASE StepBack(trail) /\ UNCHANGED <<pc, command, given>>
    BY <2>1, <2>3, MovesOnly DEF FrontEnd!Next
  <2>4. CASE pc' = "action" /\ given' = [NotGiven EXCEPT !.to = Top.node, !.ok = FALSE]
             /\ UNCHANGED <<library, command>>
    BY <2>1, <2>4, NotStarts DEF FrontEnd!Next
  <2> QED BY <1>5, <2>2, <2>3, <2>4 DEF RunAction
<1>6. CASE FieldList
  <2>1. pc = "field" /\ UNCHANGED trail
    BY <1>6 DEF FieldList
  <2>2. CASE OpenList(Initial) /\ UNCHANGED <<command, given>>
    BY <2>1, <2>2, MovesOnly DEF OpenList, FrontEnd!Next
  <2>3. CASE Spawn("lc", FirstRead) /\ pc' = "collect"
    BY <2>1, <2>3, Starts DEF FrontEnd!Next
  <2> QED BY <1>6, <2>2, <2>3 DEF FieldList
<1>7. CASE InputEnds \/ UNCHANGED vars
  BY <1>7 DEF InputEnds, vars, command, mapped, Place, Top, Running, WroteOut, Torn, Exited,
              Heard, Over
<1>8. ASSUME NEW s \in Streams, ReadSome(s) \/ ReadEnd(s) PROVE UNCHANGED mapped
  BY <1>8 DEF ReadSome, ReadEnd, mapped, Place, Top, Running, WroteOut, Torn, Exited,
              Heard, Over
<1>9. CASE GiveUp
  BY <1>9, Abandons DEF FrontEnd!Next
<1>10. CASE FinishInitcommand \/ FinishList \/ FinishAction
  <2>1. pc' # "quit" /\ \E k \in {"ic", "lc", "ac"} : Finish(k)
    BY <1>10 DEF FinishInitcommand, FinishList, FinishAction
  <2> QED BY <2>1, Hears DEF FrontEnd!Next
<1>11. CASE Processes \/ \E s \in Streams : ReadError(s)
  BY <1>11, CommandSeen DEF FrontEnd!Next
<1> QED
  BY <1>1, <1>2, <1>3, <1>4, <1>5, <1>6, <1>7, <1>8, <1>9, <1>10, <1>11
     DEF Next, Screen, Answers, Collect, RunInitcommand

\* The terminal implements the abstract front end: one command at a time, the
\* session stays where the command was asked for, and that screen hears of it
\* once, after its end, with its exit status and with all that it wrote; only
\* a command whose output could not be read is dropped.
THEOREM FrontEndImplemented == Spec => ImplementsFrontEnd
<1>1. Init => FrontEnd!Init
  <2> SUFFICES ASSUME Init PROVE FrontEnd!Init
    OBVIOUS
  <2>1. proc = NoProc /\ given = NotGiven /\ trail = <<>> /\ pc = "load"
    BY DEF Init
  <2> QED BY <2>1, SeenIdle DEF FrontEnd!Init, FrontEnd!Silence, Heard, NotGiven, Place, Over
<1>2. IInv /\ IInv' /\ [Next]_vars => [FrontEnd!Next]_mapped
  BY FrontEndStep
<1>3. IInv /\ IInv' /\ [Next]_vars => [FrontEnd!Next]_FrontEnd!vars
  BY <1>2 DEF mapped, FrontEnd!vars
<1> QED BY <1>1, <1>3, IInvAlways, PTL DEF Spec, ImplementsFrontEnd, FrontEnd!Spec

-----------------------------------------------------------------------------
(* Required fields.                                                        *)

\* No two fields of a screen that are asked for have the same symbol.
SymbolsApart ==
    \A n \in Nodes : \A i, j \in DOMAIN FieldsOf(n) :
        /\ i # j
        /\ FieldsOf(n)[i].type \in Prompted /\ FieldsOf(n)[j].type \in Prompted
        => FieldsOf(n)[i].sym # FieldsOf(n)[j].sym

HasValue(t, f) == f.required /\ f.type \in Prompted => Text(Lookup(t, f.sym)) # Empty

\* The fields before the one that is asked for have their values.
Answered ==
    AtField =>
        /\ FieldHere.type \in Prompted
        /\ \A i \in 1..(field - 1) : HasValue(trail, FieldsOf(Top.node)[i])

\* What the fields have once the current one is left forwards.
LEMMA AnsweredStored ==
    ASSUME SymbolsApart, IInv, Answered, pc = "field", ~Missing
    PROVE  /\ Stored \in Seq(Scope) /\ Stored # <<>> /\ Stored[Len(Stored)].node = Top.node
           /\ trail # <<>> /\ trail \in Seq(Scope) /\ Len(Stored) = Len(trail)
           /\ Top.node \in Nodes /\ field \in DOMAIN FieldsOf(Top.node) /\ field \in Nat
           /\ due \in BOOLEAN
           /\ \A i \in 1..field : HasValue(Stored, FieldsOf(Top.node)[i])
<1>1. /\ trail # <<>> /\ trail \in Seq(Scope) /\ due \in BOOLEAN /\ new \in Values \cup {Null}
      /\ AtField
  BY DEF IInv, SessionTyped, AtField
<1>2. Top.node \in Nodes /\ field \in DOMAIN FieldsOf(Top.node)
  BY <1>1 DEF IInv, FieldMarks
<1>3. FieldsOf(Top.node) \in Seq(Field) /\ field \in 1..Len(FieldsOf(Top.node))
      /\ Len(FieldsOf(Top.node)) \in Nat
  BY <1>2, FieldFacts
<1>4. /\ Stored \in Seq(Scope) /\ Stored # <<>> /\ Len(Stored) = Len(trail)
      /\ Stored[Len(trail)].node = Top.node
      /\ \A i \in 1..Len(trail) : i # Len(trail) => Stored[i] = trail[i]
      /\ \A s \in Symbols : s # FieldHere.sym =>
            Stored[Len(trail)].symbols[s] = trail[Len(trail)].symbols[s]
      /\ Text(new) # Empty => Text(Lookup(Stored, FieldHere.sym)) # Empty
  BY <1>1, <1>2, StoredType
<1>5. HasValue(Stored, FieldHere)
  BY <1>4 DEF HasValue, Missing
<1>6. ASSUME NEW i \in 1..(field - 1) PROVE HasValue(Stored, FieldsOf(Top.node)[i])
  <2> DEFINE f == FieldsOf(Top.node)[i]
  <2>1. i \in DOMAIN FieldsOf(Top.node) /\ i # field
    BY <1>3
  <2>2. f \in Field /\ f.sym \in Symbols
    <3>1. f \in Field
      BY <1>3, <2>1
    <3> QED BY <3>1 DEF Field
  <2>3. HasValue(trail, f)
    BY <1>1 DEF Answered
  <2>4. ASSUME f.type \in Prompted PROVE Lookup(Stored, f.sym) = Lookup(trail, f.sym)
    <3>1. f.sym # FieldHere.sym
      BY <1>1, <1>2, <2>1, <2>4 DEF SymbolsApart, Answered, FieldHere
    <3>2. \A j \in 1..Len(Stored) : Stored[j].symbols[f.sym] = trail[j].symbols[f.sym]
      BY <1>4, <2>2, <3>1
    <3> HIDE DEF f
    <3> QED BY <1>1, <1>4, <2>2, <3>2, LookupSame
  <2> QED BY <2>3, <2>4 DEF HasValue
<1>7. ASSUME NEW i \in 1..field PROVE HasValue(Stored, FieldsOf(Top.node)[i])
  <2>1. i = field \/ i \in 1..(field - 1)
    BY <1>3
  <2> QED BY <1>5, <1>6, <2>1 DEF FieldHere
<1> QED BY <1>1, <1>2, <1>3, <1>4, <1>7

LEMMA AnsweredStep ==
    ASSUME SymbolsApart, IInv, IInv', Answered, [Next]_vars
    PROVE  Answered'
<1> USE DEF library, asked, pages, list
<1>1. ASSUME ~AtField' PROVE Answered'
  BY <1>1 DEF Answered
<1>2. ASSUME AtField, UNCHANGED <<trail, field>> PROVE Answered'
  BY <1>2 DEF Answered, FieldHere, Top
<1>3. ASSUME NEW t \in Seq(Scope), t # <<>>, Top.node \in Nodes, t[Len(t)].node = Top.node,
             NEW i \in Nat, 1 <= i, AskFrom(t, i),
             \A j \in 1..(i - 1) : HasValue(t, FieldsOf(Top.node)[j])
      PROVE  Answered'
  <2>1. due \in BOOLEAN /\ FieldsOf(Top.node) \in Seq(Field)
    BY <1>3, FieldFacts DEF IInv, SessionTyped
  <2>2. \/ pc' = "screen"
        \/ /\ pc' = "field" /\ trail' = t /\ Top'.node = Top.node
           /\ field' \in DOMAIN FieldsOf(Top.node) /\ i <= field'
           /\ \A j \in i..(field' - 1) : FieldsOf(Top.node)[j].type \notin Prompted
           /\ FieldsOf(Top.node)[field'].type \in Prompted
    BY <1>3, <2>1, AskFromType
  <2>3. CASE pc' = "screen"
    BY <1>1, <2>3 DEF AtField
  <2>4. CASE /\ pc' = "field" /\ trail' = t /\ Top'.node = Top.node
             /\ field' \in DOMAIN FieldsOf(Top.node) /\ i <= field'
             /\ \A j \in i..(field' - 1) : FieldsOf(Top.node)[j].type \notin Prompted
             /\ FieldsOf(Top.node)[field'].type \in Prompted
    <3>1. ASSUME NEW j \in 1..(field' - 1) PROVE HasValue(trail', FieldsOf(Top.node)[j])
      <4>1. j \in 1..(i - 1) \/ j \in i..(field' - 1)
        BY <2>1, <2>4
      <4> QED BY <1>3, <2>4, <4>1 DEF HasValue
    <3>2. FieldHere'.type \in Prompted
      BY <2>4 DEF FieldHere
    <3>3. \A j \in 1..(field' - 1) : HasValue(trail', FieldsOf(Top'.node)[j])
      BY <2>4, <3>1
    <3> QED BY <3>2, <3>3 DEF Answered
  <2> QED BY <2>2, <2>3, <2>4
<1>4. CASE RunDialog
  <2>1. Top.node \in Nodes /\ trail # <<>> /\ trail \in Seq(Scope)
    BY <1>4, TopType DEF RunDialog, At, TypeOf, IInv, SessionTyped, Scope
  <2>2. \A j \in 1..(1 - 1) : HasValue(trail, FieldsOf(Top.node)[j])
    OBVIOUS
  <2> QED BY <1>3, <1>4, <2>1, <2>2 DEF RunDialog, Top
<1>5. CASE FieldNext
  <2>1. pc = "field" /\ ~Missing /\ AskFrom(Stored, field + 1)
    BY <1>5 DEF FieldNext
  <2>2. /\ Stored \in Seq(Scope) /\ Stored # <<>> /\ Stored[Len(Stored)].node = Top.node
        /\ Top.node \in Nodes /\ field \in Nat
        /\ \A i \in 1..field : HasValue(Stored, FieldsOf(Top.node)[i])
    BY <2>1, AnsweredStored
  <2>3. field + 1 \in Nat /\ 1 <= field + 1 /\ (field + 1) - 1 = field
    BY <2>2
  <2> HIDE DEF Stored
  <2> QED BY <1>3, <2>1, <2>2, <2>3
<1>6. CASE Ends
  BY <1>1, <1>6 DEF Ends, LoadFails, Unusable, Quit, FieldListFails, ListOverrun, End, AtField
<1>7. CASE Loaded \/ RunMenu \/ RunHidden \/ ActionBack \/ FieldBack \/ FinishInitcommand
           \/ FinishAction
  BY <1>1, <1>7 DEF Loaded, RunMenu, RunHidden, At, ActionBack, FieldBack, FinishInitcommand,
                    FinishAction, AtField
<1>8. CASE RunInitcommand
  <2>1. pc' = "quit" \/ (pc' = "collect" /\ proc'.kind = "ic")
    BY <1>8, SpawnType DEF RunInitcommand, End
  <2> QED BY <1>1, <2>1 DEF AtField
<1>9. CASE RunAction
  <2>1. pc' \in {"screen", "action"} \/ (pc' = "collect" /\ proc'.kind = "ac")
    BY <1>9, SpawnType DEF RunAction, At
  <2> QED BY <1>1, <2>1 DEF AtField
<1>10. CASE (\E k \in Numbers : MenuChoose(k)) \/ \E r \in {"MORE", "HELP", "BACK"} : MenuAnswer(r)
  <2>1. pc' \in {"menu", "screen"}
    BY <1>10 DEF MenuChoose, MenuAnswer
  <2> QED BY <1>1, <2>1 DEF AtField
<1>11. CASE (\E k \in Numbers : ListChoose(k)) \/ ListMore \/ ListCancel \/ ListDone \/ ShowList
            \/ FieldList \/ \E v \in Values \cup {Null} : FieldChange(v)
  <2>1. AtField /\ UNCHANGED <<trail, field>>
    BY <1>11 DEF ListChoose, ListMore, ListCancel, ListDone, ShowList, FieldList, FieldChange, AtField
  <2> QED BY <1>2, <2>1
<1>12. CASE GiveUp \/ FinishList
  <2>1. UNCHANGED <<trail, field>> /\ pc = "collect" /\ pc' \in {"screen", "field", "listed"}
        /\ (pc' # "screen" => proc.kind # "ic")
    BY <1>12 DEF GiveUp, FinishList, Finish, Reading
  <2>2. proc.kind = "ac" => ~proc.torn
    BY DEF IInv, NothingLost
  <2>3. pc' # "screen" => proc.kind = "lc"
    BY <1>12, <2>1, <2>2 DEF GiveUp, FinishList, Finish, IInv, CollectsOwn, CommandTyped, Command
  <2> QED BY <1>1, <1>2, <2>1, <2>3 DEF AtField
<1>13. ASSUME UNCHANGED <<trail, pc, field>>, proc'.kind = proc.kind PROVE Answered'
  BY <1>1, <1>2, <1>13 DEF AtField
<1>14. CASE \E s \in Streams : ReadSome(s) \/ ReadEnd(s) \/ ReadError(s)
  <2>1. proc \in Command
    BY DEF IInv, CommandTyped
  <2> QED BY <1>13, <1>14, <2>1 DEF ReadSome, ReadEnd, ReadError, Command
<1>15. CASE Processes
  <2>1. proc \in Command
    BY DEF IInv, CommandTyped
  <2>2. UNCHANGED <<trail, pc, field>>
    BY <1>15 DEF Processes, Environment, Write, Written, Exit, Fork, CloseStreams, RestExits
  <2>3. proc'.kind = proc.kind
    BY <1>15, <2>1 DEF Processes, Write, Written, Exit, Fork, CloseStreams, RestExits, Command
  <2> QED BY <1>13, <2>2, <2>3
<1>16. CASE InputEnds \/ UNCHANGED vars
  BY <1>13, <1>16 DEF InputEnds, vars, command
<1> QED
  BY <1>4, <1>5, <1>6, <1>7, <1>8, <1>9, <1>10, <1>11, <1>12, <1>14, <1>15, <1>16
     DEF Next, Screen, Answers, Collect, Ends

\* A dialog that is left forwards has a value for each of its required
\* fields, if no two of the fields it asks for have the same symbol: the
\* values that are stored later are never theirs.
THEOREM RequiredFieldsAnswered ==
    ASSUME SymbolsApart
    PROVE  Spec => RequiredAnswered
<1> DEFINE Left ==
        pc = "field" /\ pc' = "screen" /\ Len(trail') > Len(trail) =>
            \A i \in DOMAIN FieldsOf(Top.node) :
                LET f == FieldsOf(Top.node)[i]
                IN  f.required /\ f.type \in Prompted => Text(Lookup(trail', f.sym)) # Empty
<1>1. Init => Answered
  BY DEF Init, Answered, AtField
<1>2. IInv /\ IInv' /\ Answered /\ [Next]_vars => Answered'
  BY AnsweredStep
<1>3. IInv /\ Answered /\ [Next]_vars => [Left]_vars
  <2> SUFFICES ASSUME IInv, Answered, Next, pc = "field", pc' = "screen",
                      Len(trail') > Len(trail), NEW i \in DOMAIN FieldsOf(Top.node)
               PROVE  HasValue(trail', FieldsOf(Top.node)[i])
    BY DEF HasValue
  <2>1. FieldNext \/ FieldBack
    <3>1. Answers \/ Quit
      BY DEF Next, Loaded, LoadFails, Screen, Unusable, RunMenu, RunDialog, RunHidden,
             RunInitcommand, RunAction, At, Collect, ReadSome, ReadEnd, ReadError, Reading, GiveUp,
             FinishInitcommand, FinishList, FinishAction, Finish, ShowList, Processes, Environment,
             Write, Written, Exit, Fork, CloseStreams, RestExits
    <3>2. pc' # "quit"
      OBVIOUS
    <3> QED
      BY <3>1, <3>2 DEF Answers, Quit, End, MenuChoose, ListChoose, MenuAnswer, ActionBack,
             FieldChange, FieldList, OpenList, FieldListFails, ListMore, ListCancel, ListDone,
             ListOverrun, InputEnds
  <2>2. trail # <<>> /\ trail \in Seq(Scope) /\ Top.node \in Nodes
        /\ field \in DOMAIN FieldsOf(Top.node) /\ new \in Values \cup {Null}
    <3>1. AtField
      BY DEF AtField
    <3> QED BY <3>1 DEF IInv, SessionTyped, FieldMarks
  <2>3. ~FieldBack
    <3>1. Stored \in Seq(Scope) /\ Stored # <<>> /\ Len(Stored) = Len(trail)
      BY <2>2, StoredType
    <3>2. Back(Stored) \in Seq(Scope) /\ Len(Back(Stored)) <= Len(Stored)
      BY <3>1, BackType
    <3>3. ASSUME FieldBack PROVE FALSE
      <4>1. trail' = Back(Stored)
        BY <3>3 DEF FieldBack, StepBack
      <4> QED BY <2>2, <3>1, <3>2, <4>1
    <3> QED BY <3>3
  <2>4. ~Missing /\ AskFrom(Stored, field + 1)
    BY <2>1, <2>3 DEF FieldNext
  <2>5. /\ Stored \in Seq(Scope) /\ Stored # <<>> /\ Stored[Len(Stored)].node = Top.node
        /\ Top.node \in Nodes /\ field \in Nat /\ due \in BOOLEAN
        /\ \A j \in 1..field : HasValue(Stored, FieldsOf(Top.node)[j])
    BY <2>4, AnsweredStored
  <2>6. /\ StepForward(Stored)
        /\ \A j \in (field + 1)..Len(FieldsOf(Top.node)) :
              FieldsOf(Top.node)[j].type \notin Prompted
    <3>1. field + 1 \in Nat /\ 1 <= field + 1
      BY <2>5
    <3> HIDE DEF Stored
    <3> QED BY <2>4, <2>5, <3>1, AskFromType
  <2>7. PICK n \in Nodes \cup {Null} : trail' = Append(Stored, [node |-> n, symbols |-> NoSymbols])
    BY <2>6 DEF StepForward, StepsOf, Goto
  <2>8. FieldsOf(Top.node) \in Seq(Field) /\ FieldsOf(Top.node)[i] \in Field
        /\ (i \in 1..field \/ i \in (field + 1)..Len(FieldsOf(Top.node)))
    BY <2>2, <2>5, FieldFacts
  <2>9. FieldsOf(Top.node)[i].sym \in Symbols
    BY <2>8 DEF Field
  <2>10. Lookup(trail', FieldsOf(Top.node)[i].sym) = Lookup(Stored, FieldsOf(Top.node)[i].sym)
    BY <2>5, <2>7, <2>9, LookupPushed
  <2> QED BY <2>5, <2>6, <2>8, <2>10 DEF HasValue
<1>4. Spec => [][Left]_vars
  BY <1>1, <1>2, <1>3, IInvAlways, PTL DEF Spec
<1> QED BY <1>4 DEF RequiredAnswered
=============================================================================
