-------------------------- MODULE RastaDescription --------------------------
(***************************************************************************)
(* A parsed RASTA description: the document a RastaContext walks.          *)
(*                                                                         *)
(* A description is one XML document that rasta.dtd accepts.  What the     *)
(* library reads of it is a tree of PATH elements, linked the way libxml   *)
(* links them (first child, next sibling, parent), and a table of screens. *)
(* Only element nodes are kept: every loop of the library skips the text   *)
(* nodes between them.                                                     *)
(***************************************************************************)
EXTENDS Naturals, FiniteSets

CONSTANTS
    Nodes,          \* identities of PATH elements
    ScreenIds,      \* values of the ID attributes of the screens
    Texts,          \* values of ID and TEXT attributes: one string space
    Symbols,        \* symbol names
    Values,         \* symbol values
    Descriptions,   \* the documents under consideration
    Null            \* the NULL pointer

MenuKinds   == {"MENU", "DIALOG", "HIDDEN", "ACTION"}
BranchKinds == {"MULTIPATH", "DEFAULTPATH"}
ScreenTypes == {"MENU", "DIALOG", "HIDDEN", "ACTION"}

(***************************************************************************)
(* The fields of a description.  kind, child, next, parent and name are    *)
(* the PATH elements; symbol and value are the attributes of a MULTIPATH;  *)
(* type, title, init and fastpath belong to the screen table; sets[s] are  *)
(* the symbols that the fields or the initcommand of screen s assign.      *)
(* The others follow from these (OwnerEquation, OpenEquation,              *)
(* DocumentOrder): owner[n] is the screen element n is a next step of,     *)
(* open[n] says that no screen between the root and n is FASTPATH="false", *)
(* pos[n] is the place of n in the document, and last[n] that of the last  *)
(* element beneath n, or its own if there is none.                         *)
(***************************************************************************)
Description ==
    [root     : Nodes,
     kind     : [Nodes -> MenuKinds \cup BranchKinds],
     child    : [Nodes -> Nodes \cup {Null}],
     next     : [Nodes -> Nodes \cup {Null}],
     parent   : [Nodes -> Nodes \cup {Null}],
     owner    : [Nodes -> Nodes \cup {Null}],
     open     : [Nodes -> BOOLEAN],
     pos      : [Nodes -> Nat],
     last     : [Nodes -> Nat],
     name     : [Nodes -> ScreenIds],
     symbol   : [Nodes -> Symbols],
     value    : [Nodes -> Values],
     type     : [ScreenIds -> ScreenTypes],
     title    : [ScreenIds -> Texts],
     init     : [ScreenIds -> BOOLEAN],
     fastpath : [ScreenIds -> BOOLEAN],
     sets     : [ScreenIds -> SUBSET Symbols]]

\* What makes the three libxml pointers describe one forest.
TreeLinks(d) ==
    /\ d.parent[d.root] = Null
    /\ \A n \in Nodes :
        /\ d.child[n] # Null => d.parent[d.child[n]] = n
        /\ d.next[n] # Null => d.parent[d.next[n]] = d.parent[n]
        /\ d.next[n] # Null => d.parent[n] # Null

\* rasta.dtd: PATH (MENU | DIALOG), ACTION EMPTY, and a MENU never below a
\* DIALOG, a HIDDEN or a branch.
PathGrammar(d) ==
    /\ d.kind[d.root] \in {"MENU", "DIALOG"}
    /\ \A n \in Nodes :
        /\ d.kind[n] = "ACTION" => d.child[n] = Null
        /\ d.kind[n] \in {"DIALOG", "HIDDEN"} \cup BranchKinds
              => \A m \in Nodes : d.parent[m] = n => d.kind[m] # "MENU"
        /\ d.kind[n] \in BranchKinds => d.parent[n] # Null

\* rasta.dtd: a HIDDENSCREEN has an INITCOMMAND; a MENUSCREEN and an
\* ACTIONSCREEN have none.
ScreenGrammar(d) ==
    \A s \in ScreenIds : /\ d.type[s] = "HIDDEN" => d.init[s]
                         /\ d.type[s] \in {"MENU", "ACTION"} => ~d.init[s]

\* The NAME of an element is the ID of a screen of the element's own kind
\* (the manual's meaning of NAME; the DTD only asks for some ID).
KindMatchesType(d) ==
    \A n \in Nodes : d.kind[n] \in MenuKinds => d.type[d.name[n]] = d.kind[n]

\* The TEXT of a screen is not the ID of a different screen.
TitlesApart(d) ==
    \A s, t \in ScreenIds : d.title[s] = t => s = t

OwnerEquation(d) ==
    \A n \in Nodes :
        d.owner[n] = IF d.parent[n] = Null THEN Null
                     ELSE IF d.kind[d.parent[n]] \in MenuKinds THEN d.parent[n]
                     ELSE d.owner[d.parent[n]]

MayDescend(d, n) ==
    d.kind[n] \in {"MENU", "DIALOG"} /\ d.fastpath[d.name[n]]

OpenEquation(d) ==
    \A n \in Nodes :
        d.open[n] <=> /\ d.parent[n] # Null
                      /\ \/ d.parent[n] = d.root
                         \/ MayDescend(d, d.parent[n]) /\ d.open[d.parent[n]]

\* The elements come in the order of their start tags: the first child after
\* its parent, a next sibling after everything beneath the one before it.
Beneath(d, m, n) == d.pos[n] < d.pos[m] /\ d.pos[m] <= d.last[n]

DocumentOrder(d) ==
    /\ \A n, m \in Nodes : d.pos[n] = d.pos[m] => n = m
    /\ \A n \in Nodes :
        /\ d.child[n] = Null => d.last[n] = d.pos[n]
        /\ d.child[n] # Null => d.pos[d.child[n]] = d.pos[n] + 1
        /\ d.next[n] # Null => d.pos[d.next[n]] = d.last[n] + 1
        /\ d.next[n] = Null /\ d.parent[n] # Null => d.last[n] = d.last[d.parent[n]]
    /\ \A n, m \in Nodes :
        Beneath(d, m, n) <=> /\ d.parent[m] # Null
                             /\ d.parent[m] = n \/ Beneath(d, d.parent[m], n)

WellFormed(d) ==
    /\ d \in Description
    /\ TreeLinks(d)
    /\ PathGrammar(d)
    /\ ScreenGrammar(d)
    /\ KindMatchesType(d)
    /\ OwnerEquation(d)
    /\ OpenEquation(d)
    /\ DocumentOrder(d)

ASSUME DescriptionsAssumption ==
    /\ Descriptions # {}
    /\ \A d \in Descriptions : WellFormed(d)
ASSUME TextsAssumption == ScreenIds \subseteq Texts
ASSUME NullAssumption ==
    /\ Null \notin Nodes
    /\ Null \notin ScreenIds
    /\ Null \notin Values
=============================================================================
