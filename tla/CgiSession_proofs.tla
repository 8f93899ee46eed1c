-------------------------- MODULE CgiSession_proofs --------------------------
(***************************************************************************)
(* Theorems about CgiSession, for every set of requests and users, every   *)
(* timeout and every length of time.                                       *)
(***************************************************************************)
EXTENDS CgiSession, TLAPS

\* What a request goes by is a login of its user, and nothing before it was
\* recognised; nothing is written with a time to come.
HoldsOwn ==
    \A r \in Requests :
        /\ auth[r] # Nothing => auth[r].user = user[r] /\ auth[r].at <= now
        /\ \A w \in open[r] : w.stamp <= now
        /\ pc[r] \in {"new", "stat", "mkdir", "auth", "login", "done", "lost"}
              => auth[r] = Nothing

\* Who waits to make a directory that is there has been overtaken.
Overtaken ==
    /\ \A r \in Requests : pc[r] \in {"new", "stat", "mkdir"} =>
          page[r] # "exists" /\ dir[r] \in Directories
    /\ \A r \in Requests : pc[r] = "mkdir" /\ dir[r] \in dirs =>
          \E q \in Requests : page[q] # "exists" /\ dir[q] > dir[r]

IInv == /\ TypeOK /\ RecordsOwn /\ EmptyHasWriter /\ SomebodyAhead
        /\ HoldsOwn /\ Overtaken

LEMMA InitIInv == Init => IInv
<1> SUFFICES ASSUME Init PROVE IInv
  OBVIOUS
<1>1. TypeOK
  BY TimeAssumption DEF Init, TypeOK, Phases, Directories, Times
<1>2. RecordsOwn /\ EmptyHasWriter
  BY UsersAssumption DEF Init, RecordsOwn, EmptyHasWriter
<1>3. SomebodyAhead /\ HoldsOwn /\ Overtaken
  BY DEF Init, SomebodyAhead, HoldsOwn, Overtaken, Directories
<1>4. QED
  BY <1>1, <1>2, <1>3 DEF IInv

-----------------------------------------------------------------------------
(* One lemma for each part of the invariant.                               *)

\* The steps that touch neither files nor what the process goes by.
Plain(r) ==
    \/ Start(r) \/ Unusable(r) \/ Stat(r) \/ Mkdir(r) \/ PrepFails(r)
    \/ NotRecognised(r) \/ Serve(r) \/ SendLogin(r) \/ Exit(r) \/ Lose(r)

\* Of the record a step writes: who has it, and where.
Writing(r, w) ==
    /\ w \in open[r]
    /\ Write(r, w)
    /\ \/ pc[r] \in {"renew", "store"} /\ w.key = auth[r]
       \/ pc[r] = "answered"
    /\ UNCHANGED <<now, dirs, dir, user, auth, page>>
    /\ pc' = pc \/ Goto(r, "session") \/ Goto(r, "answered")

\* A record that cannot be written stays open.
Unwritten(r) ==
    /\ pc[r] \in {"renew", "store"}
    /\ UNCHANGED <<now, dirs, auths, dir, user, auth, open, page>>
    /\ Goto(r, "session") \/ Goto(r, "answered")

LEMMA Dumps ==
  ASSUME NEW r \in Requests, Renew(r) \/ StoreLogin(r) \/ Flush(r)
  PROVE  Unwritten(r) \/ \E w \in open[r] : Writing(r, w)
<1>1. CASE Flush(r)
  BY <1>1 DEF Flush, Writing
<1>2. CASE Renew(r)
  BY <1>2 DEF Renew, Dump, Unwritten, Writing
<1>3. CASE StoreLogin(r)
  BY <1>3 DEF StoreLogin, Dump, Unwritten, Writing
<1>4. QED
  BY <1>1, <1>2, <1>3

\* Every step of a request is one of these.
LEMMA Steps ==
  ASSUME NEW r \in Requests, Request(r)
  PROVE  \/ Plain(r) \/ (\E k \in Keys : Recognise(r, k)) \/ Refresh(r) \/ SaveLogin(r)
         \/ Unwritten(r) \/ (\E w \in open[r] : Writing(r, w)) \/ HandleLogin(r)
         \/ (\E u \in Names \cup {Nothing}, p \in Passwords : LogIn(r, u, p))
         \/ (\E u \in Names \cup {Nothing}, p \in Passwords : RefuseLogin(r, u, p))
  BY Dumps DEF Request, Plain

LEMMA TypeStep ==
  ASSUME IInv, NEW r \in Requests, Request(r)
  PROVE  TypeOK'
<1>0. TypeOK
  BY DEF IInv
<1>1. CASE Stat(r) \/ Mkdir(r)
  <2>1. dir[r] \in Directories
    BY <1>1 DEF IInv, Overtaken, Stat, Mkdir
  <2>2. /\ dirs' = dirs \/ dirs' = dirs \cup {dir[r]}
        /\ UNCHANGED <<now, auths, user, auth, open>>
        /\ page' = page \/ page' = [page EXCEPT ![r] = "exists"]
    BY <1>1 DEF Stat, Mkdir, PastDirectory, Goto, Send
  <2>3. dir' = dir \/ dir' = [dir EXCEPT ![r] = dir[r] + 1]
    BY <1>1 DEF Stat, Mkdir, PastDirectory
  <2>4. \/ pc' = [pc EXCEPT ![r] = "answered"] \/ pc' = [pc EXCEPT ![r] = "mkdir"]
        \/ pc' = [pc EXCEPT ![r] = "stat"] \/ pc' = [pc EXCEPT ![r] = "auth"]
    BY <1>1 DEF Stat, Mkdir, PastDirectory, Goto, Send
  <2>5. dir' \in [Requests -> 1 .. 4] /\ dirs' \subseteq Directories
    <3>1. dir \in [Requests -> 1 .. 4] /\ dir[r] \in 1 .. 4 /\ dir[r] + 1 \in 1 .. 4
      BY <1>0, <2>1 DEF TypeOK, Directories
    <3>2. dir' \in [Requests -> 1 .. 4]
      BY <2>3, <3>1
    <3>3. dirs' \subseteq Directories
      BY <1>0, <2>1, <2>2 DEF TypeOK
    <3>4. QED
      BY <3>2, <3>3
  <2>6. QED
    BY <1>0, <2>2, <2>4, <2>5 DEF TypeOK, Phases
<1>2. CASE \E k \in Keys : Recognise(r, k)
  BY <1>0, <1>2 DEF TypeOK, Recognise, Goto, Phases, Records, Names
<1>3. CASE Refresh(r) \/ SaveLogin(r)
  <2>1. auth[r] \in Keys /\ user[r] \in Users /\ now \in Times
    BY <1>0, <1>3 DEF TypeOK, Refresh, SaveLogin
  <2>2. [key |-> auth[r], user |-> user[r], stamp |-> now] \in Writes
    BY <2>1 DEF Writes
  <2>3. /\ auths' \in [Keys -> Records \cup {Nothing, Empty}]
        /\ open' \in [Requests -> SUBSET Writes]
    <3>1. CASE UNCHANGED <<auths, open>>
      BY <1>0, <3>1 DEF TypeOK
    <3>2. CASE /\ auths' = [auths EXCEPT ![auth[r]] = Empty]
               /\ open' = [open EXCEPT ![r] =
                     open[r] \cup {[key |-> auth[r], user |-> user[r], stamp |-> now]}]
      BY <1>0, <2>2, <3>2 DEF TypeOK
    <3>3. QED
      BY <1>3, <3>1, <3>2 DEF Refresh, SaveLogin, SaveAuth
  <2>4. QED
    BY <1>0, <1>3, <2>3 DEF TypeOK, Refresh, SaveLogin, SaveAuth, Goto, Phases
<1>4. CASE HandleLogin(r)
  <2>1. /\ auths' \in [Keys -> Records \cup {Nothing, Empty}]
        /\ open' \in [Requests -> SUBSET Writes]
    BY <1>0, <1>4 DEF TypeOK, HandleLogin, DropAuth
  <2>2. QED
    BY <1>0, <1>4, <2>1 DEF TypeOK, HandleLogin, DropAuth, Goto, Phases
<1>5. CASE \E u \in Names \cup {Nothing}, p \in Passwords : LogIn(r, u, p)
  BY <1>0, <1>5 DEF TypeOK, LogIn, Accepted, NewKey, Keys, Names, Goto, Phases
<1>6. CASE \E u \in Names \cup {Nothing}, p \in Passwords : RefuseLogin(r, u, p)
  BY <1>0, <1>6 DEF TypeOK, RefuseLogin, Send, Goto, Phases
<1>7. CASE \E w \in open[r] : Writing(r, w)
  <2>1. PICK w \in open[r] : Writing(r, w)
    BY <1>7
  <2>2. w \in Writes /\ [user |-> w.user, stamp |-> w.stamp] \in Records
    BY <1>0 DEF TypeOK, Writes, Records
  <2>3. /\ auths' \in [Keys -> Records \cup {Nothing, Empty}]
        /\ open' \in [Requests -> SUBSET Writes]
    BY <1>0, <2>1, <2>2 DEF TypeOK, Writing, Write
  <2>4. QED
    BY <1>0, <2>1, <2>3 DEF TypeOK, Writing, Goto, Phases
<1>8. CASE Unwritten(r)
  BY <1>0, <1>8 DEF TypeOK, Unwritten, Goto, Phases
<1>9. CASE \/ Start(r) \/ Unusable(r) \/ PrepFails(r) \/ NotRecognised(r)
           \/ Serve(r) \/ SendLogin(r) \/ Exit(r) \/ Lose(r)
  BY <1>0, <1>9 DEF TypeOK, Start, Unusable, PrepFails, NotRecognised, Serve, SendLogin,
     Exit, Lose, Gone, Send, Goto, Phases
<1>10. QED
  BY <1>1, <1>2, <1>3, <1>4, <1>5, <1>6, <1>7, <1>8, <1>9, Steps DEF Plain

LEMMA HoldsStep ==
  ASSUME IInv, NEW r \in Requests, Request(r)
  PROVE  HoldsOwn'
<1>0. TypeOK /\ HoldsOwn /\ RecordsOwn /\ now \in Nat
  BY TimeAssumption DEF IInv, TypeOK, Times
<1>1. CASE Plain(r)
  BY <1>0, <1>1 DEF Plain, TypeOK, HoldsOwn, Start, Unusable, Stat, Mkdir, PastDirectory,
     PrepFails, NotRecognised, Serve, SendLogin, Exit, Lose, Gone, Send, Goto
<1>2. CASE \E k \in Keys : Recognise(r, k)
  <2>1. PICK k \in Keys : Recognise(r, k)
    BY <1>2
  <2>2. auths[k].user = k.user /\ k.at <= now
    BY <1>0, <2>1 DEF Recognise, RecordsOwn, Records, Keys, Times
  <2>3. QED
    BY <1>0, <2>1, <2>2 DEF TypeOK, HoldsOwn, Recognise, Goto
<1>3. CASE Refresh(r) \/ SaveLogin(r)
  BY <1>0, <1>3 DEF TypeOK, HoldsOwn, Refresh, SaveLogin, SaveAuth, Goto
<1>4. CASE HandleLogin(r)
  BY <1>0, <1>4 DEF TypeOK, HoldsOwn, HandleLogin, DropAuth, Goto
<1>5. CASE \E u \in Names \cup {Nothing}, p \in Passwords : LogIn(r, u, p)
  BY <1>0, <1>5 DEF TypeOK, HoldsOwn, LogIn, Accepted, NewKey, Goto
<1>6. CASE \E u \in Names \cup {Nothing}, p \in Passwords : RefuseLogin(r, u, p)
  BY <1>0, <1>6 DEF TypeOK, HoldsOwn, RefuseLogin, Send, Goto
<1>7. CASE Unwritten(r) \/ \E w \in open[r] : Writing(r, w)
  <2>1. now' = now /\ auth' = auth /\ user' = user
    BY <1>7 DEF Unwritten, Writing
  <2>2. open' = open \/ \E w \in open[r] : open' = [open EXCEPT ![r] = open[r] \ {w}]
    BY <1>7 DEF Unwritten, Writing, Write
  <2>3. \A q \in Requests : open'[q] \subseteq open[q]
    BY <1>0, <2>2 DEF TypeOK
  <2>4. pc' = pc \/ Goto(r, "session") \/ Goto(r, "answered")
    BY <1>7 DEF Unwritten, Writing
  <2>5. \A q \in Requests : pc'[q] = pc[q] \/ pc'[q] \in {"session", "answered"}
    BY <1>0, <2>4 DEF TypeOK, Goto
  <2>6. QED
    BY <1>0, <2>1, <2>3, <2>5 DEF HoldsOwn
<1>8. QED
  BY <1>1, <1>2, <1>3, <1>4, <1>5, <1>6, <1>7, Steps

\* Records are written by save_auth alone, from what the request goes by.
LEMMA RecordsStep ==
  ASSUME IInv, NEW r \in Requests, Request(r)
  PROVE  RecordsOwn'
<1>0. TypeOK /\ HoldsOwn /\ RecordsOwn
  BY DEF IInv
<1>1. CASE Plain(r) \/ Unwritten(r) \/ \E k \in Keys : Recognise(r, k)
  BY <1>0, <1>1 DEF Plain, RecordsOwn, Start, Unusable, Stat, Mkdir, PrepFails,
     NotRecognised, Serve, SendLogin, Exit, Lose, Gone, Unwritten, Recognise
<1>2. CASE \E u \in Names \cup {Nothing}, p \in Passwords :
             LogIn(r, u, p) \/ RefuseLogin(r, u, p)
  BY <1>0, <1>2 DEF RecordsOwn, LogIn, RefuseLogin
<1>3. CASE Refresh(r) \/ SaveLogin(r)
  <2>1. /\ auth[r] \in Keys /\ auth[r].user = user[r] /\ auth[r].at <= now
        /\ now' = now /\ Empty \notin Records
    BY <1>0, <1>3, UsersAssumption DEF TypeOK, HoldsOwn, Refresh, SaveLogin
  <2>2. CASE UNCHANGED <<auths, open>>
    BY <1>0, <2>1, <2>2 DEF RecordsOwn
  <2>3. CASE /\ auths' = [auths EXCEPT ![auth[r]] = Empty]
             /\ open' = [open EXCEPT ![r] = open[r] \cup
                           {[key |-> auth[r], user |-> user[r], stamp |-> now]}]
    BY <1>0, <2>1, <2>3 DEF TypeOK, RecordsOwn
  <2>4. QED
    BY <1>3, <2>2, <2>3 DEF Refresh, SaveLogin, SaveAuth
<1>4. CASE HandleLogin(r)
  BY <1>0, <1>4, UsersAssumption DEF TypeOK, RecordsOwn, HandleLogin, DropAuth
<1>5. CASE \E w \in open[r] : Writing(r, w)
  <2>1. PICK w \in open[r] : Writing(r, w)
    BY <1>5
  <2>2. /\ w.user = w.key.user /\ w.key.at <= w.stamp /\ w.stamp <= now
    BY <1>0 DEF RecordsOwn, HoldsOwn
  <2>3. /\ now' = now
        /\ \A q \in Requests : open'[q] \subseteq open[q]
        /\ \A k \in Keys : \/ auths'[k] = auths[k]
                           \/ k = w.key /\ auths'[k].user = w.user /\ auths'[k].stamp = w.stamp
    BY <1>0, <2>1 DEF TypeOK, Writing, Write
  <2>4. QED
    BY <1>0, <2>2, <2>3 DEF RecordsOwn
<1>6. QED
  BY <1>1, <1>2, <1>3, <1>4, <1>5, Steps

\* A file is emptied by the request that opens it, written by one that has it
\* open, and gone when nobody may write it any more.
LEMMA WriterStep ==
  ASSUME IInv, NEW r \in Requests, Request(r)
  PROVE  EmptyHasWriter'
<1>0. TypeOK /\ EmptyHasWriter
  BY DEF IInv
<1>1. CASE Plain(r) \/ Unwritten(r) \/ \E k \in Keys : Recognise(r, k)
  BY <1>0, <1>1 DEF Plain, EmptyHasWriter, Start, Unusable, Stat, Mkdir, PrepFails,
     NotRecognised, Serve, SendLogin, Exit, Lose, Gone, Unwritten, Recognise
<1>2. CASE \E u \in Names \cup {Nothing}, p \in Passwords :
             LogIn(r, u, p) \/ RefuseLogin(r, u, p)
  BY <1>0, <1>2 DEF EmptyHasWriter, LogIn, RefuseLogin
<1>3. CASE Refresh(r) \/ SaveLogin(r)
  <2>1. auth[r] \in Keys
    BY <1>0, <1>3 DEF TypeOK, Refresh, SaveLogin
  <2>2. CASE UNCHANGED <<auths, open>>
    BY <1>0, <2>2 DEF EmptyHasWriter
  <2>3. CASE /\ auths' = [auths EXCEPT ![auth[r]] = Empty]
             /\ open' = [open EXCEPT ![r] = open[r] \cup
                           {[key |-> auth[r], user |-> user[r], stamp |-> now]}]
    <3>1. \E w \in open'[r] : w.key = auth[r]
      <4> DEFINE w == [key |-> auth[r], user |-> user[r], stamp |-> now]
      <4>1. open'[r] = open[r] \cup {w}
        BY <1>0, <2>3 DEF TypeOK
      <4>2. w \in open'[r] /\ w.key = auth[r]
        BY <4>1
      <4>3. QED
        BY <4>2
    <3>2. \A q \in Requests : open[q] \subseteq open'[q]
      BY <1>0, <2>3 DEF TypeOK
    <3>3. QED
      BY <1>0, <2>1, <2>3, <3>1, <3>2 DEF TypeOK, EmptyHasWriter
  <2>4. QED
    BY <1>3, <2>2, <2>3 DEF Refresh, SaveLogin, SaveAuth
<1>4. CASE HandleLogin(r)
  <2>1. CASE UNCHANGED <<auths, open>>
    BY <1>0, <2>1 DEF EmptyHasWriter
  <2>2. CASE /\ auths' = [k \in Keys |-> IF k = auth[r] THEN Nothing ELSE auths[k]]
             /\ open' = [q \in Requests |-> {w \in open[q] : w.key # auth[r]}]
    BY <1>0, <2>2, UsersAssumption DEF EmptyHasWriter
  <2>3. QED
    BY <1>4, <2>1, <2>2 DEF HandleLogin, DropAuth
<1>5. CASE \E w \in open[r] : Writing(r, w)
  <2>1. PICK w \in open[r] : Writing(r, w)
    BY <1>5
  <2>2. w.key \in Keys /\ [user |-> w.user, stamp |-> w.stamp] \in Records
    BY <1>0 DEF TypeOK, Writes, Records
  <2>3. /\ auths' = [auths EXCEPT ![w.key] = [user |-> w.user, stamp |-> w.stamp]]
        /\ open' = [open EXCEPT ![r] = open[r] \ {w}]
    BY <2>1 DEF Writing, Write
  <2> SUFFICES ASSUME NEW k \in Keys, auths'[k] = Empty
               PROVE  \E q \in Requests : \E v \in open'[q] : v.key = k
    BY DEF EmptyHasWriter
  <2>4. k # w.key /\ auths[k] = Empty
    BY <1>0, <2>2, <2>3, UsersAssumption DEF TypeOK
  <2>5. PICK q \in Requests : \E v \in open[q] : v.key = k
    BY <1>0, <2>4 DEF EmptyHasWriter
  <2>6. QED
    BY <1>0, <2>3, <2>4, <2>5 DEF TypeOK
<1>6. QED
  BY <1>1, <1>2, <1>3, <1>4, <1>5, Steps

-----------------------------------------------------------------------------
(* The directories.                                                        *)

LEMMA PrepStep ==
  ASSUME IInv, NEW r \in Requests, Request(r)
  PROVE  SomebodyAhead' /\ Overtaken'
<1>0. TypeOK /\ SomebodyAhead /\ Overtaken
  BY DEF IInv
<1>1. CASE Stat(r)
  BY <1>0, <1>1 DEF TypeOK, SomebodyAhead, Overtaken, Stat, PastDirectory, Goto, Directories
<1>2. CASE Mkdir(r) /\ dir[r] \in dirs
  <2>1. PICK q \in Requests : page[q] # "exists" /\ dir[q] > dir[r]
    BY <1>0, <1>2 DEF Overtaken, Mkdir
  <2>2. /\ page' = [page EXCEPT ![r] = "exists"] /\ dir' = dir /\ dirs' = dirs
        /\ pc' = [pc EXCEPT ![r] = "answered"]
    BY <1>2 DEF Mkdir, Send, Goto
  <2>3. q # r /\ page'[q] # "exists" /\ dir[q] \in Nat /\ dir[r] \in Nat
    BY <1>0, <2>1, <2>2 DEF TypeOK
  <2>4. \A s \in Requests : (\E t \in Requests : page[t] # "exists" /\ dir[t] > dir[s])
            => \E t \in Requests : page'[t] # "exists" /\ dir[t] > dir[s]
    BY <1>0, <2>1, <2>2, <2>3 DEF TypeOK
  <2>5. QED
    BY <1>0, <2>1, <2>2, <2>3, <2>4 DEF TypeOK, SomebodyAhead, Overtaken
<1>3. CASE Mkdir(r) /\ dir[r] \notin dirs
  <2>1. /\ dirs' = dirs \cup {dir[r]} /\ page' = page
        /\ dir' = [dir EXCEPT ![r] = dir[r] + 1]
        /\ pc[r] = "mkdir" /\ page[r] # "exists" /\ dir[r] \in Directories
        /\ pc' = [pc EXCEPT ![r] = IF dir[r] = 3 THEN "auth" ELSE "stat"]
    BY <1>0, <1>3 DEF Mkdir, PastDirectory, Goto, Overtaken
  <2>2. \A s \in Requests : dir[s] \in Nat /\ dir'[s] \in Nat /\ dir'[s] >= dir[s]
    BY <1>0, <2>1 DEF TypeOK
  <2>3. \A s \in Requests : s # r => dir'[s] = dir[s]
    BY <1>0, <2>1 DEF TypeOK
  <2>4. SomebodyAhead'
    <3> SUFFICES ASSUME NEW s \in Requests, page'[s] = "exists"
                 PROVE  \E q \in Requests : page'[q] # "exists" /\ dir'[q] > dir'[s]
      BY DEF SomebodyAhead
    <3>1. PICK q \in Requests : page[q] # "exists" /\ dir[q] > dir[s]
      BY <1>0, <2>1 DEF SomebodyAhead
    <3>2. QED
      BY <2>1, <2>2, <2>3, <3>1
  <2>5. Overtaken'
    <3>1. \A s \in Requests : pc'[s] = "mkdir" /\ dir'[s] \in dirs' =>
             \E q \in Requests : page'[q] # "exists" /\ dir'[q] > dir'[s]
      <4> SUFFICES ASSUME NEW s \in Requests, pc'[s] = "mkdir", dir'[s] \in dirs'
                   PROVE  \E q \in Requests : page'[q] # "exists" /\ dir'[q] > dir'[s]
        OBVIOUS
      <4>1. s # r /\ pc[s] = "mkdir" /\ dir'[s] = dir[s]
        BY <1>0, <2>1, <2>3 DEF TypeOK
      <4>2. CASE dir[s] = dir[r]
        BY <1>0, <2>1, <4>1, <4>2 DEF TypeOK
      <4>3. CASE dir[s] # dir[r]
        <5>1. PICK q \in Requests : page[q] # "exists" /\ dir[q] > dir[s]
          BY <1>0, <2>1, <4>1, <4>3 DEF Overtaken
        <5>2. QED
          BY <2>1, <2>2, <4>1, <5>1
      <4>4. QED
        BY <4>2, <4>3
    <3>2. QED
      BY <1>0, <2>1, <3>1 DEF TypeOK, Overtaken, Directories
  <2>6. QED
    BY <2>4, <2>5
<1>4. CASE \/ Start(r) \/ (\E k \in Keys : Recognise(r, k)) \/ NotRecognised(r)
           \/ Refresh(r) \/ Renew(r) \/ Serve(r) \/ HandleLogin(r)
           \/ SaveLogin(r) \/ StoreLogin(r) \/ Flush(r)
           \/ (\E u \in Names \cup {Nothing}, p \in Passwords : LogIn(r, u, p))
           \/ Exit(r) \/ Lose(r)
  <2>1. dirs' = dirs /\ dir' = dir /\ page' = page
    BY <1>4 DEF Start, Recognise, NotRecognised, Refresh, Renew, Serve, HandleLogin,
       SaveLogin, StoreLogin, LogIn, Flush, Exit, Lose, Gone
  <2>2. \A s \in Requests : pc'[s] \in {"new", "stat", "mkdir"} =>
           pc[s] = pc'[s] \/ (pc[s] = "new" /\ pc'[s] = "stat")
    BY <1>0, <1>4 DEF TypeOK, Start, Recognise, NotRecognised, Refresh, Renew, SaveAuth,
       Serve, HandleLogin, SaveLogin, StoreLogin, LogIn, Flush, Exit, Lose, Gone, Goto
  <2>3. QED
    BY <1>0, <2>1, <2>2 DEF SomebodyAhead, Overtaken
<1>5. CASE \/ Unusable(r) \/ PrepFails(r) \/ SendLogin(r)
           \/ \E u \in Names \cup {Nothing}, p \in Passwords : RefuseLogin(r, u, p)
  <2>1. /\ dirs' = dirs /\ dir' = dir /\ pc' = [pc EXCEPT ![r] = "answered"]
        /\ \E what \in {"error", "refused", "login"} : page' = [page EXCEPT ![r] = what]
    BY <1>5 DEF Unusable, PrepFails, SendLogin, RefuseLogin, Send, Goto
  <2>2. QED
    BY <1>0, <2>1 DEF TypeOK, SomebodyAhead, Overtaken
<1>6. QED
  BY <1>1, <1>2, <1>3, <1>4, <1>5 DEF Request

LEMMA TickStep == IInv /\ Tick => IInv'
<1> SUFFICES ASSUME IInv, Tick PROVE IInv'
  OBVIOUS
<1>0. /\ now \in Nat /\ now' \in Nat /\ now' \in Times /\ now <= now'
      /\ UNCHANGED <<dirs, auths, pc, dir, user, auth, open, page>>
  BY TimeAssumption DEF IInv, TypeOK, Tick, Times
<1>1. TypeOK' /\ EmptyHasWriter' /\ SomebodyAhead' /\ Overtaken'
  BY <1>0 DEF IInv, TypeOK, EmptyHasWriter, SomebodyAhead, Overtaken
<1>2. RecordsOwn'
  <2>1. \A k \in Keys : auths[k] \in Records => auths[k].stamp \in Nat
    BY TimeAssumption DEF Records, Times
  <2>2. QED
    BY <1>0, <2>1 DEF IInv, RecordsOwn
<1>3. HoldsOwn'
  <2>1. \A r \in Requests : auth[r] # Nothing => auth[r].at \in Nat
    <3>1. \A k \in Keys : k.at \in Nat
      BY TimeAssumption DEF Keys, Times
    <3>2. QED
      BY <3>1 DEF IInv, TypeOK
  <2>2. \A r \in Requests : \A w \in open[r] : w.stamp \in Nat
    <3>1. \A w \in Writes : w.stamp \in Nat
      BY TimeAssumption DEF Writes, Times
    <3>2. QED
      BY <3>1 DEF IInv, TypeOK
  <2>3. QED
    BY <1>0, <2>1, <2>2 DEF IInv, HoldsOwn
<1>4. QED
  BY <1>1, <1>2, <1>3 DEF IInv

-----------------------------------------------------------------------------
(* The theorems.                                                           *)

LEMMA NextIInv == IInv /\ [Next]_vars => IInv'
<1> SUFFICES ASSUME IInv, [Next]_vars PROVE IInv'
  OBVIOUS
<1>1. CASE Tick
  BY <1>1, TickStep
<1>2. CASE \E r \in Requests : Request(r)
  BY <1>2, TypeStep, HoldsStep, RecordsStep, WriterStep, PrepStep DEF IInv
<1>3. CASE UNCHANGED vars
  BY <1>3 DEF vars, IInv, TypeOK, RecordsOwn, EmptyHasWriter, SomebodyAhead,
     HoldsOwn, Overtaken
<1>4. QED
  BY <1>1, <1>2, <1>3 DEF Next

\* The inductive invariant, of which the checked ones are parts.
THEOREM AlwaysIInv == Spec => []IInv
  BY InitIInv, NextIInv, PTL DEF Spec

\* The variables keep to their values, and save_auth is called only with a
\* user and a key.
THEOREM TypeCorrect == Spec => []TypeOK
<1>1. IInv => TypeOK
  BY DEF IInv
<1>2. QED
  BY <1>1, AlwaysIInv, PTL

\* The record under a key is that of the user whose login made the key.
THEOREM RecordsAreOwn == Spec => []RecordsOwn
<1>1. IInv => RecordsOwn
  BY DEF IInv
<1>2. QED
  BY <1>1, AlwaysIInv, PTL

\* An authorization file is empty only while a request has it open.
THEOREM EmptyFilesHaveWriters == Spec => []EmptyHasWriter
<1>1. IInv => EmptyHasWriter
  BY DEF IInv
<1>2. QED
  BY <1>1, AlwaysIInv, PTL

\* Of the requests that race for the directories one never comes too late,
\* whatever the system refuses meanwhile.
THEOREM SomebodyIsAhead == Spec => []SomebodyAhead
<1>1. IInv => SomebodyAhead
  BY DEF IInv
<1>2. QED
  BY <1>1, AlwaysIInv, PTL

\* A record that ran out has a key that no login makes any more, and that no
\* request goes by or writes for.
LEMMA ExpiryStep ==
  ASSUME IInv, [Next]_vars, NEW k \in Keys, Expired(k), ~InUse(k)
  PROVE  auths'[k] = auths[k] /\ ~InUse(k)'
<1>0. /\ TypeOK /\ HoldsOwn /\ \A q \in Requests : auth[q] # k
      /\ \A q \in Requests : pc[q] \in {"done", "lost"} \/ \A w \in open[q] : w.key # k
  BY DEF IInv, InUse
<1>1. k.at # now
  <2>1. /\ k.at \in Nat /\ now \in Nat /\ auths[k].stamp \in Nat /\ Timeout \in Nat
        /\ k.at <= auths[k].stamp /\ now > auths[k].stamp + Timeout
    BY TimeAssumption DEF IInv, TypeOK, RecordsOwn, Expired, Records, Keys, Times
  <2>2. QED
    BY <2>1
<1>2. CASE Tick \/ UNCHANGED vars
  BY <1>0, <1>2 DEF Tick, vars, InUse
<1>3. ASSUME NEW r \in Requests, Request(r)
      PROVE  auths'[k] = auths[k] /\ ~InUse(k)'
  \* Who is at its end stays there; others end up with no more than they had.
  <2> DEFINE Kept == \A q \in Requests :
                \/ pc'[q] \in {"done", "lost"}
                \/ pc[q] \notin {"done", "lost"} /\ open'[q] \subseteq open[q]
                \/ \A w \in open'[q] : w.key # k
  <2>0. ASSUME Kept, \A q \in Requests : auth'[q] # k
        PROVE  ~InUse(k)'
    BY <1>0, <2>0 DEF InUse
  <2>1. CASE Plain(r)
    <3>1. auths' = auths /\ open' = open
      BY <2>1 DEF Plain, Start, Unusable, Stat, Mkdir, PrepFails, NotRecognised, Serve,
         SendLogin, Exit, Lose, Gone
    <3>2. \A q \in Requests : auth'[q] # k
      BY <1>0, <2>1, UsersAssumption DEF TypeOK, Plain, Start, Unusable, Stat, Mkdir, PrepFails,
         NotRecognised, Serve, SendLogin, Exit, Lose, Gone
    <3>3. \A q \in Requests : pc[q] \in {"done", "lost"} => pc'[q] \in {"done", "lost"}
      BY <1>0, <2>1 DEF TypeOK, Plain, Start, Unusable, Stat, Mkdir, PastDirectory, PrepFails,
         NotRecognised, Serve, SendLogin, Send, Exit, Lose, Gone, Goto
    <3>4. QED
      BY <1>0, <2>0, <3>1, <3>2, <3>3
  <2>2. CASE \E l \in Keys : Recognise(r, l)
    BY <1>0, <2>0, <2>2 DEF TypeOK, Recognise, Goto
  <2>3. CASE Refresh(r) \/ SaveLogin(r)
    <3>1. /\ auth' = auth /\ auth[r] # k /\ auths'[k] = auths[k]
          /\ pc[r] \notin {"done", "lost"}
          /\ \A q \in Requests : q # r => pc'[q] = pc[q]
      BY <1>0, <2>3 DEF TypeOK, Refresh, SaveLogin, SaveAuth, Goto
    <3>2. /\ \A q \in Requests : q # r => open'[q] = open[q]
          /\ \A w \in open'[r] : w \in open[r] \/ w.key = auth[r]
      BY <1>0, <2>3 DEF TypeOK, Refresh, SaveLogin, SaveAuth
    <3>3. QED
      BY <1>0, <2>0, <3>1, <3>2
  <2>4. CASE HandleLogin(r)
    BY <1>0, <2>0, <2>4, UsersAssumption DEF TypeOK, HandleLogin, DropAuth, Goto
  <2>5. CASE \E u \in Names \cup {Nothing}, p \in Passwords : LogIn(r, u, p)
    BY <1>0, <1>1, <2>0, <2>5 DEF TypeOK, LogIn, NewKey, Goto
  <2>6. CASE \E u \in Names \cup {Nothing}, p \in Passwords : RefuseLogin(r, u, p)
    BY <1>0, <2>0, <2>6 DEF TypeOK, RefuseLogin, Send, Goto
  <2>7. CASE Unwritten(r)
    BY <1>0, <2>0, <2>7 DEF TypeOK, Unwritten, Goto
  <2>8. CASE \E w \in open[r] : Writing(r, w)
    <3>1. PICK w \in open[r] : Writing(r, w)
      BY <2>8
    <3>2. w.key # k /\ pc[r] \notin {"done", "lost"} /\ auth' = auth
      BY <1>0, <3>1 DEF Writing
    <3>3. auths'[k] = auths[k] /\ \A q \in Requests : open'[q] \subseteq open[q]
      BY <1>0, <3>1, <3>2 DEF TypeOK, Writing, Write
    <3>4. \A q \in Requests : pc[q] \in {"done", "lost"} => pc'[q] = pc[q]
      BY <1>0, <3>1, <3>2 DEF TypeOK, Writing, Goto
    <3>5. QED
      BY <1>0, <2>0, <3>2, <3>3, <3>4
  <2>9. QED
    BY <1>3, <2>1, <2>2, <2>3, <2>4, <2>5, <2>6, <2>7, <2>8, Steps
<1>4. QED
  BY <1>2, <1>3 DEF Next

\* An authorization that ran out while nobody used it is out for good.
THEOREM ExpiredStaysExpired == Spec => ExpiredForGood
<1>1. IInv /\ [Next]_vars =>
        [\A k \in Keys : Expired(k) /\ ~InUse(k) => auths'[k] = auths[k] /\ ~InUse(k)']_vars
  BY ExpiryStep
<1>2. QED
  BY <1>1, AlwaysIInv, PTL DEF Spec, ExpiredForGood
=============================================================================
