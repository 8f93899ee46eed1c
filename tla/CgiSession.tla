----------------------------- MODULE CgiSession -----------------------------
(***************************************************************************)
(* cgirasta, the CGI gateway: who a request comes from.                    *)
(*                                                                         *)
(* Every request is a process of its own; all they share is the data       *)
(* directory.  A login writes an authorization file, whose name is the key *)
(* the browser presents in a cookie; every later request with that key     *)
(* that comes within the timeout rewrites the file with a new timestamp.   *)
(* The file is truncated when it is opened and written a moment later.     *)
(* The stream is never closed: what the disk refused then is tried once    *)
(* more when the process exits.  What a request carries is chosen where    *)
(* the program looks at it.                                                *)
(***************************************************************************)
EXTENDS Naturals

CONSTANTS
    Requests,       \* the processes
    Users,          \* who has a record in the user database
    Strangers,      \* user names without one
    Passwords,      \* what may be typed as a password, the empty one included
    PasswordOf,     \* the password a user's record was made from
    Timeout,        \* AUTH_TIMEOUT_SECS
    MaxTime,        \* bound: the last second
    Nothing,        \* no user, no key, no file
    Empty           \* a file that was truncated and not written since

Names == Users \cup Strangers
Times == 0 .. MaxTime

\* The name of an authorization file: a hash of the second of the login and
\* the userid.  (The userid is repeated or cut to fill the block of 64 bytes
\* that is hashed: no userid may be a repetition of another, and no two may
\* begin with the same 56 bytes.)
Keys == [at : Times, user : Users]
Records == [user : Users, stamp : Times]
Writes == [key : Keys, user : Users, stamp : Times]

ASSUME UsersAssumption ==
    /\ PasswordOf \in [Users -> Passwords]
    /\ Nothing \notin Users \cup Strangers
    /\ Users \cap Strangers = {}
    /\ Empty # Nothing
    /\ {Empty, Nothing} \cap Records = {}
    /\ Nothing \notin Keys \cup Writes
ASSUME TimeAssumption == Timeout \in Nat /\ MaxTime \in Nat

VARIABLES
    now,        \* time(NULL)
    dirs,       \* the directories there are, by their place in prep_db
    auths,      \* the file of a key: Nothing, Empty or a record
    pc,         \* where a request is
    dir,        \* the directory prep_db is at
    user,       \* ctxt->user.userid
    auth,       \* ctxt->user.auth_cookie
    open,       \* the records the process has not written yet, and where
    page        \* what the process sent

vars == <<now, dirs, auths, pc, dir, user, auth, open, page>>

Directories == 1 .. 3   \* users, auths, sessions

\* Mutant of NewKey: the time is left out of what is hashed.
NewKeyOfName(u) == [at |-> 0, user |-> u]

NewKey(u) == [at |-> now, user |-> u]

Goto(r, label) == pc' = [pc EXCEPT ![r] = label]

Send(r, what) ==
    /\ page' = [page EXCEPT ![r] = what]
    /\ Goto(r, "answered")

Init ==
    /\ now = 0
    /\ dirs \in {d \in SUBSET Directories : 1 \in d}
    /\ auths = [k \in Keys |-> Nothing]
    /\ pc = [r \in Requests |-> "new"]
    /\ dir = [r \in Requests |-> 1]
    /\ user = [r \in Requests |-> Nothing]
    /\ auth = [r \in Requests |-> Nothing]
    /\ open = [r \in Requests |-> {}]
    /\ page = [r \in Requests |-> "nothing"]

-----------------------------------------------------------------------------
(* main: the request, the data directory.                                  *)

\* The server starts the process for a request.
Start(r) ==
    /\ pc[r] = "new"
    /\ Goto(r, "stat")
    /\ UNCHANGED <<now, dirs, auths, dir, user, auth, open, page>>

\* No usable environment, configuration or description; then, no usable
\* CGI data.
Unusable(r) ==
    /\ pc[r] \in {"new", "auth"}
    /\ Send(r, "error")
    /\ UNCHANGED <<now, dirs, auths, dir, user, auth, open>>

PastDirectory(r) ==
    /\ dir' = [dir EXCEPT ![r] = @ + 1]
    /\ Goto(r, IF dir[r] = 3 THEN "auth" ELSE "stat")

\* Mutant of Stat: a directory that is missing is an error.
StatStrict(r) ==
    /\ pc[r] = "stat"
    /\ IF dir[r] \in dirs THEN PastDirectory(r) /\ UNCHANGED page
                          ELSE Send(r, "exists") /\ UNCHANGED dir
    /\ UNCHANGED <<now, dirs, auths, user, auth, open>>

\* prep_db looks for a directory ...
Stat(r) ==
    /\ pc[r] = "stat"
    /\ IF dir[r] \in dirs THEN PastDirectory(r)
                          ELSE Goto(r, "mkdir") /\ UNCHANGED dir
    /\ UNCHANGED <<now, dirs, auths, user, auth, open, page>>

\* ... and makes it; another request may have made it in between.
Mkdir(r) ==
    /\ pc[r] = "mkdir"
    /\ IF dir[r] \in dirs
       THEN Send(r, "exists") /\ UNCHANGED <<dirs, dir>>
       ELSE dirs' = dirs \cup {dir[r]} /\ PastDirectory(r) /\ UNCHANGED page
    /\ UNCHANGED <<now, auths, user, auth, open>>

\* The system refuses: no stat of the base path or of a directory, something
\* else by its name, no permission, no room to make it.  (The page is that of
\* a directory that exists, and told apart here.)
PrepFails(r) ==
    /\ pc[r] \in {"stat", "mkdir"}
    /\ Send(r, "refused")
    /\ UNCHANGED <<now, dirs, auths, dir, user, auth, open>>

-----------------------------------------------------------------------------
(* The authorization of a request.                                         *)

Expired(k) == auths[k] \in Records /\ now > auths[k].stamp + Timeout

\* load_auth: the cookie is the key of a record that is young enough ...
Recognise(r, k) ==
    /\ pc[r] = "auth"
    /\ auths[k] \in Records
    /\ ~Expired(k)
    /\ user' = [user EXCEPT ![r] = auths[k].user]
    /\ auth' = [auth EXCEPT ![r] = k]
    /\ Goto(r, "refresh")
    /\ UNCHANGED <<now, dirs, auths, dir, open, page>>

\* ... or it is not, or there is none.
NotRecognised(r) ==
    /\ pc[r] = "auth"
    /\ Goto(r, "session")
    /\ UNCHANGED <<now, dirs, auths, dir, user, auth, open, page>>

\* save_auth makes the record and opens the file, which truncates it; or the
\* file cannot be opened, and nobody asks.
SaveAuth(r, opened, refused) ==
    \/ /\ auths' = [auths EXCEPT ![auth[r]] = Empty]
       /\ open' = [open EXCEPT ![r] =
                     @ \cup {[key |-> auth[r], user |-> user[r], stamp |-> now]}]
       /\ Goto(r, opened)
    \/ UNCHANGED <<auths, open>> /\ Goto(r, refused)

\* Mutant of Write: the stream is left before the document is written.
WriteNothing(r, w) == open' = [open EXCEPT ![r] = @ \ {w}] /\ UNCHANGED auths

\* A record goes into its file.
Write(r, w) ==
    /\ auths' = [auths EXCEPT ![w.key] = [user |-> w.user, stamp |-> w.stamp]]
    /\ open' = [open EXCEPT ![r] = @ \ {w}]

\* xmlDocDump writes the record, if it is still in the directory, and flushes
\* it; the disk may be full, and nobody asks.
Dump(r) ==
    \/ \E w \in open[r] : w.key = auth[r] /\ Write(r, w)
    \/ UNCHANGED <<auths, open>>

Refresh(r) ==
    /\ pc[r] = "refresh"
    /\ SaveAuth(r, "renew", "session")
    /\ UNCHANGED <<now, dirs, dir, user, auth, page>>

Renew(r) ==
    /\ pc[r] = "renew"
    /\ Dump(r)
    /\ Goto(r, "session")
    /\ UNCHANGED <<now, dirs, dir, user, auth, page>>

\* Mutant of DropAuth: the old authorization is kept.
DropAuthNot(r) == UNCHANGED <<auths, open, auth>>

\* The key is forgotten and its file goes, and who has it open writes into
\* nothing; or the file is gone already, or cannot be removed.
DropAuth(r) ==
    /\ auth' = [auth EXCEPT ![r] = Nothing]
    /\ \/ /\ auths' = [k \in Keys |-> IF k = auth[r] THEN Nothing ELSE auths[k]]
          /\ open' = [q \in Requests |-> {w \in open[q] : w.key # auth[r]}]
       \/ UNCHANGED <<auths, open>>

-----------------------------------------------------------------------------
(* handle_session.  No session was ever saved: a key other than "login"    *)
(* finds none.                                                             *)

\* A user who is logged in gets nothing yet.
Serve(r) ==
    /\ pc[r] = "session"
    /\ user[r] # Nothing
    /\ Goto(r, "answered")
    /\ UNCHANGED <<now, dirs, auths, dir, user, auth, open, page>>

SendLogin(r) ==
    /\ pc[r] = "session"
    /\ user[r] = Nothing
    /\ Send(r, "login")
    /\ UNCHANGED <<now, dirs, auths, dir, user, auth, open>>

\* The key "login": login or re-login, the old value is gone.
HandleLogin(r) ==
    /\ pc[r] = "session"
    /\ DropAuth(r)
    /\ user' = [user EXCEPT ![r] = Nothing]
    /\ Goto(r, "login")
    /\ UNCHANGED <<now, dirs, dir, page>>

\* Mutant of Accepted: a name that is not in the database is let through.
AcceptedAny(u, p) == u \in Users => p = PasswordOf[u]

\* load_user finds the name, and the password is the one the record was made
\* from: the empty one, and no other, if the record has none.
Accepted(u, p) == u \in Users /\ p = PasswordOf[u]

LogIn(r, u, p) ==
    /\ pc[r] = "login"
    /\ Accepted(u, p)
    /\ user' = [user EXCEPT ![r] = u]
    /\ auth' = [auth EXCEPT ![r] = IF @ = Nothing THEN NewKey(u) ELSE @]
    /\ Goto(r, "save")
    /\ UNCHANGED <<now, dirs, auths, dir, open, page>>

\* The form again, with the name that was given.
RefuseLogin(r, u, p) ==
    /\ pc[r] = "login"
    /\ ~Accepted(u, p)
    /\ user' = [user EXCEPT ![r] = u]
    /\ Send(r, "login")
    /\ UNCHANGED <<now, dirs, auths, dir, auth, open>>

SaveLogin(r) ==
    /\ pc[r] = "save"
    /\ SaveAuth(r, "store", "answered")
    /\ UNCHANGED <<now, dirs, dir, user, auth, page>>

StoreLogin(r) ==
    /\ pc[r] = "store"
    /\ Dump(r)
    /\ Goto(r, "answered")
    /\ UNCHANGED <<now, dirs, dir, user, auth, page>>

-----------------------------------------------------------------------------
(* The end of a process, and of what it knew.                              *)

Gone(r, label) ==
    /\ Goto(r, label)
    /\ user' = [user EXCEPT ![r] = Nothing]
    /\ auth' = [auth EXCEPT ![r] = Nothing]
    /\ UNCHANGED <<now, dirs, auths, dir, open, page>>

\* exit flushes the streams that nobody closed: what the disk refused before
\* may be written now ...
Flush(r) ==
    /\ pc[r] = "answered"
    /\ \E w \in open[r] : Write(r, w)
    /\ UNCHANGED <<now, dirs, pc, dir, user, auth, page>>

\* ... or be lost.
Exit(r) ==
    /\ pc[r] = "answered"
    /\ Gone(r, "done")

\* The server kills the process.
Lose(r) ==
    /\ pc[r] \notin {"new", "done", "lost"}
    /\ Gone(r, "lost")

Tick ==
    /\ now < MaxTime
    /\ now' = now + 1
    /\ UNCHANGED <<dirs, auths, pc, dir, user, auth, open, page>>

Request(r) ==
    \/ Start(r) \/ Unusable(r) \/ Stat(r) \/ Mkdir(r) \/ PrepFails(r)
    \/ (\E k \in Keys : Recognise(r, k)) \/ NotRecognised(r) \/ Refresh(r) \/ Renew(r)
    \/ Serve(r) \/ SendLogin(r) \/ HandleLogin(r)
    \/ \E u \in Names \cup {Nothing}, p \in Passwords : LogIn(r, u, p) \/ RefuseLogin(r, u, p)
    \/ SaveLogin(r) \/ StoreLogin(r)
    \/ Flush(r) \/ Exit(r) \/ Lose(r)

Next == Tick \/ \E r \in Requests : Request(r)

Spec == Init /\ [][Next]_vars

-----------------------------------------------------------------------------
(* Properties.                                                             *)

Phases == {"new", "stat", "mkdir", "auth", "refresh", "renew", "session",
           "login", "save", "store", "answered", "done", "lost"}

\* The values of the variables; what save_auth requires of its callers (it
\* returns at once without a user's name), and that a login starts over.
TypeOK ==
    /\ now \in Times
    /\ dirs \subseteq Directories
    /\ auths \in [Keys -> Records \cup {Nothing, Empty}]
    /\ pc \in [Requests -> Phases]
    /\ dir \in [Requests -> 1 .. 4]
    /\ user \in [Requests -> Names \cup {Nothing}]
    /\ auth \in [Requests -> Keys \cup {Nothing}]
    /\ open \in [Requests -> SUBSET Writes]
    /\ page \in [Requests -> {"nothing", "error", "exists", "refused", "login"}]
    /\ \A r \in Requests :
          pc[r] \in {"refresh", "renew", "save", "store"} => user[r] \in Users /\ auth[r] \in Keys

\* The record under a key is that of the user whose login made the key, and
\* not older than that login; so is what a request is about to write.  (Two
\* logins of a user in one second share a key; a user who logs in after
\* another in the same browser must not get the other's.)
RecordsOwn ==
    /\ \A k \in Keys : auths[k] \in Records =>
          auths[k].user = k.user /\ k.at <= auths[k].stamp /\ auths[k].stamp <= now
    /\ \A r \in Requests : \A w \in open[r] :
          w.user = w.key.user /\ w.key.at <= w.stamp

\* An authorization file is empty, and its user a stranger to the next
\* request, only while a request is about to write it, or after such a
\* request was killed or found the disk full.
EmptyHasWriter ==
    \A k \in Keys : auths[k] = Empty =>
        \E r \in Requests : \E w \in open[r] : w.key = k

\* Requests that find the directories missing get in one another's way, but
\* never all of them: where one comes too late to make a directory, another
\* got further and never came too late.  (The system may refuse that one, as
\* it may refuse all of them; the race alone does not.)
SomebodyAhead ==
    \A r \in Requests : page[r] = "exists" =>
        \E q \in Requests : page[q] # "exists" /\ dir[q] > dir[r]

\* A request that goes by the key, or may yet write its file.
InUse(k) ==
    \E r \in Requests :
        \/ auth[r] = k
        \/ pc[r] \notin {"done", "lost"} /\ \E w \in open[r] : w.key = k

\* An authorization that ran out while no request used it is never used or
\* renewed again; a later login of the user has another key.
ExpiredForGood ==
    [][\A k \in Keys : Expired(k) /\ ~InUse(k) => auths'[k] = auths[k] /\ ~InUse(k)']_vars
=============================================================================
