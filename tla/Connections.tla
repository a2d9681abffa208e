----------------------------- MODULE Connections -----------------------------
(***************************************************************************)
(* Logging in and out, and the sockets that live longer than the request   *)
(* which opened them (apps/server/src/auth.rs, session/socket.rs,          *)
(* agent/activity_socket.rs).                                              *)
(*                                                                         *)
(* A login is a row; the sockets of one login share a lease that a logout  *)
(* or the end of the login revokes.  A read-write lock, fair in the order  *)
(* of its requests, keeps a logout apart from what a socket does for its   *)
(* login: a terminal socket holds it while it writes input, a socket of    *)
(* the activities also while it sends, however long its client takes.      *)
(***************************************************************************)
EXTENDS Naturals, FiniteSets, SequencesExt

CONSTANTS
    Logins,
    Terminals, Activities,  \* the sockets of the two kinds
    Setups,                 \* requests that set the password, each its own
    LoginLimit,             \* attempts within the window
    None

VARIABLES
    credential, setup,      \* the stored password; where each request is
    attempts, login,        \* attempts in the window; where each login is
    rows, expired,          \* the logins in the database; those that are over
    lease,                  \* per login: shared by its sockets
    socket,                 \* per socket: its login and where it is
    logout,                 \* per login: where its logout is
    queue, readers, writer  \* the lock

lock == <<queue, readers, writer>>
accounts == <<credential, setup, attempts, login>>
vars == <<accounts, rows, expired, lease, socket, logout, lock>>

Sockets == Terminals \cup Activities
Closed == [of |-> None, at |-> "closed"]

Init ==
    /\ credential = None /\ setup = [r \in Setups |-> "idle"]
    /\ attempts = 0 /\ login = [l \in Logins |-> "idle"]
    /\ rows = {} /\ expired = {}
    /\ lease = [l \in Logins |-> "none"]
    /\ socket = [s \in Sockets |-> Closed]
    /\ logout = [l \in Logins |-> "idle"]
    /\ queue = <<>> /\ readers = {} /\ writer = None

Valid(l) == l \in rows /\ l \notin expired

-----------------------------------------------------------------------------
(* The lock: requests are granted in their order *)

Ask(x) == queue' = Append(queue, x)
Granted(x) == x \in readers \/ x = writer

Grant ==
    /\ queue # <<>> /\ writer = None
    /\ IF Head(queue) \in Sockets THEN readers' = readers \cup {Head(queue)} /\ UNCHANGED writer
       ELSE readers = {} /\ writer' = Head(queue) /\ UNCHANGED readers
    /\ queue' = Tail(queue)
    /\ UNCHANGED <<accounts, rows, expired, lease, socket, logout>>

-----------------------------------------------------------------------------
(* The password *)

Step(r, from, to) == setup[r] = from /\ setup' = [setup EXCEPT ![r] = to]
Beside == UNCHANGED <<rows, expired, lease, socket, logout, lock>>

\* setup, or the start of the server with a password, when there is none yet.
SetupBegin(r) ==
    /\ credential = None /\ Step(r, "idle", "hash")
    /\ UNCHANGED <<credential, attempts, login>> /\ Beside

\* initialize_password inserts unless a row is there by now.
SetupStore(r) ==
    /\ Step(r, "hash", IF credential = None THEN "stored" ELSE "idle")
    /\ credential' = IF credential = None THEN r ELSE credential
    /\ UNCHANGED <<attempts, login>> /\ Beside

\* login takes one of the attempts, even before there is a password; the hash
\* is read before it is verified.
LoginBegin(l) ==
    /\ login[l] = "idle" /\ attempts < LoginLimit
    /\ attempts' = attempts + 1
    /\ login' = IF credential = None THEN login ELSE [login EXCEPT ![l] = "verify"]
    /\ UNCHANGED <<credential, setup>> /\ Beside

\* A right password clears the attempts, whether or not the session's row can
\* then be created.
LoginEnd(l) ==
    /\ login[l] = "verify"
    /\ \/ attempts' = 0 /\ rows' = rows \cup {l} /\ login' = [login EXCEPT ![l] = "in"]
       \/ attempts' \in {0, attempts} /\ login' = [login EXCEPT ![l] = "idle"] /\ UNCHANGED rows
    /\ UNCHANGED <<credential, setup, expired, lease, socket, logout, lock>>

WindowPasses ==
    /\ attempts > 0 /\ attempts' = attempts - 1
    /\ UNCHANGED <<credential, setup, login>> /\ Beside

Expire(l) ==
    /\ l \in rows \ expired
    /\ expired' = expired \cup {l}
    /\ UNCHANGED <<accounts, rows, lease, socket, logout, lock>>

-----------------------------------------------------------------------------
(* Sockets *)

At(s, at) == socket[s].at = at
Goto(s, at) == socket' = [socket EXCEPT ![s].at = at]
Of(l) == {s \in Sockets : socket[s].of = l}

\* A lease goes with the last socket that holds it.
Leave(s) ==
    /\ socket' = [socket EXCEPT ![s] = Closed]
    /\ readers' = readers \ {s}
Kept(s, state) == [lease EXCEPT ![socket[s].of] = IF Of(socket[s].of) = {s} THEN "none" ELSE state]

\* require_auth lets the request through; the socket then asks for the lock.
Open(s, l) ==
    /\ At(s, "closed") /\ Valid(l)
    /\ socket' = [socket EXCEPT ![s] = [of |-> l, at |-> "opening"]]
    /\ Ask(s)
    /\ UNCHANGED <<accounts, rows, expired, lease, logout, readers, writer>>

\* session_lease: the lease of the login's sockets, or a new one.
Lease(l) == IF lease[l] = "none" THEN "valid" ELSE lease[l]

\* validate_identity: an error of the database counts as no valid login.
Found(l) == {Valid(l), FALSE}

\* The login is looked up under the lock, then its lease is taken; the socket
\* of the activities keeps the lock until its snapshot is sent.
Join(s) ==
    LET l == socket[s].of
    IN  /\ At(s, "opening") /\ Granted(s)
        /\ \E found \in Found(l) :
           IF found /\ (s \in Activities => Lease(l) = "valid")
           THEN /\ lease' = [lease EXCEPT ![l] = Lease(l)]
                /\ Goto(s, "sending")
                /\ readers' = IF s \in Activities THEN readers ELSE readers \ {s}
           ELSE Leave(s) /\ lease' = Kept(s, lease[l])
        /\ UNCHANGED <<accounts, rows, expired, logout, queue, writer>>

\* A terminal's output, and its end, are sent without the lock.
Output(s) ==
    /\ s \in Terminals /\ At(s, "open") /\ Goto(s, "sending")
    /\ UNCHANGED <<accounts, rows, expired, lease, logout, lock>>

\* A message of the client, or an event for the socket of the activities.
Receive(s) ==
    /\ At(s, "open")
    /\ Goto(s, "asking") /\ Ask(s)
    /\ UNCHANGED <<accounts, rows, expired, lease, logout, readers, writer>>

\* handle_client_message: input is written under the lock, for a valid lease.
Input(s) ==
    LET l == socket[s].of
    IN  /\ s \in Terminals /\ At(s, "asking") /\ Granted(s)
        /\ IF lease[l] = "valid" /\ l \notin expired
           THEN Goto(s, "open") /\ readers' = readers \ {s} /\ UNCHANGED lease
           ELSE Leave(s) /\ lease' = Kept(s, "revoked")
        /\ UNCHANGED <<accounts, rows, expired, logout, queue, writer>>

\* The socket of the activities looks the login up again, and sends; where it
\* finds none it revokes the lease, which ends the login's other sockets.
Forward(s) ==
    LET l == socket[s].of
    IN  /\ s \in Activities /\ At(s, "asking") /\ Granted(s)
        /\ \E found \in Found(l) :
           IF lease[l] = "valid" /\ found
           THEN Goto(s, "sending") /\ UNCHANGED <<lease, readers>>
           ELSE Leave(s) /\ lease' = Kept(s, "revoked")
        /\ UNCHANGED <<accounts, rows, expired, logout, queue, writer>>

Sent(s) ==
    /\ At(s, "sending")
    /\ Goto(s, "open") /\ readers' = readers \ {s}
    /\ UNCHANGED <<accounts, rows, expired, lease, logout, queue, writer>>

\* A revoked lease, or the end of the login, closes a socket that waits.
Close(s) ==
    LET l == socket[s].of
    IN  /\ At(s, "open") /\ (lease[l] = "revoked" \/ l \in expired)
        /\ Leave(s) /\ lease' = Kept(s, "revoked")
        /\ UNCHANGED <<accounts, rows, expired, logout, queue, writer>>

\* The client goes away: a receive or a send fails.
Gone(s) ==
    /\ At(s, "open") \/ At(s, "sending")
    /\ Leave(s) /\ lease' = Kept(s, lease[socket[s].of])
    /\ UNCHANGED <<accounts, rows, expired, logout, queue, writer>>

-----------------------------------------------------------------------------
(* Logging out *)

LogoutBegin(l) ==
    /\ logout[l] = "idle" /\ Valid(l)
    /\ logout' = [logout EXCEPT ![l] = "asking"] /\ Ask(l)
    /\ UNCHANGED <<accounts, rows, expired, lease, socket, readers, writer>>

\* The row is deleted, or the database reports an error.
LogoutDelete(l) ==
    /\ logout[l] = "asking" /\ Granted(l)
    /\ \/ rows' = rows \ {l} /\ logout' = [logout EXCEPT ![l] = "revoking"] /\ UNCHANGED writer
       \/ logout' = [logout EXCEPT ![l] = "idle"] /\ writer' = None /\ UNCHANGED rows
    /\ UNCHANGED <<accounts, expired, lease, socket, queue, readers>>

\* (Mutation: the lease is forgotten, but not revoked.)
LogoutForgets(l) ==
    /\ logout[l] = "revoking"
    /\ logout' = [logout EXCEPT ![l] = "done"] /\ writer' = None
    /\ UNCHANGED <<accounts, rows, expired, lease, socket, queue, readers>>

LogoutRevoke(l) ==
    /\ logout[l] = "revoking"
    /\ lease' = [lease EXCEPT ![l] = IF @ = "none" THEN "none" ELSE "revoked"]
    /\ logout' = [logout EXCEPT ![l] = "done"] /\ writer' = None
    /\ UNCHANGED <<accounts, rows, expired, socket, queue, readers>>

\* The request goes away while it waits for the lock or for the database, which
\* deletes the row all the same.
LogoutDrop(l) ==
    /\ logout[l] \in {"asking", "revoking"}
    /\ logout' = [logout EXCEPT ![l] = "idle"]
    /\ queue' = SelectSeq(queue, LAMBDA x : x # l)
    /\ writer' = IF writer = l THEN None ELSE writer
    /\ UNCHANGED <<accounts, rows, expired, lease, socket, readers>>

-----------------------------------------------------------------------------
SocketStep(s) == Join(s) \/ Input(s) \/ Forward(s) \/ Close(s)
\* A send is answered, or the peer is found gone.
SendEnds(s) == Sent(s) \/ (At(s, "sending") /\ Gone(s))

LogoutStep(l) == LogoutDelete(l) \/ LogoutRevoke(l)

Next ==
    \/ Grant \/ WindowPasses
    \/ \E r \in Setups : SetupBegin(r) \/ SetupStore(r)
    \/ \E l \in Logins : LoginBegin(l) \/ LoginEnd(l) \/ Expire(l)
    \/ \E s \in Sockets, l \in Logins : Open(s, l)
    \/ \E s \in Sockets : Receive(s) \/ Output(s) \/ Join(s) \/ Input(s) \/ Forward(s) \/ Sent(s) \/ Close(s) \/ Gone(s)
    \/ \E l \in Logins : LogoutBegin(l) \/ LogoutDelete(l) \/ LogoutRevoke(l) \/ LogoutDrop(l)

\* The server's tasks run; a client reads, or its connection ends.
Spec ==
    /\ Init /\ [][Next]_vars /\ WF_vars(Grant)
    /\ \A s \in Sockets : WF_vars(SocketStep(s)) /\ WF_vars(SendEnds(s))
                          /\ SF_vars(Close(s))
    /\ \A l \in Logins : WF_vars(LogoutStep(l))

-----------------------------------------------------------------------------
\* No input is accepted for a login once its logout was answered, or it ended.
NoInputAfterLogout ==
    [][\A s \in Terminals : At(s, "asking") /\ socket'[s].at = "open" =>
            logout[socket[s].of] # "done" /\ socket[s].of \notin expired]_vars

\* A logout is answered, however the sockets use the lock, and the sockets of
\* its login do not outlive it, unless its request goes away.
AsksToLogOut(l) == logout[l] = "asking"
IsLoggedOut(l) ==
    \/ logout[l] = "idle"
    \/ logout[l] = "done" /\ \A s \in Sockets : socket[s].of # l

LogoutsTakeEffect == \A l \in Logins : AsksToLogOut(l) ~> IsLoggedOut(l)

\* Only one request sets the password, and it is the one that is told so.
OnePassword == \A r \in Setups : setup[r] = "stored" => credential = r

\* What a login may do ends with it, and nobody else sets the password.
LoginsAreKept == NoInputAfterLogout /\ []OnePassword
=============================================================================
