--------------------------- MODULE Service_proofs ---------------------------
(***************************************************************************)
(* Proofs about what the service has to bring to an end (MCService): the   *)
(* logins of Connections and the installs of SupervisorInstall.            *)
(***************************************************************************)
EXTENDS MCService, TLAPS

-----------------------------------------------------------------------------
(* Logins.  A login is created once, so that a row that is deleted stays   *)
(* deleted; without a row there is no new lease, and a logout revokes the  *)
(* one there is.                                                           *)

AccountsTypeOK ==
    /\ setup \in [Setups -> {"idle", "hash", "stored"}]
    /\ login \in [Logins -> {"idle", "verify", "in"}]
    /\ lease \in [Logins -> {"none", "valid", "revoked"}]
    /\ socket \in [Accounts!Sockets ->
                      [of : Logins \cup {None},
                       at : {"closed", "opening", "open", "asking", "sending"}]]
    /\ logout \in [Logins -> {"idle", "asking", "revoking", "done"}]

SocketsHaveLogins ==
    \A s \in Accounts!Sockets : socket[s].at # "closed" => socket[s].of \in Logins

\* A login has a row only while it is the first and only time it is in.
RowsAreFresh ==
    /\ \A l \in Logins : l \in rows => login[l] = "in"
    /\ \A l \in Logins : logout[l] # "idle" => login[l] = "in"
    /\ \A l \in Logins : logout[l] \in {"revoking", "done"} => l \notin rows

\* A logout that was answered leaves no valid lease.
LogoutsRevoke == \A l \in Logins : logout[l] = "done" => lease[l] # "valid"

AccountsInv ==
    /\ AccountsTypeOK
    /\ SocketsHaveLogins
    /\ RowsAreFresh
    /\ LogoutsRevoke
    /\ Accounts!OnePassword

LEMMA AccountsInit == Accounts!Init => AccountsInv
  BY AccountsAssumption
  DEF Accounts!Init, AccountsInv, AccountsTypeOK, SocketsHaveLogins, RowsAreFresh,
      LogoutsRevoke, Accounts!OnePassword, Accounts!Closed, Accounts!Sockets

\* The requests that set the password and those that log in.
LEMMA PasswordStep ==
    ASSUME AccountsInv,
           \/ Accounts!WindowPasses
           \/ \E r \in Setups : Accounts!SetupBegin(r) \/ Accounts!SetupStore(r)
           \/ \E l \in Logins : Accounts!LoginBegin(l) \/ Accounts!LoginEnd(l) \/ Accounts!Expire(l)
    PROVE  AccountsInv'
<1> USE DEF AccountsInv
<1>1. AccountsTypeOK'
  BY DEF AccountsTypeOK, Accounts!WindowPasses, Accounts!SetupBegin, Accounts!SetupStore,
         Accounts!LoginBegin, Accounts!LoginEnd, Accounts!Expire, Accounts!Step, Accounts!Beside,
         Accounts!accounts
<1>2. UNCHANGED <<socket, logout, lease>>
  BY DEF Accounts!WindowPasses, Accounts!SetupBegin, Accounts!SetupStore, Accounts!LoginBegin,
         Accounts!LoginEnd, Accounts!Expire, Accounts!Beside
<1>3. SocketsHaveLogins' /\ LogoutsRevoke'
  BY <1>2 DEF SocketsHaveLogins, LogoutsRevoke
<1>4. RowsAreFresh'
  BY <1>2 DEF AccountsTypeOK, RowsAreFresh, Accounts!WindowPasses, Accounts!SetupBegin,
         Accounts!SetupStore, Accounts!LoginBegin, Accounts!LoginEnd, Accounts!Expire,
         Accounts!Step, Accounts!Beside, Accounts!accounts
<1>5. Accounts!OnePassword'
  BY AccountsAssumption
  DEF AccountsTypeOK, Accounts!OnePassword, Accounts!WindowPasses, Accounts!SetupBegin,
      Accounts!SetupStore, Accounts!LoginBegin, Accounts!LoginEnd, Accounts!Expire,
      Accounts!Step, Accounts!Beside, Accounts!accounts
<1> QED
  BY <1>1, <1>3, <1>4, <1>5

\* A lease becomes valid only for a login that has its row.
LEMMA SocketStep ==
    ASSUME AccountsInv,
           \/ \E s \in Accounts!Sockets, l \in Logins : Accounts!Open(s, l)
           \/ \E s \in Accounts!Sockets :
                 \/ Accounts!Receive(s) \/ Accounts!Output(s) \/ Accounts!Join(s)
                 \/ Accounts!Input(s) \/ Accounts!Forward(s) \/ Accounts!Sent(s)
                 \/ Accounts!Close(s) \/ Accounts!Gone(s)
    PROVE  AccountsInv'
<1> USE DEF AccountsInv
<1>1. UNCHANGED <<Accounts!accounts, rows, logout>>
  BY DEF Accounts!Open, Accounts!Receive, Accounts!Output, Accounts!Join, Accounts!Input,
         Accounts!Forward, Accounts!Sent, Accounts!Close, Accounts!Gone
<1>2. UNCHANGED <<setup, login, credential, rows, logout>>
  BY <1>1 DEF Accounts!accounts
<1>3. RowsAreFresh' /\ Accounts!OnePassword'
  BY <1>2 DEF RowsAreFresh, Accounts!OnePassword
<1>4. /\ socket' \in [Accounts!Sockets ->
                      [of : Logins \cup {None},
                       at : {"closed", "opening", "open", "asking", "sending"}]]
      /\ SocketsHaveLogins'
  BY DEF AccountsTypeOK, SocketsHaveLogins, Accounts!Open, Accounts!Receive, Accounts!Output,
         Accounts!Join, Accounts!Input, Accounts!Forward, Accounts!Sent, Accounts!Close,
         Accounts!Gone, Accounts!Goto, Accounts!Leave, Accounts!Closed, Accounts!At
<1>5. /\ lease' \in [Logins -> {"none", "valid", "revoked"}]
      /\ \A l \in Logins : lease'[l] = "valid" => lease[l] = "valid" \/ l \in rows
  <2>1. ASSUME NEW s \in Accounts!Sockets, Accounts!Join(s)
        PROVE  <1>5!1 /\ <1>5!2
    <3> DEFINE l == socket[s].of
    <3>1. /\ l \in Logins
          /\ \/ lease' = [lease EXCEPT ![l] = Accounts!Lease(l)] /\ l \in rows
             \/ lease' = Accounts!Kept(s, lease[l])
      BY <2>1 DEF AccountsTypeOK, SocketsHaveLogins, Accounts!Join, Accounts!Found, Accounts!Valid, Accounts!At
    <3> QED
      BY <3>1 DEF AccountsTypeOK, Accounts!Kept, Accounts!Lease
  <2>2. ASSUME NEW s \in Accounts!Sockets,
               Accounts!Input(s) \/ Accounts!Forward(s) \/ Accounts!Close(s) \/ Accounts!Gone(s)
        PROVE  <1>5!1 /\ <1>5!2
    BY <2>2 DEF AccountsTypeOK, SocketsHaveLogins, Accounts!Input, Accounts!Forward,
           Accounts!Close, Accounts!Gone, Accounts!Kept, Accounts!At
  <2>3. ASSUME \/ \E s \in Accounts!Sockets, l \in Logins : Accounts!Open(s, l)
               \/ \E s \in Accounts!Sockets :
                     Accounts!Receive(s) \/ Accounts!Output(s) \/ Accounts!Sent(s)
        PROVE  UNCHANGED lease
    BY <2>3 DEF Accounts!Open, Accounts!Receive, Accounts!Output, Accounts!Sent
  <2> QED
    BY <2>1, <2>2, <2>3 DEF AccountsTypeOK
<1>6. LogoutsRevoke'
  BY <1>2, <1>5 DEF LogoutsRevoke, RowsAreFresh
<1> QED
  BY <1>2, <1>3, <1>4, <1>5, <1>6 DEF AccountsTypeOK

\* A logout takes the row and then the lease.
LEMMA LogoutStep ==
    ASSUME AccountsInv, NEW l \in Logins,
           \/ Accounts!LogoutBegin(l) \/ Accounts!LogoutDelete(l)
           \/ Accounts!LogoutRevoke(l) \/ Accounts!LogoutDrop(l)
    PROVE  AccountsInv'
<1> USE DEF AccountsInv
<1>1. UNCHANGED <<socket, setup, login, credential>>
  BY DEF Accounts!LogoutBegin, Accounts!LogoutDelete, Accounts!LogoutRevoke,
         Accounts!LogoutDrop, Accounts!accounts
<1>2. SocketsHaveLogins' /\ Accounts!OnePassword'
  BY <1>1 DEF SocketsHaveLogins, Accounts!OnePassword
<1>3. AccountsTypeOK'
  BY <1>1 DEF AccountsTypeOK, Accounts!LogoutBegin, Accounts!LogoutDelete,
         Accounts!LogoutRevoke, Accounts!LogoutDrop
<1>4. RowsAreFresh'
  BY <1>1 DEF AccountsTypeOK, RowsAreFresh, Accounts!Valid, Accounts!LogoutBegin,
         Accounts!LogoutDelete, Accounts!LogoutRevoke, Accounts!LogoutDrop
<1>5. LogoutsRevoke'
  BY DEF AccountsTypeOK, LogoutsRevoke, Accounts!LogoutBegin, Accounts!LogoutDelete,
         Accounts!LogoutRevoke, Accounts!LogoutDrop
<1> QED
  BY <1>2, <1>3, <1>4, <1>5

LEMMA AccountsStep ==
    ASSUME AccountsInv, [Accounts!Next]_(Accounts!vars)
    PROVE  AccountsInv'
<1>1. ASSUME UNCHANGED <<credential, setup, login, rows, lease, socket, logout>>
      PROVE  AccountsInv'
  BY <1>1 DEF AccountsInv, AccountsTypeOK, SocketsHaveLogins, RowsAreFresh, LogoutsRevoke,
         Accounts!OnePassword
<1>2. CASE UNCHANGED Accounts!vars \/ Accounts!Grant
  BY <1>1, <1>2 DEF Accounts!vars, Accounts!accounts, Accounts!Grant
<1> QED
  BY <1>2, PasswordStep, SocketStep, LogoutStep DEF Accounts!Next

\* Every reachable state of the accounts satisfies the inductive invariant.
THEOREM AccountsInductive == Accounts!Spec => []AccountsInv
<1>1. AccountsInv /\ [Accounts!Next]_(Accounts!vars) => AccountsInv'
  BY AccountsStep
<1> QED
  BY <1>1, AccountsInit, PTL DEF Accounts!Spec

\* No input is accepted for a login whose logout was answered or whose time is
\* over, and one request sets the password.
THEOREM LoginsKept == Accounts!Spec => LoginsAreKept
<1>1. AccountsInv /\ [Accounts!Next]_(Accounts!vars) =>
        [\A s \in Terminals : Accounts!At(s, "asking") /\ socket'[s].at = "open" =>
            logout[socket[s].of] # "done" /\ socket[s].of \notin expired]_(Accounts!vars)
  <2> SUFFICES ASSUME AccountsInv, Accounts!Next, NEW s \in Terminals,
                      Accounts!At(s, "asking"), socket'[s].at = "open"
               PROVE  logout[socket[s].of] # "done" /\ socket[s].of \notin expired
    OBVIOUS
  <2>1. s \in Accounts!Sockets /\ socket[s].at = "asking" /\ socket' # socket
    BY DEF Accounts!Sockets, Accounts!At
  <2>2. socket[s].of \in Logins
    BY <2>1 DEF AccountsInv, SocketsHaveLogins
  <2>3. PICK t \in Accounts!Sockets : \/ Accounts!Receive(t) \/ Accounts!Output(t)
                                       \/ Accounts!Join(t) \/ Accounts!Input(t)
                                       \/ Accounts!Forward(t) \/ Accounts!Sent(t)
                                       \/ Accounts!Close(t) \/ Accounts!Gone(t)
                                       \/ \E l \in Logins : Accounts!Open(t, l)
    <3>1. ~(\/ Accounts!Grant \/ Accounts!WindowPasses
            \/ \E r \in Setups : Accounts!SetupBegin(r) \/ Accounts!SetupStore(r)
            \/ \E l \in Logins : Accounts!LoginBegin(l) \/ Accounts!LoginEnd(l) \/ Accounts!Expire(l)
            \/ \E l \in Logins : \/ Accounts!LogoutBegin(l) \/ Accounts!LogoutDelete(l)
                                  \/ Accounts!LogoutRevoke(l) \/ Accounts!LogoutDrop(l))
      BY <2>1 DEF Accounts!Grant, Accounts!WindowPasses, Accounts!SetupBegin,
         Accounts!SetupStore, Accounts!LoginBegin, Accounts!LoginEnd, Accounts!Expire,
         Accounts!LogoutBegin, Accounts!LogoutDelete, Accounts!LogoutRevoke,
         Accounts!LogoutDrop, Accounts!Beside
    <3> QED
      BY <3>1 DEF Accounts!Next
  <2> USE DEF AccountsInv, AccountsTypeOK
  <2>4. t = s
    BY <2>1, <2>3 DEF Accounts!Receive, Accounts!Output, Accounts!Join, Accounts!Input,
       Accounts!Forward, Accounts!Sent, Accounts!Close, Accounts!Gone, Accounts!Open,
       Accounts!Goto, Accounts!Leave
  <2>5. ~(\/ Accounts!Receive(s) \/ Accounts!Output(s) \/ Accounts!Join(s) \/ Accounts!Sent(s)
          \/ Accounts!Close(s) \/ Accounts!Gone(s) \/ \E l \in Logins : Accounts!Open(s, l)
          \/ Accounts!Forward(s))
    BY <2>1 DEF Accounts!Receive, Accounts!Output, Accounts!Join, Accounts!Forward,
       Accounts!Sent, Accounts!Close, Accounts!Gone, Accounts!Open, Accounts!Goto,
       Accounts!Leave, Accounts!Closed, Accounts!At
  <2>6. Accounts!Input(s)
    BY <2>3, <2>4, <2>5
  <2>7. lease[socket[s].of] = "valid" /\ socket[s].of \notin expired
    BY <2>1, <2>6 DEF Accounts!Input, Accounts!Leave, Accounts!Closed
  <2> QED
    BY <2>2, <2>7 DEF LogoutsRevoke
<1>2. AccountsInv => Accounts!OnePassword
  BY DEF AccountsInv
<1> QED
  BY <1>1, <1>2, AccountsInductive, PTL DEF LoginsAreKept, Accounts!Spec, Accounts!LoginsAreKept,
     Accounts!NoInputAfterLogout

-----------------------------------------------------------------------------
(* Installs.  A server that the unit did not start is an outsider; there is *)
(* at most one.  While it lives the unit is at rest, or its helper waits    *)
(* for the outsider, or the stop of a rollback was lost (Forsaken): then no *)
(* request of the outsider gets as far as to start anything.                *)

RunningStages ==
    {"seen", "publishing", "reload", "enable", "record", "start", "wait", "committed",
     "refresh", "refreshEnable",
     "undoStop", "undoEnable", "undoFiles", "undoReload", "undoRecord"}

UnitStates == {"inactive", "failed", "start-pre", "active", "stopping", "restart"}

Stages == Finished \cup RunningStages

Units ==
    [state : UnitStates, main : Servers \cup {None}, waits : Servers \cup {None, Unread},
     enabled : BOOLEAN, loaded : Contents]

Views == [state : UnitStates, main : Servers \cup {None}, enabled : BOOLEAN]

Installs ==
    [stage : Stages, host : Servers \cup {None}, want : Versions \cup {None},
     seen : Views \cup {None},
     before : [Pieces -> Contents] \cup {None},
     mutated : BOOLEAN, newlyEnabled : BOOLEAN, handoff : BOOLEAN, started : BOOLEAN,
     lossy : BOOLEAN]

Publications ==
    [at : {"none", "check", "release", "done", "failed"} \cup Pieces, want : Versions \cup {None}]

SupervisorTypeOK ==
    /\ files \in [Pieces -> Contents]
    /\ record \in Servers \cup {None}
    /\ unit \in Units
    /\ server \in [Servers -> {"off", "booting", "serving", "stopping"}]
    /\ restartPending \subseteq Servers
    /\ undone \in {"none", "stopped", "lost"}
    /\ failures \in Nat /\ userWrites \in Nat /\ failures + userWrites <= MaxFaults
    /\ install \in [Requests -> Installs]
    /\ publication \in [Requests -> Publications]

AtRest(u) == u.state \in {"inactive", "failed"}

Outsider(s) == Alive(s) /\ unit.main # s

\* The unit's main process lives, and a server that boots is it; it serves when
\* there is no outsider.
UnitMatchesServers ==
    /\ unit.state # "stopping"
    /\ unit.main # None <=> unit.state = "active"
    /\ unit.main # None => Alive(unit.main)
    /\ \A s \in Servers : server[s] = "booting" => unit.main = s
    /\ \A s, t \in Servers : Outsider(s) /\ Outsider(t) => s = t
    /\ unit.main # None /\ server[unit.main] # "booting" => \A s \in Servers : ~Outsider(s)
    /\ unit.main # None /\ server[unit.main] = "stopping" => unit.main \in restartPending

\* A request runs in a live server, which has one, and saw whether it is managed.
RequestsHaveHosts ==
    /\ \A r \in Requests : Running(r) =>
          /\ install[r].host \in Servers
          /\ server[install[r].host] \in {"serving", "stopping"}
          /\ install[r].seen \in Views
          /\ install[r].seen.main = install[r].host <=> unit.main = install[r].host
          /\ install[r].seen.main = install[r].host => install[r].seen.state = "active"
    /\ \A r, q \in Requests :
          Running(r) /\ Running(q) /\ install[r].host = install[q].host => r = q

\* The stop of a rollback was lost, and the helper does not wait for server s.
Forsaken(s) ==
    /\ ~AtRest(unit) /\ undone = "lost" /\ record # s
    /\ \A r \in Requests : Running(r) => install[r].stage = "seen" /\ ~AtRest(install[r].seen)

HelperWaits(s) ==
    /\ unit.state \in {"start-pre", "restart"} /\ record = s
    /\ unit.state = "start-pre" => unit.waits \in {Unread, s}

HandoffIsSafe ==
    \A s \in Servers : Outsider(s) =>
        /\ AtRest(unit) \/ HelperWaits(s) \/ Forsaken(s)
        /\ server[s] = "stopping" /\ record # s => undone # "none"

\* How far the request of an outsider got, and what the unit and the record are.
StopsFirst(r) ==
    LET i == install[r]
    IN  \/ i.started /\ ~ActiveState(i.seen)
        \/ /\ ~i.started /\ AtRest(unit)
           /\ i.handoff /\ server[i.host] = "stopping" => undone # "none"

RequestFollows(r) ==
    LET i == install[r]
    IN  /\ i.stage = "seen" =>
              /\ AtRest(i.seen) <=> AtRest(unit)
              /\ ActiveState(i.seen) => record # i.host
        /\ i.stage \in {"publishing", "reload", "enable", "record"} =>
              AtRest(unit) /\ record # i.host /\ ~i.started /\ ~ActiveState(i.seen)
        /\ i.stage \in {"publishing", "reload", "enable"} => ~i.handoff
        /\ i.stage \in {"start", "wait", "committed"} => record = i.host
        /\ i.stage \in {"start", "wait"} => i.started /\ ~ActiveState(i.seen)
        /\ i.stage \notin {"refresh", "refreshEnable"}
        /\ i.stage = "undoStop" => StopsFirst(r)
        /\ i.stage \in {"undoEnable", "undoFiles", "undoReload", "undoRecord"} =>
              /\ AtRest(unit) \/ undone = "lost"
              /\ i.handoff /\ server[i.host] = "stopping" => undone # "none"

RequestsFollow ==
    \A r \in Requests : Running(r) /\ unit.main # install[r].host => RequestFollows(r)

\* A publication has a request that waits for it, or one that was dropped.  A
\* request that has no effects yet has nothing to undo; one that has knows what
\* it found.
PublicationsAreOwned ==
    /\ \A r \in Requests : install[r].stage \notin {"publishing", "dropped"} => publication[r] = NoPublication
    /\ \A r \in Requests : publication[r] # NoPublication => publication[r].want \in Versions
    /\ \A r \in Requests : Running(r) =>
          /\ install[r].want \in Versions
          /\ IF install[r].stage = "seen"
             THEN ~install[r].handoff /\ ~install[r].started /\ ~install[r].lossy
             ELSE install[r].before \in [Pieces -> Contents]
    /\ \A r \in Requests : install[r].stage = "publishing" => install[r].mutated

NothingForeign ==
    userWrites = 0 => \A p \in Pieces :
        /\ files[p] # Foreign
        /\ \A r \in Requests : Running(r) /\ install[r].stage # "seen" => install[r].before[p] # Foreign

\* What a rollback that lost nothing has put back.
UndoneSoFar(r) ==
    LET i == install[r]
    IN  /\ i.newlyEnabled => ~i.seen.enabled
        /\ IF i.stage \in {"undoFiles", "undoReload", "undoRecord"}
           THEN unit.enabled = i.seen.enabled
           ELSE unit.enabled <=> i.seen.enabled \/ i.newlyEnabled
        /\ i.stage # "seen" =>
              /\ \A q \in Requests \ {r} : publication[q] = NoPublication
              /\ userWrites = 0 /\ (~i.mutated \/ i.stage \in {"undoReload", "undoRecord"})
                    => files = i.before
              /\ userWrites = 0 /\ i.stage = "undoRecord" /\ i.mutated => unit.loaded = files["unit"]

RollbacksRestore ==
    \A r \in Requests : Running(r) /\ ~install[r].lossy => UndoneSoFar(r)

SupervisorInv ==
    /\ SupervisorTypeOK
    /\ UnitMatchesServers
    /\ RequestsHaveHosts
    /\ HandoffIsSafe
    /\ RequestsFollow
    /\ PublicationsAreOwned
    /\ NothingForeign
    /\ RollbacksRestore

LEMMA SupervisorInitial == Init => SupervisorInv
<1> SUFFICES ASSUME Init
             PROVE  SupervisorInv
  OBVIOUS
<1> USE SupervisorAssumption
<1>1. PICK c \in Versions \cup {Missing} :
        /\ files = [p \in Pieces |-> c]
        /\ unit = [state |-> "inactive", main |-> None, waits |-> None, enabled |-> FALSE, loaded |-> c]
  BY DEF Init
<1>2. PICK s \in Servers : server = [t \in Servers |-> IF t = s THEN "serving" ELSE "off"]
  BY DEF Init
<1>3. /\ record = None /\ restartPending = {}
      /\ install = [r \in Requests |-> IdleInstall]
      /\ publication = [r \in Requests |-> NoPublication]
      /\ undone = "none" /\ failures = 0 /\ userWrites = 0
  BY DEF Init
<1>4. SupervisorTypeOK
  BY <1>1, <1>2, <1>3 DEF SupervisorTypeOK, Units, Installs, Stages, Publications, Contents, UnitStates, Finished, IdleInstall, NoPublication
<1>5. \A r \in Requests : ~Running(r)
  BY <1>3 DEF Running, Finished, IdleInstall
<1>6. UnitMatchesServers
  BY <1>1, <1>2 DEF UnitMatchesServers, Alive, Outsider
<1>7. RequestsHaveHosts /\ RequestsFollow /\ RollbacksRestore
  BY <1>5 DEF RequestsHaveHosts, RequestsFollow, RollbacksRestore
<1>8. HandoffIsSafe
  BY <1>1, <1>2 DEF HandoffIsSafe, AtRest
<1>9. PublicationsAreOwned /\ NothingForeign
  BY <1>1, <1>3, <1>5 DEF PublicationsAreOwned, NothingForeign, IdleInstall, Foreign, Missing
<1> QED
  BY <1>4, <1>6, <1>7, <1>8, <1>9 DEF SupervisorInv

-----------------------------------------------------------------------------
\* Only one server has requests, and its lock lets one of them run.
LEMMA OneRuns ==
    ASSUME UnitMatchesServers, RequestsHaveHosts,
           NEW r \in Requests, NEW q \in Requests, Running(r), Running(q)
    PROVE  r = q
<1>1. ASSUME NEW x \in Requests, NEW y \in Requests, Running(x), Running(y),
             unit.main = install[x].host
      PROVE  unit.main = install[y].host
  <2>1. unit.main # None /\ server[unit.main] # "booting"
    BY <1>1, SupervisorAssumption DEF RequestsHaveHosts
  <2>2. install[y].host \in Servers /\ Alive(install[y].host)
    BY <1>1 DEF RequestsHaveHosts, Alive
  <2> QED
    BY <2>1, <2>2 DEF UnitMatchesServers, Outsider
<1>2. install[r].host = install[q].host
  <2>1. CASE unit.main = install[r].host \/ unit.main = install[q].host
    BY <2>1, <1>1
  <2>2. CASE unit.main # install[r].host /\ unit.main # install[q].host
    <3>1. /\ install[r].host \in Servers /\ Outsider(install[r].host)
          /\ install[q].host \in Servers /\ Outsider(install[q].host)
      BY <2>2 DEF RequestsHaveHosts, Alive, Outsider
    <3> QED
      BY <3>1 DEF UnitMatchesServers
  <2> QED
    BY <2>1, <2>2
<1> QED
  BY <1>2 DEF RequestsHaveHosts

\* A step of request r that leaves the servers and what they are to the unit.
Frame(r) ==
    /\ UNCHANGED <<server, restartPending>>
    /\ unit'.state # "stopping" /\ (unit'.state = "active" <=> unit.state = "active")
    /\ unit'.main = unit.main
    /\ \A q \in Requests \ {r} : install'[q] = install[q]
    /\ install'[r].stage \notin Finished =>
           install'[r].host = install[r].host /\ install'[r].seen = install[r].seen

LEMMA RequestFrame ==
    ASSUME SupervisorInv, NEW r \in Requests, Running(r), Frame(r)
    PROVE  /\ UnitMatchesServers' /\ RequestsHaveHosts'
           /\ \A q \in Requests : Running(q)' => q = r
<1>1. UnitMatchesServers'
  BY DEF SupervisorInv, Frame, UnitMatchesServers, Alive, Outsider
<1>2. \A q \in Requests : Running(q)' => q = r
  BY OneRuns DEF SupervisorInv, Frame, Running
<1>3. RequestsHaveHosts'
  BY <1>2 DEF SupervisorInv, Frame, RequestsHaveHosts, Running
<1> QED
  BY <1>1, <1>2, <1>3

\* One that also leaves the record, the helper and the history of rollbacks.
LEMMA HandoffFrame ==
    ASSUME SupervisorInv, NEW r \in Requests, Running(r), Frame(r),
           UNCHANGED <<record, undone>>, unit'.state = unit.state, unit'.waits = unit.waits,
           install[r].stage = "seen" /\ Running(r)' =>
               \A s \in Servers : Outsider(s) => ~Forsaken(s)
    PROVE  HandoffIsSafe'
<1>1. \A q \in Requests : Running(q)' => q = r
  BY RequestFrame
<1>2. ASSUME NEW s \in Servers, Outsider(s)'
      PROVE  Outsider(s) /\ (AtRest(unit)' <=> AtRest(unit)) /\ (HelperWaits(s) => HelperWaits(s)')
             /\ (Forsaken(s) => Forsaken(s)')
  <2>1. Outsider(s) /\ (AtRest(unit)' <=> AtRest(unit)) /\ (HelperWaits(s) => HelperWaits(s)')
    BY <1>2 DEF Outsider, Alive, Frame, AtRest, HelperWaits
  <2>2. ASSUME Forsaken(s)
        PROVE  Forsaken(s)'
    <3>1. install[r].stage = "seen"
      BY <2>2 DEF Forsaken
    <3>2. ~Running(r)'
      BY <3>1, <2>1, <2>2
    <3> QED
      BY <1>1, <2>1, <2>2, <3>2 DEF Forsaken
  <2> QED
    BY <2>1, <2>2
<1> QED
  BY <1>2 DEF SupervisorInv, HandoffIsSafe, Frame

-----------------------------------------------------------------------------
LEMMA FailLemma ==
    ASSUME SupervisorTypeOK, Fail \/ Succeed, UNCHANGED userWrites
    PROVE  failures' \in Nat /\ userWrites' \in Nat /\ failures' + userWrites' <= MaxFaults
  BY SupervisorAssumption DEF SupervisorTypeOK, Fail, Succeed

\* What the steps make of a request: the stage, and some of the rest.
LEMMA InstallLemma ==
    ASSUME install \in [Requests -> Installs], NEW r \in Requests, NEW i \in Installs,
           install' = [install EXCEPT ![r] = i]
    PROVE  install' \in [Requests -> Installs] /\ install'[r] = i
           /\ \A q \in Requests \ {r} : install'[q] = install[q]
  OBVIOUS

LEMMA UnitLemma ==
    ASSUME unit \in Units
    PROVE  /\ \A e \in BOOLEAN : [unit EXCEPT !.enabled = e] \in Units
           /\ \A c \in Contents : [unit EXCEPT !.loaded = c] \in Units
           /\ \A u \in UnitStates : [unit EXCEPT !.state = u] \in Units
           /\ \A u \in UnitStates, w \in Servers \cup {None, Unread} :
                 [unit EXCEPT !.state = u, !.waits = w] \in Units
           /\ \A w \in Servers \cup {None, Unread} : [unit EXCEPT !.waits = w] \in Units
           /\ \A u \in UnitStates, w \in Servers \cup {None, Unread}, m \in Servers \cup {None} :
                 /\ [unit EXCEPT !.state = u, !.waits = w, !.main = m] \in Units
                 /\ [unit EXCEPT !.main = m, !.state = u] \in Units
  BY DEF Units

LEMMA StageLemma ==
    ASSUME install \in [Requests -> Installs], NEW r \in Requests, NEW stage \in Stages, Go(r, stage)
    PROVE  /\ install' = [install EXCEPT ![r] = [install[r] EXCEPT !.stage = stage]]
           /\ [install[r] EXCEPT !.stage = stage] \in Installs
  BY DEF Go, Installs

LEMMA ServersTypeStep ==
    ASSUME SupervisorTypeOK,
           \/ HelperRead \/ HelperDone \/ HelperFails \/ UnitRestarts
           \/ \E s \in Servers : Boot(s) \/ Exit(s) \/ Crash(s)
           \/ \E p \in Pieces : UserWrites(p)
    PROVE  SupervisorTypeOK'
<1> USE DEF SupervisorTypeOK
<1>1. CASE HelperRead \/ HelperFails \/ UnitRestarts
  <2>1. CASE HelperRead
    BY <2>1, UnitLemma DEF HelperRead
  <2>2. CASE HelperFails
    BY <2>2, UnitLemma DEF HelperFails, UnitStates
  <2>3. CASE UnitRestarts
    BY <2>3, UnitLemma DEF UnitRestarts, UnitStates
  <2> QED
    BY <1>1, <2>1, <2>2, <2>3
<1>2. CASE HelperDone
  <2>1. PICK t \in Servers :
          /\ unit' = [unit EXCEPT !.state = "active", !.waits = None, !.main = t]
          /\ server' = [server EXCEPT ![t] = "booting"]
    BY <1>2 DEF HelperDone
  <2> QED
    BY <1>2, <2>1, UnitLemma DEF HelperDone, UnitStates
<1>3. ASSUME NEW s \in Servers, Ended(s)
      PROVE  /\ unit' \in Units /\ restartPending' \subseteq Servers
             /\ install' \in [Requests -> Installs] /\ publication' \in [Requests -> Publications]
  <2>1. unit' \in Units
    BY <1>3, UnitLemma DEF Ended, UnitStates
  <2>2. \A r \in Requests : [IdleInstall EXCEPT !.stage = "dropped"] \in Installs
    BY DEF IdleInstall, Installs, Stages, Finished
  <2>3. NoPublication \in Publications
    BY DEF NoPublication, Publications
  <2> QED
    BY <1>3, <2>1, <2>2, <2>3 DEF Ended
<1>4. CASE \E s \in Servers : Boot(s) \/ Exit(s) \/ Crash(s)
  <2>1. PICK s \in Servers : Boot(s) \/ Exit(s) \/ Crash(s)
    BY <1>4
  <2>2. failures' \in Nat /\ userWrites' \in Nat /\ failures' + userWrites' <= MaxFaults
    BY <2>1, FailLemma DEF Boot, Exit, Crash, Succeed
  <2>3. CASE Ended(s)
    BY <2>1, <2>2, <2>3, <1>3 DEF Boot, Exit, Crash
  <2>4. CASE ~Ended(s)
    BY <2>1, <2>2, <2>4 DEF Boot, Exit, Crash
  <2> QED
    BY <2>3, <2>4
<1>5. CASE \E p \in Pieces : UserWrites(p)
  BY <1>5, SupervisorAssumption DEF UserWrites, Contents
<1> QED
  BY <1>1, <1>2, <1>4, <1>5

\* The changes that the steps of a request make of its record.
LEMMA ChangesLemma ==
    ASSUME NEW i \in Installs, NEW stage \in Stages
    PROVE  /\ [i EXCEPT !.stage = stage] \in Installs
           /\ [i EXCEPT !.stage = stage, !.lossy = TRUE] \in Installs
           /\ \A b \in BOOLEAN : [i EXCEPT !.stage = stage, !.newlyEnabled = b] \in Installs
           /\ \A b, c \in BOOLEAN : [i EXCEPT !.stage = stage, !.newlyEnabled = b, !.lossy = c] \in Installs
           /\ [i EXCEPT !.stage = stage, !.handoff = TRUE] \in Installs
           /\ [i EXCEPT !.stage = stage, !.handoff = TRUE, !.started = TRUE] \in Installs
           /\ \A b \in [Pieces -> Contents], c \in BOOLEAN :
                 [i EXCEPT !.stage = stage, !.before = b, !.lossy = c] \in Installs
           /\ [i EXCEPT !.mutated = TRUE] \in Installs
           /\ \A b \in BOOLEAN : [i EXCEPT !.handoff = TRUE, !.started = b] \in Installs
           /\ \A h \in Servers \cup {None} : [IdleInstall EXCEPT !.stage = stage, !.host = h] \in Installs
  BY DEF Installs, IdleInstall

LEMMA InstallTypeStep ==
    ASSUME SupervisorTypeOK, NEW r \in Requests, Running(r) => install[r].host \in Servers,
           publication[r] # NoPublication => publication[r].want \in Versions,
           \/ \E s \in Servers, v \in Versions : Begin(r, s, v)
           \/ \E overwrite \in BOOLEAN : Decide(r, overwrite)
           \/ PublicationCheck(r) \/ PublicationStep(r) \/ Published(r) \/ OrphanEnds(r)
           \/ Reload(r) \/ Enable(r) \/ WriteRecord(r) \/ Start(r) \/ AwaitHandoff(r)
           \/ Answer(r) \/ Drop(r)
    PROVE  SupervisorTypeOK'
<1> USE DEF SupervisorTypeOK
<1>0. /\ install[r] \in Installs /\ install[r].want \in Versions \cup {None}
      /\ install[r].host \in Servers \cup {None} /\ install[r].lossy \in BOOLEAN
      /\ publication[r] \in Publications /\ publication[r].want \in Versions \cup {None}
      /\ NoPublication \in Publications /\ unit.state \in UnitStates
      /\ Seen \in Views
  BY DEF Installs, Publications, NoPublication, Seen, Units, Views
<1>a. \A at \in {"none", "check", "release", "done", "failed"} \cup Pieces :
         [publication[r] EXCEPT !.at = at] \in Publications
  BY <1>0 DEF Publications
<1>1. ASSUME NEW s \in Servers, NEW v \in Versions, Begin(r, s, v)
      PROVE  SupervisorTypeOK'
  <2>1. PICK stage \in {"refused", "seen"} :
           install' = [install EXCEPT ![r] =
              [IdleInstall EXCEPT !.stage = stage, !.host = s, !.want = v, !.seen = Seen]]
    BY <1>1 DEF Begin
  <2>2. [IdleInstall EXCEPT !.stage = stage, !.host = s, !.want = v, !.seen = Seen] \in Installs
    BY <1>0 DEF IdleInstall, Installs, Stages, Finished, RunningStages
  <2> QED
    BY <1>1, <2>1, <2>2 DEF Begin
<1>2. ASSUME NEW overwrite \in BOOLEAN, Decide(r, overwrite)
      PROVE  SupervisorTypeOK'
  <2>1. UNCHANGED <<files, record, unit, server, restartPending, undone, failures, userWrites>>
    BY <1>2 DEF Decide
  <2>2. \/ Refuse(r)
        \/ \E i \in Installs, stage \in RunningStages :
              /\ Captured(r, i, stage)
              /\ \/ UNCHANGED publication
                 \/ publication' = [publication EXCEPT ![r] = [at |-> "check", want |-> install[r].want]]
    <3>1. /\ [install[r] EXCEPT !.mutated = TRUE] \in Installs
          /\ [install[r] EXCEPT !.handoff = TRUE, !.started = ~ActiveState(install[r].seen)] \in Installs
      BY <1>0, ChangesLemma DEF Stages, Finished
    <3> QED
      BY <1>0, <1>2, <3>1 DEF Decide, RunningStages
  <2>3. install' \in [Requests -> Installs]
    <3>1. CASE Refuse(r)
      BY <3>1, <1>0, ChangesLemma DEF Refuse, Stages, Finished
    <3>2. ASSUME NEW i \in Installs, NEW stage \in RunningStages, Captured(r, i, stage)
          PROVE  install' \in [Requests -> Installs]
      BY <3>2, ChangesLemma DEF Captured, Stages
    <3> QED
      BY <2>2, <3>1, <3>2
  <2>4. publication' \in [Requests -> Publications]
    BY <1>0, <2>2 DEF Refuse, Publications
  <2> QED
    BY <2>1, <2>3, <2>4
<1>3. CASE PublicationCheck(r)
  BY <1>3, <1>a DEF PublicationCheck
<1>4. CASE PublicationStep(r)
  <2>1. failures' \in Nat /\ userWrites' \in Nat /\ failures' + userWrites' <= MaxFaults
    BY <1>4, FailLemma DEF PublicationStep
  <2>2. PICK at \in {"done", "failed"} \cup Pieces : publication' = [publication EXCEPT ![r].at = at]
    BY <1>4 DEF PublicationStep, NextPiece, Pieces
  <2>3. publication' \in [Requests -> Publications]
    BY <2>2, <1>a
  <2>4. files' \in [Pieces -> Contents]
    <3>1. publication[r] # NoPublication
      BY <1>4 DEF PublicationStep, NoPublication, Pieces
    <3> QED
      BY <1>4, <3>1 DEF PublicationStep, Contents
  <2> QED
    BY <2>1, <2>3, <2>4, <1>4 DEF PublicationStep
<1>5. CASE Published(r) \/ OrphanEnds(r)
  <2>1. install' \in [Requests -> Installs]
    BY <1>0, <1>5, StageLemma DEF Published, OrphanEnds, Stages, RunningStages
  <2> QED
    BY <1>0, <1>5, <2>1 DEF Published, OrphanEnds
<1>6. CASE Reload(r)
  <2>1. install' \in [Requests -> Installs]
    BY <1>0, <1>6, StageLemma DEF Reload, Stages, RunningStages
  <2>2. unit' \in Units
    BY <1>6, UnitLemma DEF Reload, Pieces
  <2> QED
    BY <1>6, <2>1, <2>2, FailLemma DEF Reload
<1>7. CASE Enable(r)
  <2>1. unit' \in Units
    BY <1>7, UnitLemma DEF Enable
  <2>2. PICK i \in Installs : install' = [install EXCEPT ![r] = i]
    <3>1. AfterEnable(r) \in Stages /\ "undoStop" \in Stages
      BY DEF AfterEnable, Stages, Finished, RunningStages
    <3>3. PICK b \in BOOLEAN, c \in BOOLEAN :
            \/ install' = [install EXCEPT ![r] =
                  [install[r] EXCEPT !.stage = AfterEnable(r), !.newlyEnabled = b]]
            \/ install' = [install EXCEPT ![r] =
                  [install[r] EXCEPT !.stage = "undoStop", !.newlyEnabled = b, !.lossy = c]]
      BY <1>0, <1>7 DEF Enable
    <3>4. /\ [install[r] EXCEPT !.stage = AfterEnable(r), !.newlyEnabled = b] \in Installs
          /\ [install[r] EXCEPT !.stage = "undoStop", !.newlyEnabled = b, !.lossy = c] \in Installs
      BY <1>0, <3>1, ChangesLemma
    <3> QED
      BY <3>3, <3>4
  <2> QED
    BY <1>7, <2>1, <2>2, FailLemma, InstallLemma DEF Enable
<1>8. CASE WriteRecord(r)
  <2>1. install' \in [Requests -> Installs]
    <3>1. \/ install' = [install EXCEPT ![r] =
                [install[r] EXCEPT !.stage = "start", !.handoff = TRUE, !.started = TRUE]]
          \/ install' = [install EXCEPT ![r] =
                [install[r] EXCEPT !.stage = "undoStop", !.handoff = TRUE]]
      BY <1>8 DEF WriteRecord
    <3>2. {"start", "undoStop"} \subseteq Stages
      BY DEF Stages, RunningStages
    <3>3. /\ [install[r] EXCEPT !.stage = "start", !.handoff = TRUE, !.started = TRUE] \in Installs
          /\ [install[r] EXCEPT !.stage = "undoStop", !.handoff = TRUE] \in Installs
      BY <1>0, <3>2, ChangesLemma
    <3> QED
      BY <3>1, <3>3
  <2> QED
    BY <1>0, <1>8, <2>1, FailLemma DEF WriteRecord
<1>9. CASE Start(r)
  <2>1. install' \in [Requests -> Installs]
    BY <1>0, <1>9, StageLemma DEF Start, Stages, RunningStages
  <2>2. unit' \in Units
    BY <1>9, UnitLemma DEF Start, StartEffect, UnitStates
  <2> QED
    BY <1>9, <2>1, <2>2, FailLemma DEF Start
<1>10. CASE AwaitHandoff(r)
  <2>1. install' \in [Requests -> Installs]
    BY <1>0, <1>10, StageLemma DEF AwaitHandoff, Stages, RunningStages
  <2> QED
    BY <1>10, <2>1, FailLemma DEF AwaitHandoff
<1>11. CASE Answer(r)
  <2>1. install' \in [Requests -> Installs]
    BY <1>0, <1>11, StageLemma DEF Answer, Stages, Finished
  <2>2. install[r].host \in Servers
    BY <1>11 DEF Answer, Running, Finished
  <2> QED
    BY <1>11, <2>1, <2>2 DEF Answer
<1>12. CASE Drop(r)
  <2>1. install' \in [Requests -> Installs]
    BY <1>0, <1>12, ChangesLemma DEF Drop, Stages, Finished
  <2> QED
    BY <1>12, <2>1 DEF Drop
<1> QED
  BY <1>1, <1>2, <1>3, <1>4, <1>5, <1>6, <1>7, <1>8, <1>9, <1>10, <1>11, <1>12

LEMMA UndoTypeStep ==
    ASSUME SupervisorTypeOK, NEW r \in Requests,
           install[r].stage = "undoFiles" => install[r].before \in [Pieces -> Contents],
           UndoStop(r) \/ UndoEnable(r) \/ UndoFiles(r) \/ UndoReload(r) \/ UndoRecord(r)
    PROVE  SupervisorTypeOK'
<1> USE DEF SupervisorTypeOK
<1>0. install[r] \in Installs /\ install[r].before \in [Pieces -> Contents] \cup {None}
  BY DEF Installs
<1>1. \A stage \in {"undoEnable", "undoFiles", "undoReload", "undoRecord", "failed"} :
        Go(r, stage) \/ Lossy(r, stage) => install' \in [Requests -> Installs]
  <2> SUFFICES ASSUME NEW stage \in {"undoEnable", "undoFiles", "undoReload", "undoRecord", "failed"},
                      Go(r, stage) \/ Lossy(r, stage)
               PROVE  install' \in [Requests -> Installs]
    OBVIOUS
  <2>1. stage \in Stages
    BY DEF Stages, RunningStages, Finished
  <2>2. CASE Go(r, stage)
    BY <2>1, <2>2, StageLemma
  <2>3. CASE Lossy(r, stage)
    <3>1. install' = [install EXCEPT ![r] = [install[r] EXCEPT !.stage = stage, !.lossy = TRUE]]
      BY <2>3 DEF Lossy
    <3> QED
      BY <1>0, <2>1, <3>1, ChangesLemma
  <2> QED
    BY <2>2, <2>3
<1>2. CASE UndoStop(r)
  <2>1. install' \in [Requests -> Installs] /\ undone' \in {"none", "stopped", "lost"}
    BY <1>1, <1>2 DEF UndoStop
  <2>2. UNCHANGED <<unit, server>> \/ StopEffect
    BY <1>2 DEF UndoStop
  <2>3. unit' \in Units /\ server' \in [Servers -> {"off", "booting", "serving", "stopping"}]
    BY <2>2, UnitLemma DEF StopEffect, UnitStates
  <2> QED
    BY <1>2, <2>1, <2>3, FailLemma DEF UndoStop
<1>3. CASE UndoEnable(r)
  <2>1. install' \in [Requests -> Installs] /\ unit' \in Units
    BY <1>1, <1>3, UnitLemma DEF UndoEnable
  <2> QED
    BY <1>3, <2>1, FailLemma DEF UndoEnable
<1>4. CASE UndoFiles(r)
  <2>1. install[r].mutated => Restored(install[r]) \in [Pieces -> Contents]
    BY <1>0, <1>4 DEF UndoFiles, Restored
  <2>2. install' \in [Requests -> Installs] /\ files' \in [Pieces -> Contents]
    BY <1>1, <1>4, <2>1 DEF UndoFiles
  <2> QED
    BY <1>4, <2>2, FailLemma DEF UndoFiles
<1>5. CASE UndoReload(r)
  <2>1. install' \in [Requests -> Installs] /\ unit' \in Units
    BY <1>1, <1>5, UnitLemma DEF UndoReload, Pieces
  <2> QED
    BY <1>5, <2>1, FailLemma DEF UndoReload
<1>6. CASE UndoRecord(r)
  BY <1>1, <1>6 DEF UndoRecord
<1> QED
  BY <1>2, <1>3, <1>4, <1>5, <1>6

-----------------------------------------------------------------------------
(* systemd, the servers and the user *)

\* The helper comes one step further and no server starts.
LEMMA UnitFrame ==
    ASSUME SupervisorInv, HelperRead \/ HelperFails \/ UnitRestarts
    PROVE  SupervisorInv'
<1> USE DEF SupervisorInv
<1>1. SupervisorTypeOK'
  BY ServersTypeStep
<1>2. UNCHANGED <<files, record, server, restartPending, install, publication, undone, userWrites>>
  BY DEF HelperRead, HelperFails, UnitRestarts
<1>3. /\ unit.state \in {"start-pre", "restart"} /\ unit'.state \in {"start-pre", "restart"}
      /\ unit'.main = unit.main /\ unit'.enabled = unit.enabled /\ unit'.loaded = unit.loaded
      /\ unit'.state = "start-pre" => unit'.waits \in {Unread, record}
  BY DEF HelperRead, HelperFails, UnitRestarts, SupervisorTypeOK, Units
<1>4. UnitMatchesServers'
  BY <1>2, <1>3 DEF UnitMatchesServers, Outsider, Alive
<1>5. RequestsHaveHosts' /\ PublicationsAreOwned' /\ NothingForeign'
  BY <1>2, <1>3 DEF RequestsHaveHosts, PublicationsAreOwned, NothingForeign, Running
<1>6. HandoffIsSafe'
  BY <1>2, <1>3 DEF HandoffIsSafe, Outsider, Alive, AtRest, HelperWaits, Forsaken, Running
<1>7. RequestsFollow'
  BY <1>2, <1>3 DEF RequestsFollow, RequestFollows, Running, AtRest, ActiveState, StopsFirst
<1>8. RollbacksRestore'
  BY <1>2, <1>3 DEF RollbacksRestore, UndoneSoFar, Running
<1> QED
  BY <1>1, <1>4, <1>5, <1>6, <1>7, <1>8

\* The helper starts a server when the one it waits for is gone: if another one
\* lives, it is forsaken.
LEMMA HelperDoneStep ==
    ASSUME SupervisorInv, HelperDone
    PROVE  SupervisorInv'
<1> USE SupervisorAssumption DEF SupervisorInv
<1>1. SupervisorTypeOK'
  BY ServersTypeStep
<1>2. PICK t \in Servers :
        /\ ~Alive(t)
        /\ unit' = [unit EXCEPT !.state = "active", !.waits = None, !.main = t]
        /\ server' = [server EXCEPT ![t] = "booting"]
  BY DEF HelperDone
<1>3. /\ unit'.state = "active" /\ unit'.main = t
      /\ unit'.enabled = unit.enabled /\ unit'.loaded = unit.loaded
      /\ server'[t] = "booting" /\ \A s \in Servers \ {t} : server'[s] = server[s]
  BY <1>2 DEF SupervisorTypeOK, Units
<1>4. /\ record' = None
      /\ UNCHANGED <<files, restartPending, install, publication, undone, userWrites>>
      /\ unit.state = "start-pre" /\ unit.main = None
  BY DEF HelperDone, UnitMatchesServers
<1>5. ASSUME NEW s \in Servers, Alive(s)
      PROVE  Outsider(s) /\ s # t /\ Forsaken(s)
  <2>1. Outsider(s) /\ s # t
    BY <1>2, <1>4, <1>5 DEF Outsider
  <2>2. ~AtRest(unit)
    BY <1>4 DEF AtRest
  <2>3. ~HelperWaits(s)
    BY <1>4, <1>5 DEF HelperDone, HelperWaits
  <2> QED
    BY <2>1, <2>2, <2>3 DEF HandoffIsSafe
<1>6. \A s \in Servers : Outsider(s)' => Alive(s) /\ s # t
  BY <1>3 DEF Outsider, Alive
<1>7. UnitMatchesServers'
  <2>1. \A s \in Servers : server[s] # "booting"
    BY <1>4 DEF UnitMatchesServers
  <2> QED
    BY <2>1, <1>3, <1>5, <1>6 DEF UnitMatchesServers, Alive
<1>8. ASSUME NEW r \in Requests, Running(r)
      PROVE  /\ install[r].host \in Servers /\ Alive(install[r].host)
             /\ install[r].host # t /\ install[r].seen.main # install[r].host
             /\ install[r].stage = "seen" /\ ~AtRest(install[r].seen)
  <2>1. install[r].host \in Servers /\ Alive(install[r].host)
    BY <1>8 DEF RequestsHaveHosts, Alive
  <2> QED
    BY <1>4, <1>5, <1>8, <2>1 DEF RequestsHaveHosts, Forsaken
<1>9. RequestsHaveHosts'
  BY <1>3, <1>4, <1>8 DEF RequestsHaveHosts, Running
<1>10. HandoffIsSafe'
  <2> SUFFICES ASSUME NEW s \in Servers, Outsider(s)'
               PROVE  Forsaken(s)' /\ undone' # "none"
    BY DEF HandoffIsSafe
  <2>1. Forsaken(s)
    BY <1>5, <1>6
  <2> QED
    BY <1>3, <1>4, <2>1 DEF Forsaken, AtRest, Running
<1>11. RequestsFollow'
  BY <1>3, <1>4, <1>8 DEF RequestsFollow, RequestFollows, AtRest, Running
<1>12. PublicationsAreOwned' /\ NothingForeign' /\ RollbacksRestore'
  BY <1>3, <1>4 DEF PublicationsAreOwned, NothingForeign, RollbacksRestore, UndoneSoFar, Running
<1> QED
  BY <1>1, <1>7, <1>9, <1>10, <1>11, <1>12

\* What the end of a server leaves of the requests.
LEMMA EndedLemma ==
    ASSUME SupervisorInv, NEW s \in Servers, Ended(s), UNCHANGED <<files, userWrites>>
    PROVE  /\ \A r \in Requests : Running(r)' =>
                 Running(r) /\ install'[r] = install[r] /\ install[r].host # s
           /\ IF unit.main = s
              THEN unit'.main = None /\ unit'.state = "restart"
                   /\ unit'.enabled = unit.enabled /\ unit'.loaded = unit.loaded
              ELSE unit' = unit
           /\ restartPending' = restartPending \ {s}
           /\ PublicationsAreOwned' /\ NothingForeign' /\ RollbacksRestore'
<1> USE DEF SupervisorInv
<1>1. \A r \in Requests :
        /\ Running(r)' => Running(r) /\ install'[r] = install[r] /\ install[r].host # s
        /\ install'[r] = install[r] \/ install'[r].stage = "dropped"
        /\ publication'[r] \in {publication[r], NoPublication}
  BY DEF Ended, Running, Finished, SupervisorTypeOK, IdleInstall
<1>2. IF unit.main = s
      THEN unit'.main = None /\ unit'.state = "restart"
           /\ unit'.enabled = unit.enabled /\ unit'.loaded = unit.loaded
      ELSE unit' = unit
  <2>1. CASE unit.main = s
    <3>1. unit.state # "stopping"
      BY DEF UnitMatchesServers
    <3>2. unit' = [unit EXCEPT !.main = None, !.state = "restart"]
      BY <2>1, <3>1 DEF Ended, SupervisorTypeOK, Units
    <3> QED
      BY <2>1, <3>2 DEF SupervisorTypeOK, Units
  <2>2. CASE unit.main # s
    BY <2>2 DEF Ended
  <2> QED
    BY <2>1, <2>2
<1>3. PublicationsAreOwned' /\ NothingForeign'
  BY <1>1 DEF PublicationsAreOwned, NothingForeign, Running
<1>4. RollbacksRestore'
  BY <1>1, <1>2 DEF RollbacksRestore, UndoneSoFar
<1> QED
  BY <1>1, <1>2, <1>3, <1>4 DEF Ended

\* A server that ends was the unit's, and what is left is forsaken, or was not,
\* and no other one is left.
LEMMA ServerEnds ==
    ASSUME SupervisorInv, SupervisorTypeOK', NEW s \in Servers, Alive(s), Ended(s),
           server' = [server EXCEPT ![s] = "off"],
           UNCHANGED <<files, record, undone, userWrites>>
    PROVE  SupervisorInv'
<1> USE SupervisorAssumption DEF SupervisorInv
<1>1. server'[s] = "off" /\ \A t \in Servers \ {s} : server'[t] = server[t]
  BY DEF SupervisorTypeOK
<1>2. /\ \A r \in Requests : Running(r)' =>
            Running(r) /\ install'[r] = install[r] /\ install[r].host # s
      /\ IF unit.main = s THEN unit'.main = None /\ unit'.state = "restart" ELSE unit' = unit
      /\ restartPending' = restartPending \ {s}
      /\ PublicationsAreOwned' /\ NothingForeign' /\ RollbacksRestore'
  BY EndedLemma
<1>3. ASSUME NEW t \in Servers, Outsider(t)'
      PROVE  Outsider(t) /\ t # s /\ unit.main = s /\ Forsaken(t) /\ Forsaken(t)'
  <2>1. Outsider(t) /\ t # s
    BY <1>1, <1>2, <1>3 DEF Outsider, Alive
  <2>2. unit.main = s
    BY <2>1, <1>2 DEF UnitMatchesServers, Outsider
  <2>3. Forsaken(t)
    BY <2>1, <2>2 DEF UnitMatchesServers, HandoffIsSafe, AtRest, HelperWaits
  <2>4. Forsaken(t)'
    BY <1>2, <2>2, <2>3 DEF Forsaken, AtRest
  <2> QED
    BY <2>1, <2>2, <2>3, <2>4
<1>4. UnitMatchesServers'
  <2>1. \A t, u \in Servers : Outsider(t)' /\ Outsider(u)' => t = u
    BY <1>3 DEF UnitMatchesServers
  <2>2. \A t \in Servers : server'[t] = "booting" => unit'.main = t
    BY <1>1, <1>2 DEF UnitMatchesServers
  <2>3. unit'.main # None => unit' = unit /\ unit.main # s /\ unit.main \in Servers
    BY <1>2 DEF SupervisorTypeOK, Units
  <2>4. unit'.main # None /\ server'[unit'.main] # "booting" => \A t \in Servers : ~Outsider(t)'
    BY <1>3, <2>3
  <2> QED
    BY <1>1, <1>2, <2>1, <2>2, <2>3, <2>4 DEF UnitMatchesServers, Alive
<1>5. RequestsHaveHosts'
  BY <1>1, <1>2 DEF RequestsHaveHosts
<1>6. HandoffIsSafe'
  <2>1. ASSUME NEW t \in Servers, Outsider(t)'
        PROVE  Forsaken(t)' /\ undone' = "lost"
    BY <2>1, <1>3 DEF Forsaken
  <2> QED
    BY <2>1 DEF HandoffIsSafe
<1>7. RequestsFollow'
  <2> SUFFICES ASSUME NEW r \in Requests, Running(r)', unit'.main # install'[r].host
               PROVE  RequestFollows(r)'
    BY DEF RequestsFollow
  <2>1. install'[r] = install[r] /\ install[r].host \in Servers /\ Outsider(install[r].host)'
    BY <1>2, <1>5 DEF RequestsHaveHosts, Outsider, Alive
  <2>2. Forsaken(install[r].host) /\ unit.main = s /\ Running(r) /\ unit.main # install[r].host
    BY <1>2, <1>3, <2>1 DEF Outsider
  <2>3. install[r].stage = "seen" /\ ~AtRest(install[r].seen) /\ RequestFollows(r)
    BY <2>2 DEF Forsaken, RequestsFollow
  <2> QED
    BY <1>2, <2>1, <2>2, <2>3 DEF RequestFollows, AtRest
<1> QED
  BY <1>2, <1>4, <1>5, <1>6, <1>7

LEMMA ServerStep ==
    ASSUME SupervisorInv, NEW s \in Servers, Boot(s) \/ Exit(s) \/ Crash(s)
    PROVE  SupervisorInv'
<1> USE SupervisorAssumption DEF SupervisorInv
<1>1. SupervisorTypeOK'
  BY ServersTypeStep
<1>2. CASE Ended(s) /\ server' = [server EXCEPT ![s] = "off"]
  BY <1>1, <1>2, ServerEnds DEF Boot, Exit, Crash, Alive
<1>3. CASE ~(Ended(s) /\ server' = [server EXCEPT ![s] = "off"])
  <2>1. /\ server[s] = "booting"
        /\ \A t \in Servers \ {s} : server[t] \notin {"serving", "stopping"}
        /\ server' = [server EXCEPT ![s] = "serving"]
        /\ UNCHANGED <<unit, restartPending, install, publication, files, record, undone, userWrites>>
    BY <1>3 DEF Boot, Exit, Crash
  <2>2. unit.main = s /\ \A t \in Servers \ {s} : ~Alive(t) /\ ~Alive(t)'
    BY <2>1 DEF UnitMatchesServers, SupervisorTypeOK, Alive
  <2>3. \A t \in Servers : ~Outsider(t)'
    BY <2>1, <2>2 DEF Outsider
  <2>4. \A r \in Requests : ~Running(r)'
    BY <2>1 DEF Running, RequestsHaveHosts
  <2>5. server'[s] = "serving"
    BY <2>1 DEF SupervisorTypeOK
  <2>6. UnitMatchesServers'
    BY <2>1, <2>2, <2>3, <2>5 DEF UnitMatchesServers, Alive
  <2>7. RequestsHaveHosts' /\ RequestsFollow' /\ RollbacksRestore'
    BY <2>4 DEF RequestsHaveHosts, RequestsFollow, RollbacksRestore
  <2>8. HandoffIsSafe'
    BY <2>3 DEF HandoffIsSafe
  <2>9. PublicationsAreOwned' /\ NothingForeign'
    BY <2>1 DEF PublicationsAreOwned, NothingForeign, Running
  <2> QED
    BY <1>1, <2>6, <2>7, <2>8, <2>9
<1> QED
  BY <1>2, <1>3

LEMMA UserWritesStep ==
    ASSUME SupervisorInv, NEW p \in Pieces, UserWrites(p)
    PROVE  SupervisorInv'
<1> USE DEF SupervisorInv
<1>1. SupervisorTypeOK'
  BY ServersTypeStep
<1>2. /\ UNCHANGED <<record, unit, server, restartPending, install, publication, undone, failures>>
      /\ userWrites' # 0
  BY DEF UserWrites, SupervisorTypeOK
<1>3. UnitMatchesServers' /\ RequestsHaveHosts' /\ PublicationsAreOwned'
  BY <1>2 DEF UnitMatchesServers, RequestsHaveHosts, PublicationsAreOwned, Outsider, Alive, Running
<1>4. HandoffIsSafe'
  BY <1>2 DEF HandoffIsSafe, Outsider, Alive, HelperWaits, Forsaken, Running
<1>5. RequestsFollow'
  BY <1>2 DEF RequestsFollow, RequestFollows, StopsFirst, Running
<1>6. NothingForeign' /\ RollbacksRestore'
  BY <1>2 DEF NothingForeign, RollbacksRestore, UndoneSoFar, Running
<1> QED
  BY <1>1, <1>3, <1>4, <1>5, <1>6

-----------------------------------------------------------------------------
(* A request, up to its first effect *)

LEMMA BeginStep ==
    ASSUME SupervisorInv, NEW r \in Requests, NEW s \in Servers, NEW v \in Versions, Begin(r, s, v)
    PROVE  SupervisorInv'
<1> USE SupervisorAssumption DEF SupervisorInv
<1>1. SupervisorTypeOK'
  <2>1. ~Running(r) /\ publication[r] = NoPublication
    BY DEF Begin, Running, Finished, PublicationsAreOwned
  <2> QED
    BY <2>1, InstallTypeStep
<1>2. UNCHANGED <<files, record, unit, server, restartPending, publication, undone, failures, userWrites>>
  BY DEF Begin
<1>3. /\ \A q \in Requests \ {r} : install'[q] = install[q]
      /\ install'[r].stage \in {"refused", "seen"} /\ install'[r].host = s /\ install'[r].want = v
      /\ install'[r].seen = Seen /\ ~install'[r].handoff /\ ~install'[r].started
      /\ ~install'[r].lossy /\ ~install'[r].newlyEnabled
  BY DEF Begin, SupervisorTypeOK, IdleInstall
<1>4. Seen \in Views /\ Seen.state = unit.state /\ Seen.main = unit.main /\ Seen.enabled = unit.enabled
  BY DEF Seen, SupervisorTypeOK, Units, Views
<1>5. server[s] \in {"serving", "stopping"} /\ ~Running(r)
  BY DEF Begin, Running, Finished
<1>6. \A q \in Requests : ~Running(q)
  <2> SUFFICES ASSUME NEW q \in Requests, Running(q)
               PROVE  FALSE
    OBVIOUS
  <2>1. install[q].host \in Servers \ {s} /\ server[install[q].host] \in {"serving", "stopping"}
    BY DEF Begin, RequestsHaveHosts
  <2>2. CASE unit.main \in {s, install[q].host}
    BY <1>5, <2>1, <2>2 DEF UnitMatchesServers, Outsider, Alive
  <2>3. CASE unit.main \notin {s, install[q].host}
    BY <1>5, <2>1, <2>3 DEF UnitMatchesServers, Outsider, Alive
  <2> QED
    BY <2>2, <2>3
<1>7. \A q \in Requests : Running(q)' => q = r /\ install'[r].stage = "seen"
  BY <1>3, <1>6 DEF Running, Finished
<1>8. UnitMatchesServers'
  BY <1>2 DEF UnitMatchesServers, Outsider, Alive
<1>9. RequestsHaveHosts'
  BY <1>2, <1>3, <1>4, <1>5, <1>7 DEF RequestsHaveHosts, UnitMatchesServers
<1>10. HandoffIsSafe'
  <2> SUFFICES ASSUME NEW t \in Servers, Outsider(t)'
               PROVE  /\ AtRest(unit)' \/ HelperWaits(t)' \/ Forsaken(t)'
                      /\ server'[t] = "stopping" /\ record' # t => undone' # "none"
    BY DEF HandoffIsSafe
  <2>1. Outsider(t) /\ (Forsaken(t) => Forsaken(t)')
    BY <1>2, <1>3, <1>4, <1>7 DEF Outsider, Alive, Forsaken, AtRest
  <2> QED
    BY <2>1, <1>2 DEF HandoffIsSafe, AtRest, HelperWaits
<1>11. RequestsFollow'
  <2> SUFFICES ASSUME Running(r)', unit.main # s
               PROVE  RequestFollows(r)'
    BY <1>2, <1>3, <1>7 DEF RequestsFollow
  <2>1. Outsider(s)
    BY <1>5 DEF Outsider, Alive
  <2>2. unit.state = "active" => record # s
    BY <2>1 DEF HandoffIsSafe, HelperWaits, AtRest, Forsaken
  <2> QED
    BY <1>2, <1>3, <1>4, <1>7, <2>2 DEF RequestFollows, AtRest, ActiveState
<1>12. PublicationsAreOwned'
  <2>1. \A q \in Requests : install'[q].stage # install[q].stage => publication'[q] = NoPublication
    BY <1>2, <1>3 DEF Begin, PublicationsAreOwned
  <2> QED
    BY <1>2, <1>3, <1>7, <2>1 DEF PublicationsAreOwned
<1>13. NothingForeign'
  BY <1>2, <1>7 DEF NothingForeign
<1>14. RollbacksRestore'
  BY <1>2, <1>3, <1>4, <1>7 DEF RollbacksRestore, UndoneSoFar
<1> QED
  BY <1>1, <1>8, <1>9, <1>10, <1>11, <1>12, <1>13, <1>14

\* The blocking thread works for a request that waits for it, or was dropped.
LEMMA ThreadStep ==
    ASSUME SupervisorInv, NEW r \in Requests, PublicationCheck(r) \/ PublicationStep(r) \/ OrphanEnds(r)
    PROVE  SupervisorInv'
<1> USE SupervisorAssumption DEF SupervisorInv
<1>1. SupervisorTypeOK'
  BY InstallTypeStep DEF RequestsHaveHosts, PublicationsAreOwned
<1>2. /\ UNCHANGED <<record, unit, server, restartPending, install, undone, userWrites>>
      /\ \A q \in Requests \ {r} : publication'[q] = publication[q]
      /\ publication[r] # NoPublication
      /\ publication'[r] = NoPublication \/ publication'[r].want = publication[r].want
  BY DEF PublicationCheck, PublicationStep, OrphanEnds, SupervisorTypeOK, NoPublication, Pieces, Publications
<1>3. install[r].stage \in {"publishing", "dropped"} /\ publication[r].want \in Versions
  BY <1>2 DEF PublicationsAreOwned
<1>4. UnitMatchesServers' /\ RequestsHaveHosts' /\ RequestsFollow' /\ HandoffIsSafe'
  <2>1. UnitMatchesServers' /\ RequestsHaveHosts'
    BY <1>2 DEF UnitMatchesServers, RequestsHaveHosts, Outsider, Alive, Running
  <2>2. RequestsFollow'
    BY <1>2 DEF RequestsFollow, RequestFollows, StopsFirst, Running
  <2>3. HandoffIsSafe'
    BY <1>2 DEF HandoffIsSafe, Outsider, Alive, HelperWaits, Forsaken, Running
  <2> QED
    BY <2>1, <2>2, <2>3
<1>5. PublicationsAreOwned'
  BY <1>2, <1>3 DEF PublicationsAreOwned, Running
<1>6. NothingForeign'
  <2>1. \A p \in Pieces : files'[p] \in {files[p], publication[r].want}
    BY DEF PublicationCheck, PublicationStep, OrphanEnds, SupervisorTypeOK
  <2> QED
    BY <1>2, <1>3, <2>1 DEF NothingForeign, Running
<1>7. RollbacksRestore'
  <2> SUFFICES ASSUME NEW q \in Requests, Running(q), ~install[q].lossy
               PROVE  UndoneSoFar(q)'
    BY <1>2 DEF RollbacksRestore, Running
  <2>1. UndoneSoFar(q)
    BY DEF RollbacksRestore
  <2>2. CASE install[q].stage = "seen"
    BY <1>2, <2>1, <2>2 DEF UndoneSoFar
  <2>3. CASE install[q].stage # "seen"
    <3>1. q = r
      BY <1>2, <2>1, <2>3 DEF UndoneSoFar
    <3>2. install[r].stage = "publishing" /\ install[r].mutated
      BY <1>3, <3>1 DEF Running, Finished, PublicationsAreOwned
    <3> QED
      BY <1>2, <2>1, <3>1, <3>2 DEF UndoneSoFar
  <2> QED
    BY <2>2, <2>3
<1> QED
  BY <1>1, <1>4, <1>5, <1>6, <1>7

\* What a step of a running request has to show: nobody else runs, so what
\* RequestsFollow and RollbacksRestore say is about that request alone.
LEMMA RequestLemma ==
    ASSUME SupervisorInv, SupervisorTypeOK', NEW r \in Requests, Running(r), Frame(r),
           HandoffIsSafe', PublicationsAreOwned', NothingForeign',
           Running(r)' /\ unit.main # install[r].host /\ install[r].seen.main # install[r].host
               /\ RequestFollows(r) => RequestFollows(r)',
           Running(r)' /\ ~install'[r].lossy => UndoneSoFar(r)'
    PROVE  SupervisorInv'
<1> USE DEF SupervisorInv
<1>1. UnitMatchesServers' /\ RequestsHaveHosts' /\ \A q \in Requests : Running(q)' => q = r
  BY RequestFrame
<1>2. Running(r)' => install'[r].host = install[r].host /\ unit'.main = unit.main
  BY DEF Frame, Running
<1>3. RequestsFollow'
  <2>1. unit.main # install[r].host => install[r].seen.main # install[r].host /\ RequestFollows(r)
    BY DEF RequestsFollow, RequestsHaveHosts
  <2> QED
    BY <1>1, <1>2, <2>1 DEF RequestsFollow
<1>4. RollbacksRestore'
  BY <1>1 DEF RollbacksRestore
<1> QED
  BY <1>1, <1>3, <1>4

\* After the decision a step leaves what the request has seen and wants, and
\* the thread; what is left is the record, the unit and the files.
Onwards(r) ==
    /\ UNCHANGED <<publication, userWrites>>
    /\ install[r].stage \notin {"seen", "publishing"}
    /\ install'[r].stage \notin {"seen", "publishing"}
    /\ install'[r].stage \notin Finished =>
          install'[r].want = install[r].want /\ install'[r].before = install[r].before
    /\ \A p \in Pieces : files'[p] \in {files[p], install[r].before[p]}

LEMMA OnwardsLemma ==
    ASSUME SupervisorInv, NEW r \in Requests, Running(r), Frame(r), Onwards(r)
    PROVE  PublicationsAreOwned' /\ NothingForeign'
<1> USE DEF SupervisorInv
<1>1. \A q \in Requests : Running(q)' => q = r
  BY RequestFrame
<1>2. PublicationsAreOwned'
  <2>1. publication[r] = NoPublication
    BY DEF PublicationsAreOwned, Onwards, Running, Finished
  <2> QED
    BY <1>1, <2>1 DEF PublicationsAreOwned, Onwards, Running, Frame
<1>3. NothingForeign'
  BY <1>1 DEF NothingForeign, Onwards, Running, Frame
<1> QED
  BY <1>2, <1>3

\* Decide refuses, or captures what it found and goes on in one of five ways;
\* an outsider goes on only where the helper waits for it or the unit is at rest.
LEMMA DecideWays ==
    ASSUME SupervisorTypeOK, NEW r \in Requests, NEW overwrite \in BOOLEAN, Decide(r, overwrite)
    PROVE  \/ Refuse(r)
           \/ /\ install'[r].before = files
              /\ install'[r].lossy = (\E q \in Requests \ {r} : publication[q] # NoPublication)
              /\ install'[r].host = install[r].host /\ install'[r].want = install[r].want
              /\ install'[r].seen = install[r].seen
              /\ install'[r].newlyEnabled = install[r].newlyEnabled
              /\ \/ /\ install'[r].stage = "refresh" /\ Managed(r) /\ UNCHANGED publication
                 \/ /\ install'[r].stage = "committed" /\ record = install[r].host /\ UNCHANGED publication
                 \/ /\ install'[r].stage = "start" /\ record = install[r].host /\ UNCHANGED publication
                    /\ install'[r].started = ~ActiveState(install[r].seen)
                 \/ /\ install'[r].stage \in {"publishing", "reload"}
                    /\ record # install[r].host
                    /\ install[r].seen.state \in {"inactive", "failed"} \/ install[r].seen.main = install[r].host
                    /\ install'[r].handoff = install[r].handoff /\ install'[r].started = install[r].started
                    /\ IF install'[r].stage = "publishing"
                       THEN /\ install'[r].mutated
                            /\ publication' = [publication EXCEPT ![r] = [at |-> "check", want |-> install[r].want]]
                       ELSE UNCHANGED publication
<1> DEFINE i == install[r]
           Kept == /\ install'[r].before = files
                   /\ install'[r].lossy = (\E q \in Requests \ {r} : publication[q] # NoPublication)
                   /\ install'[r].host = i.host /\ install'[r].want = i.want
                   /\ install'[r].seen = i.seen /\ install'[r].newlyEnabled = i.newlyEnabled
<1>1. i \in Installs
  BY DEF SupervisorTypeOK
<1>2. ASSUME NEW stage, Captured(r, i, stage)
      PROVE  /\ install'[r].stage = stage /\ Kept
             /\ install'[r].handoff = i.handoff /\ install'[r].started = i.started
  BY <1>1, <1>2 DEF Captured, SupervisorTypeOK, Installs
<1>3. ASSUME Captured(r, [i EXCEPT !.mutated = TRUE], "publishing")
      PROVE  /\ install'[r].stage = "publishing" /\ Kept /\ install'[r].mutated
             /\ install'[r].handoff = i.handoff /\ install'[r].started = i.started
  BY <1>1, <1>3 DEF Captured, SupervisorTypeOK, Installs
<1>4. ASSUME Captured(r, [i EXCEPT !.handoff = TRUE, !.started = ~ActiveState(i.seen)], "start")
      PROVE  /\ install'[r].stage = "start" /\ Kept
             /\ install'[r].started = ~ActiveState(i.seen)
  BY <1>1, <1>4 DEF Captured, SupervisorTypeOK, Installs
<1>5. \/ Refuse(r)
      \/ Captured(r, i, "refresh") /\ Managed(r) /\ UNCHANGED publication
      \/ Captured(r, i, "committed") /\ record = i.host /\ UNCHANGED publication
      \/ /\ Captured(r, [i EXCEPT !.handoff = TRUE, !.started = ~ActiveState(i.seen)], "start")
         /\ record = i.host /\ UNCHANGED publication
      \/ /\ record # i.host
         /\ i.seen.state \in {"inactive", "failed"} \/ i.seen.main = i.host
         /\ \/ /\ Captured(r, [i EXCEPT !.mutated = TRUE], "publishing")
               /\ publication' = [publication EXCEPT ![r] = [at |-> "check", want |-> i.want]]
            \/ Captured(r, i, "reload") /\ UNCHANGED publication
  BY DEF Decide
<1>6. CASE Captured(r, i, "refresh") /\ Managed(r) /\ UNCHANGED publication
  BY <1>2, <1>6
<1>7. CASE Captured(r, i, "committed") /\ record = i.host /\ UNCHANGED publication
  BY <1>2, <1>7
<1>8. CASE /\ Captured(r, [i EXCEPT !.handoff = TRUE, !.started = ~ActiveState(i.seen)], "start")
           /\ record = i.host /\ UNCHANGED publication
  BY <1>4, <1>8
<1>9. CASE /\ record # i.host
           /\ i.seen.state \in {"inactive", "failed"} \/ i.seen.main = i.host
           /\ Captured(r, [i EXCEPT !.mutated = TRUE], "publishing")
           /\ publication' = [publication EXCEPT ![r] = [at |-> "check", want |-> i.want]]
  BY <1>3, <1>9
<1>10. CASE /\ record # i.host
            /\ i.seen.state \in {"inactive", "failed"} \/ i.seen.main = i.host
            /\ Captured(r, i, "reload") /\ UNCHANGED publication
  <2>1. /\ install'[r].stage = "reload" /\ Kept
        /\ install'[r].handoff = i.handoff /\ install'[r].started = i.started
    BY <1>2, <1>10
  <2>2. install'[r].stage \in {"publishing", "reload"} /\ install'[r].stage # "publishing"
    BY <2>1
  <2> QED
    BY <1>10, <2>1, <2>2
<1> QED
  BY <1>5, <1>6, <1>7, <1>8, <1>9, <1>10

LEMMA DecideStep ==
    ASSUME SupervisorInv, NEW r \in Requests, NEW overwrite \in BOOLEAN, Decide(r, overwrite)
    PROVE  SupervisorInv'
<1> USE SupervisorAssumption DEF SupervisorInv
<1> DEFINE i == install[r]
<1>1. SupervisorTypeOK'
  BY InstallTypeStep DEF RequestsHaveHosts, PublicationsAreOwned
<1>2. i.stage = "seen" /\ Running(r)
  BY DEF Decide, Running, Finished
<1>3. UNCHANGED <<files, record, unit, server, restartPending, undone, failures, userWrites>>
  BY DEF Decide
<1>4. \A q \in Requests \ {r} : install'[q] = install[q]
  BY DEF Decide, Refuse, Captured, SupervisorTypeOK
<1>5. /\ i.host \in Servers /\ i.want \in Versions /\ publication[r] = NoPublication
      /\ ~i.handoff /\ ~i.started /\ ~i.lossy
  BY <1>2 DEF RequestsHaveHosts, PublicationsAreOwned
<1>6. CASE Refuse(r)
  <2>1. install'[r].stage = "refused" /\ UNCHANGED publication
    BY <1>6 DEF Refuse, SupervisorTypeOK, Installs
  <2>2. ~Running(r)' /\ Frame(r)
    BY <1>3, <1>4, <2>1 DEF Running, Finished, Frame, UnitMatchesServers
  <2>3. HandoffIsSafe'
    BY <1>2, <1>3, <2>2, HandoffFrame
  <2>4. \A q \in Requests : ~Running(q)'
    BY <1>2, <2>2, RequestFrame
  <2>5. PublicationsAreOwned' /\ NothingForeign'
    BY <1>3, <1>4, <1>5, <2>1, <2>4 DEF PublicationsAreOwned, NothingForeign
  <2> QED
    BY <1>1, <1>2, <2>2, <2>3, <2>5, RequestLemma
<1>7. CASE ~Refuse(r)
  <2>1. /\ install'[r].before = files
        /\ install'[r].lossy = (\E q \in Requests \ {r} : publication[q] # NoPublication)
        /\ install'[r].host = i.host /\ install'[r].want = i.want /\ install'[r].seen = i.seen
        /\ install'[r].newlyEnabled = i.newlyEnabled
    BY <1>7, DecideWays
  <2>2. /\ install'[r].stage \in {"refresh", "committed", "start", "publishing", "reload"}
        /\ IF install'[r].stage = "publishing"
           THEN /\ install'[r].mutated
                /\ publication' = [publication EXCEPT ![r] = [at |-> "check", want |-> i.want]]
           ELSE UNCHANGED publication
    BY <1>7, DecideWays
  <2>3. i.seen.main # i.host =>
          \/ install'[r].stage = "committed" /\ record = i.host
          \/ /\ install'[r].stage = "start" /\ record = i.host
             /\ install'[r].started = ~ActiveState(i.seen)
          \/ /\ install'[r].stage \in {"publishing", "reload"}
             /\ record # i.host /\ i.seen.state \in {"inactive", "failed"}
             /\ ~install'[r].handoff /\ ~install'[r].started
    BY <1>5, <1>7, DecideWays DEF Managed
  <2>4. Frame(r) /\ Running(r)'
    BY <1>3, <1>4, <2>1, <2>2 DEF Frame, UnitMatchesServers, Running, Finished
  <2>5. \A q \in Requests : Running(q)' => q = r
    BY <1>2, <2>4, RequestFrame
  <2>6. HandoffIsSafe'
    <3>1. ASSUME NEW s \in Servers, Outsider(s), Forsaken(s)
          PROVE  FALSE
      <4>1. server[i.host] \in {"serving", "stopping"} /\ (i.seen.main = i.host <=> unit.main = i.host)
        BY <1>2 DEF RequestsHaveHosts
      <4>2. unit.main # i.host
        BY <1>5, <3>1, <4>1 DEF UnitMatchesServers
      <4>3. s = i.host
        BY <1>5, <3>1, <4>1, <4>2 DEF UnitMatchesServers, Outsider, Alive
      <4> QED
        BY <1>2, <2>3, <3>1, <4>1, <4>2, <4>3 DEF Forsaken, AtRest
    <3> QED
      BY <1>2, <1>3, <2>4, <3>1, HandoffFrame
  <2>7. PublicationsAreOwned'
    <3>1. \A q \in Requests \ {r} : publication'[q] = publication[q]
      BY <2>2 DEF SupervisorTypeOK
    <3>2. IF install'[r].stage = "publishing"
          THEN install'[r].mutated /\ publication'[r].want = i.want
          ELSE publication'[r] = NoPublication
      BY <1>5, <2>2 DEF SupervisorTypeOK
    <3>3. install'[r].before \in [Pieces -> Contents] /\ install'[r].stage # "seen"
      BY <2>1, <2>2 DEF SupervisorTypeOK
    <3> QED
      BY <1>4, <1>5, <2>1, <2>5, <3>1, <3>2, <3>3 DEF PublicationsAreOwned
  <2>8. NothingForeign'
    BY <1>3, <2>1, <2>5 DEF NothingForeign
  <2>9. ASSUME i.seen.main # i.host, RequestFollows(r)
        PROVE  RequestFollows(r)'
    <3>1. i.seen.state \in {"inactive", "failed"} => AtRest(unit) /\ ~ActiveState(i.seen)
      BY <1>2, <2>9 DEF RequestFollows, AtRest, ActiveState
    <3>2. record = i.host => ~ActiveState(i.seen)
      BY <1>2, <2>9 DEF RequestFollows
    <3>3. CASE install'[r].stage \in {"committed", "start"}
      BY <1>3, <2>1, <2>3, <2>9, <3>2, <3>3 DEF RequestFollows
    <3>4. CASE install'[r].stage \in {"publishing", "reload"}
      BY <1>3, <2>1, <2>3, <2>9, <3>1, <3>4 DEF RequestFollows, AtRest
    <3> QED
      BY <2>3, <2>9, <3>3, <3>4
  <2>10. ASSUME ~install'[r].lossy
         PROVE  UndoneSoFar(r)'
    <3>1. UndoneSoFar(r)
      BY <1>2, <1>5 DEF RollbacksRestore
    <3>2. \A q \in Requests \ {r} : publication'[q] = NoPublication
      BY <2>1, <2>2, <2>10 DEF SupervisorTypeOK
    <3> QED
      BY <1>2, <1>3, <2>1, <2>2, <3>1, <3>2 DEF UndoneSoFar
  <2> QED
    BY <1>1, <1>2, <2>4, <2>6, <2>7, <2>8, <2>9, <2>10, RequestLemma
<1> QED
  BY <1>6, <1>7

-----------------------------------------------------------------------------
(* The rest of the install *)

\* What a request keeps when only its stage moves, or also that it is lossy.
Moved(r, stage) ==
    /\ install'[r].stage = stage
    /\ install'[r].host = install[r].host /\ install'[r].want = install[r].want
    /\ install'[r].seen = install[r].seen /\ install'[r].before = install[r].before
    /\ install'[r].mutated = install[r].mutated
    /\ \A q \in Requests \ {r} : install'[q] = install[q]

LEMMA MoveLemma ==
    ASSUME SupervisorTypeOK, NEW r \in Requests, NEW stage
    PROVE  /\ Go(r, stage) =>
                 /\ Moved(r, stage) /\ install'[r].lossy = install[r].lossy
                 /\ install'[r].newlyEnabled = install[r].newlyEnabled
                 /\ install'[r].handoff = install[r].handoff /\ install'[r].started = install[r].started
           /\ Lossy(r, stage) =>
                 /\ Moved(r, stage) /\ install'[r].lossy
                 /\ install'[r].newlyEnabled = install[r].newlyEnabled
                 /\ install'[r].handoff = install[r].handoff /\ install'[r].started = install[r].started
<1>1. install[r] \in Installs
  BY DEF SupervisorTypeOK
<1>2. ASSUME Go(r, stage)
      PROVE  /\ install'[r] = [install[r] EXCEPT !.stage = stage]
             /\ \A q \in Requests \ {r} : install'[q] = install[q]
  BY <1>2 DEF Go, SupervisorTypeOK
<1>3. ASSUME Lossy(r, stage)
      PROVE  /\ install'[r] = [install[r] EXCEPT !.stage = stage, !.lossy = TRUE]
             /\ \A q \in Requests \ {r} : install'[q] = install[q]
  BY <1>3 DEF Lossy, SupervisorTypeOK
<1>4. Go(r, stage) =>
        /\ Moved(r, stage) /\ install'[r].lossy = install[r].lossy
        /\ install'[r].newlyEnabled = install[r].newlyEnabled
        /\ install'[r].handoff = install[r].handoff /\ install'[r].started = install[r].started
  BY <1>1, <1>2 DEF Moved, Installs
<1>5. Lossy(r, stage) =>
        /\ Moved(r, stage) /\ install'[r].lossy
        /\ install'[r].newlyEnabled = install[r].newlyEnabled
        /\ install'[r].handoff = install[r].handoff /\ install'[r].started = install[r].started
  BY <1>1, <1>3 DEF Moved, Installs
<1> QED
  BY <1>4, <1>5

LEMMA PublishedStep ==
    ASSUME SupervisorInv, NEW r \in Requests, Published(r)
    PROVE  SupervisorInv'
<1> USE DEF SupervisorInv
<1>1. SupervisorTypeOK'
  BY InstallTypeStep DEF RequestsHaveHosts, PublicationsAreOwned
<1>2. /\ UNCHANGED <<files, record, unit, server, restartPending, undone, failures, userWrites>>
      /\ publication'[r] = NoPublication
      /\ \A q \in Requests \ {r} : publication'[q] = publication[q]
      /\ install[r].stage = "publishing" /\ install[r].mutated
  BY DEF Published, SupervisorTypeOK, PublicationsAreOwned
<1>3. /\ Moved(r, "reload") \/ Moved(r, "undoStop")
      /\ install'[r].lossy = install[r].lossy /\ install'[r].newlyEnabled = install[r].newlyEnabled
      /\ install'[r].handoff = install[r].handoff /\ install'[r].started = install[r].started
  BY MoveLemma DEF Published
<1>4. Running(r) /\ Frame(r)
  BY <1>2, <1>3 DEF Running, Finished, Frame, Moved, UnitMatchesServers
<1>5. \A q \in Requests : Running(q)' => q = r
  BY <1>4, RequestFrame
<1>6. HandoffIsSafe'
  BY <1>2, <1>4, HandoffFrame
<1>7. PublicationsAreOwned' /\ NothingForeign'
  <2>1. install'[r].stage \in {"reload", "undoStop"}
    BY <1>3 DEF Moved
  <2>2. PublicationsAreOwned'
    BY <1>2, <1>3, <1>4, <1>5, <2>1 DEF PublicationsAreOwned, Moved
  <2>3. NothingForeign'
    <3>1. install'[r].before = install[r].before /\ install[r].stage # "seen"
      BY <1>2, <1>3 DEF Moved
    <3> QED
      BY <1>2, <1>4, <1>5, <3>1 DEF NothingForeign
  <2> QED
    BY <2>2, <2>3
<1>8. RequestFollows(r) => RequestFollows(r)'
  BY <1>2, <1>3 DEF RequestFollows, StopsFirst, AtRest, ActiveState, Moved
<1>9. ASSUME ~install'[r].lossy
      PROVE  UndoneSoFar(r)'
  <2>1. UndoneSoFar(r)
    BY <1>3, <1>4, <1>9 DEF RollbacksRestore
  <2> QED
    BY <1>2, <1>3, <2>1 DEF UndoneSoFar, Moved
<1> QED
  BY <1>1, <1>4, <1>6, <1>7, <1>8, <1>9, RequestLemma

LEMMA ReloadStep ==
    ASSUME SupervisorInv, NEW r \in Requests, Reload(r)
    PROVE  SupervisorInv'
<1> USE DEF SupervisorInv
<1>1. SupervisorTypeOK'
  BY InstallTypeStep DEF RequestsHaveHosts, PublicationsAreOwned
<1>2. /\ UNCHANGED <<files, record, server, restartPending, publication, undone, userWrites>>
      /\ install[r].stage \in {"refresh", "reload"} /\ Running(r)
      /\ unit'.state = unit.state /\ unit'.main = unit.main /\ unit'.waits = unit.waits
      /\ unit'.enabled = unit.enabled
  BY DEF Reload, SupervisorTypeOK, Units, Running, Finished
<1>3. /\ \/ Moved(r, "refreshEnable") /\ install[r].stage = "refresh"
         \/ Moved(r, "enable") /\ install[r].stage = "reload"
         \/ Moved(r, "undoStop")
      /\ install'[r].lossy = install[r].lossy /\ install'[r].newlyEnabled = install[r].newlyEnabled
      /\ install'[r].handoff = install[r].handoff /\ install'[r].started = install[r].started
  BY <1>2, MoveLemma DEF Reload
<1>4. Frame(r) /\ Onwards(r)
  BY <1>2, <1>3 DEF Frame, Onwards, Moved, UnitMatchesServers, Finished
<1>5. HandoffIsSafe'
  BY <1>2, <1>4, HandoffFrame
<1>6. PublicationsAreOwned' /\ NothingForeign'
  BY <1>2, <1>4, OnwardsLemma
<1>7. RequestFollows(r) => RequestFollows(r)'
  BY <1>2, <1>3 DEF RequestFollows, StopsFirst, AtRest, ActiveState, Moved
<1>8. ASSUME ~install'[r].lossy
      PROVE  UndoneSoFar(r)'
  <2>1. UndoneSoFar(r)
    BY <1>2, <1>3, <1>8 DEF RollbacksRestore
  <2> QED
    BY <1>2, <1>3, <2>1 DEF UndoneSoFar, Moved
<1> QED
  BY <1>1, <1>2, <1>4, <1>5, <1>6, <1>7, <1>8, RequestLemma

LEMMA EnableStep ==
    ASSUME SupervisorInv, NEW r \in Requests, Enable(r)
    PROVE  SupervisorInv'
<1> USE DEF SupervisorInv
<1>1. SupervisorTypeOK'
  BY InstallTypeStep DEF RequestsHaveHosts, PublicationsAreOwned
<1>2. /\ UNCHANGED <<files, record, server, restartPending, publication, undone, userWrites>>
      /\ install[r].stage \in {"refreshEnable", "enable"} /\ Running(r)
      /\ unit'.state = unit.state /\ unit'.main = unit.main /\ unit'.waits = unit.waits
      /\ unit'.enabled \in {unit.enabled, TRUE} /\ unit'.loaded = unit.loaded
  BY DEF Enable, SupervisorTypeOK, Units, Running, Finished
<1>3. install[r] \in Installs /\ install[r].seen \in Views
  BY <1>2 DEF SupervisorTypeOK, RequestsHaveHosts
<1>4. /\ install'[r].handoff = install[r].handoff /\ install'[r].started = install[r].started
      /\ \/ /\ Moved(r, AfterEnable(r)) /\ unit'.enabled /\ install'[r].lossy = install[r].lossy
            /\ install'[r].newlyEnabled = ~install[r].seen.enabled
         \/ /\ Moved(r, "undoStop")
            /\ ~install'[r].lossy => /\ ~install[r].lossy
                                    /\ install'[r].newlyEnabled = (~install[r].seen.enabled /\ unit'.enabled)
  <2>1. CASE /\ unit' = [unit EXCEPT !.enabled = TRUE]
             /\ install' = [install EXCEPT ![r] =
                   [install[r] EXCEPT !.stage = AfterEnable(r), !.newlyEnabled = ~install[r].seen.enabled]]
    BY <1>3, <2>1 DEF Moved, Installs, SupervisorTypeOK, Units
  <2>2. ASSUME NEW status \in BOOLEAN,
               install' = [install EXCEPT ![r] =
                  [install[r] EXCEPT !.stage = "undoStop",
                                     !.newlyEnabled = status /\ ~install[r].seen.enabled /\ unit'.enabled,
                                     !.lossy = install[r].lossy \/ ~status]]
        PROVE  /\ Moved(r, "undoStop")
               /\ install'[r].handoff = install[r].handoff /\ install'[r].started = install[r].started
               /\ ~install'[r].lossy => /\ ~install[r].lossy
                                       /\ install'[r].newlyEnabled = (~install[r].seen.enabled /\ unit'.enabled)
    <3>1. /\ install'[r].newlyEnabled = (status /\ ~install[r].seen.enabled /\ unit'.enabled)
          /\ install'[r].lossy = (install[r].lossy \/ ~status)
      BY <1>3, <2>2 DEF Installs, SupervisorTypeOK
    <3>2. /\ Moved(r, "undoStop")
          /\ install'[r].handoff = install[r].handoff /\ install'[r].started = install[r].started
      BY <1>3, <2>2 DEF Moved, Installs, SupervisorTypeOK
    <3> QED
      BY <3>1, <3>2
  <2> QED
    BY <2>1, <2>2 DEF Enable
<1>5. AfterEnable(r) \in {"done", "start", "record"}
      /\ (AfterEnable(r) = "start" => install[r].seen.main = install[r].host)
      /\ (AfterEnable(r) = "record" => install[r].stage = "enable")
  BY <1>2 DEF AfterEnable, Managed
<1>6. Frame(r) /\ Onwards(r)
  BY <1>2, <1>4, <1>5 DEF Frame, Onwards, Moved, UnitMatchesServers, Finished
<1>7. HandoffIsSafe'
  BY <1>2, <1>6, HandoffFrame
<1>8. PublicationsAreOwned' /\ NothingForeign'
  BY <1>2, <1>6, OnwardsLemma
<1>9. ASSUME RequestFollows(r), Running(r)', install[r].seen.main # install[r].host
      PROVE  RequestFollows(r)'
  <2>1. install[r].stage = "enable" /\ install'[r].stage \in {"record", "undoStop"}
    BY <1>2, <1>4, <1>5, <1>9 DEF RequestFollows, Moved, Running, Finished
  <2>2. install'[r].seen = install[r].seen /\ install'[r].host = install[r].host
    BY <1>4 DEF Moved
  <2> QED
    BY <1>2, <1>4, <1>9, <2>1, <2>2 DEF RequestFollows, StopsFirst, AtRest, ActiveState
<1>10. ASSUME Running(r)', ~install'[r].lossy
       PROVE  UndoneSoFar(r)'
  <2>1. /\ install'[r].stage \in {"start", "record", "undoStop"} /\ ~install[r].lossy
        /\ install'[r].seen = install[r].seen /\ install'[r].before = install[r].before
        /\ install'[r].mutated = install[r].mutated
    BY <1>4, <1>5, <1>10 DEF Moved, Running, Finished
  <2>2. UndoneSoFar(r)
    BY <1>2, <2>1 DEF RollbacksRestore
  <2>3. unit.enabled <=> install[r].seen.enabled \/ install[r].newlyEnabled
    BY <1>2, <2>2 DEF UndoneSoFar
  <2>4. /\ install'[r].newlyEnabled => ~install[r].seen.enabled
        /\ unit'.enabled <=> install[r].seen.enabled \/ install'[r].newlyEnabled
    BY <1>2, <1>4, <1>10, <2>3
  <2> QED
    BY <1>2, <2>1, <2>2, <2>4 DEF UndoneSoFar
<1> QED
  BY <1>1, <1>2, <1>6, <1>7, <1>8, <1>9, <1>10, RequestLemma

LEMMA WriteRecordStep ==
    ASSUME SupervisorInv, NEW r \in Requests, WriteRecord(r)
    PROVE  SupervisorInv'
<1> USE DEF SupervisorInv
<1>1. SupervisorTypeOK'
  BY InstallTypeStep DEF RequestsHaveHosts, PublicationsAreOwned
<1>2. /\ UNCHANGED <<files, unit, server, restartPending, publication, undone, userWrites>>
      /\ install[r].stage = "record" /\ Running(r) /\ install[r].host \in Servers
      /\ record' \in {record, install[r].host}
  BY DEF WriteRecord, Running, Finished, RequestsHaveHosts
<1>3. /\ install'[r].lossy = install[r].lossy /\ install'[r].newlyEnabled = install[r].newlyEnabled
      /\ \/ Moved(r, "start") /\ install'[r].started /\ record' = install[r].host
         \/ Moved(r, "undoStop") /\ install'[r].started = install[r].started
  <2>1. install[r] \in Installs
    BY DEF SupervisorTypeOK
  <2>2. CASE /\ record' = install[r].host
             /\ install' = [install EXCEPT ![r] =
                   [install[r] EXCEPT !.stage = "start", !.handoff = TRUE, !.started = TRUE]]
    BY <2>1, <2>2 DEF Moved, Installs, SupervisorTypeOK
  <2>3. CASE install' = [install EXCEPT ![r] = [install[r] EXCEPT !.stage = "undoStop", !.handoff = TRUE]]
    BY <2>1, <2>3 DEF Moved, Installs, SupervisorTypeOK
  <2> QED
    BY <2>2, <2>3 DEF WriteRecord
<1>4. Frame(r) /\ Onwards(r)
  BY <1>2, <1>3 DEF Frame, Onwards, Moved, UnitMatchesServers, Finished
<1>5. unit.main # install[r].host => AtRest(unit) /\ record # install[r].host
  BY <1>2 DEF RequestsFollow, RequestFollows
<1>6. HandoffIsSafe'
  <2> SUFFICES ASSUME NEW s \in Servers, Outsider(s)
               PROVE  AtRest(unit) /\ (server[s] = "stopping" /\ record' # s => undone # "none")
    BY <1>2 DEF HandoffIsSafe, Outsider, Alive, AtRest
  <2>1. unit.main # install[r].host
    BY <1>2, SupervisorAssumption DEF UnitMatchesServers, RequestsHaveHosts
  <2>2. s = install[r].host
    BY <1>2, <2>1 DEF UnitMatchesServers, RequestsHaveHosts, Outsider, Alive
  <2> QED
    BY <1>2, <1>5, <2>1, <2>2 DEF HandoffIsSafe
<1>7. PublicationsAreOwned' /\ NothingForeign'
  BY <1>2, <1>4, OnwardsLemma
<1>8. ASSUME RequestFollows(r), unit.main # install[r].host
      PROVE  RequestFollows(r)'
  <2>1. AtRest(unit) /\ record # install[r].host /\ ~install[r].started /\ ~ActiveState(install[r].seen)
    BY <1>2, <1>8 DEF RequestFollows
  <2>2. server[install[r].host] = "stopping" => undone # "none"
    <3>1. Outsider(install[r].host)
      BY <1>2, <1>8 DEF Outsider, Alive, RequestsHaveHosts
    <3> QED
      BY <1>2, <2>1, <3>1 DEF HandoffIsSafe
  <2> QED
    BY <1>2, <1>3, <2>1, <2>2 DEF RequestFollows, StopsFirst, AtRest, ActiveState, Moved
<1>9. ASSUME ~install'[r].lossy
      PROVE  UndoneSoFar(r)'
  <2>1. UndoneSoFar(r)
    BY <1>2, <1>3, <1>9 DEF RollbacksRestore
  <2> QED
    BY <1>2, <1>3, <2>1 DEF UndoneSoFar, Moved
<1> QED
  BY <1>1, <1>2, <1>4, <1>6, <1>7, <1>8, <1>9, RequestLemma

\* An outsider is the host of the request that runs.
LEMMA OutsiderLemma ==
    ASSUME SupervisorInv, NEW r \in Requests, Running(r), NEW s \in Servers, Outsider(s)
    PROVE  s = install[r].host /\ unit.main # install[r].host /\ RequestFollows(r)
           /\ (AtRest(unit) \/ HelperWaits(s) \/ (install[r].stage = "seen" /\ Forsaken(s)))
           /\ (install[r].stage # "seen" => unit.main = None)
<1> USE DEF SupervisorInv
<1>1. install[r].host \in Servers /\ server[install[r].host] \in {"serving", "stopping"}
  BY DEF RequestsHaveHosts
<1>2. unit.main # install[r].host
  BY <1>1, SupervisorAssumption DEF UnitMatchesServers
<1>3. s = install[r].host /\ RequestFollows(r)
  BY <1>1, <1>2 DEF UnitMatchesServers, Outsider, Alive, RequestsFollow
<1>4. AtRest(unit) \/ HelperWaits(s) \/ (install[r].stage = "seen" /\ Forsaken(s))
  BY DEF HandoffIsSafe, Forsaken
<1>5. install[r].stage # "seen" => unit.main = None
  BY <1>4 DEF UnitMatchesServers, AtRest, HelperWaits
<1> QED
  BY <1>2, <1>3, <1>4, <1>5

LEMMA StartStep ==
    ASSUME SupervisorInv, NEW r \in Requests, Start(r)
    PROVE  SupervisorInv'
<1> USE DEF SupervisorInv
<1>1. SupervisorTypeOK'
  BY InstallTypeStep DEF RequestsHaveHosts, PublicationsAreOwned
<1>2. /\ UNCHANGED <<files, record, server, restartPending, publication, userWrites>>
      /\ install[r].stage = "start" /\ Running(r) /\ undone' = "none"
      /\ unit'.main = unit.main /\ unit'.enabled = unit.enabled /\ unit'.loaded = unit.loaded
      /\ \/ unit' = unit
         \/ /\ unit.state \in {"inactive", "failed", "restart"}
            /\ unit'.state = "start-pre" /\ unit'.waits = Unread
  BY DEF Start, StartEffect, SupervisorTypeOK, Units, Running, Finished
<1>3. /\ \/ Moved(r, "wait")
         \/ Moved(r, "committed") /\ install[r].seen.main = install[r].host
         \/ Moved(r, "undoStop")
      /\ install'[r].lossy = install[r].lossy /\ install'[r].newlyEnabled = install[r].newlyEnabled
      /\ install'[r].handoff = install[r].handoff /\ install'[r].started = install[r].started
  BY MoveLemma DEF Start, Managed
<1>4. Frame(r) /\ Onwards(r)
  BY <1>2, <1>3 DEF Frame, Onwards, Moved, UnitMatchesServers, Finished
<1>5. HandoffIsSafe'
  <2> SUFFICES ASSUME NEW s \in Servers, Outsider(s)
               PROVE  /\ AtRest(unit)' \/ HelperWaits(s)'
                      /\ record = s
    BY <1>2 DEF HandoffIsSafe, Outsider, Alive
  <2>1. record = s /\ (AtRest(unit) \/ HelperWaits(s))
    BY <1>2, OutsiderLemma DEF RequestFollows
  <2> QED
    BY <1>2, <2>1 DEF AtRest, HelperWaits
<1>6. PublicationsAreOwned' /\ NothingForeign'
  BY <1>2, <1>4, OnwardsLemma
<1>7. ASSUME RequestFollows(r), install[r].seen.main # install[r].host
      PROVE  RequestFollows(r)'
  BY <1>2, <1>3, <1>7 DEF RequestFollows, StopsFirst, ActiveState, Moved
<1>8. ASSUME ~install'[r].lossy
      PROVE  UndoneSoFar(r)'
  <2>1. UndoneSoFar(r)
    BY <1>2, <1>3, <1>8 DEF RollbacksRestore
  <2> QED
    BY <1>2, <1>3, <2>1 DEF UndoneSoFar, Moved
<1> QED
  BY <1>1, <1>2, <1>4, <1>5, <1>6, <1>7, <1>8, RequestLemma

LEMMA AwaitStep ==
    ASSUME SupervisorInv, NEW r \in Requests, AwaitHandoff(r)
    PROVE  SupervisorInv'
<1> USE DEF SupervisorInv
<1>1. SupervisorTypeOK'
  BY InstallTypeStep DEF RequestsHaveHosts, PublicationsAreOwned
<1>2. /\ UNCHANGED <<files, record, unit, server, restartPending, publication, undone, userWrites>>
      /\ install[r].stage = "wait" /\ Running(r)
  BY DEF AwaitHandoff, Running, Finished
<1>3. /\ Moved(r, "committed") \/ Moved(r, "undoStop")
      /\ install'[r].lossy = install[r].lossy /\ install'[r].newlyEnabled = install[r].newlyEnabled
      /\ install'[r].handoff = install[r].handoff /\ install'[r].started = install[r].started
  BY MoveLemma DEF AwaitHandoff
<1>4. Frame(r) /\ Onwards(r)
  BY <1>2, <1>3 DEF Frame, Onwards, Moved, UnitMatchesServers, Finished
<1>5. HandoffIsSafe'
  BY <1>2, <1>4, HandoffFrame
<1>6. PublicationsAreOwned' /\ NothingForeign'
  BY <1>2, <1>4, OnwardsLemma
<1>7. RequestFollows(r) => RequestFollows(r)'
  BY <1>2, <1>3 DEF RequestFollows, StopsFirst, ActiveState, Moved
<1>8. ASSUME ~install'[r].lossy
      PROVE  UndoneSoFar(r)'
  <2>1. UndoneSoFar(r)
    BY <1>2, <1>3, <1>8 DEF RollbacksRestore
  <2> QED
    BY <1>2, <1>3, <2>1 DEF UndoneSoFar, Moved
<1> QED
  BY <1>1, <1>2, <1>4, <1>5, <1>6, <1>7, <1>8, RequestLemma

\* A server shuts down with its restart remembered, or with the helper waiting
\* for it.
LEMMA AnswerStep ==
    ASSUME SupervisorInv, NEW r \in Requests, Answer(r)
    PROVE  SupervisorInv'
<1> USE SupervisorAssumption DEF SupervisorInv
<1> DEFINE h == install[r].host
<1>1. SupervisorTypeOK'
  BY InstallTypeStep DEF RequestsHaveHosts, PublicationsAreOwned
<1>2. /\ UNCHANGED <<files, record, unit, publication, undone, userWrites>>
      /\ install[r].stage = "committed" /\ Running(r)
      /\ restartPending' = IF Managed(r) THEN restartPending \cup {h} ELSE restartPending
  BY DEF Answer, Running, Finished
<1>3. /\ h \in Servers /\ server[h] \in {"serving", "stopping"}
      /\ install[r].seen.main = h <=> unit.main = h
      /\ install[r].seen.main = h => install[r].seen.state = "active"
  BY <1>2 DEF RequestsHaveHosts
<1>4. server'[h] = "stopping" /\ \A s \in Servers \ {h} : server'[s] = server[s]
  BY <1>3 DEF Answer, SupervisorTypeOK
<1>5. install'[r].stage = "done" /\ \A q \in Requests \ {r} : install'[q] = install[q]
  BY MoveLemma DEF Answer, Moved
<1>6. \A q \in Requests : ~Running(q)'
  BY <1>2, <1>5, OneRuns DEF Running, Finished
<1>7. \A s \in Servers : (Outsider(s)' <=> Outsider(s)) /\ (Alive(s)' <=> Alive(s))
  BY <1>2, <1>3, <1>4 DEF Outsider, Alive
<1>8. UnitMatchesServers'
  <2>1. \A s \in Servers : server'[s] = "booting" => server[s] = "booting"
    BY <1>4
  <2>2. ASSUME unit.main # None, server'[unit.main] # "booting"
        PROVE  \A s \in Servers : ~Outsider(s)
    BY <1>3, <1>4, <2>2 DEF UnitMatchesServers, SupervisorTypeOK, Units
  <2>3. ASSUME unit.main # None, server'[unit.main] = "stopping"
        PROVE  unit.main \in restartPending'
    <3>1. CASE unit.main = h
      BY <1>2, <1>3, <3>1 DEF Managed, ActiveState
    <3>2. CASE unit.main # h
      BY <1>2, <1>4, <2>3, <3>2 DEF UnitMatchesServers, SupervisorTypeOK, Units
    <3> QED
      BY <3>1, <3>2
  <2>4. unit.main # None => Alive(unit.main)'
    BY <1>2, <1>7 DEF UnitMatchesServers, SupervisorTypeOK, Units
  <2> QED
    BY <1>2, <1>7, <2>1, <2>2, <2>3, <2>4 DEF UnitMatchesServers
<1>9. RequestsHaveHosts' /\ RequestsFollow' /\ RollbacksRestore'
  BY <1>6 DEF RequestsHaveHosts, RequestsFollow, RollbacksRestore
<1>10. HandoffIsSafe'
  <2> SUFFICES ASSUME NEW s \in Servers, Outsider(s)
               PROVE  (AtRest(unit) \/ HelperWaits(s)) /\ record = s
    BY <1>2, <1>7 DEF HandoffIsSafe, AtRest, HelperWaits
  <2> QED
    BY <1>2, OutsiderLemma DEF RequestFollows
<1>11. PublicationsAreOwned' /\ NothingForeign'
  <2>1. publication[r] = NoPublication
    BY <1>2 DEF PublicationsAreOwned
  <2> QED
    BY <1>2, <1>5, <1>6, <2>1 DEF PublicationsAreOwned, NothingForeign
<1> QED
  BY <1>1, <1>8, <1>9, <1>10, <1>11

LEMMA DropStep ==
    ASSUME SupervisorInv, NEW r \in Requests, Drop(r)
    PROVE  SupervisorInv'
<1> USE DEF SupervisorInv
<1>1. SupervisorTypeOK'
  BY InstallTypeStep DEF RequestsHaveHosts, PublicationsAreOwned
<1>2. /\ UNCHANGED <<files, record, unit, server, restartPending, publication, undone, userWrites>>
      /\ Running(r)
  BY DEF Drop
<1>3. install'[r].stage = "dropped" /\ \A q \in Requests \ {r} : install'[q] = install[q]
  BY DEF Drop, SupervisorTypeOK, IdleInstall
<1>4. Frame(r) /\ ~Running(r)'
  BY <1>2, <1>3 DEF Frame, UnitMatchesServers, Running, Finished
<1>5. HandoffIsSafe'
  BY <1>2, <1>4, HandoffFrame
<1>6. \A q \in Requests : ~Running(q)'
  BY <1>2, <1>4, RequestFrame
<1>7. PublicationsAreOwned' /\ NothingForeign'
  BY <1>2, <1>3, <1>6 DEF PublicationsAreOwned, NothingForeign
<1> QED
  BY <1>1, <1>2, <1>4, <1>5, <1>7, RequestLemma

-----------------------------------------------------------------------------
(* The rollback *)

\* What every step of a rollback keeps, and when it loses something.
Undoes(r, from, to) ==
    /\ install[r].stage = from /\ Running(r)
    /\ Moved(r, to) /\ (install[r].lossy => install'[r].lossy)
    /\ install'[r].newlyEnabled = install[r].newlyEnabled
    /\ install'[r].handoff = install[r].handoff /\ install'[r].started = install[r].started

LEMMA UndoLemma ==
    ASSUME SupervisorTypeOK, NEW r \in Requests, NEW from \in RunningStages, NEW to,
           install[r].stage = from, Go(r, to) \/ Lossy(r, to)
    PROVE  Undoes(r, from, to)
  BY MoveLemma DEF Undoes, Running, Finished, RunningStages

LEMMA UndoStopStep ==
    ASSUME SupervisorInv, NEW r \in Requests, UndoStop(r)
    PROVE  SupervisorInv'
<1> USE DEF SupervisorInv
<1>1. Undoes(r, "undoStop", "undoEnable")
  BY UndoLemma DEF UndoStop, RunningStages
<1>2. SupervisorTypeOK'
  BY UndoTypeStep DEF UndoStop
<1>3. UNCHANGED <<files, record, restartPending, publication, userWrites>>
  BY DEF UndoStop
<1>4. CASE install[r].started /\ ~ActiveState(install[r].seen)
  <2>1. unit.main = None /\ (unit.main # install[r].host)
    <3>1. /\ install[r].host \in Servers /\ Alive(install[r].host)
          /\ unit.main # install[r].host
      BY <1>1, <1>4 DEF Undoes, RequestsHaveHosts, ActiveState, Alive
    <3> QED
      BY <1>1, <3>1, OutsiderLemma DEF Undoes, Outsider
  <2>2. /\ UNCHANGED server
        /\ unit'.main = unit.main /\ unit'.enabled = unit.enabled /\ unit'.loaded = unit.loaded
        /\ \/ unit'.state = "inactive" /\ undone' \in {"stopped", "lost"}
           \/ unit' = unit /\ undone' = "lost"
    BY <1>4, <2>1 DEF UndoStop, StopEffect, SupervisorTypeOK, Units
  <2>3. Frame(r) /\ Onwards(r)
    BY <1>1, <1>3, <2>1, <2>2 DEF Frame, Onwards, Undoes, Moved, UnitMatchesServers
  <2>4. HandoffIsSafe'
    <3> SUFFICES ASSUME NEW s \in Servers, Outsider(s)
                 PROVE  AtRest(unit)' \/ HelperWaits(s)'
      BY <2>2 DEF HandoffIsSafe, Outsider, Alive
    <3>1. AtRest(unit) \/ HelperWaits(s)
      BY <1>1, OutsiderLemma DEF Undoes
    <3> QED
      BY <1>3, <2>2, <3>1 DEF AtRest, HelperWaits
  <2>5. PublicationsAreOwned' /\ NothingForeign'
    BY <1>1, <2>3, OnwardsLemma DEF Undoes
  <2>6. RequestFollows(r)'
    BY <1>1, <2>1, <2>2 DEF RequestFollows, Undoes, Moved, AtRest, UnitMatchesServers
  <2>7. ASSUME ~install'[r].lossy
        PROVE  UndoneSoFar(r)'
    <3>1. UndoneSoFar(r)
      BY <1>1, <2>7 DEF RollbacksRestore, Undoes
    <3> QED
      BY <1>1, <1>3, <2>2, <3>1 DEF UndoneSoFar, Undoes, Moved
  <2> QED
    BY <1>1, <1>2, <2>3, <2>4, <2>5, <2>6, <2>7, RequestLemma DEF Undoes
<1>5. CASE ~(install[r].started /\ ~ActiveState(install[r].seen))
  <2>1. UNCHANGED <<unit, server, undone>>
    BY <1>5 DEF UndoStop
  <2>2. Frame(r) /\ Onwards(r)
    BY <1>1, <1>3, <2>1 DEF Frame, Onwards, Undoes, Moved, UnitMatchesServers
  <2>3. HandoffIsSafe'
    BY <1>1, <1>3, <2>1, <2>2, HandoffFrame DEF Undoes
  <2>4. PublicationsAreOwned' /\ NothingForeign'
    BY <1>1, <2>2, OnwardsLemma DEF Undoes
  <2>5. RequestFollows(r) => RequestFollows(r)'
    BY <1>1, <1>3, <1>5, <2>1 DEF RequestFollows, StopsFirst, Undoes, Moved, AtRest
  <2>6. ASSUME ~install'[r].lossy
        PROVE  UndoneSoFar(r)'
    <3>1. UndoneSoFar(r)
      BY <1>1, <2>6 DEF RollbacksRestore, Undoes
    <3> QED
      BY <1>1, <1>3, <2>1, <3>1 DEF UndoneSoFar, Undoes, Moved
  <2> QED
    BY <1>1, <1>2, <2>2, <2>3, <2>4, <2>5, <2>6, RequestLemma DEF Undoes
<1> QED
  BY <1>4, <1>5

\* The three steps in the middle leave the record, the servers and what the
\* unit is to them.
LEMMA UndoMiddle ==
    ASSUME SupervisorInv, NEW r \in Requests,
           NEW from \in {"undoEnable", "undoFiles", "undoReload"},
           NEW to \in {"undoFiles", "undoReload", "undoRecord"},
           Undoes(r, from, to), SupervisorTypeOK',
           UNCHANGED <<record, server, restartPending, publication, undone, userWrites>>,
           unit'.state = unit.state, unit'.main = unit.main, unit'.waits = unit.waits,
           \A p \in Pieces : files'[p] \in {files[p], install[r].before[p]},
           ~install'[r].lossy /\ UndoneSoFar(r) => UndoneSoFar(r)'
    PROVE  SupervisorInv'
<1> USE DEF SupervisorInv
<1>1. Frame(r) /\ Onwards(r)
  BY DEF Frame, Onwards, Undoes, Moved, UnitMatchesServers
<1>2. HandoffIsSafe'
  BY <1>1, HandoffFrame DEF Undoes
<1>3. PublicationsAreOwned' /\ NothingForeign'
  BY <1>1, OnwardsLemma DEF Undoes
<1>4. RequestFollows(r) => RequestFollows(r)'
  BY DEF RequestFollows, Undoes, Moved, AtRest
<1>5. ~install'[r].lossy => UndoneSoFar(r)
  BY DEF RollbacksRestore, Undoes
<1> QED
  BY <1>1, <1>2, <1>3, <1>4, <1>5, RequestLemma DEF Undoes

LEMMA UndoEnableStep ==
    ASSUME SupervisorInv, NEW r \in Requests, UndoEnable(r)
    PROVE  SupervisorInv'
<1> USE DEF SupervisorInv
<1>1. Undoes(r, "undoEnable", "undoFiles")
  BY UndoLemma DEF UndoEnable, RunningStages
<1>2. SupervisorTypeOK'
  BY UndoTypeStep DEF UndoEnable
<1>3. /\ UNCHANGED <<files, record, server, restartPending, publication, undone, userWrites>>
      /\ unit'.state = unit.state /\ unit'.main = unit.main /\ unit'.waits = unit.waits
      /\ unit'.loaded = unit.loaded
      /\ \/ install'[r].lossy
         \/ /\ install[r].newlyEnabled /\ ~install[r].seen.enabled /\ ~unit'.enabled
         \/ /\ ~(install[r].newlyEnabled /\ ~install[r].seen.enabled) /\ unit' = unit
  BY MoveLemma DEF UndoEnable, SupervisorTypeOK, Units
<1>4. ASSUME ~install'[r].lossy, UndoneSoFar(r)
      PROVE  UndoneSoFar(r)'
  <2>1. /\ install'[r].stage = "undoFiles" /\ install[r].stage = "undoEnable"
        /\ install'[r].seen = install[r].seen /\ install'[r].newlyEnabled = install[r].newlyEnabled
        /\ install'[r].before = install[r].before /\ install'[r].mutated = install[r].mutated
    BY <1>1 DEF Undoes, Moved
  <2>2. /\ install[r].newlyEnabled => ~install[r].seen.enabled
        /\ unit.enabled <=> install[r].seen.enabled \/ install[r].newlyEnabled
    BY <1>4, <2>1 DEF UndoneSoFar
  <2>3. unit'.enabled \in BOOLEAN /\ install[r].seen.enabled \in BOOLEAN
    BY <1>1, <1>2 DEF SupervisorTypeOK, Units, RequestsHaveHosts, Views, Undoes
  <2>4. unit'.enabled = install[r].seen.enabled
    BY <1>3, <1>4, <2>2, <2>3
  <2> QED
    BY <1>3, <1>4, <2>1, <2>2, <2>4 DEF UndoneSoFar
<1> QED
  BY <1>1, <1>2, <1>3, <1>4, UndoMiddle

LEMMA UndoFilesStep ==
    ASSUME SupervisorInv, NEW r \in Requests, UndoFiles(r)
    PROVE  SupervisorInv'
<1> USE DEF SupervisorInv
<1>1. Undoes(r, "undoFiles", "undoReload")
  BY UndoLemma DEF UndoFiles, RunningStages
<1>2. install[r].before \in [Pieces -> Contents] /\ files \in [Pieces -> Contents]
  BY <1>1 DEF Undoes, PublicationsAreOwned, SupervisorTypeOK
<1>3. SupervisorTypeOK'
  BY <1>2, UndoTypeStep DEF UndoFiles
<1>4. UNCHANGED <<record, unit, server, restartPending, publication, undone, userWrites>>
  BY DEF UndoFiles
<1>5. \A p \in Pieces : Restored(install[r])[p] \in {files[p], install[r].before[p]}
  BY DEF Restored
<1>6. \A p \in Pieces : files'[p] \in {files[p], install[r].before[p]}
  BY <1>5 DEF UndoFiles
<1>7. ASSUME userWrites = 0
      PROVE  Restored(install[r]) = install[r].before
  <2>1. \A p \in Pieces : files[p] # Foreign
    BY <1>7 DEF NothingForeign
  <2>2. {"environment", "unit", "current"} \subseteq Pieces
    BY DEF Pieces
  <2> QED
    BY <1>2, <2>1, <2>2 DEF Restored
<1>8. ASSUME ~install'[r].lossy, UndoneSoFar(r)
      PROVE  UndoneSoFar(r)'
  <2>1. /\ install'[r].stage = "undoReload" /\ install[r].stage = "undoFiles"
        /\ install'[r].seen = install[r].seen /\ install'[r].newlyEnabled = install[r].newlyEnabled
        /\ install'[r].before = install[r].before /\ install'[r].mutated = install[r].mutated
    BY <1>1 DEF Undoes, Moved
  <2>2. IF install[r].mutated THEN files' = Restored(install[r]) ELSE files' = files
    BY <1>8, MoveLemma DEF UndoFiles
  <2>3. userWrites = 0 => files' = install[r].before
    BY <1>7, <1>8, <2>1, <2>2 DEF UndoneSoFar
  <2> QED
    BY <1>4, <1>8, <2>1, <2>3 DEF UndoneSoFar
<1> QED
  BY <1>1, <1>3, <1>4, <1>6, <1>8, UndoMiddle

LEMMA UndoReloadStep ==
    ASSUME SupervisorInv, NEW r \in Requests, UndoReload(r)
    PROVE  SupervisorInv'
<1> USE DEF SupervisorInv
<1>1. Undoes(r, "undoReload", "undoRecord")
  BY UndoLemma DEF UndoReload, RunningStages
<1>2. SupervisorTypeOK'
  BY UndoTypeStep DEF UndoReload
<1>3. /\ UNCHANGED <<files, record, server, restartPending, publication, undone, userWrites>>
      /\ unit'.state = unit.state /\ unit'.main = unit.main /\ unit'.waits = unit.waits
      /\ unit'.enabled = unit.enabled
      /\ install[r].mutated => install'[r].lossy \/ unit'.loaded = files["unit"]
  BY MoveLemma DEF UndoReload, SupervisorTypeOK, Units
<1>4. ~install'[r].lossy /\ UndoneSoFar(r) => UndoneSoFar(r)'
  BY <1>1, <1>3 DEF UndoneSoFar, Undoes, Moved
<1> QED
  BY <1>1, <1>2, <1>3, <1>4, UndoMiddle

\* The record goes, and with it the helper that waits: only after the stop, or
\* when the stop was lost.
LEMMA UndoRecordStep ==
    ASSUME SupervisorInv, NEW r \in Requests, UndoRecord(r)
    PROVE  SupervisorInv'
<1> USE SupervisorAssumption DEF SupervisorInv
<1>1. Undoes(r, "undoRecord", "failed")
  BY UndoLemma DEF UndoRecord, RunningStages
<1>2. SupervisorTypeOK'
  BY UndoTypeStep DEF UndoRecord
<1>3. /\ UNCHANGED <<files, unit, server, restartPending, publication, undone, failures, userWrites>>
      /\ record' = IF install[r].handoff /\ record = install[r].host THEN None ELSE record
  BY DEF UndoRecord
<1>4. ~Running(r)' /\ Frame(r) /\ Onwards(r)
  BY <1>1, <1>3 DEF Frame, Onwards, Undoes, Moved, UnitMatchesServers, Running, Finished
<1>5. \A q \in Requests : ~Running(q)'
  BY <1>1, <1>4, RequestFrame DEF Undoes
<1>6. HandoffIsSafe'
  <2> SUFFICES ASSUME NEW s \in Servers, Outsider(s)
               PROVE  /\ AtRest(unit)' \/ HelperWaits(s)' \/ Forsaken(s)'
                      /\ server[s] = "stopping" /\ record' # s => undone # "none"
    BY <1>3 DEF HandoffIsSafe, Outsider, Alive
  <2>1. /\ s = install[r].host /\ RequestFollows(r)
        /\ AtRest(unit) \/ HelperWaits(s)
        /\ install[r].stage = "undoRecord"
    BY <1>1, OutsiderLemma DEF Undoes
  <2>2. server[s] = "stopping" /\ record # s => undone # "none"
    BY DEF HandoffIsSafe
  <2>3. CASE record' = record
    BY <1>3, <2>1, <2>2, <2>3 DEF AtRest, HelperWaits
  <2>4. CASE record' # record
    BY <1>3, <1>5, <2>1, <2>4 DEF RequestFollows, AtRest, Forsaken
  <2> QED
    BY <2>3, <2>4
<1>7. PublicationsAreOwned' /\ NothingForeign'
  BY <1>1, <1>4, OnwardsLemma DEF Undoes
<1> QED
  BY <1>1, <1>2, <1>4, <1>6, <1>7, RequestLemma DEF Undoes

-----------------------------------------------------------------------------
(* What an install promises *)

LEMMA SupervisorStep == SupervisorInv /\ [Next]_vars => SupervisorInv'
<1> SUFFICES ASSUME SupervisorInv, [Next]_vars
             PROVE  SupervisorInv'
  OBVIOUS
<1>1. ASSUME NEW r \in Requests, InstallStep(r)
      PROVE  SupervisorInv'
  BY <1>1, BeginStep, DecideStep, ThreadStep, PublishedStep, ReloadStep, EnableStep, WriteRecordStep,
     StartStep, AwaitStep, AnswerStep, DropStep,
     UndoStopStep, UndoEnableStep, UndoFilesStep, UndoReloadStep, UndoRecordStep DEF InstallStep
<1>2. CASE \E s \in Servers : Boot(s) \/ Exit(s) \/ Crash(s)
  BY <1>2, ServerStep
<1>3. CASE \E p \in Pieces : UserWrites(p)
  BY <1>3, UserWritesStep
<1>4. CASE HelperRead \/ HelperDone \/ HelperFails \/ UnitRestarts
  BY <1>4, UnitFrame, HelperDoneStep
<1>5. CASE UNCHANGED vars
  <2>1. UNCHANGED <<files, record, unit, server, restartPending, install, publication, undone, failures, userWrites>>
    BY <1>5 DEF vars
  <2>2. SupervisorTypeOK' /\ UnitMatchesServers' /\ RequestsHaveHosts'
    BY <2>1 DEF SupervisorInv, SupervisorTypeOK, UnitMatchesServers, RequestsHaveHosts, Outsider,
       Alive, Running
  <2>3. HandoffIsSafe' /\ RequestsFollow'
    BY <2>1 DEF SupervisorInv, HandoffIsSafe, HelperWaits, Forsaken, Outsider, Alive, Running,
       RequestsFollow, RequestFollows, StopsFirst
  <2>4. PublicationsAreOwned' /\ NothingForeign' /\ RollbacksRestore'
    BY <2>1 DEF SupervisorInv, PublicationsAreOwned, NothingForeign, RollbacksRestore, UndoneSoFar, Running
  <2> QED
    BY <2>2, <2>3, <2>4 DEF SupervisorInv
<1> QED
  BY <1>1, <1>2, <1>3, <1>4, <1>5 DEF Next

\* The processes, the requests and the unit stay in step: the unit's helper
\* waits for the one server it did not start, or is at rest, or was forsaken by
\* a rollback whose stop failed (supervisor.rs, install and rollback).
THEOREM SupervisorInductive == Spec => []SupervisorInv
  BY SupervisorInitial, SupervisorStep, PTL DEF Spec

\* A server that the service starts finds its predecessor gone, however the
\* install before it ended, unless systemd lost the stop of a rollback.
THEOREM HandoffExclusive == Spec => []HandoffIsExclusive
<1>1. SupervisorInv => HandoffIsExclusive
  <2> SUFFICES ASSUME SupervisorInv, undone # "lost", NEW s \in Servers, server[s] = "booting",
                      NEW t \in Servers \ {s}, Alive(t)
               PROVE  FALSE
    BY DEF HandoffIsExclusive
  <2>1. unit.main = s /\ unit.state = "active"
    BY SupervisorAssumption DEF SupervisorInv, UnitMatchesServers
  <2>2. Outsider(t)
    BY <2>1 DEF Outsider
  <2> QED
    BY <2>1, <2>2 DEF SupervisorInv, HandoffIsSafe, AtRest, HelperWaits, Forsaken
<1> QED
  BY <1>1, SupervisorInductive, PTL

\* A server that shuts down for its successor says so in its status, so that
\* nothing takes the handoff record away before it is gone.
THEOREM ShutdownReported == Spec => []ShutdownIsReported
<1>1. SupervisorInv => ShutdownIsReported
  <2> SUFFICES ASSUME SupervisorInv, NEW s \in Servers, NEW v \in Versions,
                      server[s] = "stopping", undone = "none"
               PROVE  ReportedState(s, v) \in {"restartPending", "handoffPending", "foreign"}
    BY DEF ShutdownIsReported
  <2>1. CASE unit.main = s
    <3>1. s \in restartPending
      BY <2>1, SupervisorAssumption DEF SupervisorInv, UnitMatchesServers
    <3> QED
      BY <3>1 DEF ReportedState
  <2>2. CASE unit.main # s
    <3>1. record = s /\ record # None /\ Alive(record)
      BY <2>2, SupervisorAssumption DEF SupervisorInv, HandoffIsSafe, Outsider, Alive
    <3> QED
      BY <2>2, <3>1 DEF ReportedState
  <2> QED
    BY <2>1, <2>2
<1> QED
  BY <1>1, SupervisorInductive, PTL

\* Only the last step of its rollback makes an install fail.
LEMMA OnlyRollbackFails ==
    ASSUME SupervisorInv, [Next]_vars, NEW r \in Requests,
           install[r].stage = "undoRecord", install'[r].stage = "failed"
    PROVE  UndoRecord(r)
<1> USE DEF SupervisorInv
<1>1. Running(r)
  BY DEF Running, Finished
<1>2. ASSUME NEW q \in Requests, InstallStep(q), q # r
      PROVE  FALSE
  <2>1. install'[r] = install[r]
    <3>1. ASSUME NEW i, install' = [install EXCEPT ![q] = i]
          PROVE  install'[r] = install[r]
      BY <1>2, <3>1 DEF SupervisorTypeOK
    <3>2. CASE \/ \E s \in Servers, v \in Versions : Begin(q, s, v)
               \/ \E overwrite \in BOOLEAN : Decide(q, overwrite)
      BY <1>2, <3>2 DEF Begin, Decide, Refuse, Captured, SupervisorTypeOK
    <3>3. CASE PublicationCheck(q) \/ PublicationStep(q) \/ OrphanEnds(q)
      BY <3>3 DEF PublicationCheck, PublicationStep, OrphanEnds
    <3>4. CASE Published(q) \/ Reload(q) \/ Start(q) \/ AwaitHandoff(q) \/ Answer(q)
      <4>1. PICK stage : Go(q, stage)
        BY <3>4 DEF Published, Reload, Start, AwaitHandoff, Answer
      <4> QED
        BY <1>2, <4>1 DEF Go, SupervisorTypeOK
    <3>5. CASE Enable(q) \/ WriteRecord(q) \/ Drop(q)
      <4>1. PICK i : install' = [install EXCEPT ![q] = i]
        BY <3>5 DEF Enable, WriteRecord, Drop
      <4> QED
        BY <3>1, <4>1
    <3>6. CASE UndoStop(q) \/ UndoEnable(q) \/ UndoFiles(q) \/ UndoReload(q) \/ UndoRecord(q)
      <4>1. PICK stage : Go(q, stage) \/ Lossy(q, stage)
        BY <3>6 DEF UndoStop, UndoEnable, UndoFiles, UndoReload, UndoRecord
      <4> QED
        BY <1>2, <4>1 DEF Go, Lossy, SupervisorTypeOK
    <3> QED
      BY <1>2, <3>2, <3>3, <3>4, <3>5, <3>6 DEF InstallStep
  <2> QED
    BY <2>1
<1>3. ASSUME InstallStep(r)
      PROVE  UndoRecord(r)
  <2>1. publication[r] = NoPublication
    BY DEF PublicationsAreOwned
  <2>2. ~Drop(r)
    BY DEF Drop, SupervisorTypeOK, IdleInstall
  <2>3. ~(PublicationCheck(r) \/ PublicationStep(r))
    BY <2>1 DEF PublicationCheck, PublicationStep, NoPublication, Pieces
  <2> QED
    BY <1>3, <2>2, <2>3 DEF InstallStep, Begin, Decide, Published, OrphanEnds, Reload, Enable, WriteRecord,
       Start, AwaitHandoff, Answer, UndoStop, UndoEnable, UndoFiles, UndoReload
<1>4. ASSUME NEW s \in Servers, Boot(s) \/ Exit(s) \/ Crash(s)
      PROVE  FALSE
  BY <1>4 DEF Boot, Exit, Crash, Ended, IdleInstall, SupervisorTypeOK
<1>5. CASE \/ \E p \in Pieces : UserWrites(p)
           \/ HelperRead \/ HelperDone \/ HelperFails \/ UnitRestarts
           \/ UNCHANGED vars
  BY <1>5 DEF UserWrites, HelperRead, HelperDone, HelperFails, UnitRestarts, vars
<1> QED
  BY <1>2, <1>3, <1>4, <1>5 DEF Next

\* An install that failed leaves the files, the unit and the record as it found
\* them, if its rollback lost nothing and nobody else wrote.
THEOREM FailedInstallRestores == Spec => FailedInstallLeavesNoTrace
<1>1. ASSUME SupervisorInv, [Next]_vars, NEW r \in Requests
      PROVE  RestoredAtEnd(r)
  <2> USE <1>1
  <2> SUFFICES ASSUME install[r].stage = "undoRecord", install'[r].stage = "failed",
                      ~install[r].lossy, NobodyElseWrites(r)
               PROVE  /\ files = install[r].before
                      /\ unit.enabled = install[r].seen.enabled
                      /\ install[r].mutated => unit.loaded = files["unit"]
                      /\ install[r].handoff => record' # install[r].host
    BY DEF RestoredAtEnd
  <2>1. Running(r) /\ install[r].host \in Servers /\ UndoRecord(r)
    BY OnlyRollbackFails DEF SupervisorInv, RequestsHaveHosts, Running, Finished
  <2>2. UndoneSoFar(r)
    BY <2>1 DEF SupervisorInv, RollbacksRestore
  <2> QED
    BY <2>1, <2>2, SupervisorAssumption DEF UndoneSoFar, NobodyElseWrites, UndoRecord
<1>2. SupervisorInv /\ [Next]_vars => [\A r \in Requests : RestoredAtEnd(r)]_vars
  BY <1>1
<1> QED
  BY <1>2, SupervisorInductive, PTL DEF Spec, FailedInstallLeavesNoTrace

\* The four together are what the server promises of an install and of the
\* handoff that follows it.
THEOREM InstallSafe == Spec => InstallIsSafe
<1>1. SupervisorInv => TypeOK
  BY SupervisorAssumption DEF SupervisorInv, SupervisorTypeOK, TypeOK, Units, UnitStates
<1> QED
  BY <1>1, SupervisorInductive, HandoffExclusive, ShutdownReported, FailedInstallRestores, PTL
     DEF InstallIsSafe
=============================================================================
