----------------------------- MODULE MCService -----------------------------
(***************************************************************************)
(* What the service has to bring to an end, for TLC: SupervisorInstall,    *)
(* Connections, and the identities that Codex reports (HistoryClaims).     *)
(* They share no state: `part` says which of them takes steps; the others  *)
(* rest where they began.                                                  *)
(***************************************************************************)
EXTENDS SupervisorInstall

CONSTANTS
    Logins, Terminals, Activities, Setups, LoginLimit,  \* Connections
    Agents, Removals, Whole, Other, Here, There         \* HistoryClaims

VARIABLES
    part,
    credential, setup, attempts, login, rows, expired, lease, socket, logout, queue, readers, writer,
    backend, agent, report, conversation, holder, create, removal, deletions

Accounts == INSTANCE Connections

ASSUME AccountsAssumption == None \notin Setups

(* Two conversations in one directory, none a part of the other. *)

ParentOf == [c \in {Whole, Other} |-> None]
PlaceOf == [c \in {Whole, Other} |-> Here]

Claims == INSTANCE HistoryClaims WITH
    Conversations <- {Whole, Other}, Directories <- {Here, There},
    Parent <- ParentOf, DirectoryOf <- PlaceOf

accountVars ==
    <<credential, setup, attempts, login, rows, expired, lease, socket, logout, queue, readers, writer>>
claimVars == <<backend, agent, report, conversation, holder, create, removal, deletions>>
allVars == <<part, vars, accountVars, claimVars>>

\* What rests begins in one way only.
ServiceInit ==
    /\ part \in {"supervisor", "accounts", "claims"}
    /\ IF part = "supervisor" THEN TRUE
       ELSE /\ files = [p \in Pieces |-> Missing]
            /\ server = [s \in Servers |-> IF s = CHOOSE t \in Servers : TRUE THEN "serving" ELSE "off"]
    /\ Init
    /\ Accounts!Init
    /\ IF part = "claims" THEN TRUE ELSE conversation = [c \in {Whole, Other} |-> "unborn"]
    /\ backend = "codex" /\ Claims!ClaimsInit

\* A step of one of them.
OfSupervisor(step) == part = "supervisor" /\ step /\ UNCHANGED <<part, accountVars, claimVars>>
OfAccounts(step) == part = "accounts" /\ step /\ UNCHANGED <<part, vars, claimVars>>
OfClaims(step) == part = "claims" /\ step /\ UNCHANGED <<part, vars, accountVars>>

ServiceNext == OfSupervisor(Next) \/ OfAccounts(Accounts!Next) \/ OfClaims(Claims!Next)

\* Their fairness; where one condition is enough for whichever has the step, it
\* is one condition.  Logins and agents, and servers and sockets, go in pairs.
One(set) == CHOOSE x \in set : TRUE
Pairs(a, b) == {<<One(a), One(b)>>} \cup (a \ {One(a)}) \X (b \ {One(b)})

ServiceFairness ==
    /\ WF_allVars(OfSupervisor(HelperRead) \/ OfAccounts(Accounts!Grant) \/ OfClaims(Claims!CreateEnd))
    /\ WF_allVars(OfSupervisor(HelperDone) \/ OfClaims(\E r \in Removals : Claims!RemoveEnd(r)))
    /\ WF_allVars(OfSupervisor(UnitRestarts) \/ OfClaims(\E r \in Removals : Claims!DropMarkers(r)))
    /\ \A p \in Pairs(Servers, Terminals \cup Activities) :
          /\ WF_allVars(OfSupervisor(Boot(p[1])) \/ OfAccounts(Accounts!SocketStep(p[2])))
          /\ WF_allVars(OfSupervisor(Exit(p[1])) \/ OfAccounts(Accounts!SendEnds(p[2])))
    /\ \A p \in Pairs(Terminals \cup Activities, Agents) :
          SF_allVars(OfAccounts(Accounts!Close(p[1])) \/ OfClaims(Claims!ReportStep(p[2])))
    /\ \A p \in Pairs(Logins, Agents) :
          WF_allVars(OfAccounts(Accounts!LogoutStep(p[1])) \/ OfClaims(Claims!Refuse(p[2])))

ServiceSpec == ServiceInit /\ [][ServiceNext]_allVars /\ ServiceFairness

-----------------------------------------------------------------------------
\* No input after a logout, and one password (Connections).
LoginsAreKept == Accounts!LoginsAreKept

\* The service serves after a handoff (SupervisorInstall!HandoffCompletes), a
\* logout is answered and ends its sockets (Connections!LogoutsTakeEffect), and
\* a reported identity is decided (HistoryClaims!IdentitiesAreDecided).
Asked(p) == CASE part = "supervisor" -> Stopping
              [] part = "accounts" -> Accounts!AsksToLogOut(p[1])
              [] OTHER -> ~Claims!IsDecided(p[2])

Answered(p) == CASE part = "supervisor" -> Serves
                 [] part = "accounts" -> Accounts!IsLoggedOut(p[1])
                 [] OTHER -> Claims!IsDecided(p[2])

EverythingIsAnswered == \A p \in Pairs(Logins, Agents) : Asked(p) ~> Answered(p)
=============================================================================
