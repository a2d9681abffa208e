--------------------------- MODULE WorkspaceLists ---------------------------
(***************************************************************************)
(* What workspaces are to a user: a workspace is a list of sessions, one   *)
(* of which may be active.  A session is in one list.  Every operation on  *)
(* workspaces is one step.                                                 *)
(*                                                                         *)
(* When the active session leaves a workspace by itself, the next one of   *)
(* the list becomes active, and the first if it was the last.  When        *)
(* several leave at once, because they moved to another workspace or are   *)
(* gone, the first that is left becomes active.                            *)
(***************************************************************************)
EXTENDS Integers, Sequences, SequencesExt, FiniteSets

CONSTANTS Workspaces, Sessions, NoSession

VARIABLE book       \* [members, active] of every workspace there is

NewIds == Workspaces \ DOMAIN book

First(list) == IF list = <<>> THEN NoSession ELSE Head(list)

\* The numbers of S in order.
Ascending(S) ==
    [n \in 1..Cardinality(S) |-> CHOOSE i \in S : Cardinality({j \in S : j < i}) = n - 1]

\* The list without the sessions of S.
Others(list, S) ==
    LET kept == Ascending({i \in DOMAIN list : list[i] \notin S})
    IN  [n \in DOMAIN kept |-> list[kept[n]]]

\* The session that follows s in the list, the first of the others after the last.
After(list, s) ==
    IF Last(list) = s THEN First(Others(list, {s}))
    ELSE list[1 + CHOOSE i \in 1..Len(list) : list[i] = s]

Opened(list) == [members |-> list, active |-> First(list)]

\* The sessions of S leave all lists.
TakenOut(S) ==
    [w \in DOMAIN book |->
        LET rest == Others(book[w].members, S)
        IN  [members |-> rest,
             active |-> IF book[w].active \in S THEN First(rest) ELSE book[w].active]]

\* New workspaces beside those of b.
Beside(new, b) ==
    [w \in DOMAIN new \cup DOMAIN b |-> IF w \in DOMAIN new THEN new[w] ELSE b[w]]

Listed == UNION {Range(book[w].members) : w \in DOMAIN book}

\* The lists once only the sessions of E are left, and those of E that are in
\* no list, but for the ones in N, have a workspace of their own.
Reconciliations(E, N) ==
    {Beside([w \in Range(home) |-> Opened(<<CHOOSE s \in DOMAIN home : home[s] = w>>)],
            TakenOut(Listed \ E)) : home \in Injection((E \ Listed) \ N, NewIds)}

-----------------------------------------------------------------------------

Init == book = [w \in {} |-> {}]

Reconcile(E) == book' \in Reconciliations(E, {})

\* A new session joins a workspace and becomes active.
Join(E, s, w) ==
    /\ s \in E \ Listed
    /\ \E b \in Reconciliations(E, {s}) :
          book' = [b EXCEPT ![w] = [members |-> Append(@.members, s), active |-> s]]

\* The sessions of a list move to a new workspace.
Group(list) ==
    /\ IsInjective(list)
    /\ \E w \in NewIds : book' = Beside([v \in {w} |-> Opened(list)], TakenOut(Range(list)))

Leave(s) ==
    \E w \in DOMAIN book :
        /\ s \in Range(book[w].members)
        /\ book' = [book EXCEPT ![w] =
                       [members |-> Others(@.members, {s}),
                        active |-> IF @.active = s THEN After(@.members, s) ELSE @.active]]

Choose(w, s) ==
    /\ w \in DOMAIN book
    /\ s \in Range(book[w].members) \cup {NoSession}
    /\ book' = [book EXCEPT ![w].active = s]

Dissolve(w) ==
    /\ w \in DOMAIN book
    /\ book' = [v \in DOMAIN book \ {w} |-> book[v]]

\* What an operation that finds nothing to do leaves is no step.
Next ==
    /\ book' # book
    /\ \/ \E E \in SUBSET Sessions :
             Reconcile(E) \/ \E s \in E, w \in DOMAIN book : Join(E, s, w)
       \/ \E n \in 0..Cardinality(Sessions) : \E list \in [1..n -> Sessions] : Group(list)
       \/ \E s \in Sessions : Leave(s)
       \/ \E w \in DOMAIN book : Dissolve(w) \/ \E s \in Sessions \cup {NoSession} : Choose(w, s)

Spec == Init /\ [][Next]_book

=============================================================================
