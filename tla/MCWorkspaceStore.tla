-------------------------- MODULE MCWorkspaceStore --------------------------
(* WorkspaceStore for TLC, and as an implementation of WorkspaceLists.      *)
EXTENDS WorkspaceStore, TLC

ASSUME FiniteAssumption == IsFiniteSet(Sessions)

\* The sessions of the members in R by position.
Listing(R) ==
    [n \in 1..Cardinality(R) |->
        (CHOOSE r \in R : Cardinality({q \in R : q.position < r.position}) = n - 1).session]

Book(d) ==
    [w \in DOMAIN d.active |-> [members |-> Listing(Members(d, w)), active |-> d.active[w]]]

book == Book(db)

Lists == INSTANCE WorkspaceLists

\* Positions and rows implement lists: every transaction, also when its
\* handler was dropped, is one of the operations on lists (WorkspaceLists), or
\* changes nothing a user sees.
ImplementsLists == Lists!Spec

\* Deleting a session is the operation Leave: its place in the workspace goes
\* to the next member, where a reconciliation would take the first.
RemovalActivatesNext == [][\A s \in Sessions : Leave(s) => [Lists!Leave(s)]_book]_storeVars

-----------------------------------------------------------------------------

StoreSymmetry == Permutations(Sessions) \cup Permutations(Workspaces)

=============================================================================
