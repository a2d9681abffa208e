------------------------- MODULE ManagedEnvironment -------------------------
(***************************************************************************)
(* The environment file of the installed service (supervisor.rs).          *)
(*                                                                         *)
(* A server captures settings from its environment, an install writes them *)
(* to a file, and the launcher of the service reads that file into the     *)
(* environment of the next server, which captures it again.  The launcher  *)
(* refuses a file that is not exactly what an install could have written,  *)
(* among others because the world has changed since.                       *)
(*                                                                         *)
(* One setting stands for each kind that is treated differently: a text    *)
(* (SHELL), the directory that relative paths start from (DEVHATCH_CWD), a *)
(* path (CODEX_HOME), a list of paths (DEVHATCH_IMPORT_ROOTS), a socket    *)
(* (SSH_AUTH_SOCK) and a number (SKILLINK_GIT_TIMEOUT_SECS).  A text is a  *)
(* sequence of the characters that quoting tells apart, a path a sequence  *)
(* of components; the other settings are quoted as the text is.  The       *)
(* directories of the user and of the login are always there to name; what *)
(* is tested of them is whether they are what they must be (`places`).     *)
(***************************************************************************)
EXTENDS Integers, SequencesExt

CONSTANTS
    MaxLength,      \* bound on the length of texts, paths and lists
    MaxEdits,       \* bound on what the user does to the file
    Unset

Characters == {"backslash", "quote", "newline", "other"}
Texts == BoundedSeq(Characters, MaxLength)

Components == {"~", "..", "a"}
Paths == [absolute : BOOLEAN, parts : BoundedSeq(Components, MaxLength)]
Home == [absolute |-> TRUE, parts |-> <<"home">>]
Lists == BoundedSeq({p \in Paths : Len(p.parts) <= 1}, MaxLength) \ {<<>>}

\* A link and the socket it leads to.
Sockets == {"link", "socket"}

Numbers == {-1, 0, 1}       \* -1: not a number

Required == {"SHELL", "DEVHATCH_CWD"}
Optional == {"CODEX_HOME", "DEVHATCH_IMPORT_ROOTS", "SSH_AUTH_SOCK", "SKILLINK_GIT_TIMEOUT_SECS"}
Names == Required \cup Optional

Values(n) ==
    CASE n = "SHELL" -> Texts
      [] n = "DEVHATCH_CWD" -> {Home, [absolute |-> TRUE, parts |-> <<"a">>]}
      [] n = "CODEX_HOME" -> Paths
      [] n = "DEVHATCH_IMPORT_ROOTS" -> Lists
      [] n = "SSH_AUTH_SOCK" -> Sockets
      [] n = "SKILLINK_GIT_TIMEOUT_SECS" -> Numbers

VARIABLES
    environment,    \* of the process that captures
    socket,         \* whether the agent's socket exists
    places,         \* whether the runtime directory with the bus in it and the
                    \* directory of the configuration are safe, and where they were
    context,        \* what the server has captured, or Unset
    file,           \* lines: the schema, or a name and its encoded value
    launch,         \* what the launcher last did
    edits

vars == <<environment, socket, places, context, file, launch, edits>>

-----------------------------------------------------------------------------
(* Values *)

ValidText(t) == "newline" \notin ToSet(t)

\* (Mutation: the backslash itself is not escaped.)
QuoteQuotes(t) ==
    LET quoted[i \in 0..Len(t)] ==
            IF i = 0 THEN <<>>
            ELSE quoted[i - 1] \o (IF t[i] = "quote" THEN <<"backslash", t[i]>> ELSE <<t[i]>>)
    IN  quoted[Len(t)]

\* systemd_environment_quote without the two quotes: both kinds of characters
\* that mean something get a backslash.
Quote(t) ==
    LET quoted[i \in 0..Len(t)] ==
            IF i = 0 THEN <<>>
            ELSE quoted[i - 1] \o (IF t[i] \in {"backslash", "quote"} THEN <<"backslash", t[i]>> ELSE <<t[i]>>)
    IN  quoted[Len(t)]

\* One character more: plain, after a backslash, or once there was an error.
Decode(s, c) ==
    CASE s.mode = "plain" ->
            IF c = "backslash" THEN [s EXCEPT !.mode = "escape"]
            ELSE IF c = "quote" THEN [s EXCEPT !.mode = "error"]
            ELSE [s EXCEPT !.text = Append(@, c)]
      [] s.mode = "escape" ->
            IF c \in {"backslash", "quote"} THEN [mode |-> "plain", text |-> Append(s.text, c)]
            ELSE [s EXCEPT !.mode = "error"]
      [] s.mode = "error" -> s

Decoded(t) ==
    LET after[i \in 0..Len(t)] ==
            IF i = 0 THEN [mode |-> "plain", text |-> <<>>] ELSE Decode(after[i - 1], t[i])
    IN  after[Len(t)]

\* parse_systemd_environment_value; Unset is an error.
Unquote(t) ==
    LET end == Decoded(t)
    IN  IF end.mode = "plain" /\ ValidText(end.text) THEN end.text ELSE Unset

\* The components without those that a ".." takes back.
Cleaned(parts) ==
    LET kept[i \in 0..Len(parts)] ==
            IF i = 0 THEN <<>>
            ELSE IF parts[i] = ".." THEN SubSeq(kept[i - 1], 1, Len(kept[i - 1]) - 1)
            ELSE Append(kept[i - 1], parts[i])
    IN  kept[Len(parts)]

\* Path::clean.
Clean(p) == [p EXCEPT !.parts = Cleaned(@)]

Join(base, parts) == [absolute |-> TRUE, parts |-> base.parts \o parts]

\* normalize_durable_path.
Normalize(p, cwd) ==
    Clean(IF ~p.absolute /\ p.parts # <<>> /\ Head(p.parts) = "~" THEN Join(Home, Tail(p.parts))
          ELSE IF p.absolute THEN p
          ELSE Join(cwd, p.parts))

\* sanitize_optional_environment: the value that is kept, or Unset.
Sanitize(n, value, cwd, alive) ==
    CASE n = "CODEX_HOME" -> Normalize(value, cwd)
      [] n = "DEVHATCH_IMPORT_ROOTS" -> [i \in DOMAIN value |-> Normalize(value[i], cwd)]
      [] n = "SSH_AUTH_SOCK" -> IF alive THEN "socket" ELSE Unset
      [] n = "SKILLINK_GIT_TIMEOUT_SECS" -> IF value >= 1 THEN value ELSE Unset

-----------------------------------------------------------------------------
(* The file *)

\* SupervisorContext::capture.
Captured(e, alive) ==
    [n \in Names |->
       CASE n = "SHELL" -> IF e[n] = Unset THEN <<"other">> ELSE e[n]
         [] n = "DEVHATCH_CWD" -> IF e[n] = Unset THEN Home ELSE e[n]
         [] OTHER -> IF e[n] = Unset THEN Unset ELSE Sanitize(n, e[n], IF e["DEVHATCH_CWD"] = Unset THEN Home ELSE e["DEVHATCH_CWD"], alive)]

Capturable(e) == e["SHELL"] # Unset => ValidText(e["SHELL"])

\* A line is a name and its value.
Schema == <<"SCHEMA", Unset>>

Line(c, n) == IF c[n] = Unset THEN <<>> ELSE << <<n, IF n = "SHELL" THEN Quote(c[n]) ELSE c[n]>> >>

\* environment_file.
EnvironmentFile(c) ==
    <<Schema>> \o Line(c, "SHELL") \o Line(c, "DEVHATCH_CWD") \o Line(c, "CODEX_HOME")
        \o Line(c, "DEVHATCH_IMPORT_ROOTS") \o Line(c, "SSH_AUTH_SOCK") \o Line(c, "SKILLINK_GIT_TIMEOUT_SECS")

\* validate_managed_path_values: the settings are what a capture keeps, and the
\* directories and the bus are as they were.
Normalized(values, alive, there) ==
    /\ there
    /\ \A n \in Optional :
        values[n] # Unset => Sanitize(n, values[n], values["DEVHATCH_CWD"], alive) = values[n]

\* One line more: the schema, once, or a name that is known and has no value yet.
Read(s, line) ==
    LET name == line[1]
        value == IF name = "SHELL" THEN Unquote(line[2]) ELSE line[2]
    IN  IF name = "SCHEMA" THEN [s EXCEPT !.mode = IF @ = "no schema" THEN "schema" ELSE "error"]
        ELSE IF name \in Names /\ value # Unset /\ s.values[name] = Unset
        THEN [s EXCEPT !.values[name] = value]
        ELSE [s EXCEPT !.mode = "error"]

AllRead(lines) ==
    LET after[i \in 0..Len(lines)] ==
            IF i = 0 THEN [mode |-> "no schema", values |-> [n \in Names |-> Unset]]
            ELSE Read(after[i - 1], lines[i])
    IN  after[Len(lines)]

\* parse_managed_environment.
Parse(lines, alive, there) ==
    LET end == AllRead(lines)
    IN  IF /\ end.mode = "schema"
           /\ \A n \in Required : end.values[n] # Unset
           /\ Normalized(end.values, alive, there)
        THEN end.values
        ELSE Unset

-----------------------------------------------------------------------------
Init ==
    /\ \E first, second \in Names : \E v \in Values(first) \cup {Unset}, w \in Values(second) :
          environment = [[n \in Names |-> Unset] EXCEPT ![first] = v, ![second] = w]
    /\ socket \in BOOLEAN /\ places \in BOOLEAN
    /\ context = Unset /\ file = Unset /\ launch = "none"
    /\ edits = 0

\* A server starts from its environment, if that is text and the login's bus is
\* there.
Capture ==
    /\ context = Unset /\ Capturable(environment) /\ places
    /\ context' = Captured(environment, socket)
    /\ UNCHANGED <<environment, socket, places, file, launch, edits>>

\* An install talks to systemd first: manager_environment tests the places again.
Install ==
    /\ context # Unset /\ file = Unset /\ places
    /\ file' = EnvironmentFile(context)
    /\ UNCHANGED <<environment, socket, places, context, launch, edits>>

\* run_systemd_launcher: the new server starts from nothing but the file.
Launch ==
    /\ file # Unset /\ launch = "none"
    /\ LET values == Parse(file, socket, places)
       IN  IF values = Unset THEN launch' = "refused" /\ UNCHANGED environment
           ELSE launch' = "accepted" /\ environment' = values
    /\ UNCHANGED <<socket, places, context, file, edits>>

\* The agent of the socket ends, or another one takes its place.
SocketChanges ==
    /\ launch = "none"
    /\ socket' = ~socket
    /\ UNCHANGED <<environment, places, context, file, launch, edits>>

\* The user logs out and in again, or moves the directories.
PlacesChange ==
    /\ launch = "none"
    /\ places' = ~places
    /\ UNCHANGED <<environment, socket, context, file, launch, edits>>

\* The user removes, repeats or replaces a line.
Edit ==
    /\ edits < MaxEdits /\ file # Unset /\ launch = "none"
    /\ \E i \in DOMAIN file :
          \/ file' = RemoveAt(file, i)
          \/ file' = Append(file, file[i])
          \/ file' = [file EXCEPT ![i] = <<"OTHER", Unset>>]
    /\ edits' = edits + 1
    /\ UNCHANGED <<environment, socket, places, context, launch>>

Next == Capture \/ Install \/ Launch \/ SocketChanges \/ PlacesChange \/ Edit

Spec == Init /\ [][Next]_vars

-----------------------------------------------------------------------------
\* The launched server captures what the installing server had captured, so
\* that another install finds the files current;
LaunchedServerAgrees ==
    launch = "accepted" /\ edits = 0 => Captured(environment, socket) = context

\* the launcher refuses a file that nobody touched only for a socket that has
\* gone since, or for places that have changed;
RefusedForTheWorld ==
    launch = "refused" /\ edits = 0 => ~places \/ (context["SSH_AUTH_SOCK"] # Unset /\ ~socket)

\* and an edited file is accepted only when it still says everything once.
AcceptedIsComplete ==
    launch = "accepted" =>
        /\ \A n \in Required \cup {"SCHEMA"} : Cardinality({i \in DOMAIN file : file[i][1] = n}) = 1
        /\ \A n \in Optional : Cardinality({i \in DOMAIN file : file[i][1] = n}) <= 1

EnvironmentSurvives == LaunchedServerAgrees /\ RefusedForTheWorld /\ AcceptedIsComplete
=============================================================================
