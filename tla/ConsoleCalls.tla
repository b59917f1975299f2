---------------------------- MODULE ConsoleCalls ----------------------------
(***************************************************************************)
(* What the screens of the web console share: the HTTP client, the session *)
(* and its end by a 401, and the server as it looks from the browser.  The *)
(* server handles a request in one step (its own interleavings are in      *)
(* AdminServer) and requests are handled, and answered, in any order.      *)
(*                                                                         *)
(* A row of a table is a number, its content the number of the write it is *)
(* of; 0 is no row.  For a switch 1 is on and 2 is off.                    *)
(***************************************************************************)
EXTENDS Naturals, FiniteSets, SequencesExt

CONSTANTS
  Id,           \* ids of the rows of each kind of table
  AtFirst,      \* ids of the rows that there are at first
  AddOver,      \* tabs over which the dialog for a member is opened
  Patient,      \* whether a tab is only picked when the members are there
  PageSize,     \* WS_PAGE_SIZE
  MaxFlight,    \* requests at a time
  MaxWrites,    \* clicks that write
  MaxMoves,     \* navigations
  MaxFaults,    \* requests that fail, answers lost, sessions that expire
  MaxSessions,  \* logins
  Spent         \* of the first three of these bounds at first: what a behaviour can not use

Kinds == {"providers", "library", "workspaces", "members", "templates", "switches", "policy"}

ASSUME ConsoleAssumption ==
  /\ DOMAIN Id = Kinds /\ DOMAIN AtFirst = Kinds
  /\ \A k \in Kinds : IsFiniteSet(Id[k]) /\ Id[k] = 1 .. Cardinality(Id[k]) /\ AtFirst[k] \subseteq Id[k]
  /\ Id["switches"] = Id["providers"] /\ Id["templates"] = Id["library"] /\ Id["policy"] = {1}
  /\ \A k \in {"providers", "library", "workspaces"} :   \* the ids of the rows to come
       3 .. MaxWrites + 2 \subseteq Id[k] \ AtFirst[k]
  /\ Patient \in BOOLEAN
  /\ {PageSize, MaxFlight} \subseteq Nat \ {0}
  /\ {MaxWrites, MaxMoves, MaxFaults, MaxSessions} \subseteq Nat
  /\ Spent \subseteq Nat \X Nat \X Nat

VARIABLES
  db,        \* the server's tables
  expired,   \* sessions up to this one have expired
  token,     \* localStorage["auth_token"]: a session, 0 for none
  flight,    \* requests in flight
  strays,    \* sessions of requests in flight that nobody waits for
  ui,        \* the screen that is mounted
  refused,   \* history: sessions of which the client has read a 401
  writes, moves, faults, sessions  \* counters of the bounds

serverVars == <<db, expired>>
countVars == <<writes, moves, faults, sessions>>

T(kind, w) == <<kind, w>>
Providers == T("providers", 0)
Library == T("library", 0)
Workspaces == T("workspaces", 0)
Table == {Providers, Library, Workspaces}
           \cup {"members", "templates", "switches", "policy"} \X AtFirst["workspaces"]
RowOf(t) == Id[t[1]]

-----------------------------------------------------------------------------
(* Requests.                                                               *)

(* What each function of the *-api modules asks of the server. *)
Verb ==
  [listProviders |-> "load", createProvider |-> "create", updateProvider |-> "update",
   rotateProviderKey |-> "update", deleteProvider |-> "delete", checkProviderConnection |-> "check",
   listTemplateLibrary |-> "load", createTemplate |-> "create", updateTemplate |-> "update",
   deleteTemplate |-> "delete",
   listWorkspaces |-> "load", createWorkspace |-> "create", getWorkspace |-> "load",
   updateWorkspace |-> "update", deleteWorkspace |-> "delete",
   listMembers |-> "load", listMemberCandidates |-> "load", addMember |-> "insert",
   replaceMemberRoles |-> "update",
   listAttachedTemplates |-> "load", attachTemplate |-> "insert", detachTemplate |-> "delete",
   listWorkspaceProviders |-> "load", setProviderEnabled |-> "put",
   getGuardrailPolicy |-> "load", saveGuardrailPolicy |-> "put", login |-> "login"]
Writing(r) == Verb[r.fn] \notin {"load", "check", "login"}

Idle == [fn |-> "none"]
Pending == <<"pending">>
OK(body) == <<"ok", body>>
Error == <<"error">>
NotFound == <<"notfound">>
Lost == <<"lost">>            \* served, and the answer lost: an error for the caller
Unauthorized == <<"unauthorized">>

(* owner: the components that wait for the answer; latest: its number is   *)
(* still that of the sequence counter; memo: what the caller's closure has *)
(* captured.  The token is read when the request is made.                  *)
Call(fn, table, row, value, owner, memo) ==
  [fn |-> fn, table |-> table, row |-> row, value |-> value, owner |-> owner, memo |-> memo,
   latest |-> TRUE, token |-> token, reply |-> Pending]
Load(fn, table, owner) == Call(fn, table, 0, 0, owner, 0)

FreeSlots(f) == {i \in DOMAIN f : f[i] = Idle}
Send(f, r) ==
  LET i == CHOOSE i \in FreeSlots(f) : \A j \in FreeSlots(f) : i <= j
  IN [f EXCEPT ![i] = r]
SendAll(f, rs) == FoldLeft(Send, f, rs)
Room(n) == Cardinality(FreeSlots(flight)) >= n

(* Components go: who is left waits, and a request only for reading that   *)
(* nobody waits for matters for its 401 alone.                             *)
Without(r, parts) == r.owner \ parts
Dropped(f, parts) == {i \in DOMAIN f : f[i] # Idle /\ Without(f[i], parts) = {} /\ ~Writing(f[i])}
Unmount(f, parts) ==
  [i \in DOMAIN f |-> IF f[i] = Idle \/ i \in Dropped(f, parts) THEN Idle
                        ELSE [f[i] EXCEPT !.owner = Without(f[i], parts)]]

(* They need no keeping when no session has expired and none can. *)
Straying(tokens) == {t \in tokens : expired > 0 \/ faults < MaxFaults}
Strayed(f, parts) == Straying({f[i].token : i \in Dropped(f, parts)})

(* ++seq.current: earlier loads by fns of the screen are not the latest. *)
Supersede(f, fns) ==
  [i \in DOMAIN f |-> IF f[i] # Idle /\ f[i].fn \in fns THEN [f[i] EXCEPT !.latest = FALSE] ELSE f[i]]

-----------------------------------------------------------------------------
(* The server.                                                             *)

(* Rows joined: a switch is of a provider, an attached template has the    *)
(* content of the library's; a provider without a switch is off.           *)
Content(t) ==
  CASE t[1] = "switches" ->
         [r \in RowOf(t) |-> IF db[Providers][r] = 0 THEN 0 ELSE IF db[t][r] = 0 THEN 2 ELSE db[t][r]]
    [] t[1] = "templates" -> [r \in RowOf(t) |-> IF db[t][r] = 0 THEN 0 ELSE db[Library][r]]
    [] OTHER -> db[t]
(* What filter leaves of a listing, in its order. *)
Keep(s, these) ==
  LET upto[n \in 0 .. Len(s)] ==
        IF n = 0 THEN <<>>
        ELSE IF s[n] \in these THEN Append(upto[n - 1], s[n]) ELSE upto[n - 1]
  IN upto[Len(s)]
(* What is there, by id. *)
Rows(content) ==
  LET there == Keep([r \in DOMAIN content |-> r], {r \in DOMAIN content : content[r] # 0})
  IN [n \in DOMAIN there |-> <<there[n], content[there[n]]>>]
Listing(t) == Rows(Content(t))
Candidates(t) == Rows([r \in RowOf(t) |-> IF db[t][r] = 0 THEN 1 ELSE 0])
PageOf(p) ==
  LET all == Listing(Workspaces)
      last == IF p * PageSize < Len(all) THEN p * PageSize ELSE Len(all)
  IN [rows |-> SubSeq(all, (p - 1) * PageSize + 1, last), total |-> Len(all)]

Gone(t) == t[2] # 0 /\ db[Workspaces][t[2]] = 0
Attached(row) == \E w \in AtFirst["workspaces"] : db[T("templates", w)][row] # 0

Rejects(r) ==
  \/ Gone(r.table)
  \/ Verb[r.fn] \in {"update", "delete"} /\ db[r.table][r.row] = 0
  \/ Verb[r.fn] = "insert" /\ db[r.table][r.row] # 0
  \/ r.fn = "attachTemplate" /\ db[Library][r.row] = 0
  \/ r.fn = "deleteTemplate" /\ Attached(r.row)
  \/ r.fn = "setProviderEnabled" /\ db[Providers][r.row] = 0
  \/ r.fn = "getWorkspace" /\ db[Workspaces][r.row] = 0

(* No id is given twice: it goes by the write. *)
Target(r) == IF Verb[r.fn] = "create" THEN r.value + 1 ELSE r.row
After(r) ==
  IF Writing(r)
    THEN [db EXCEPT ![r.table][Target(r)] = IF Verb[r.fn] = "delete" THEN 0 ELSE r.value]
    ELSE db
Body(r) ==
  CASE r.fn = "listWorkspaces" -> PageOf(r.row)
    [] r.fn = "getWorkspace" -> <<<<r.row, db[Workspaces][r.row]>>>>
    [] r.fn = "listMemberCandidates" -> Candidates(r.table)
    [] Verb[r.fn] = "load" /\ r.fn \notin {"listWorkspaces", "getWorkspace", "listMemberCandidates"} ->
         Listing(r.table)
    [] OTHER -> <<Target(r), r.value>>

Answer(i, reply) == flight' = [flight EXCEPT ![i].reply = reply]

(* A session that is none, or has expired, gets a 401; the login has none. *)
Serve(i) ==
  /\ flight[i] # Idle
  /\ flight[i].reply = Pending
  /\ LET r == flight[i]
     IN \/ /\ r.token <= expired /\ r.fn # "login"
           /\ Answer(i, Unauthorized)
           /\ UNCHANGED <<db, faults>>
        \/ /\ r.token > expired \/ r.fn = "login"
           /\ IF r.fn # "login" /\ Rejects(r)
                THEN Answer(i, IF r.fn = "getWorkspace" THEN NotFound ELSE Error) /\ UNCHANGED db
                ELSE Answer(i, OK(Body(r))) /\ db' = After(r)
           /\ UNCHANGED faults
        \/ /\ faults < MaxFaults
           /\ faults' = faults + 1
           /\ \/ Answer(i, Error) /\ UNCHANGED db
              \/ r.token > expired /\ Writing(r) /\ ~Rejects(r) /\ Answer(i, Lost) /\ db' = After(r)
  /\ UNCHANGED <<expired, token, strays, ui, refused, writes, moves, sessions>>

Expire ==
  /\ token > expired
  /\ faults < MaxFaults
  /\ expired' = token
  /\ faults' = faults + 1
  /\ UNCHANGED <<db, token, flight, strays, ui, refused, writes, moves, sessions>>

-----------------------------------------------------------------------------
(* The client's side of an answer.                                         *)

Answered(i, fns) ==
  /\ flight[i] # Idle
  /\ flight[i].fn \in fns
  /\ flight[i].reply \notin {Pending, Unauthorized}
Got(i) == flight[i].reply[1] = "ok"
Result(i) == flight[i].reply[2]
Awaits(i, part) == part \in flight[i].owner
Done(i) == [flight EXCEPT ![i] = Idle]

(* A step of the client that leaves the session and the bounds alone. *)
Client(screen, f) ==
  /\ ui' = screen
  /\ flight' = f
  /\ UNCHANGED <<serverVars, token, strays, refused, countVars>>

(* A write is answered after its screen has gone; the load that follows is *)
(* sent and shown by nobody.                                               *)
Unheeded(i) ==
  /\ flight' = Done(i)
  /\ strays' = strays \cup (IF Got(i) THEN Straying({token}) ELSE {})
  /\ UNCHANGED <<serverVars, token, ui, refused, countVars>>

(* A click that writes: its content is new. *)
Fresh == writes + 2
Click(screen, r) ==
  /\ writes < MaxWrites
  /\ Room(1)
  /\ ui' = screen
  /\ flight' = Send(flight, r)
  /\ writes' = writes + 1
  /\ UNCHANGED <<serverVars, token, strays, refused, moves, faults, sessions>>

(* The screen makes way for another one, which makes its first loads. *)
Parts == {"screen", "tab", "dialog"}
Mount(screen, f, loads) ==
  /\ ui' = screen
  /\ Cardinality(FreeSlots(Unmount(f, Parts))) >= Len(loads)
  /\ flight' = SendAll(Unmount(f, Parts), loads)
  /\ strays' = strays \cup Strayed(f, Parts)

LoginScreen == [at |-> "login", busy |-> {}]
HomeScreen == [at |-> "home"]

(* onUnauthorized: whatever session the request was of; and RequireAuth. *)
SignOut(f) ==
  IF ui.at = "login"
    THEN flight' = f /\ UNCHANGED <<ui, token, strays>>
    ELSE token' = 0 /\ Mount(LoginScreen, f, <<>>)

(* The default response interceptor on a 401.  Its caller has gone with    *)
(* the screen, or is a login.                                              *)
Unauthorised(i) ==
  /\ flight[i] # Idle
  /\ flight[i].reply = Unauthorized
  /\ SignOut(Done(i))
  /\ refused' = refused \cup {flight[i].token}
  /\ UNCHANGED <<serverVars, countVars>>

(* The same for a request that nobody waits for. *)
StrayUnauthorised(session) ==
  /\ session \in strays
  /\ session <= expired
  /\ IF ui.at = "login"
       THEN strays' = strays \ {session} /\ UNCHANGED <<ui, token, flight>>
       ELSE /\ token' = 0
            /\ ui' = LoginScreen
            /\ flight' = Unmount(flight, Parts)
            /\ strays' = (strays \ {session}) \cup Strayed(flight, Parts)
  /\ refused' = refused \cup {session}
  /\ UNCHANGED <<serverVars, countVars>>

SubmitLogin ==
  /\ ui.at = "login"
  /\ ui.busy = {}
  /\ sessions < MaxSessions
  /\ Room(1)
  /\ sessions' = sessions + 1
  /\ ui' = [ui EXCEPT !.busy = {"login"}]
  /\ flight' = Send(flight, Load("login", T("users", 0), {"screen"}))
  /\ UNCHANGED <<serverVars, token, strays, refused, writes, moves, faults>>

(* setToken, and the way to "/". *)
LoggedIn(i) ==
  /\ Answered(i, {"login"})
  /\ IF Got(i)
       THEN /\ token' = sessions + 1
            /\ Mount(HomeScreen, Done(i), <<>>)
       ELSE /\ ui' = [ui EXCEPT !.busy = {}]
            /\ flight' = Done(i)
            /\ UNCHANGED <<token, strays>>
  /\ UNCHANGED <<serverVars, refused, countVars>>

(* A link, which RequireAuth lets through with a token. *)
Navigate(screen, loads) ==
  /\ token # 0
  /\ ui.at # screen.at
  /\ moves < MaxMoves
  /\ moves' = moves + 1
  /\ Mount(screen, flight, loads)
  /\ UNCHANGED <<serverVars, token, refused, writes, faults, sessions>>

CallsInit ==
  /\ db = [t \in Table |-> [r \in RowOf(t) |-> IF r \in AtFirst[t[1]] THEN 1 ELSE 0]]
  /\ expired = 0
  /\ token = 1
  /\ flight = [i \in 1 .. MaxFlight |-> Idle]
  /\ strays = {}
  /\ ui = HomeScreen
  /\ refused = {}
  /\ \E s \in Spent : writes = s[1] /\ moves = s[2] /\ faults = s[3]
  /\ sessions = 0
=============================================================================
