---------------------------- MODULE AdminServer ----------------------------
\* The administration side of llm-http: requests over one database, each handler
\* running from one await to the next, in any order.
EXTENDS MemberAdmin, WorkspaceAdmin, ProviderAdmin

CONSTANTS InitRegistered, InitLife, InitSlug, InitMembers, InitRoles, InitTemplates,
          InitAttached, InitPolicy, InitProviders, InitBindings, InitCatalogs

vars == <<req, begun, failures, reply, truths, tables, memberVars, providerVars>>

Ops == MemberOps \cup WorkspaceOps \cup ListOps \cup DirectOps \cup ProviderOps

\* The first statement that a route awaits.
Entry(op) ==
    CASE op \in MemberOps \cup WorkspaceOps -> "ws"
      [] op \in ListOps \ {"listMembers"} -> "read"
      [] op \in DirectOps -> "write"
      [] op = "addProvider" -> "name"
      [] op = "checkNew" -> "resolve"
      [] OTHER -> "find"

\* What the schema of a route leaves of its input.
Meant(f) ==
    /\ f.op # "register" => f.by \in Users
    /\ f.op \in MemberOps \cup {"register"} => f.user \in Users
    /\ f.op \in {"addMember", "replaceRoles"} => f.roles # {}
    /\ f.op \in MemberOps \cup WorkspaceOps \cup {"patchWorkspace", "deleteWorkspace"} => f.ws \in Workspaces
    /\ f.op = "createWorkspace" => f.ws = None
    /\ f.op = "addProvider" =>
         /\ f.item = None
         /\ f.body \in [kind : Kinds, alias : Aliases, key : Keys \cup {None}, base : Hosts \cup {None}]
    /\ f.op \in ProviderOps \ {"addProvider", "checkNew"} => f.item \in ProviderIds
    /\ f.op \in {"updateProvider", "rotateKey"} =>
         f.body \in [alias : Aliases \cup {None}, base : Hosts \cup {None}, key : Keys \cup {None},
                     on : BOOLEAN \cup {None}]

Places ==
    {"ws", "user", "join", "seat", "leave", "clear", "clearing", "grant", "member", "exists", "write",
     "read", "again", "name", "catalog", "insert", "find", "resolve", "probed"}

\* What becomes of a request while it is handled.
Frames(f) ==
    [op : {f.op}, at : Places, by : {f.by}, ws : {f.ws}, user : {f.user}, roles : {f.roles},
     item : {f.item}, body : {f.body}, saw : {None} \cup (SUBSET (Users \X Workspaces)) \cup Row,
     wrote : BOOLEAN]

ASSUME InputsAssumption ==
    \A f \in Inputs :
        /\ f.op \in Ops /\ f.roles \subseteq Roles /\ Meant(f)
        /\ f \in Frames(f) /\ None \notin Frames(f)
        /\ f.at = Entry(f.op) /\ f.saw = None /\ ~f.wrote

ASSUME InitAssumption ==
    /\ InitMembers \subseteq Users \X Workspaces /\ InitRoles \subseteq Users \X Workspaces \X Roles
    /\ \A m \in InitMembers : \E r \in Roles : <<m[1], m[2], r>> \in InitRoles
    /\ InitProviders \in [ProviderIds -> Row \cup {None, Gone}] /\ InitRegistered \subseteq Users
    /\ \A p \in ProviderIds : InitProviders[p] \in {None, Gone} \/ InitProviders[p].kind \in InitCatalogs

\* What a reply claims of the database, by its code.
Claim(f, code) ==
    CASE code = "workspace_not_found" -> f.ws # None /\ ~(Live(f.ws) /\
                (f.op \in Views /\ f.by \notin Admins => <<f.by, f.ws>> \in members))
      [] code = "user_not_found" -> f.user \notin registered
      [] code = "username_taken" -> f.user \in registered
      [] code = "member_exists" -> <<f.user, f.ws>> \in members
      [] code = "member_not_found" -> <<f.user, f.ws>> \notin members
      [] code = "slug_taken" -> SlugTaken(f.ws, f.item)
      [] code = "template_not_found" ->
           IF f.op = "detach" THEN <<f.ws, f.item>> \notin attached ELSE templates[f.item] # "there"
      [] code = "template_attached" -> <<f.ws, f.item>> \in attached
      [] code = "template_in_use" -> \E x \in attached : x[2] = f.item
      [] code = "provider_not_found" -> ~Exists(f.item)
      [] code = "provider_in_use" -> Binds(f.item)
      [] code = "duplicate_name" -> Namesakes(f.body.alias) \ {f.item} # {}
      [] code = "workspace_seen" -> Live(f.ws)
      [] code = "seen_torn" -> f.saw # None /\ ~(f.saw \subseteq Visible(f))
      [] code = "member_seen" -> f.by \in Admins \/ <<f.by, f.ws>> \in members

\* The claims that a handler of op may make.
CodesOf(op) ==
    CASE op = "addMember" -> {"workspace_not_found", "user_not_found", "member_exists"}
      [] op \in {"replaceRoles", "removeMember"} -> {"workspace_not_found", "member_not_found"}
      [] op = "register" -> {"username_taken"}
      [] op = "createWorkspace" -> {"slug_taken"}
      [] op = "patchWorkspace" -> {"workspace_not_found", "slug_taken"}
      [] op \in {"deleteWorkspace", "putPolicy"} -> {"workspace_not_found"}
      [] op = "view" -> {"workspace_not_found", "workspace_seen", "member_seen"}
      [] op = "listMembers" -> {"workspace_not_found", "workspace_seen", "member_seen", "seen_torn"}
      [] op \in {"myWorkspaces", "listWorkspaces"} -> {"seen_torn"}
      [] op = "updateTemplate" -> {"template_not_found"}
      [] op = "deleteTemplate" -> {"template_not_found", "template_in_use"}
      [] op = "attach" -> {"workspace_not_found", "template_not_found", "template_attached"}
      [] op = "detach" -> {"workspace_not_found", "template_not_found"}
      [] op = "toggle" -> {"workspace_not_found", "provider_not_found"}
      [] op = "addProvider" -> {"duplicate_name"}
      [] op = "updateProvider" -> {"provider_not_found", "duplicate_name"}
      [] op \in {"rotateKey", "check"} -> {"provider_not_found"}
      [] op = "deleteProvider" -> {"provider_not_found", "provider_in_use"}
      [] OTHER -> {}

TrueOf(f) == {c \in CodesOf(f.op) : Claim(f, c)}

Init ==
    /\ req = [s \in Slots |-> None] /\ begun = 0 /\ failures = 0 /\ reply = None
    /\ truths = [s \in Slots |-> {}]
    /\ registered = InitRegistered /\ life = InitLife /\ slug = InitSlug
    /\ members = InitMembers /\ roles = InitRoles
    /\ templates = InitTemplates /\ attached = InitAttached /\ policy = InitPolicy
    /\ providers = InitProviders /\ bindings = InitBindings
    /\ catalogs = InitCatalogs
    /\ MemberInit
    /\ claims = [s \in Slots |-> {}] /\ probes = [s \in Slots |-> None]
    /\ pairs = {PairOf(providers[p]) : p \in Rows}

\* A request arrives and passes requireAuth, which reads the caller's role; the
\* routes that change something are for admins, but for registering.
Allowed(f) == f.op \in Views \cup ListOps \cup {"register"} \/ f.by \in Admins

\* Bound: an id is left for the row that each create in flight may insert.
Spare(op) ==
    CASE op = "createWorkspace" -> {w \in Workspaces : life[w] = "none"}
      [] op = "createTemplate" -> {t \in Templates : templates[t] = "none"}
      [] op = "addProvider" -> {p \in ProviderIds : providers[p] = None}
HasRoom(op) ==
    op \in {"createWorkspace", "createTemplate", "addProvider"} =>
        Cardinality({s \in Slots : req[s] # None /\ req[s].op = op}) < Cardinality(Spare(op))

Begin(s) ==
    /\ req[s] = None /\ begun < MaxRequests
    /\ \E f \in {g \in Inputs : HasRoom(g.op)} :
         IF Allowed(f)
           THEN req' = [req EXCEPT ![s] = f] /\ reply' = None
           ELSE /\ reply' = [to |-> f, code |-> "role_required", wrote |-> FALSE, truths |-> {}]
                /\ UNCHANGED req
    /\ begun' = begun + 1
    /\ UNCHANGED failures
    /\ UNCHANGED <<tables, memberVars, providerVars>>

Serve(s) ==
    \/ MemberStep(s) /\ UNCHANGED providerVars
    \/ WorkspaceStep(s) /\ UNCHANGED <<memberVars, providerVars>>
    \/ ProviderStep(s) /\ UNCHANGED memberVars

\* The awaited database call rejects; next(err) answers.
Fail(s) ==
    /\ failures < MaxFailures
    /\ failures' = failures + 1
    /\ UNCHANGED begun
    /\ \/ MemberFails(s) /\ UNCHANGED providerVars
       \/ WorkspaceFails(s) /\ UNCHANGED <<memberVars, providerVars>>
       \/ ProviderFails(s) /\ UNCHANGED memberVars

\* Every request is served and no more arrive.
Rest ==
    /\ begun = MaxRequests /\ \A s \in Slots : req[s] = None
    /\ reply' = None
    /\ UNCHANGED <<req, begun, failures, tables, memberVars, providerVars>>

Remember == truths' = [s \in Slots |-> IF req'[s] = None THEN {} ELSE truths[s] \cup (TrueOf(req[s]))']

Next ==
    /\ \/ \E s \in Slots : Begin(s)
       \/ \E s \in Slots : Serve(s) /\ UNCHANGED <<begun, failures>>
       \/ \E s \in Slots : Fail(s)
       \/ Rest
    /\ Remember

Spec == Init /\ [][Next]_vars

----------------------------------------------------------------------------
\* Properties

\* Types; and a provider's kind has its catalog row (getOrCreateCatalog runs first).
TypeOK ==
    /\ \A s \in Slots : req[s] # None => req[s].op \in Ops /\ req[s].wrote \in BOOLEAN
    /\ begun \in 0..MaxRequests /\ failures \in 0..MaxFailures
    /\ registered \subseteq Users
    /\ members \subseteq Users \X Workspaces
    /\ roles \subseteq Users \X Workspaces \X Roles
    /\ \A p \in Rows : providers[p] \in Row /\ providers[p].kind \in catalogs

\* Whatever else runs between a handler's awaits, what its 404 or 409 says of the
\* database was so at some time while the request was served; who is shown a
\* workspace was a member and the workspace was alive at some time meanwhile; and a
\* list shows a member without roles, or more workspaces than it counts, only if a
\* row it shows was removed while it was read.
RepliesAreTrue ==
    reply # None =>
        /\ reply.code \in CodesOf(reply.to.op) => reply.code \in reply.truths
        /\ reply.code = "seen" /\ reply.to.op \in Views => {"workspace_seen", "member_seen"} \subseteq reply.truths

\* A request that is refused or fails has changed nothing, wherever in its handler
\* a call failed or another request got in between; but for one whose last read,
\* for the reply, fails after its write.
RefusedChangesNothing ==
    reply # None /\ reply.wrote =>
        \/ reply.code = "done"
        \/ reply.code = "failed" /\ reply.to.at = "again"

\* A member is never left without a role, however adding, replacing and removing
\* run into each other (each route takes at least one role).
MembersHaveRoles ==
    \A m \in members : \E r \in Roles : <<m[1], m[2], r>> \in roles

\* A check sends the key of a stored provider only to a base URL that was stored
\* with that key (resolveCheckTarget).
StoredKeyStaysHome ==
    \A s \in Slots : probes[s] # None /\ probes[s].stored => <<probes[s].key, probes[s].base>> \in pairs

\* The key and base URL that the gateway's configuration holds for a kind are those of
\* the row that a turn is billed to, or of another enabled row of the kind that was
\* stamped in the same millisecond: only there may the sort in JavaScript, to the
\* millisecond and by localeCompare, and the ORDER BY, to the microsecond and by uuid,
\* disagree.
BilledRowIsLoaded ==
    \A k \in DOMAIN LoadedConfig :
        LET billed == ActiveProvider(k)
        IN  \E p \in Enabled(k) : /\ providers[p].stamp.ms = providers[billed].stamp.ms
                                 /\ LoadedConfig[k] = Served(p)
=============================================================================
