-------------------------- MODULE WorkspaceAdmin --------------------------
\* The routes for users, workspaces, prompt templates, workspace templates,
\* workspace providers and guardrail policies, over their repositories.  Each of
\* their writes is one statement of its own.
EXTENDS AdminDb

ListOps == {"listMembers", "myWorkspaces", "listWorkspaces"}
WorkspaceOps == {"view", "listMembers", "attach", "detach", "toggle", "putPolicy"}
DirectOps == {"register", "createWorkspace", "patchWorkspace", "deleteWorkspace",
              "createTemplate", "updateTemplate", "deleteTemplate"}

\* One table gets a new value, the others keep theirs.
OnlyUsers == UNCHANGED <<life, slug, members, roles, templates, attached, policy, providers, bindings>>
OnlyWorkspaces == UNCHANGED <<registered, members, roles, templates, attached, policy, providers, bindings>>
OnlyTemplates == UNCHANGED <<registered, life, slug, members, roles, attached, policy, providers, bindings>>
OnlyAttached == UNCHANGED <<registered, life, slug, members, roles, templates, policy, providers, bindings>>
OnlyPolicy == UNCHANGED <<registered, life, slug, members, roles, templates, attached, providers, bindings>>
OnlyBindings == UNCHANGED <<registered, life, slug, members, roles, templates, attached, policy, providers>>

\* POST /auth/register, after the password is hashed.
Register(s) ==
    /\ Handling(s, {"register"}, "write")
    /\ IF req[s].user \in registered
         THEN Refuse(s, "username_taken") /\ UNCHANGED tables
         ELSE registered' = registered \cup {req[s].user} /\ Succeed(s, "done") /\ OnlyUsers

\* The slug is unique over all rows, those of deleted workspaces included.
SlugTaken(w, x) == \E v \in Workspaces \ {w} : slug[v] = x

CreateWorkspace(s) ==
    /\ Handling(s, {"createWorkspace"}, "write")
    /\ IF SlugTaken(None, req[s].item)
         THEN Refuse(s, "slug_taken") /\ UNCHANGED tables
         ELSE \E w \in Workspaces :
                /\ life[w] = "none"      \* a new id
                /\ life' = [life EXCEPT ![w] = "live"]
                /\ slug' = [slug EXCEPT ![w] = req[s].item]
                /\ Succeed(s, "done")
                /\ OnlyWorkspaces

\* One UPDATE of a row that is not deleted; a patch may leave the slug alone.
PatchWorkspace(s) ==
    /\ Handling(s, {"patchWorkspace"}, "write")
    /\ LET w == req[s].ws
       IN  CASE ~Live(w) -> Refuse(s, "workspace_not_found") /\ UNCHANGED tables
             [] Live(w) /\ req[s].item # None /\ SlugTaken(w, req[s].item) ->
                  Refuse(s, "slug_taken") /\ UNCHANGED tables
             [] OTHER ->
                  /\ slug' = [slug EXCEPT ![w] = IF req[s].item = None THEN @ ELSE req[s].item]
                  /\ Succeed(s, "done")
                  /\ UNCHANGED life
                  /\ OnlyWorkspaces

DeleteWorkspace(s) ==
    /\ Handling(s, {"deleteWorkspace"}, "write")
    /\ IF Live(req[s].ws)
         THEN life' = [life EXCEPT ![req[s].ws] = "deleted"] /\ UNCHANGED slug
              /\ Succeed(s, "done") /\ OnlyWorkspaces
         ELSE Refuse(s, "workspace_not_found") /\ UNCHANGED tables

CreateTemplate(s) ==
    /\ Handling(s, {"createTemplate"}, "write")
    /\ \E t \in Templates : templates[t] = "none" /\ templates' = [templates EXCEPT ![t] = "there"]
    /\ Succeed(s, "done")
    /\ OnlyTemplates

UpdateTemplate(s) ==
    /\ Handling(s, {"updateTemplate"}, "write")
    /\ IF templates[req[s].item] = "there"
         THEN Succeed(s, "done")
         ELSE Refuse(s, "template_not_found")
    /\ UNCHANGED tables

\* workspace_templates.template_id is ON DELETE RESTRICT.
DeleteTemplate(s) ==
    /\ Handling(s, {"deleteTemplate"}, "write")
    /\ LET t == req[s].item
       IN  CASE templates[t] # "there" -> Refuse(s, "template_not_found") /\ UNCHANGED tables
             [] templates[t] = "there" /\ \E x \in attached : x[2] = t ->
                  Refuse(s, "template_in_use") /\ UNCHANGED tables
             [] OTHER -> templates' = [templates EXCEPT ![t] = "deleted"] /\ Succeed(s, "done") /\ OnlyTemplates

\* GET routes for the members of a workspace and for admins
Views == {"view", "listMembers"}

\* The nested routes first look for the workspace.
FindWorkspace(s) ==
    /\ Handling(s, WorkspaceOps, "ws")
    /\ IF Live(req[s].ws)
         THEN /\ Await(s, CASE req[s].op \in Views /\ req[s].by \notin Admins -> "member"
                            [] req[s].op \in Views /\ req[s].by \in Admins -> "read"
                            [] req[s].op \in {"attach", "toggle"} -> "exists"
                            [] req[s].op \in {"detach", "putPolicy"} -> "write")
              /\ reply' = None
         ELSE Refuse(s, "workspace_not_found")
    /\ UNCHANGED tables

\* A GET by someone who is not an admin; isMember does not look at the workspace.
SeeMember(s) ==
    /\ Handling(s, Views, "member")
    /\ IF <<req[s].by, req[s].ws>> \in members
         THEN Await(s, "read") /\ reply' = None
         ELSE Refuse(s, "workspace_not_found")
    /\ UNCHANGED tables

View(s) ==
    /\ Handling(s, {"view"}, "read")
    /\ Refuse(s, "seen")
    /\ UNCHANGED tables

\* The lists take two queries: the memberships or workspaces, then their roles or
\* their number.
Visible(f) ==
    CASE f.op = "listMembers" -> {m \in members : m[2] = f.ws}
      [] f.op = "listWorkspaces" /\ f.by \in Admins -> {<<f.by, w>> : w \in {v \in Workspaces : Live(v)}}
      [] OTHER -> {m \in members : m[1] = f.by /\ Live(m[2])}

ListFirst(s) ==
    /\ Handling(s, ListOps, "read")
    /\ IF Visible(req[s]) = {}
         THEN Refuse(s, "seen")
         ELSE /\ req' = [req EXCEPT ![s].saw = Visible(req[s]), ![s].at = "again"]
              /\ reply' = None
    /\ UNCHANGED tables

\* Torn: a row of the first query lacks what the second one asks.
ListSecond(s) ==
    /\ Handling(s, ListOps, "again")
    /\ LET seen == req[s].saw
           torn == IF req[s].op = "listWorkspaces"
                     THEN Cardinality(Visible(req[s])) < Cardinality(seen)
                     ELSE \E m \in seen : ~\E r \in Roles : <<m[1], m[2], r>> \in roles
       IN  Refuse(s, IF torn THEN "seen_torn" ELSE "seen")
    /\ UNCHANGED tables

\* templateExists and providerExists
SeeItem(s) ==
    /\ Handling(s, {"attach", "toggle"}, "exists")
    /\ LET there == IF req[s].op = "attach" THEN templates[req[s].item] = "there"
                                            ELSE Exists(req[s].item)
       IN  IF there THEN Await(s, "write") /\ reply' = None
           ELSE Refuse(s, IF req[s].op = "attach" THEN "template_not_found"
                                                  ELSE "provider_not_found")
    /\ UNCHANGED tables

\* A template deleted since SeeItem violates the foreign key.
Attach(s) ==
    /\ Handling(s, {"attach"}, "write")
    /\ LET row == <<req[s].ws, req[s].item>>
       IN  CASE row \in attached -> Refuse(s, "template_attached") /\ UNCHANGED tables
             [] row \notin attached /\ templates[req[s].item] # "there" -> Refuse(s, "failed") /\ UNCHANGED tables
             [] OTHER -> attached' = attached \cup {row} /\ Succeed(s, "done") /\ OnlyAttached

Detach(s) ==
    /\ Handling(s, {"detach"}, "write")
    /\ LET row == <<req[s].ws, req[s].item>>
       IN  IF row \in attached
             THEN attached' = attached \ {row} /\ Succeed(s, "done") /\ OnlyAttached
             ELSE Refuse(s, "template_not_found") /\ UNCHANGED tables

\* An upsert; a provider deleted since SeeItem violates the foreign key.
Toggle(s) ==
    /\ Handling(s, {"toggle"}, "write")
    /\ LET w == req[s].ws
           p == req[s].item
       IN  IF ~Exists(p)
             THEN Refuse(s, "failed") /\ UNCHANGED tables
             ELSE /\ bindings' = {b \in bindings : <<b[1], b[2]>> # <<w, p>>}
                                    \cup {<<w, p, req[s].body>>}
                  /\ Succeed(s, "done")
                  /\ OnlyBindings

\* PUT guardrails: an upsert, then the policy is read for the reply.
PutPolicy(s) ==
    /\ Handling(s, {"putPolicy"}, "write")
    /\ policy' = [policy EXCEPT ![req[s].ws] = req[s].item]
    /\ AwaitWritten(s, "again")
    /\ reply' = None
    /\ OnlyPolicy

ReadPolicy(s) ==
    /\ Handling(s, {"putPolicy"}, "again")
    /\ Succeed(s, "done")
    /\ UNCHANGED tables

WorkspaceFails(s) ==
    /\ req[s] # None /\ req[s].op \in WorkspaceOps \cup DirectOps \cup ListOps
    /\ Refuse(s, "failed")
    /\ UNCHANGED tables

WorkspaceStep(s) ==
    \/ Register(s) \/ CreateWorkspace(s) \/ PatchWorkspace(s) \/ DeleteWorkspace(s)
    \/ CreateTemplate(s) \/ UpdateTemplate(s) \/ DeleteTemplate(s)
    \/ FindWorkspace(s) \/ SeeMember(s) \/ View(s) \/ ListFirst(s) \/ ListSecond(s) \/ SeeItem(s)
    \/ Attach(s) \/ Detach(s) \/ Toggle(s) \/ PutPolicy(s) \/ ReadPolicy(s)
=============================================================================
