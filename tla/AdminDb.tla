------------------------------ MODULE AdminDb ------------------------------
\* The tables of llm-db that the administration routes of llm-http read and
\* write, and the requests in flight over them.  A request is a frame: what is
\* asked and the statement it awaits next ("at").  Every handler action models
\* the code from one await to the next, with the statement that was awaited.
EXTENDS Integers, FiniteSets

CONSTANTS
    None, Gone,  \* an absent value; the row of an id that was deleted
    Slots,       \* requests in flight at most
    MaxRequests, \* bound: requests begun in a behaviour
    MaxFailures, \* bound: database calls that fail in a behaviour
    Inputs,      \* the requests that clients may send, as fresh frames
    Users, Workspaces, Slugs, Roles, Templates, Policies,
    Admins       \* users whose role is "admin"; no route changes a role

VARIABLES
    req,         \* [Slots -> the frame being handled, or None]
    begun,       \* requests begun so far
    failures,    \* failed database calls so far
    reply,       \* the reply sent by the last step, or None
    truths,      \* history: [Slots -> the claims that held at some time since the request began]
    registered,  \* the rows of users
    life,        \* [Workspaces -> "none", "live" or "deleted"]
    slug,        \* [Workspaces -> slug, or None]
    members,     \* rows <<user, workspace>> of user_workspaces
    roles,       \* rows <<user, workspace, role>> of user_role_workspaces
    templates,   \* [Templates -> "none", "there" or "deleted"]
    attached,    \* rows <<workspace, template>> of workspace_templates
    policy,      \* [Workspaces -> workspace_guardrail_policies row, or None]
    providers,   \* [provider ids -> row, None or Gone]
    bindings     \* rows <<workspace, provider, enabled>> of workspace_providers

ASSUME AdminDbAssumption ==
    /\ IsFiniteSet(Workspaces)
    /\ MaxRequests \in Nat /\ MaxFailures \in Nat
    /\ None \notin Slugs \cup Policies \cup Users \cup Workspaces
    /\ \A seen \in SUBSET (Users \X Workspaces) : seen # None
    /\ Admins \subseteq Users

tables == <<registered, life, slug, members, roles, templates, attached, policy,
            providers, bindings>>

\* A fresh frame; a request sets the fields its route reads.
Frame(op, at) ==
    [op |-> op, at |-> at, by |-> None, ws |-> None, user |-> None,
     roles |-> {}, item |-> None, body |-> None, saw |-> None, wrote |-> FALSE]

Await(s, at) == req' = [req EXCEPT ![s].at = at]

\* The frame goes on to another await after a statement that was committed.
AwaitWritten(s, at) == req' = [req EXCEPT ![s].at = at, ![s].wrote = TRUE]

\* The handler ends with a reply; wrote says whether the request changed a row.
Answer(s, code, wrote) ==
    /\ req' = [req EXCEPT ![s] = None]
    /\ reply' = [to |-> req[s], code |-> code, wrote |-> wrote, truths |-> truths[s]]

Refuse(s, code) == Answer(s, code, req[s].wrote)
Succeed(s, code) == Answer(s, code, TRUE)

Awaiting(s, at) == req[s] # None /\ req[s].at = at
Handling(s, ops, at) == Awaiting(s, at) /\ req[s].op \in ops

Live(w) == life[w] = "live"
Exists(p) == providers[p] \notin {None, Gone}
Binds(p) == \E b \in bindings : b[2] = p
=============================================================================
