--------------------------- MODULE MCAdminServer ---------------------------
\* AdminServer for TLC: one workspace with a member, two providers of one kind,
\* and the requests of an admin and of that member.
EXTENDS AdminServer, TLC

CONSTANTS boss, ann, bob, w1, w2, x1, x2, t1, t2, g1, p1, p2, p3, s1, s2

Ask(op, at, ws, user, item) ==
    [Frame(op, at) EXCEPT !.by = boss, !.ws = ws, !.user = user, !.item = item]
AskRoles(op, rs) == [Ask(op, "ws", w1, ann, None) EXCEPT !.roles = rs]
AskBody(op, at, item, body) == [Ask(op, at, None, None, item) EXCEPT !.body = body]
Patch(alias, base, key, on) == [alias |-> alias, base |-> base, key |-> key, on |-> on]
New(kind, alias, key, base) == [kind |-> kind, alias |-> alias, key |-> key, base |-> base]

MCMemberInputs ==
    {AskRoles("addMember", rs) : rs \in {{"dev"}, {"dev", "qa"}}}
      \cup {AskRoles("replaceRoles", rs) : rs \in {{"dev"}, {"qa"}}}
      \cup {AskRoles("removeMember", {})}
      \cup {[Ask("addMember", "ws", w1, bob, None) EXCEPT !.roles = {"qa"}],
            [Ask("view", "ws", w1, None, None) EXCEPT !.by = ann],
            [Ask("listMembers", "ws", w1, None, None) EXCEPT !.by = ann],
            Ask("listWorkspaces", "read", None, None, None),
            [Ask("myWorkspaces", "read", None, None, None) EXCEPT !.by = ann],
            [Ask("detach", "ws", w1, None, t1) EXCEPT !.by = ann],
            Ask("view", "ws", w1, None, None), Ask("register", "write", None, bob, None)}

MCWorkspaceInputs ==
    {Ask("createWorkspace", "write", None, None, x) : x \in {x1, x2}}
      \cup {Ask("patchWorkspace", "write", w1, None, x) : x \in {x2, None}}
      \cup {Ask(op, "write", None, None, t1) : op \in {"createTemplate", "updateTemplate", "deleteTemplate"}}
      \cup {Ask(op, "ws", w1, None, t1) : op \in {"attach", "detach"}}
      \cup {Ask("deleteWorkspace", "write", w1, None, None), Ask("putPolicy", "ws", w1, None, g1),
            [Ask("toggle", "ws", w1, None, p1) EXCEPT !.body = TRUE]}

MCProviderInputs ==
    {AskBody("addProvider", "name", None, New(k, a, "k1", None)) : k \in {"openai", "custom"}, a \in {"Main", "main"}}
      \cup {AskBody("addProvider", "name", None, New("ollama", "main", None, "h1"))}
      \cup {AskBody("updateProvider", "find", p1, b) :
              b \in {Patch("main", None, None, None), Patch("Main", None, None, FALSE), Patch(None, "h2", None, None)}}
      \cup {AskBody("rotateKey", "find", p1, Patch(None, None, "k2", None)),
            AskBody("deleteProvider", "find", p1, None),
            AskBody("check", "find", p1, New(None, None, None, "h2")),
            AskBody("check", "find", p1, New(None, None, "k2", "h2")),
            AskBody("checkNew", "resolve", None, New("custom", None, "k2", None))}

MCInputs == MCMemberInputs \cup MCWorkspaceInputs \cup MCProviderInputs

MCAlike(a, b) == a = b \/ {a, b} = {"Main", "main"}
MCUuidBefore(p, q) == p = p1 \/ q = p3
MCLocaleBefore(p, q) == p = p1 \/ q = p2
MCLife == (w1 :> "live") @@ (w2 :> "none")
MCSlug == (w1 :> x1) @@ (w2 :> None)
MCTemplates == (t1 :> "there") @@ (t2 :> "none")
MCPolicy == (w1 :> None) @@ (w2 :> None)
MCMembers == {<<ann, w1>>}
MCRoles == {<<ann, w1, "dev">>}
Old(alias, key) == [kind |-> "openai", alias |-> alias, key |-> key, base |-> "h1", on |-> TRUE,
                    stamp |-> [ms |-> 0, us |-> 0]]
MCProviders == (p1 :> Old("Main", "k1")) @@ (p2 :> Old("spare", "k0")) @@ (p3 :> None)
MCSymmetry == Permutations({s1, s2})
=============================================================================
