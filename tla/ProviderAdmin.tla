--------------------------- MODULE ProviderAdmin ---------------------------
\* The /providers routes: OrgProvidersService over DrizzleProvidersRepository,
\* the connection check, and the two readers of the providers table that must
\* agree on the row that serves a kind: the gateway's configuration source and
\* the resolver that says which provider a turn is billed to.
EXTENDS AdminDb

CONSTANTS
    ProviderIds, Kinds, Aliases, Keys, Hosts,
    Alike(_, _),   \* the aliases are equal but for case and blanks
    UuidBefore(_, _),   \* the database's order of ids
    LocaleBefore(_, _), \* the order localeCompare puts them in
    Micros,        \* microseconds within a millisecond that are told apart
    LoadedKinds,   \* the kinds the gateway has an adapter for
    KeylessKind,   \* "ollama": addressed by its base URL only
    NeedsHost,     \* the kinds without a public host
    NeedsKey,      \* the kinds that are checked with an authenticated request
    Readable       \* the keys this server's vault decrypts

ASSUME ProviderAssumption ==
    /\ None \notin ProviderIds \cup Aliases \cup Keys \cup Hosts
    /\ \A a \in Aliases : Alike(a, a)

ASSUME StampAssumption == 0 \in Micros /\ Micros \subseteq 0..999

ASSUME OrderAssumption ==
    \A S \in (SUBSET ProviderIds) \ {{}} :
        /\ \E p \in S : \A q \in S \ {p} : UuidBefore(p, q)
        /\ \E p \in S : \A q \in S \ {p} : LocaleBefore(p, q)

VARIABLES
    catalogs,  \* kinds with a row in provider_catalogs
    claims,    \* [Slots -> catalog rows inserted and not yet committed]
    pairs,     \* history: every <<key, base URL>> an enabled or disabled row ever had
    probes     \* [Slots -> the request a check has sent, or None]

providerVars == <<catalogs, claims, pairs, probes>>

ProviderOps == {"addProvider", "updateProvider", "rotateKey", "deleteProvider", "check", "checkNew"}

Row == [kind : Kinds, alias : Aliases, key : Keys \cup {None},
        base : Hosts \cup {None}, on : BOOLEAN, stamp : [ms : Nat, us : Micros]]

Rows == {p \in ProviderIds : Exists(p)}
OnlyProviders ==
    UNCHANGED <<registered, life, slug, members, roles, templates, attached, policy, bindings>>

\* updatedAt of a write: in the millisecond of one before it, in the next, or, since
\* an insert takes the database's clock and an update the server's, before them.  The
\* database's has microseconds, a Date of JavaScript has none.
Stamps(micros) ==
    LET before == {providers[p].stamp.ms : p \in Rows}
    IN  [ms : {0} \cup before \cup {n + 1 : n \in before}, us : micros]

PairOf(row) == <<row.key, row.base>>

Save(p, row) ==
    /\ providers' = [providers EXCEPT ![p] = row]
    /\ pairs' = pairs \cup {PairOf(row)}
    /\ OnlyProviders

\* findByOrgAndName compares trimmed lower-case aliases, of all kinds; LIMIT 1
\* returns any of the rows it finds.
Namesakes(alias) == {p \in Rows : Alike(providers[p].alias, alias)}

SeeName(s) ==
    /\ Handling(s, {"addProvider"}, "name")
    /\ IF Namesakes(req[s].body.alias) # {}
         THEN Refuse(s, "duplicate_name")
         ELSE Await(s, "catalog") /\ reply' = None
    /\ UNCHANGED <<tables, providerVars>>

\* getOrCreateCatalog: INSERT ... ON CONFLICT DO NOTHING waits for a transaction
\* that inserts the same kind; the SELECT after it sees the row by then.
GetCatalog(s) ==
    /\ Handling(s, {"addProvider"}, "catalog")
    /\ LET kind == req[s].body.kind
       IN  /\ \A t \in Slots \ {s} : kind \notin claims[t]
           /\ claims' = [claims EXCEPT ![s] = {kind} \ catalogs]
    /\ Await(s, "insert")
    /\ reply' = None
    /\ UNCHANGED <<tables, catalogs, pairs, probes>>

\* The unique constraint compares the catalog and the alias as it is spelled.
Clashes(p, kind, alias) ==
    \E q \in Rows \ {p} : providers[q].kind = kind /\ providers[q].alias = alias

InsertProvider(s) ==
    /\ Handling(s, {"addProvider"}, "insert")
    /\ claims' = [claims EXCEPT ![s] = {}]
    /\ UNCHANGED probes
    /\ LET new == req[s].body
       IN  IF Clashes(None, new.kind, new.alias)
             THEN /\ Refuse(s, "duplicate_name")
                  /\ UNCHANGED <<tables, catalogs, pairs>>
             ELSE \E p \in ProviderIds, n \in Stamps(Micros) :
                    /\ providers[p] = None
                    /\ Save(p, [kind |-> new.kind, alias |-> new.alias, key |-> new.key,
                                base |-> new.base, on |-> TRUE, stamp |-> n])
                    /\ catalogs' = catalogs \cup claims[s]
                    /\ Succeed(s, "done")

\* update, rotateKey, delete and check of a stored provider read its row first.
Find(s) ==
    /\ Handling(s, ProviderOps \ {"addProvider", "checkNew"}, "find")
    /\ LET p == req[s].item
           row == providers[p]
           next == CASE req[s].op = "check" -> "resolve"
                     [] req[s].op = "updateProvider" /\ req[s].body.alias \notin {None, row.alias} -> "name"
                     [] OTHER -> "write"
       IN  IF Exists(p)
             THEN /\ req' = [req EXCEPT ![s].at = next, ![s].saw = row]
                  /\ reply' = None
             ELSE Refuse(s, "provider_not_found")
    /\ UNCHANGED <<tables, providerVars>>

\* Mutant: the row itself is a clash.
SeeOtherNameOrOwn(s) ==
    /\ Handling(s, {"updateProvider"}, "name")
    /\ IF Namesakes(req[s].body.alias) # {}
         THEN Refuse(s, "duplicate_name")
         ELSE Await(s, "write") /\ reply' = None
    /\ UNCHANGED <<tables, providerVars>>

\* A clash is any other row than the one to be renamed.
SeeOtherName(s) ==
    /\ Handling(s, {"updateProvider"}, "name")
    /\ LET found == Namesakes(req[s].body.alias)
       IN  \/ /\ found \subseteq {req[s].item} \/ req[s].item \in found
              /\ Await(s, "write")
              /\ reply' = None
           \/ /\ found \ {req[s].item} # {}
              /\ Refuse(s, "duplicate_name")
    /\ UNCHANGED <<tables, providerVars>>

Patched(row, patch) ==
    [row EXCEPT !.alias = IF patch.alias = None THEN @ ELSE patch.alias,
                !.base  = IF patch.base  = None THEN @ ELSE patch.base,
                !.key   = IF patch.key   = None THEN @ ELSE patch.key,
                !.on    = IF patch.on    = None THEN @ ELSE patch.on]

\* repo.update: one UPDATE of whatever the row is by now ...
UpdateProvider(s) ==
    /\ Handling(s, {"updateProvider", "rotateKey"}, "write")
    /\ LET p == req[s].item
           patch == req[s].body
       IN  CASE ~Exists(p) -> Refuse(s, "failed") /\ UNCHANGED <<tables, pairs>>
             [] Exists(p) /\ patch.alias # None /\ Clashes(p, providers[p].kind, patch.alias) ->
                  Refuse(s, "duplicate_name") /\ UNCHANGED <<tables, pairs>>
             [] OTHER ->
                  /\ \E n \in Stamps({0}) : Save(p, [Patched(providers[p], patch) EXCEPT !.stamp = n])
                  /\ AwaitWritten(s, "again")
                  /\ reply' = None
    /\ UNCHANGED <<catalogs, claims, probes>>

\* ... and the row is read again for the reply and the audit.
FindAgain(s) ==
    /\ Handling(s, {"updateProvider", "rotateKey"}, "again")
    /\ IF Exists(req[s].item) THEN Succeed(s, "done") ELSE Refuse(s, "failed")
    /\ UNCHANGED <<tables, providerVars>>

\* workspace_providers.provider_id is ON DELETE RESTRICT.
DeleteProvider(s) ==
    /\ Handling(s, {"deleteProvider"}, "write")
    /\ LET p == req[s].item
       IN  CASE ~Exists(p) -> Refuse(s, "failed") /\ UNCHANGED tables
             [] Exists(p) /\ Binds(p) -> Refuse(s, "provider_in_use") /\ UNCHANGED tables
             [] OTHER -> /\ providers' = [providers EXCEPT ![p] = Gone]
                         /\ OnlyProviders
                         /\ Succeed(s, "done")
    /\ UNCHANGED providerVars

\* Mutant: the body's base URL always counts.
CheckTargetOverridden(row, body) ==
    IF row = None
      THEN [kind |-> body.kind, key |-> body.key, stored |-> FALSE, base |-> body.base]
      ELSE LET stored == body.key = None /\ row.key # None
           IN  [kind |-> row.kind, key |-> IF stored THEN row.key ELSE body.key, stored |-> stored,
                base |-> IF body.base = None THEN row.base ELSE body.base]

\* resolveCheckTarget: a stored key goes to the stored host, whatever the body
\* says; a provider that is not stored yet is checked as the body describes it.
CheckTarget(row, body) ==
    IF row = None
      THEN [kind |-> body.kind, key |-> body.key, stored |-> FALSE, base |-> body.base]
      ELSE LET stored == body.key = None /\ row.key # None
           IN  [kind |-> row.kind, key |-> IF stored THEN row.key ELSE body.key, stored |-> stored,
                base |-> IF stored \/ body.base = None THEN row.base ELSE body.base]

\* buildProbe: what a check of this kind cannot do without.
Probes(target) ==
    /\ target.kind \in NeedsHost => target.base # None
    /\ target.kind \in NeedsKey => target.key # None

Resolve(s) ==
    /\ Handling(s, {"check", "checkNew"}, "resolve")
    /\ LET target == CheckTarget(req[s].saw, req[s].body)
       IN  IF (target.stored => target.key \in Readable) /\ Probes(target)
             THEN probes' = [probes EXCEPT ![s] = target] /\ Await(s, "probed") /\ reply' = None
             ELSE Refuse(s, "checked") /\ UNCHANGED probes
    /\ UNCHANGED <<tables, catalogs, claims, pairs>>

\* The provider answers, the request times out or the network fails; checkConnection
\* turns each into a reply.
Probed(s) ==
    /\ Handling(s, {"check", "checkNew"}, "probed")
    /\ probes' = [probes EXCEPT ![s] = None]
    /\ Refuse(s, "checked")
    /\ UNCHANGED <<tables, catalogs, claims, pairs>>

ProviderFails(s) ==
    /\ req[s] # None /\ req[s].op \in ProviderOps /\ req[s].at # "probed"
    /\ claims' = [claims EXCEPT ![s] = {}]
    /\ Refuse(s, "failed")
    /\ UNCHANGED <<tables, catalogs, pairs, probes>>

ProviderStep(s) ==
    \/ SeeName(s) \/ GetCatalog(s) \/ InsertProvider(s)
    \/ Find(s) \/ SeeOtherName(s) \/ UpdateProvider(s) \/ FindAgain(s)
    \/ DeleteProvider(s) \/ Resolve(s) \/ Probed(s)

----------------------------------------------------------------------------
\* The readers.

Enabled(k) == {p \in Rows : providers[p].on /\ providers[p].kind = k}

\* updatedAt.getTime() has milliseconds; ties go by localeCompare.
Newer(p, q) ==
    LET a == providers[p].stamp
        b == providers[q].stamp
    IN  a.ms > b.ms \/ (a.ms = b.ms /\ LocaleBefore(p, q))

\* mapRowsToProviderConfig: per kind the first of the sorted rows, skipped if it
\* lacks what the kind needs.
Winner(k) == {p \in Enabled(k) : \A q \in Enabled(k) \ {p} : Newer(p, q)}

Loads(p) ==
    IF providers[p].kind = KeylessKind THEN providers[p].base # None
                                       ELSE providers[p].key \in Readable

\* What the gateway is configured with for a row.
Served(p) ==
    [key |-> IF providers[p].kind = KeylessKind THEN None ELSE providers[p].key,
     base |-> providers[p].base]

LoadedConfig ==
    [k \in {j \in LoadedKinds : \E p \in Winner(j) : Loads(p)} |->
        Served(CHOOSE p \in Winner(k) : TRUE)]

\* The database's order has microseconds; ties go by the order of uuids.
SortsBefore(p, q) ==
    LET a == providers[p].stamp
        b == providers[q].stamp
    IN  \/ a.ms > b.ms
        \/ a.ms = b.ms /\ a.us > b.us
        \/ a = b /\ UuidBefore(p, q)

\* Mutant: the rows are not sorted by updated_at.
ActiveProviderById(k) ==
    IF Enabled(k) = {} THEN None
    ELSE CHOOSE p \in Enabled(k) : \A q \in Enabled(k) \ {p} : UuidBefore(p, q)

\* createActiveProviderResolver: ORDER BY updated_at DESC, id LIMIT 1.
ActiveProvider(k) ==
    IF Enabled(k) = {} THEN None
    ELSE CHOOSE p \in Enabled(k) : \A q \in Enabled(k) \ {p} : SortsBefore(p, q)
=============================================================================
