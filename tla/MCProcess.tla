----------------------------- MODULE MCProcess ------------------------------
(* Instances of Process for TLC. *)
EXTENDS Process

\* A body of each kind that the engine takes, one it rejects, one that decodes to
\* nothing, and one of the largest size that no service may admit.
Body(kind, accepted, bytes) == [kind |-> kind, accepted |-> accepted, bytes |-> bytes]

Assessment == Body("AssessmentRequest", TRUE, 1)
Rejected == Body("AssessmentRequest", FALSE, 1)
Audit == Body("AuditRequest", TRUE, 2)
Dossier == Body("AuditDossier", TRUE, 3)
Nothing == Body("none", FALSE, 0)
Huge == Body("AuditDossier", TRUE, 4)

Key == "key"

Get(route) == [route |-> route, body |-> Nothing, signature |-> None]
Post(route, body, signature) == [route |-> route, body |-> body, signature |-> signature]

MCRequests ==
    {Get("/v1/catalog"), Get("/v1/prompts/{unknown}"),
     Post("assessments", Assessment, Signed(Key, Assessment)),
     Post("assessments", Assessment, None),
     Post("webhooks", Rejected, Signed(Key, Rejected)),
     Post("webhooks", Rejected, Signed(Key, Assessment)),
     Post("audits", Audit, Signed(Key, Audit)),
     Post("audits", Nothing, Signed("other", Nothing)),
     Post("packages", Dossier, Signed(Key, Dossier)),
     Post("packages", Huge, Signed(Key, Huge))}

Secret(unicode, long) == [unicode |-> unicode, long |-> long, key |-> Key]

\* Bodies of one to three bytes may be admitted.
MCSettings ==
    [bind : {"loopback", "public", "malformed"}, limit : {0, 1, 3, 4},
     secret : {None, Secret(TRUE, TRUE), Secret(TRUE, FALSE), Secret(FALSE, TRUE)}]

-----------------------------------------------------------------------------

Ref(scheme, target) == [scheme |-> scheme, target |-> target]

Service(id, provider, selected, refs) ==
    [id |-> id, provider |-> provider, enabled |-> TRUE, readOnly |-> TRUE, authRefs |-> refs,
     collects |-> TRUE, settings |-> selected]

Document(services, sources) ==
    [otherThanAdmitted |-> {}, named |-> TRUE, customer |-> "demo", rest |-> "r",
     schemes |-> {"env", "vault"}, services |-> services, sources |-> sources,
     publishing |-> [enabled |-> TRUE, provider |-> "cloudflare-r2", bucket |-> TRUE,
                     prefix |-> TRUE, commitSha |-> TRUE, manifest |-> TRUE],
     interaction |-> [mode |-> "interactive", overridable |-> TRUE]]

Targets == {"t1", "t2"}

Azure(refs) == Service("az", "azure", {"tenant_id"}, refs)
Other(refs) == Service("ot", "other", {}, refs)

Plain == Document(<<Azure(<<Ref("env", "t1")>>)>>, NoSources)

\* Documents with every choice of targets, in a service and in the secret sources,
\* with a vault path more and a service more, in both orders.
Retargeted ==
    {Document(services, sources) :
        services \in {<<Azure(<<Ref("env", t)>>)>> : t \in Targets}
            \cup {<<Other(<<Ref("env", t)>>), Azure(<<Ref("vault", u)>>)>> : t, u \in Targets}
            \cup {<<Azure(<<Ref("vault", t)>>), Other(<<Ref("env", "t1")>>)>> : t \in Targets},
        sources \in {NoSources}
            \cup {[vaultPaths |-> <<Ref("vault", t)>>] : t \in Targets}
            \cup {[vaultPaths |-> <<Ref("vault", t), Ref("vault", u)>>] : t, u \in Targets}}

\* Documents that differ from the plain one in one field, valid or not.
Varied ==
    {[Plain EXCEPT !.rest = "other"], [Plain EXCEPT !.customer = "other"],
     [Plain EXCEPT !.interaction.mode = "non-interactive"],
     [Plain EXCEPT !.interaction.overridable = FALSE],
     [Plain EXCEPT !.publishing.enabled = FALSE], [Plain EXCEPT !.publishing.bucket = FALSE],
     [Plain EXCEPT !.schemes = {"env"}], [Plain EXCEPT !.schemes = {"vault"}],
     [Plain EXCEPT !.otherThanAdmitted = {"toolchain"}], [Plain EXCEPT !.named = FALSE],
     [Plain EXCEPT !.services[1].settings = {"tenant_id", "subscription_ids"}],
     [Plain EXCEPT !.services[1].enabled = FALSE], [Plain EXCEPT !.services[1].readOnly = FALSE],
     [Plain EXCEPT !.services[1].authRefs = <<>>],
     [Plain EXCEPT !.services[1].authRefs[1].target = " "],
     [Plain EXCEPT !.services = <<Azure(<<>>), Azure(<<>>)>>]}

MCConfigs == {Plain, Unreadable} \cup Retargeted \cup Varied

-----------------------------------------------------------------------------

Arguments == [override : {"none", "interactive", "non-interactive"}, show : BOOLEAN]

Invocation(command, file, arguments, inputs) ==
    [refusedBy |-> None, command |-> command, file |-> file, arguments |-> arguments,
     inputs |-> inputs]

NoArguments == [override |-> "none", show |-> FALSE]

MCInvocations ==
    {[Invocation("serve", Unreadable, NoArguments, "none") EXCEPT !.refusedBy = who] :
        who \in {None, "flags", "clap", "help"}}
    \cup {Invocation("catalog", Unreadable, NoArguments, "none")}
    \cup {Invocation("validate", Unreadable, NoArguments, i) : i \in {"accepted", "rejected"}}
    \cup {Invocation("config", f, a, "none") : f \in MCConfigs, a \in Arguments}

=============================================================================
