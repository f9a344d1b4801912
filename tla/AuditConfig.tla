---------------------------- MODULE AuditConfig -----------------------------
(***************************************************************************)
(* The customer's audit configuration: src/audit_config.rs, and what the   *)
(* config command of src/app.rs makes of it.  A document is a record of    *)
(* what these look at; the fields that must have one value are known by    *)
(* the set of those that have another one, and the fields that nobody      *)
(* looks at are one value.  A secret reference is a scheme and a target;   *)
(* the digest of the redacted document stands for it.                      *)
(***************************************************************************)
EXTENDS Naturals, Sequences, FiniteSets, Functions

CONSTANTS
    Unreadable,     \* a file that is no document: missing, too big, not UTF-8, not TOML
    BlankTargets,   \* the targets that trim to nothing
    Redacted,       \* the target of a reference that is shown
    NoSources       \* a document without secret_sources

Schemes == {"env", "sops", "file", "vault"}

\* The fields that must have the one value that is admitted.
FixedFields ==
    {"schema_version", "toolchain", "audit_mode", "repository", "source_dir", "evidence_hash",
     "allow_mutations", "allow_plaintext_secrets", "commit_raw_secrets"}

\* The settings without which a provider's audit cannot be collected.
Selectors ==
    [github |-> {"organization"}, sentry |-> {"organization"},
     aws |-> {"account_id"}, cloudflare |-> {"account_id"},
     gcp |-> {"project_ids"}, neondb |-> {"project_ids"},
     azure |-> {"tenant_id", "subscription_ids"}, supabase |-> {"project_refs"},
     vercel |-> {"team_id"}, kubernetes |-> {"contexts"}, datadog |-> {"site"},
     upstash |-> {}, other |-> {}]

-----------------------------------------------------------------------------
\* What a document is, whatever its values.

ReferencesTyped(references) ==
    /\ references \in Seq(Range(references))
    /\ \A r \in Range(references) : r = [scheme |-> r.scheme, target |-> r.target]

IsRecord(r, fields) == r = [f \in DOMAIN r |-> r[f]] /\ fields \subseteq DOMAIN r

DocumentTyped(c) ==
    /\ IsRecord(c, {"customer", "interaction", "services", "sources"})
    /\ c.services \in Seq(Range(c.services))
    /\ \A s \in Range(c.services) :
         /\ IsRecord(s, {"id", "provider", "enabled", "settings", "authRefs"})
         /\ ReferencesTyped(s.authRefs)
    /\ c.sources # NoSources =>
         /\ IsRecord(c.sources, {})
         /\ \A f \in DOMAIN c.sources : ReferencesTyped(c.sources[f])

-----------------------------------------------------------------------------
\* validate

ReferenceValid(reference, approved) ==
    reference.scheme \in approved /\ reference.target \notin BlankTargets

SourceReferences(sources) ==
    IF sources = NoSources THEN {} ELSE UNION {Range(sources[f]) : f \in DOMAIN sources}

PublishingValid(p) ==
    p.enabled => p.provider = "cloudflare-r2" /\ p.bucket /\ p.prefix /\ p.commitSha /\ p.manifest

ServiceValid(s, approved) ==
    /\ s.readOnly
    /\ s.enabled => s.authRefs # <<>> /\ s.collects
    /\ \A r \in Range(s.authRefs) : ReferenceValid(r, approved)

ConfigValid(c) ==
    /\ c.otherThanAdmitted = {} /\ c.named /\ c.schemes # {}
    /\ PublishingValid(c.publishing)
    /\ "" \notin {s.id : s \in Range(c.services)}
    /\ IsInjective([i \in DOMAIN c.services |-> c.services[i].id])
    /\ \A s \in Range(c.services) : ServiceValid(s, c.schemes)
    /\ \A r \in SourceReferences(c.sources) : ReferenceValid(r, c.schemes)

Loads(file) == file # Unreadable /\ ConfigValid(file)

\* Sorted by path, which no two of them share: a set.
MissingRequiredFields(c) ==
    UNION {{s.id} \X (Selectors[s.provider] \ s.settings) :
             s \in {t \in Range(c.services) : t.enabled}}

-----------------------------------------------------------------------------
\* What is shown of a document

Shown(references) == [i \in DOMAIN references |-> [references[i] EXCEPT !.target = Redacted]]

ShownServices(services) ==
    [i \in DOMAIN services |-> [services[i] EXCEPT !.authRefs = Shown(@)]]

\* Mutant: the references of the secret sources are left as they are.
RedactedServices(c) == [c EXCEPT !.services = ShownServices(@)]

RedactedJson(c) ==
    [c EXCEPT
        !.services = ShownServices(@),
        !.sources = IF @ = NoSources THEN NoSources ELSE [f \in DOMAIN @ |-> Shown(@[f])]]

Failure == [result |-> "error", output |-> {}]

Mode(c, arguments) ==
    IF arguments.override # "none" THEN arguments.override ELSE c.interaction.mode

\* The config command.  Whether it asks for a prompt, and its exit code, do not
\* depend on prompt_for_missing and fail_on_missing_required.
ConfigCommand(file, arguments) ==
    IF \/ ~Loads(file)
       \/ arguments.override # "none" /\ ~file.interaction.overridable
    THEN Failure
    ELSE LET missing == MissingRequiredFields(file) IN
         [result |-> IF missing = {} THEN "success" ELSE "threshold",
          output |-> {[customer |-> file.customer, valid |-> missing = {},
                       mode |-> Mode(file, arguments),
                       promptRequired |-> missing # {} /\ Mode(file, arguments) = "interactive",
                       missing |-> missing, digest |-> RedactedJson(file),
                       config |-> IF arguments.show THEN {RedactedJson(file)} ELSE {}]}]

-----------------------------------------------------------------------------

\* Two documents that differ in the targets of their secret references only.
SameButTargets(c, d) ==
    LET Schemed(references) == [i \in DOMAIN references |-> references[i].scheme] IN
    /\ [c EXCEPT !.services = <<>>, !.sources = NoSources]
         = [d EXCEPT !.services = <<>>, !.sources = NoSources]
    /\ Len(c.services) = Len(d.services)
    /\ \A i \in DOMAIN c.services :
         /\ [c.services[i] EXCEPT !.authRefs = <<>>] = [d.services[i] EXCEPT !.authRefs = <<>>]
         /\ Schemed(c.services[i].authRefs) = Schemed(d.services[i].authRefs)
    /\ (c.sources = NoSources) = (d.sources = NoSources)
    /\ c.sources # NoSources =>
         DOMAIN c.sources = DOMAIN d.sources /\ \A f \in DOMAIN c.sources : Schemed(c.sources[f]) = Schemed(d.sources[f])

=============================================================================
