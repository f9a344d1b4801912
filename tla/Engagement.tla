----------------------------- MODULE Engagement -----------------------------
(***************************************************************************)
(* The engagement record of src/engagement.rs and what makes one           *)
(* acceptable: AuditEngagement::validate, validate_against and             *)
(* validate_finalized.  The record is a file that the people of an         *)
(* engagement edit; the code sees it whole and accepts it or refuses it.   *)
(*                                                                         *)
(* A list whose elements carry identifiers is a set of records; that no    *)
(* identifier occurs twice is checked, as the code does (an element that is *)
(* there twice, equal in every field, has no counterpart).  Spellings,     *)
(* lengths, list limits and the sign of timestamps are left out.           *)
(***************************************************************************)
EXTENDS Integers, FiniteSets, SequencesExt

CONSTANT None   \* an Option's None: no sign-off, no sample plan, not completed

UniqueBy(S, field) == \A x, y \in S : x[field] = y[field] => x = y

ActorIds(e) == {a.id : a \in e.actors}

AllExceptions(e) == UNION {w.exceptions : w \in e.papers}

Settled(request) == request.status \in {"accepted", "closed"}

\* What a design or an operating effectiveness may be concluded to be.
WorkpaperConclusions == {"notTested", "effective", "ineffective", "notApplicable"}

PaperTyped(w) ==
    /\ w # None /\ w.id # None
    /\ {w.design, w.operating} \subseteq WorkpaperConclusions
    /\ IsFiniteSet(w.exceptions)

-----------------------------------------------------------------------------
\* AuditEngagement::validate

PeriodValid(period) == 0 <= period.starts /\ period.starts <= period.ends

ActorsValid(e) ==
    /\ UniqueBy(e.actors, "id")
    /\ \E a \in e.actors : a.role = "auditLead"

MilestonesValid(e) == UniqueBy(e.milestones, "id")

RequestsValid(e) ==
    /\ UniqueBy(e.requests, "id")
    /\ \A q \in e.requests :
         /\ q.rules # {}
         /\ q.owner \in ActorIds(e)
         /\ Settled(q) => q.evidence # {}

SamplesValid(e) ==
    /\ UniqueBy(e.samples, "id")
    /\ \A s \in e.samples :
         /\ 1 <= s.size /\ s.size <= s.population
         /\ Len(s.selected) = s.size /\ IsInjective(s.selected)
         /\ s.method = "fullPopulation" => s.size = s.population

\* Mutant: the preparer may sign off.
PaperValidSelfReviewed(e, w) ==
    /\ w.preparer \in ActorIds(e)
    /\ w.sample # None => \E s \in e.samples : s.id = w.sample /\ s.rule = w.rule
    /\ w.signoff # None =>
         w.signoff.reviewer \in ActorIds(e) /\ w.signoff.at >= w.preparedAt

PaperValid(e, w) ==
    /\ w.preparer \in ActorIds(e)
    /\ w.sample # None => \E s \in e.samples : s.id = w.sample /\ s.rule = w.rule
    /\ w.signoff # None =>
         /\ w.signoff.reviewer \in ActorIds(e)
         /\ w.signoff.reviewer # w.preparer
         /\ w.signoff.at >= w.preparedAt

\* One paper for a rule, and no exception identifier twice, in one paper or two.
PapersValid(e) ==
    /\ UniqueBy(e.papers, "id")
    /\ UniqueBy(e.papers, "rule")
    /\ \A w \in e.papers : PaperValid(e, w)
    /\ UniqueBy(AllExceptions(e), "id")
    /\ \A w, v \in e.papers : w # v => w.exceptions \cap v.exceptions = {}

\* Nothing is asked of the owner but that he is an actor of the engagement.
ResponsesValid(e) ==
    /\ UniqueBy(e.responses, "id")
    /\ UniqueBy(e.responses, "exception")
    /\ \A r \in e.responses :
         /\ \E x \in AllExceptions(e) : x.id = r.exception
         /\ r.owner \in ActorIds(e)

EventsValid(e) ==
    \A i \in DOMAIN e.events : e.events[i].sequence = i - 1 /\ e.events[i].actor \in ActorIds(e)

Approved(w) == w.signoff # None /\ w.signoff.conclusion = "approved"

Tested(w) == w.design # "notTested" /\ w.operating # "notTested"

Answered(e, x) == \E r \in e.responses : r.exception = x.id

IndependentLead(e) ==
    \E a \in e.actors : a.independent /\ a.role \in {"auditLead", "reviewer"}

FinalizedValid(e) ==
    /\ e.recipients # {}
    /\ \A m \in e.milestones : m.completedAt # None
    /\ \A q \in e.requests : Settled(q)
    /\ \A w \in e.papers :
         /\ Tested(w) /\ Approved(w)
         /\ \A x \in w.exceptions : Answered(e, x)
    /\ e.mode = "fullAudit" => IndependentLead(e)

Valid(e) ==
    /\ PeriodValid(e.period)
    /\ e.frameworks # <<>> /\ IsInjective(e.frameworks)
    /\ ActorsValid(e) /\ MilestonesValid(e) /\ RequestsValid(e) /\ SamplesValid(e)
    /\ PapersValid(e) /\ ResponsesValid(e) /\ EventsValid(e)
    /\ e.phase = "finalized" => FinalizedValid(e)

-----------------------------------------------------------------------------
\* AuditEngagement::validate_against

SameBoundary(e, m) ==
    /\ e.tenant = m.tenant /\ e.scope = m.scope
    /\ e.period = [starts |-> m.starts, ends |-> m.ends]
    /\ e.frameworks = m.frameworks

RulesNamed(e) ==
    UNION {q.rules : q \in e.requests} \cup {s.rule : s \in e.samples} \cup {w.rule : w \in e.papers}

EvidenceNamed(e) ==
    UNION {q.evidence : q \in e.requests} \cup UNION {w.evidence : w \in e.papers}
    \cup UNION {x.evidence : x \in AllExceptions(e)}

\* Mutant: a finalized engagement need not have a workpaper for every rule.
ValidAgainstPartialCoverage(e, m, externalIds, ruleIds) ==
    /\ Valid(e)
    /\ SameBoundary(e, m)
    /\ RulesNamed(e) \subseteq ruleIds
    /\ EvidenceNamed(e) \subseteq externalIds

ValidAgainst(e, m, externalIds, ruleIds) ==
    /\ Valid(e)
    /\ SameBoundary(e, m)
    /\ RulesNamed(e) \subseteq ruleIds
    /\ EvidenceNamed(e) \subseteq externalIds
    /\ e.phase = "finalized" => {w.rule : w \in e.papers} = ruleIds

=============================================================================
