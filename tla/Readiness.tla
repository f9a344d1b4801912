------------------------------ MODULE Readiness ------------------------------
(***************************************************************************)
(* The readiness questionnaire, as its two implementations understand it:  *)
(* readiness/readiness.mjs in the browser and src/app/readiness.rs in the  *)
(* command line.  A packet holds the context it was made for and a         *)
(* sequence of answers; a text is known by the sets it belongs to, and a   *)
(* date is a number, 0 standing for the empty field.                       *)
(***************************************************************************)
EXTENDS Naturals, Sequences, FiniteSets, SequencesExt

CONSTANTS
    Questions,      \* the framework's question identifiers, in order
    Version,        \* schema version, catalog version and framework together
    BlankTexts,     \* texts that trim to nothing, the empty one among them
    LegalTexts,     \* texts within the length and without control characters
    Identifiers,    \* texts that are opaque identifiers
    Dates,          \* the calendar dates
    Garbage,        \* contents that do not decode to a packet
    None

Statuses == {"unanswered", "implemented", "partial", "missing", "not_applicable"}

NoDate == 0

\* The catalog lists its questions; the empty text is blank, and the empty field no date.
ASSUME ReadinessAssumption ==
    /\ Questions \in Seq(Range(Questions))
    /\ "" \in BlankTexts /\ Dates \subseteq Nat \ {NoDate}

Blank(q) ==
    [questionId |-> q, status |-> "unanswered", owner |-> "", notes |-> "",
     evidenceRef |-> "", evidenceDate |-> NoDate, reviewer |-> "", dueDate |-> NoDate]

ContextValid(c) ==
    /\ c.names \in Identifiers /\ c.scope \in LegalTexts \ BlankTexts
    /\ {c.periodStart, c.periodEnd, c.asOf} \subseteq Dates
    /\ c.periodStart <= c.periodEnd /\ c.periodEnd <= c.asOf

\* The draft an assessment of this context begins with.
CreateDraft(c) ==
    [version |-> Version, context |-> c,
     answers |-> [i \in DOMAIN Questions |-> Blank(Questions[i])]]

AnswerValid(a, c) ==
    /\ a.status \in Statuses
    /\ {a.owner, a.reviewer, a.notes, a.evidenceRef} \subseteq LegalTexts
    /\ a.evidenceRef # "" => a.evidenceRef \in Identifiers
    /\ {a.evidenceDate, a.dueDate} \subseteq Dates \cup {NoDate}
    /\ a.evidenceDate <= c.asOf

IfThen(condition, issue) == IF condition THEN {issue} ELSE {}

-----------------------------------------------------------------------------
\* readiness.mjs

\* Mutant: answers may repeat a question.
ValidateRepeated(c, p) ==
    /\ p # Garbage
    /\ ContextValid(c) /\ p.version = Version /\ p.context = c
    /\ Len(p.answers) <= Len(Questions)
    /\ \A a \in Range(p.answers) : a.questionId \in Range(Questions) /\ AnswerValid(a, c)

Validate(c, p) ==
    /\ p # Garbage
    /\ ContextValid(c) /\ p.version = Version /\ p.context = c
    /\ Len(p.answers) <= Len(Questions)
    /\ \A i \in DOMAIN p.answers :
         /\ p.answers[i].questionId \in Range(Questions)
         /\ \A j \in 1..(i - 1) : p.answers[j].questionId # p.answers[i].questionId
         /\ AnswerValid(p.answers[i], c)

\* The answer a list has for a question, or else another.
AnswerOr(answers, q, other) ==
    IF \E i \in DOMAIN answers : answers[i].questionId = q
    THEN answers[CHOOSE i \in DOMAIN answers : answers[i].questionId = q]
    ELSE other

ImportDraft(c, p) ==
    [CreateDraft(c) EXCEPT !.answers = [i \in DOMAIN @ |-> AnswerOr(p.answers, Questions[i], @[i])]]

\* Whether a draft holds anything somebody entered, in any field.
HasAnswerEdits(p) == \E i \in DOMAIN p.answers : p.answers[i] # Blank(p.answers[i].questionId)

Issues(a, c) ==
    IF a.status = "unanswered" THEN {"unanswered"} ELSE
    LET gap == a.status \in {"partial", "missing"} IN
    IfThen(a.owner \in BlankTexts \/ a.notes \in BlankTexts, "owner_or_explanation_missing")
    \cup IfThen(a.reviewer \in BlankTexts, "assessor_review_pending")
    \cup IfThen(a.status = "implemented" /\ (a.evidenceRef = "" \/ a.evidenceDate = NoDate),
                "evidence_unknown")
    \cup IfThen(gap, "declared_gap")
    \cup IfThen(gap /\ a.dueDate = NoDate, "remediation_date_missing")
    \cup IfThen(gap /\ a.dueDate # NoDate /\ a.dueDate < c.asOf, "remediation_overdue")
    \cup IfThen(a.status = "not_applicable" /\ a.reviewer \in BlankTexts,
                "applicability_review_missing")

Incomplete ==
    {"owner_or_explanation_missing", "remediation_date_missing", "applicability_review_missing"}

\* Mutant: what metadata is missing does not count as left open.
ReportOfGaps(items) ==
    LET Having(some) == Cardinality({q \in DOMAIN items : items[q].issues \cap some # {}})
        summary == [total |-> Len(Questions), answered |-> Len(Questions) - Having({"unanswered"}),
                    declaredGaps |-> Having({"declared_gap"}),
                    unknownEvidence |-> Having({"evidence_unknown"}),
                    incompleteMetadata |-> Having(Incomplete),
                    reviewPending |-> Having({"assessor_review_pending"}),
                    overdueActions |-> Having({"remediation_overdue"})]
    IN  [items |-> items, summary |-> summary,
         gapsOrUnknowns |-> \/ summary.answered < summary.total
                            \/ summary.declaredGaps > 0 \/ summary.unknownEvidence > 0]

ReportOf(items) ==
    LET Having(some) == Cardinality({q \in DOMAIN items : items[q].issues \cap some # {}})
        summary == [total |-> Len(Questions), answered |-> Len(Questions) - Having({"unanswered"}),
                    declaredGaps |-> Having({"declared_gap"}),
                    unknownEvidence |-> Having({"evidence_unknown"}),
                    incompleteMetadata |-> Having(Incomplete),
                    reviewPending |-> Having({"assessor_review_pending"}),
                    overdueActions |-> Having({"remediation_overdue"})]
    IN  [items |-> items, summary |-> summary,
         gapsOrUnknowns |-> \/ summary.answered < summary.total
                            \/ summary.declaredGaps > 0 \/ summary.unknownEvidence > 0
                            \/ summary.incompleteMetadata > 0]

Analyze(c, p) ==
    ReportOf([q \in Range(Questions) |->
        LET a == AnswerOr(p.answers, q, Blank(q))
        IN  [status |-> a.status, issues |-> Issues(a, c)]])

IssueOfView ==
    [unanswered |-> "unanswered", gaps |-> "declared_gap", evidence |-> "evidence_unknown",
     review |-> "assessor_review_pending", overdue |-> "remediation_overdue"]

VisibleQuestionIds(report, view) ==
    {q \in DOMAIN report.items : view = "all" \/ IssueOfView[view] \in report.items[q].issues}

-----------------------------------------------------------------------------
\* readiness.rs

CliValidate(c, p) ==
    /\ p # Garbage
    /\ ContextValid(c) /\ p.version = Version /\ p.context = c
    /\ Len(p.answers) <= Len(Questions)
    /\ LET ids == [i \in DOMAIN p.answers |-> p.answers[i].questionId] IN
         Range(ids) \subseteq Range(Questions) /\ IsInjective(ids)
    /\ \A a \in Range(p.answers) : AnswerValid(a, c)

CliIssues(a, c) ==
    LET declared == a.status # "unanswered"
        implemented == a.status = "implemented"
        gap == a.status \in {"partial", "missing"}
        raised ==
            [unanswered |-> ~declared,
             owner_or_explanation_missing |->
                declared /\ {a.owner, a.notes} \cap BlankTexts # {},
             assessor_review_pending |-> declared /\ a.reviewer \in BlankTexts,
             evidence_unknown |->
                implemented /\ (a.evidenceRef = "" \/ a.evidenceDate = NoDate),
             declared_gap |-> gap,
             remediation_date_missing |-> gap /\ a.dueDate = NoDate,
             remediation_overdue |-> gap /\ a.dueDate \in 1..(c.asOf - 1),
             applicability_review_missing |->
                a.status = "not_applicable" /\ a.reviewer \in BlankTexts]
    IN  {issue \in DOMAIN raised : raised[issue]}

CliAnalyze(c, p) ==
    ReportOf([q \in Range(Questions) |->
        LET given == {a \in Range(p.answers) : a.questionId = q}
            answer == IF given = {} THEN Blank(q) ELSE CHOOSE a \in given : TRUE
        IN  [status |-> answer.status, issues |-> CliIssues(answer, c)]])

\* The readiness command on a file of responses: exit 1, or a report and exit 2
\* when it leaves something open.
CliAssess(c, p) ==
    IF ~CliValidate(c, p) THEN [exit |-> 1, report |-> None]
    ELSE LET report == CliAnalyze(c, p)
         IN  [exit |-> IF report.gapsOrUnknowns THEN 2 ELSE 0, report |-> report]

=============================================================================
