------------------------------ MODULE Worksheet ------------------------------
(***************************************************************************)
(* One tab of the readiness worksheet: readiness/browser.mjs.  The tab's   *)
(* memory is the only copy of what was typed.  A handler runs to its end   *)
(* before the next task does; only an import is asynchronous: it waits for *)
(* a file that may be read now, late or never, and for a deadline.         *)
(*                                                                         *)
(* Fields whose entry is a half-typed date have no value: the draft holds  *)
(* the empty field, and only the field itself knows that it is not valid.  *)
(***************************************************************************)
EXTENDS Readiness

CONSTANTS
    Contexts,       \* what may be entered in the context form
    Entries,        \* <<field, value>>: what may be typed in a question
    Files,          \* the files that may be imported: [packet, big]
    Packets,        \* the packets on which browser and command line are compared
    Views,
    MaxReads        \* bound on the imports that come to reading their file

\* What decodes to a packet has a list of answers.
ASSUME WorksheetAssumption ==
    \A p \in Packets : p = Garbage \/ p.answers \in Seq(Range(p.answers))

VARIABLES
    phase,      \* "context" until the form is submitted, then "open", then "left"
    context, draft,
    half,       \* the questions with a half-typed date
    dirty, importing,
    gate,       \* the active flag of exclusiveOperation
    reads,      \* the file reads that were started, [file, answered]
    awaited,    \* the reads (positions in reads) an import waits for
    picker,     \* whether a file picker is open
    chosen,     \* the file in the import field
    report, view,
    exported,   \* the last JSON draft that was exported
    agreed      \* whether the last step asked the user, who agreed

form == <<phase, context>>
answers == <<draft, half, dirty, report>>
import == <<importing, gate, reads, awaited, picker, chosen>>
vars == <<form, answers, import, view, exported, agreed>>

Init ==
    /\ phase = "context" /\ context = None /\ draft = None /\ half = {}
    /\ dirty = FALSE /\ importing = FALSE /\ gate = FALSE
    /\ reads = <<>> /\ awaited = {} /\ picker = FALSE /\ chosen = None
    /\ report = None /\ view = "all" /\ exported = None /\ agreed = FALSE

\* fieldsValid, with analyze: what an export needs.
Exportable == half = {} /\ Validate(context, draft)

\* Mutant: an invalid field leaves the summary as it was.
SummarizeKeeping(c) ==
    report' = IF half' = {} /\ Validate(c, draft') THEN Analyze(c, draft') ELSE report

Summarize(c) ==
    report' = IF half' = {} /\ Validate(c, draft') THEN Analyze(c, draft') ELSE None

\* applyView: the questions the filter leaves out; without a report, none.
Hidden ==
    IF report = None THEN {} ELSE Range(Questions) \ VisibleQuestionIds(report, view)

-----------------------------------------------------------------------------
\* The context form.

SubmitContext ==
    /\ phase = "context" /\ agreed' = FALSE
    /\ \E c \in Contexts :
         /\ context' = c
         /\ IF ContextValid(c)
            THEN /\ phase' = "open" /\ draft' = CreateDraft(c) /\ dirty' = TRUE
                 /\ half' = {} /\ Summarize(c)
            ELSE UNCHANGED <<phase, answers>>
    /\ UNCHANGED <<import, view, exported>>

\* The workspace's controls are disabled while importing.
Usable == phase = "open" /\ ~importing

\* The input handler of a field that is shown; a whole date replaces half of one.
Type ==
    /\ Usable /\ agreed' = FALSE
    /\ \E i \in DOMAIN Questions, e \in Entries :
         /\ Questions[i] \notin Hidden
         /\ draft' = [draft EXCEPT !.answers[i][e[1]] = e[2]]
         /\ draft' # draft
         /\ half' = IF e[1] = "dueDate" THEN half \ {Questions[i]} ELSE half
    /\ dirty' = TRUE /\ Summarize(context)
    /\ UNCHANGED <<form, import, view, exported>>

\* A field of the empty value has no input event when a date is begun in it.
TypeHalfADate ==
    /\ Usable /\ agreed' = FALSE
    /\ \E i \in DOMAIN Questions :
         /\ Questions[i] \notin Hidden \cup half
         /\ half' = half \cup {Questions[i]}
         /\ IF draft.answers[i].dueDate = NoDate
            THEN UNCHANGED <<draft, dirty, report>>
            ELSE /\ draft' = [draft EXCEPT !.answers[i].dueDate = NoDate]
                 /\ dirty' = TRUE /\ Summarize(context)
    /\ UNCHANGED <<form, import, view, exported>>

\* Taking the half away is no input event either.
ClearHalfADate ==
    /\ Usable /\ agreed' = FALSE
    /\ \E q \in half : half' = half \ {q}
    /\ UNCHANGED <<form, draft, dirty, report, import, view, exported>>

ChangeView ==
    /\ Usable /\ agreed' = FALSE
    /\ view' \in Views \ {view}
    /\ UNCHANGED <<form, draft, half, dirty, import, exported>>
    /\ Summarize(context)

ExportJson ==
    /\ Usable /\ Exportable /\ agreed' = FALSE
    /\ exported' = draft /\ dirty' = FALSE
    /\ UNCHANGED <<form, draft, half, report, import, view>>

-----------------------------------------------------------------------------
\* Imports.

\* The change event of the import field: ignored while the gate is closed, over
\* at once for a file that is too big.
Change(f) ==
    IF gate THEN chosen' = f /\ UNCHANGED <<importing, gate, reads, awaited>>
    ELSE IF f.big THEN chosen' = None /\ UNCHANGED <<importing, gate, reads, awaited>>
    ELSE /\ Len(reads) < MaxReads
         /\ gate' = TRUE /\ importing' = TRUE
         /\ reads' = Append(reads, [file |-> f, answered |-> FALSE])
         /\ awaited' = {Len(reads) + 1}
         /\ chosen' = f

OpenPicker ==
    /\ Usable /\ ~picker /\ picker' = TRUE /\ agreed' = FALSE
    /\ UNCHANGED <<form, answers, importing, gate, reads, awaited, chosen, view, exported>>

\* The same file again is no change, so there is no event.
ChooseFile ==
    /\ phase = "open" /\ picker /\ picker' = FALSE /\ agreed' = FALSE
    /\ \E f \in Files \ {chosen} : Change(f)
    /\ UNCHANGED <<form, answers, view, exported>>

\* A file dropped on the import field, which may be while a picker is open.
DropFile ==
    /\ Usable /\ agreed' = FALSE
    /\ \E f \in Files \ {chosen} : Change(f)
    /\ UNCHANGED <<form, answers, picker, view, exported>>

\* Mutant: once the file is refused, the controls stay as they were.
EndImportOnSuccess(r) ==
    /\ awaited' = awaited \ {r}
    /\ IF Validate(context, reads[r].file.packet)
       THEN gate' = FALSE /\ importing' = FALSE /\ chosen' = None
       ELSE UNCHANGED <<gate, importing, chosen>>
    /\ UNCHANGED picker

\* Both finally clauses.
EndImport(r) ==
    /\ gate' = FALSE /\ importing' = FALSE /\ chosen' = None
    /\ awaited' = awaited \ {r}
    /\ UNCHANGED picker

KeepAnswers == agreed' = FALSE /\ UNCHANGED answers

ReplaceAnswers(p) ==
    /\ draft' = ImportDraft(context, p) /\ half' = {} /\ dirty' = TRUE
    /\ Summarize(context)

\* Mutant: only declared statuses count as edits worth asking about.
FinishReadByStatus(p) ==
    IF ~Validate(context, p) THEN KeepAnswers
    ELSE IF dirty /\ \E a \in Range(draft.answers) : a.status # "unanswered"
         THEN KeepAnswers \/ (agreed' = TRUE /\ ReplaceAnswers(p))
         ELSE agreed' = FALSE /\ ReplaceAnswers(p)

\* What the import does with the bytes it waited for.
FinishRead(p) ==
    IF ~Validate(context, p) THEN KeepAnswers
    ELSE IF dirty /\ HasAnswerEdits(draft)
         THEN KeepAnswers \/ (agreed' = TRUE /\ ReplaceAnswers(p))
         ELSE agreed' = FALSE /\ ReplaceAnswers(p)

\* Mutant: bytes that arrive late are used all the same.
ReadAnswersLate ==
    /\ phase = "open"
    /\ \E r \in DOMAIN reads :
         /\ ~reads[r].answered
         /\ reads' = [reads EXCEPT ![r].answered = TRUE]
         /\ FinishRead(reads[r].file.packet) /\ EndImport(r)
    /\ UNCHANGED <<form, view, exported>>

\* The file's bytes arrive: the first of the race, or too late for it.
ReadAnswers ==
    /\ phase = "open"
    /\ \E r \in DOMAIN reads :
         /\ ~reads[r].answered
         /\ reads' = [reads EXCEPT ![r].answered = TRUE]
         /\ IF r \in awaited
            THEN FinishRead(reads[r].file.packet) /\ EndImport(r)
            ELSE KeepAnswers /\ UNCHANGED <<importing, gate, awaited, picker, chosen>>
    /\ UNCHANGED <<form, view, exported>>

\* The read fails, and the import with it if it still waits.
ReadFails ==
    /\ phase = "open"
    /\ \E r \in DOMAIN reads :
         /\ ~reads[r].answered
         /\ reads' = [reads EXCEPT ![r].answered = TRUE]
         /\ IF r \in awaited THEN EndImport(r)
            ELSE UNCHANGED <<importing, gate, awaited, picker, chosen>>
    /\ KeepAnswers /\ UNCHANGED <<form, view, exported>>

\* Mutant: the page has one timer, and the first import used it.
DeadlineOnce ==
    /\ phase = "open"
    /\ \E r \in awaited : r = 1 /\ EndImport(r)
    /\ KeepAnswers /\ UNCHANGED <<form, reads, view, exported>>

\* Five seconds have passed.
Deadline ==
    /\ phase = "open"
    /\ \E r \in awaited : EndImport(r)
    /\ KeepAnswers /\ UNCHANGED <<form, reads, view, exported>>

-----------------------------------------------------------------------------

\* beforeunload: the user is asked, and goes on to leave.
Leave ==
    /\ phase # "left" /\ phase' = "left" /\ agreed' = (dirty \/ importing)
    /\ UNCHANGED <<context, answers, import, view, exported>>

Next ==
    \/ SubmitContext \/ Type \/ TypeHalfADate \/ ClearHalfADate \/ ChangeView \/ ExportJson
    \/ OpenPicker \/ ChooseFile \/ DropFile \/ ReadAnswers \/ ReadFails \/ Deadline
    \/ Leave

Spec == Init /\ [][Next]_vars

\* The browser runs a timer that has expired; it owes nobody a file.
FairSpec == Spec /\ WF_vars(Deadline)

-----------------------------------------------------------------------------

\* What was entered goes only when it was exported as it is, or when the user
\* agreed to lose it, whichever field it was entered in.
NoSilentLoss ==
    [][\/ phase = "open" /\ phase' = "left"
       \/ importing /\ draft' # draft
       => exported = draft \/ ~HasAnswerEdits(draft) \/ agreed']_vars

\* An import replaces the draft by the packet it waits for and by no other: a
\* read that answers after its deadline changes nothing, whatever was typed or
\* imported since.
NoStaleImport ==
    [][phase = "open" /\ draft' # draft =>
        IF importing
        THEN \E r \in awaited : draft' = ImportDraft(context, reads[r].file.packet)
        ELSE \E i \in DOMAIN Questions : \A j \in DOMAIN Questions \ {i} :
                draft'.answers[j] = draft.answers[j]]_vars

\* Imports are serialized: the controls are disabled exactly while one import
\* waits for one file, and an import that has ended, however it did, leaves the
\* field empty, so that the same file can be tried again.
OneImportAtATime ==
    /\ importing <=> awaited # {}
    /\ Cardinality(awaited) <= 1
    /\ ~importing => chosen = None

\* There is no summary of anything but the present draft, and a field that is
\* not valid is never behind the filter.
SummaryIsCurrent ==
    draft # None =>
        /\ report # None => report = Analyze(context, draft)
        /\ \A i \in DOMAIN Questions :
             Questions[i] \in half \/ ~AnswerValid(draft.answers[i], context)
             => Questions[i] \notin Hidden

\* The browser and the command line accept the same packets, in any context, and
\* report the same of those that they accept.  (The two do not look at the tab, so
\* that they are compared before anything happens in it.)
BrowserAndCliAgree ==
    phase = "context" =>
        \A c \in Contexts, p \in Packets :
            /\ Validate(c, p) <=> CliValidate(c, p)
            /\ Validate(c, p) => Analyze(c, p) = CliAnalyze(c, p)

\* The command line takes every draft that the browser would export, and is
\* content with it exactly when each question is answered and explained by
\* somebody, and either implemented with dated evidence or excused by a reviewer.
ContentWhenComplete ==
    phase = "context" =>
        \A c \in Contexts, p \in Packets :
            LET exit == CliAssess(c, p).exit
                Says(t) == t \notin BlankTexts
                Complete(a) ==
                    /\ Says(a.owner) /\ Says(a.notes)
                    /\ \/ a.status = "implemented" /\ a.evidenceRef # "" /\ a.evidenceDate # NoDate
                       \/ a.status = "not_applicable" /\ Says(a.reviewer)
            IN  /\ exit = 1 <=> ~Validate(c, p)
                /\ exit = 0 =>
                     \A q \in Range(Questions) :
                        \E a \in Range(p.answers) : a.questionId = q /\ Complete(a)
                /\ exit = 2 =>
                     \E q \in Range(Questions) :
                        \A a \in Range(p.answers) : a.questionId = q => ~Complete(a)

\* An import ends, whether its file is ever read or not, unless the page is left.
ImportsEnd == importing ~> ~importing \/ phase = "left"

=============================================================================
