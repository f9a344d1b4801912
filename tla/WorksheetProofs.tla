-------------------------- MODULE WorksheetProofs ---------------------------
(***************************************************************************)
(* What one tab of the worksheet promises for any questions, contexts,     *)
(* entries and files, and any number of imports: imports are serialized,   *)
(* what is shown is of the present draft, and the command line understands *)
(* a packet as the browser does.                                           *)
(***************************************************************************)
EXTENDS Worksheet, FiniteSetTheorems, TLAPS

\* The gate is closed, and the controls are disabled, for one read or for none.
Serialized ==
    /\ gate = importing /\ importing \in BOOLEAN
    /\ IF importing THEN \E r : awaited = {r} ELSE awaited = {} /\ chosen = None

NoDraftYet == phase = "context" => draft = None /\ ~importing

DraftShape ==
    phase = "open" \/ draft # None =>
        "answers" \in DOMAIN draft /\ DOMAIN draft.answers = DOMAIN Questions

\* A summary is of the present draft, which is valid, and no field with half a
\* date is behind the filter.
Summarized ==
    /\ draft # None /\ report # None =>
         report = Analyze(context, draft) /\ Validate(context, draft)
    /\ half \cap Hidden = {}

Inv == Serialized /\ NoDraftYet /\ DraftShape /\ Summarized

-----------------------------------------------------------------------------

LEMMA InitInv == Init => Inv
BY DEF Init, Inv, Serialized, NoDraftYet, DraftShape, Summarized, Hidden

\* Whatever a handler changed, summarizing afterwards makes the summary current.
LEMMA SummarizeRestores ==
    ASSUME NEW c, context' = c, Summarize(c)
    PROVE  Summarized'
<1>1. CASE half' = {} /\ Validate(c, draft')
  BY <1>1 DEF Summarize, Summarized
<1>2. CASE ~(half' = {} /\ Validate(c, draft'))
  BY <1>2 DEF Summarize, Summarized, Hidden
<1> QED BY <1>1, <1>2

LEMMA SameTabSummarized ==
    ASSUME Summarized, UNCHANGED <<context, draft, report, view>>, half' \subseteq half
    PROVE  Summarized'
BY DEF Summarized, Hidden

LEMMA ShapeOfDrafts ==
    ASSUME NEW c, NEW p
    PROVE  /\ "answers" \in DOMAIN CreateDraft(c)
           /\ DOMAIN CreateDraft(c).answers = DOMAIN Questions
           /\ "answers" \in DOMAIN ImportDraft(c, p)
           /\ DOMAIN ImportDraft(c, p).answers = DOMAIN Questions
BY DEF CreateDraft, ImportDraft

LEMMA SubmitKeepsInv ==
    ASSUME Inv, SubmitContext
    PROVE  Inv'
<1> USE DEF SubmitContext
<1>1. Serialized'
  BY DEF Inv, Serialized, import
<1>2. PICK c \in Contexts :
        /\ context' = c
        /\ IF ContextValid(c)
           THEN /\ phase' = "open" /\ draft' = CreateDraft(c) /\ dirty' = TRUE
                /\ half' = {} /\ Summarize(c)
           ELSE UNCHANGED <<phase, answers>>
  OBVIOUS
<1>3. CASE ContextValid(c)
  <2>1. Summarized'
    BY <1>2, <1>3, SummarizeRestores
  <2>2. (NoDraftYet /\ DraftShape)'
    BY <1>2, <1>3, ShapeOfDrafts DEF NoDraftYet, DraftShape
  <2> QED BY <1>1, <2>1, <2>2 DEF Inv
<1>4. CASE ~ContextValid(c)
  <2>1. draft = None /\ draft' = None /\ phase' = "context"
      /\ UNCHANGED <<report, half, view, importing>>
    BY <1>2, <1>4 DEF Inv, NoDraftYet, answers, import
  <2>2. Summarized'
    BY <2>1 DEF Inv, Summarized, Hidden
  <2> QED BY <1>1, <2>1, <2>2 DEF Inv, NoDraftYet, DraftShape
<1> QED BY <1>3, <1>4

LEMMA TypeKeepsInv ==
    ASSUME Inv, Type
    PROVE  Inv'
<1> USE DEF Type, Usable
<1>1. Serialized'
  BY DEF Inv, Serialized, import
<1>2. Summarized'
  BY SummarizeRestores DEF form
<1>3. DraftShape'
  <2>1. PICK i \in DOMAIN Questions, e \in Entries :
            draft' = [draft EXCEPT !.answers[i][e[1]] = e[2]]
    OBVIOUS
  <2> QED BY <2>1 DEF Inv, DraftShape
<1>4. NoDraftYet'
  BY DEF NoDraftYet, form
<1> QED BY <1>1, <1>2, <1>3, <1>4 DEF Inv

LEMMA HalfADateKeepsInv ==
    ASSUME Inv, TypeHalfADate \/ ClearHalfADate
    PROVE  Inv'
<1> USE DEF TypeHalfADate, ClearHalfADate, Usable
<1>1. (Serialized /\ NoDraftYet)'
  BY DEF Inv, Serialized, NoDraftYet, import, form
<1>2. UNCHANGED <<phase, context, view>> /\ phase = "open"
  BY DEF form
<1>3. CASE ClearHalfADate
  <2>1. UNCHANGED <<draft, report>> /\ half' \subseteq half
    BY <1>3
  <2> QED BY <1>1, <1>2, <2>1, SameTabSummarized DEF Inv, DraftShape
<1>4. CASE TypeHalfADate
  <2>1. PICK i \in DOMAIN Questions :
         /\ Questions[i] \notin Hidden \cup half
         /\ half' = half \cup {Questions[i]}
         /\ IF draft.answers[i].dueDate = NoDate
            THEN UNCHANGED <<draft, dirty, report>>
            ELSE /\ draft' = [draft EXCEPT !.answers[i].dueDate = NoDate]
                 /\ dirty' = TRUE /\ Summarize(context)
    BY <1>4
  <2>2. CASE draft.answers[i].dueDate = NoDate
    <3>1. Summarized'
      BY <1>2, <2>1, <2>2 DEF Inv, Summarized, Hidden
    <3> QED BY <1>1, <1>2, <2>1, <2>2, <3>1 DEF Inv, DraftShape
  <2>3. CASE draft.answers[i].dueDate # NoDate
    <3>1. Summarized'
      BY <1>2, <2>1, <2>3, SummarizeRestores
    <3>2. DraftShape'
      BY <1>2, <2>1, <2>3 DEF Inv, DraftShape
    <3> QED BY <1>1, <3>1, <3>2 DEF Inv
  <2> QED BY <2>2, <2>3
<1> QED BY <1>3, <1>4

LEMMA ViewKeepsInv ==
    ASSUME Inv, ChangeView \/ ExportJson \/ Leave
    PROVE  Inv'
<1> USE DEF ChangeView, ExportJson, Leave, Usable
<1>1. Serialized'
  BY DEF Inv, Serialized, import
<1>2. (NoDraftYet /\ DraftShape)'
  BY DEF Inv, NoDraftYet, DraftShape, form, answers
<1>3. CASE ChangeView
  BY <1>1, <1>2, <1>3, SummarizeRestores DEF Inv, form
<1>4. CASE ExportJson \/ Leave
  <2>1. UNCHANGED <<context, draft, half, report, view>>
    BY <1>4 DEF form, answers
  <2> QED BY <1>1, <1>2, <2>1, SameTabSummarized DEF Inv
<1> QED BY <1>3, <1>4

-----------------------------------------------------------------------------
\* Imports.

LEMMA ChangeKeepsSerialized ==
    ASSUME Serialized, NEW f, Change(f), gate => chosen' = f
    PROVE  Serialized'
BY DEF Serialized, Change

LEMMA PickKeepsInv ==
    ASSUME Inv, OpenPicker \/ ChooseFile \/ DropFile
    PROVE  Inv'
<1> USE DEF OpenPicker, ChooseFile, DropFile
<1>1. UNCHANGED <<form, answers, view>>
  OBVIOUS
<1>2. (NoDraftYet /\ DraftShape)'
  BY <1>1 DEF Inv, NoDraftYet, DraftShape, form, answers, Usable
<1>3. Summarized'
  BY <1>1, SameTabSummarized DEF Inv, form, answers
<1>4. Serialized'
  BY DEF Inv, Serialized, Change
<1> QED BY <1>2, <1>3, <1>4 DEF Inv

LEMMA EndKeepsSerialized ==
    ASSUME Serialized, NEW r \in awaited, EndImport(r)
    PROVE  Serialized'
BY DEF Serialized, EndImport

LEMMA FinishKeepsTab ==
    ASSUME Inv, NEW p, phase = "open", UNCHANGED <<form, view>>, FinishRead(p)
    PROVE  (NoDraftYet /\ DraftShape /\ Summarized)'
<1>1. UNCHANGED <<phase, context>>
  BY DEF form
<1>2. CASE KeepAnswers
  <2>1. UNCHANGED <<draft, half, report>>
    BY <1>2 DEF KeepAnswers, answers
  <2> QED BY <1>1, <2>1, SameTabSummarized DEF Inv, NoDraftYet, DraftShape
<1>3. CASE ReplaceAnswers(p)
  <2>1. Summarized'
    BY <1>1, <1>3, SummarizeRestores DEF ReplaceAnswers
  <2> QED BY <1>1, <1>3, <2>1, ShapeOfDrafts DEF ReplaceAnswers, NoDraftYet, DraftShape
<1> QED BY <1>2, <1>3 DEF FinishRead

LEMMA SettledKeepsInv ==
    ASSUME Inv, ReadAnswers \/ ReadFails \/ Deadline
    PROVE  Inv'
<1>1. CASE ReadAnswers
  <2>1. PICK r \in DOMAIN reads :
          IF r \in awaited
          THEN FinishRead(reads[r].file.packet) /\ EndImport(r)
          ELSE KeepAnswers /\ UNCHANGED <<importing, gate, awaited, picker, chosen>>
    BY <1>1 DEF ReadAnswers
  <2>2. phase = "open" /\ UNCHANGED <<form, view>>
    BY <1>1 DEF ReadAnswers
  <2>3. CASE r \in awaited
    BY <2>1, <2>2, <2>3, FinishKeepsTab, EndKeepsSerialized DEF Inv
  <2>4. CASE r \notin awaited
    <3>1. UNCHANGED <<phase, context, draft, half, report, view>>
      BY <2>1, <2>2, <2>4 DEF KeepAnswers, answers, form
    <3>2. Summarized'
      BY <3>1, SameTabSummarized DEF Inv
    <3> QED BY <2>1, <2>4, <3>1, <3>2 DEF Inv, Serialized, NoDraftYet, DraftShape
  <2> QED BY <2>3, <2>4
<1>2. CASE ReadFails \/ Deadline
  <2>1. phase = "open" /\ UNCHANGED <<phase, context, draft, half, report, view>>
    BY <1>2 DEF ReadFails, Deadline, KeepAnswers, answers, form
  <2>2. Summarized'
    BY <2>1, SameTabSummarized DEF Inv
  <2>3. Serialized'
    <3>1. \/ \E r \in awaited : EndImport(r)
          \/ UNCHANGED <<importing, gate, awaited, picker, chosen>>
      BY <1>2 DEF ReadFails, Deadline
    <3>2. CASE \E r \in awaited : EndImport(r)
      BY <3>2, EndKeepsSerialized DEF Inv
    <3>3. CASE UNCHANGED <<importing, gate, awaited, picker, chosen>>
      BY <3>3 DEF Inv, Serialized
    <3> QED BY <3>1, <3>2, <3>3
  <2> QED BY <2>1, <2>2, <2>3 DEF Inv, NoDraftYet, DraftShape
<1> QED BY <1>1, <1>2

-----------------------------------------------------------------------------

LEMMA StepInv == Inv /\ [Next]_vars => Inv'
<1>1. ASSUME Inv, UNCHANGED vars PROVE Inv'
  <2>1. UNCHANGED <<phase, context, draft, half, report, view, importing, gate, awaited, chosen>>
    BY <1>1 DEF vars, form, answers, import
  <2>2. Summarized'
    BY <1>1, <2>1, SameTabSummarized DEF Inv
  <2> QED BY <1>1, <2>1, <2>2 DEF Inv, Serialized, NoDraftYet, DraftShape
<1> QED BY <1>1, SubmitKeepsInv, TypeKeepsInv, HalfADateKeepsInv, ViewKeepsInv, PickKeepsInv,
           SettledKeepsInv DEF Next

\* Imports are serialized, whatever is chosen, dropped or typed meanwhile, and the
\* field is empty again after each.
THEOREM ImportsAreSerialized == Spec => []OneImportAtATime
<1>1. Inv => OneImportAtATime
  <2> SUFFICES ASSUME Inv PROVE OneImportAtATime
    OBVIOUS
  <2>1. CASE importing
    <3>1. PICK r : awaited = {r}
      BY <2>1 DEF Inv, Serialized
    <3>2. Cardinality({r}) = 1
      BY FS_Singleton
    <3> QED BY <2>1, <3>1, <3>2 DEF OneImportAtATime
  <2>2. CASE ~importing
    BY <2>2, FS_EmptySet DEF Inv, Serialized, OneImportAtATime
  <2> QED BY <2>1, <2>2
<1> QED BY <1>1, InitInv, StepInv, PTL DEF Spec

\* The summary is always of the present draft, and no invalid field is ever behind
\* the filter, for any questions and whatever is typed or imported.
THEOREM SummaryStaysCurrent == Spec => []SummaryIsCurrent
<1>1. Inv => SummaryIsCurrent
  <2> SUFFICES ASSUME Inv, draft # None
               PROVE  /\ report # None => report = Analyze(context, draft)
                      /\ \A i \in DOMAIN Questions :
                           Questions[i] \in half \/ ~AnswerValid(draft.answers[i], context)
                           => Questions[i] \notin Hidden
    BY DEF SummaryIsCurrent
  <2>1. report # None => \A i \in DOMAIN Questions : AnswerValid(draft.answers[i], context)
    BY DEF Inv, Summarized, DraftShape, Validate
  <2> QED BY <2>1 DEF Inv, Summarized, Hidden
<1> QED BY <1>1, InitInv, StepInv, PTL DEF Spec

-----------------------------------------------------------------------------
\* What the steps may do to the draft.

\* A draft that is not marked as changed is the one that was exported last.
ExportedUnlessDirty == phase = "open" /\ ~dirty => exported = draft

LEMMA ExportedStep == ExportedUnlessDirty /\ [Next]_vars => ExportedUnlessDirty'
<1> SUFFICES ASSUME ExportedUnlessDirty, [Next]_vars PROVE ExportedUnlessDirty'
  OBVIOUS
<1> USE DEF ExportedUnlessDirty
<1>1. CASE UNCHANGED <<phase, draft, dirty, exported>>
  BY <1>1
<1>2. CASE SubmitContext
  BY <1>2 DEF SubmitContext, answers
<1>3. CASE Type \/ TypeHalfADate
  BY <1>3 DEF Type, TypeHalfADate, form
<1>4. CASE ExportJson \/ Leave
  BY <1>4 DEF ExportJson, Leave
<1>5. CASE ReadAnswers
  <2>1. \/ UNCHANGED <<draft, dirty>>
        \/ dirty' = TRUE
    BY <1>5 DEF ReadAnswers, FinishRead, KeepAnswers, ReplaceAnswers, answers
  <2> QED BY <1>5, <2>1 DEF ReadAnswers, form
<1>6. CASE ClearHalfADate \/ ChangeView
  BY <1>1, <1>6 DEF ClearHalfADate, ChangeView, form
<1>7. CASE OpenPicker \/ ChooseFile \/ DropFile \/ ReadFails \/ Deadline
  BY <1>1, <1>7 DEF OpenPicker, ChooseFile, DropFile, ReadFails, Deadline, KeepAnswers, form, answers
<1>8. CASE UNCHANGED vars
  BY <1>1, <1>8 DEF vars, form, answers
<1> QED BY <1>2, <1>3, <1>4, <1>5, <1>6, <1>7, <1>8 DEF Next

LEMMA ExportedInit == Init => ExportedUnlessDirty
BY DEF Init, ExportedUnlessDirty

\* While an import waits the draft changes only by what it reads.
LEMMA ImportingChanges ==
    ASSUME Inv, [Next]_vars, importing, draft' # draft
    PROVE  ReadAnswers /\ \E r \in awaited :
                /\ FinishRead(reads[r].file.packet)
                /\ draft' = ImportDraft(context, reads[r].file.packet)
<1>1. ReadAnswers
  BY DEF Inv, NoDraftYet, Next, vars, SubmitContext, Type, TypeHalfADate, ClearHalfADate,
         ChangeView, ExportJson, Usable, OpenPicker, ChooseFile, DropFile, ReadFails, Deadline, Leave, KeepAnswers, answers
<1>2. PICK r \in DOMAIN reads :
        IF r \in awaited
        THEN FinishRead(reads[r].file.packet) /\ EndImport(r)
        ELSE KeepAnswers /\ UNCHANGED <<importing, gate, awaited, picker, chosen>>
  BY <1>1 DEF ReadAnswers
<1>3. r \in awaited /\ FinishRead(reads[r].file.packet)
  BY <1>2 DEF KeepAnswers, answers
<1>4. draft' = ImportDraft(context, reads[r].file.packet)
  BY <1>3 DEF FinishRead, KeepAnswers, ReplaceAnswers, answers
<1> QED BY <1>1, <1>3, <1>4

\* What somebody entered is not lost unasked, for any files and entries.
THEOREM NothingIsLostSilently == Spec => NoSilentLoss
<1> DEFINE Kept == exported = draft \/ ~HasAnswerEdits(draft) \/ agreed'
<1>1. ASSUME Inv, ExportedUnlessDirty, [Next]_vars, phase = "open", phase' = "left"
      PROVE  Kept
  <2>1. Leave
    BY <1>1 DEF Next, vars, form, SubmitContext, Type, TypeHalfADate, ClearHalfADate, ChangeView,
                ExportJson, OpenPicker, ChooseFile, DropFile, ReadAnswers, ReadFails, Deadline
  <2>2. CASE dirty
    BY <2>1, <2>2 DEF Leave
  <2>3. CASE ~dirty
    BY <1>1, <2>3 DEF ExportedUnlessDirty
  <2> QED BY <2>2, <2>3
<1>2. ASSUME Inv, ExportedUnlessDirty, [Next]_vars, importing, draft' # draft
      PROVE  Kept
  <2>1. PICK r \in awaited : FinishRead(reads[r].file.packet)
    BY <1>2, ImportingChanges
  <2>2. CASE dirty /\ HasAnswerEdits(draft)
    BY <1>2, <2>1, <2>2 DEF FinishRead, KeepAnswers, answers
  <2>3. CASE ~dirty
    BY <1>2, <2>3, ImportingChanges DEF ExportedUnlessDirty, ReadAnswers
  <2>4. CASE ~HasAnswerEdits(draft)
    BY <2>4
  <2> QED BY <2>2, <2>3, <2>4
<1>3. Inv /\ ExportedUnlessDirty /\ [Next]_vars
        => [ \/ phase = "open" /\ phase' = "left"
             \/ importing /\ draft' # draft
             => Kept ]_vars
  BY <1>1, <1>2
<1> QED BY <1>3, InitInv, StepInv, ExportedInit, ExportedStep, PTL DEF Spec, NoSilentLoss

\* The draft changes by the packet an import waits for or in one answer: for any
\* number of reads that come too late.
THEOREM NothingStaleIsImported == Spec => NoStaleImport
<1> DEFINE Changed ==
            IF importing
            THEN \E r \in awaited : draft' = ImportDraft(context, reads[r].file.packet)
            ELSE \E i \in DOMAIN Questions : \A j \in DOMAIN Questions \ {i} :
                    draft'.answers[j] = draft.answers[j]
<1>1. ASSUME Inv, [Next]_vars, phase = "open", draft' # draft, importing
      PROVE  Changed
  BY <1>1, ImportingChanges
<1>2. ASSUME Inv, [Next]_vars, phase = "open", draft' # draft, ~importing
      PROVE  Changed
  <2>1. Type \/ TypeHalfADate
    BY <1>2 DEF Inv, Serialized, Next, vars, SubmitContext, ClearHalfADate, ChangeView, ExportJson,
         OpenPicker, ChooseFile, DropFile, ReadAnswers, ReadFails, Deadline, Leave, KeepAnswers,
         answers
  <2>2. CASE Type
    <3>1. PICK i \in DOMAIN Questions, e \in Entries :
            draft' = [draft EXCEPT !.answers[i][e[1]] = e[2]]
      BY <2>2 DEF Type
    <3>2. \A j \in DOMAIN Questions \ {i} : draft'.answers[j] = draft.answers[j]
      BY <1>2, <3>1 DEF Inv, DraftShape
    <3> QED BY <1>2, <3>2
  <2>3. CASE TypeHalfADate
    <3>1. PICK i \in DOMAIN Questions : draft' = [draft EXCEPT !.answers[i].dueDate = NoDate]
      BY <1>2, <2>3 DEF TypeHalfADate
    <3>2. \A j \in DOMAIN Questions \ {i} : draft'.answers[j] = draft.answers[j]
      BY <1>2, <3>1 DEF Inv, DraftShape
    <3> QED BY <1>2, <3>2
  <2> QED BY <2>1, <2>2, <2>3
<1>3. Inv /\ [Next]_vars => [phase = "open" /\ draft' # draft => Changed]_vars
  BY <1>1, <1>2
<1> QED BY <1>3, InitInv, StepInv, PTL DEF Spec, NoStaleImport

-----------------------------------------------------------------------------
\* The two implementations of the questionnaire

\* The browser rejects a repeated question answer by answer, the command line at once.
LEMMA SameValidation ==
    ASSUME NEW c, NEW p, p = Garbage \/ p.answers \in Seq(Range(p.answers))
    PROVE  Validate(c, p) <=> CliValidate(c, p)
<1> SUFFICES ASSUME p # Garbage PROVE Validate(c, p) <=> CliValidate(c, p)
  BY DEF Validate, CliValidate
<1> DEFINE list == p.answers
           ids == [i \in DOMAIN list |-> list[i].questionId]
<1>1. Len(list) \in Nat /\ DOMAIN list = 1..Len(list)
  OBVIOUS
<1>2. IsInjective(ids) <=>
        \A i \in DOMAIN list : \A j \in 1..(i - 1) : list[j].questionId # list[i].questionId
  <2> DEFINE n == Len(list)
             id(i) == list[i].questionId
  <2>1. n \in Nat /\ DOMAIN list = 1..n /\ DOMAIN ids = 1..n /\ \A i \in 1..n : ids[i] = id(i)
    BY <1>1
  <2> HIDE DEF n, ids, id
  <2>2. IsInjective(ids) <=> \A i, j \in 1..n : id(i) = id(j) => i = j
    BY <2>1 DEF IsInjective
  <2>3. (\A i, j \in 1..n : id(i) = id(j) => i = j) =>
             \A i \in 1..n : \A j \in 1..(i - 1) : id(j) # id(i)
    BY <2>1
  <2>4. (\A i \in 1..n : \A j \in 1..(i - 1) : id(j) # id(i)) =>
             \A i, j \in 1..n : id(i) = id(j) => i = j
    <3> SUFFICES ASSUME \A i \in 1..n : \A j \in 1..(i - 1) : id(j) # id(i),
                        NEW i \in 1..n, NEW j \in 1..n, id(i) = id(j), i # j
                 PROVE  FALSE
      OBVIOUS
    <3>1. i \in 1..(j - 1) \/ j \in 1..(i - 1)
      BY <2>1
    <3> QED BY <3>1
  <2> QED BY <2>1, <2>2, <2>3, <2>4 DEF id
<1>3. Range(ids) \subseteq Range(Questions) <=>
        \A i \in DOMAIN list : list[i].questionId \in Range(Questions)
  BY DEF Range
<1>4. (\A a \in Range(list) : AnswerValid(a, c)) <=>
        \A i \in DOMAIN list : AnswerValid(list[i], c)
  BY DEF Range
<1> QED BY <1>2, <1>3, <1>4 DEF Validate, CliValidate

\* What either side raises of an answer.
Raised(issue, a, c) ==
    \/ issue = "unanswered" /\ a.status = "unanswered"
    \/ /\ a.status # "unanswered"
       /\ \/ /\ issue = "owner_or_explanation_missing"
             /\ a.owner \in BlankTexts \/ a.notes \in BlankTexts
          \/ issue = "assessor_review_pending" /\ a.reviewer \in BlankTexts
    \/ /\ a.status = "implemented"
       /\ issue = "evidence_unknown" /\ (a.evidenceRef = "" \/ a.evidenceDate = NoDate)
    \/ /\ a.status \in {"partial", "missing"}
       /\ \/ issue = "declared_gap"
          \/ issue = "remediation_date_missing" /\ a.dueDate = NoDate
          \/ issue = "remediation_overdue" /\ a.dueDate \in 1..(c.asOf - 1)
    \/ /\ a.status = "not_applicable"
       /\ issue = "applicability_review_missing" /\ a.reviewer \in BlankTexts

LEMMA CliRaises ==
    ASSUME NEW a, NEW c, a.status \in Statuses, NEW issue
    PROVE  issue \in CliIssues(a, c) <=> Raised(issue, a, c)
<1> DEFINE gap == a.status \in {"partial", "missing"}
           raised ==
             [unanswered |-> a.status = "unanswered",
              owner_or_explanation_missing |->
                 a.status # "unanswered" /\ {a.owner, a.notes} \cap BlankTexts # {},
              assessor_review_pending |-> a.status # "unanswered" /\ a.reviewer \in BlankTexts,
              evidence_unknown |->
                 a.status = "implemented" /\ (a.evidenceRef = "" \/ a.evidenceDate = NoDate),
              declared_gap |-> gap,
              remediation_date_missing |-> gap /\ a.dueDate = NoDate,
              remediation_overdue |-> gap /\ a.dueDate \in 1..(c.asOf - 1),
              applicability_review_missing |->
                 a.status = "not_applicable" /\ a.reviewer \in BlankTexts]
<1>1. CliIssues(a, c) = {i \in DOMAIN raised : raised[i]}
  BY Zenon DEF CliIssues
<1>2. DOMAIN raised = {"unanswered", "owner_or_explanation_missing", "assessor_review_pending",
         "evidence_unknown", "declared_gap", "remediation_date_missing", "remediation_overdue",
         "applicability_review_missing"}
  OBVIOUS
<1>3. /\ raised["unanswered"] <=> Raised("unanswered", a, c)
      /\ raised["owner_or_explanation_missing"] <=> Raised("owner_or_explanation_missing", a, c)
      /\ raised["assessor_review_pending"] <=> Raised("assessor_review_pending", a, c)
      /\ raised["evidence_unknown"] <=> Raised("evidence_unknown", a, c)
      /\ raised["declared_gap"] <=> Raised("declared_gap", a, c)
      /\ raised["remediation_date_missing"] <=> Raised("remediation_date_missing", a, c)
      /\ raised["remediation_overdue"] <=> Raised("remediation_overdue", a, c)
      /\ raised["applicability_review_missing"] <=> Raised("applicability_review_missing", a, c)
  BY DEF Raised
<1> HIDE DEF raised
<1>4. Raised(issue, a, c) => issue \in DOMAIN raised
  BY <1>2 DEF Raised
<1> QED BY <1>1, <1>2, <1>3, <1>4

LEMMA SameIssues ==
    ASSUME NEW a, NEW c, a.status \in Statuses, a.dueDate \in Nat, c.asOf \in Nat
    PROVE  Issues(a, c) = CliIssues(a, c)
<1>1. ASSUME NEW issue PROVE issue \in Issues(a, c) <=> Raised(issue, a, c)
  <2> USE DEF Raised
  <2>1. CASE a.status = "unanswered"
    BY <2>1 DEF Issues
  <2>2. CASE a.status = "implemented"
    BY <2>2 DEF Issues, IfThen
  <2>3. CASE a.status = "not_applicable"
    BY <2>3 DEF Issues, IfThen
  <2>4. CASE a.status \in {"partial", "missing"}
    <3>1. Issues(a, c) =
            IfThen(a.owner \in BlankTexts \/ a.notes \in BlankTexts, "owner_or_explanation_missing")
            \cup IfThen(a.reviewer \in BlankTexts, "assessor_review_pending")
            \cup {"declared_gap"} \cup IfThen(a.dueDate = 0, "remediation_date_missing")
            \cup IfThen(a.dueDate # 0 /\ a.dueDate < c.asOf, "remediation_overdue")
      BY <2>4 DEF Issues, IfThen, NoDate
    <3>2. a.dueDate \in 1..(c.asOf - 1) <=> a.dueDate # 0 /\ a.dueDate < c.asOf
      OBVIOUS
    <3> QED BY <2>4, <3>1, <3>2 DEF IfThen, NoDate
  <2> QED BY <2>1, <2>2, <2>3, <2>4 DEF Statuses
<1> QED BY <1>1, CliRaises

\* The answers that a packet has for a question: of a valid one, one at most.
Given(p, q) == {a \in Range(p.answers) : a.questionId = q}

\* The answer that the command line looks at.
AnswerTo(p, q) == IF Given(p, q) = {} THEN Blank(q) ELSE CHOOSE a \in Given(p, q) : TRUE

LEMMA OneAnswer ==
    ASSUME NEW c, NEW p, p.answers \in Seq(Range(p.answers)), Validate(c, p), NEW q
    PROVE  /\ AnswerOr(p.answers, q, Blank(q)) = AnswerTo(p, q)
           /\ \A a \in Given(p, q) : a = AnswerTo(p, q)
<1> DEFINE list == p.answers
<1>1. /\ DOMAIN list = 1..Len(list) /\ Len(list) \in Nat
      /\ \A i \in DOMAIN list : \A j \in 1..(i - 1) : list[j].questionId # list[i].questionId
  BY DEF Validate
<1> HIDE DEF list
<1>2. \A i, j \in DOMAIN list : list[i].questionId = list[j].questionId => i = j
  <2> SUFFICES ASSUME NEW i \in DOMAIN list, NEW j \in DOMAIN list, i # j,
                      list[i].questionId = list[j].questionId
               PROVE  FALSE
    OBVIOUS
  <2>1. i \in 1..(j - 1) \/ j \in 1..(i - 1)
    BY <1>1
  <2> QED BY <1>1, <2>1
<1>3. Given(p, q) = {a \in Range(list) : a.questionId = q}
  BY DEF Given, list
<1>4. CASE \E i \in DOMAIN list : list[i].questionId = q
  <2> DEFINE k == CHOOSE i \in DOMAIN list : list[i].questionId = q
  <2>1. k \in DOMAIN list /\ list[k].questionId = q
    BY <1>4
  <2> HIDE DEF k
  <2>2. \A a \in Given(p, q) : a = list[k]
    BY <1>2, <1>3, <2>1 DEF Range
  <2>3. list[k] \in Given(p, q)
    BY <1>3, <2>1 DEF Range
  <2>4. AnswerTo(p, q) \in Given(p, q)
    BY <2>3 DEF AnswerTo
  <2>5. AnswerOr(list, q, Blank(q)) = list[k]
    BY <1>4 DEF AnswerOr, k
  <2> QED BY <2>2, <2>4, <2>5 DEF list
<1>5. CASE ~\E i \in DOMAIN list : list[i].questionId = q
  <2>1. Given(p, q) = {}
    BY <1>3, <1>5 DEF Range
  <2>2. AnswerOr(list, q, Blank(q)) = Blank(q)
    BY <1>5 DEF AnswerOr
  <2> QED BY <2>1, <2>2 DEF AnswerTo, list
<1> QED BY <1>4, <1>5

LEMMA AnswerKnown ==
    ASSUME NEW c, NEW p, Validate(c, p), NEW q
    PROVE  /\ AnswerTo(p, q).status \in Statuses
           /\ AnswerTo(p, q).dueDate \in Nat /\ c.asOf \in Nat
<1>1. c.asOf \in Nat
  BY ReadinessAssumption DEF Validate, ContextValid
<1>2. CASE Given(p, q) = {}
  BY <1>1, <1>2 DEF AnswerTo, Blank, Statuses, NoDate
<1>3. CASE Given(p, q) # {}
  <2>1. AnswerTo(p, q) \in Range(p.answers)
    BY <1>3 DEF AnswerTo, Given
  <2>2. AnswerValid(AnswerTo(p, q), c)
    BY <2>1 DEF Validate, Range
  <2>3. AnswerTo(p, q).status \in Statuses /\ AnswerTo(p, q).dueDate \in Dates \cup {0}
    BY <2>2 DEF AnswerValid, NoDate
  <2>4. Dates \subseteq Nat
    BY ReadinessAssumption
  <2>5. \A d \in Dates \cup {0} : d \in Nat
    BY <2>4
  <2> QED BY <1>1, <2>3, <2>5
<1> QED BY <1>2, <1>3

ItemsOf(c, p) ==
    [q \in Range(Questions) |->
        [status |-> AnswerTo(p, q).status, issues |-> CliIssues(AnswerTo(p, q), c)]]

\* Both report on the same items.
LEMMA SameReport ==
    ASSUME NEW c, NEW p, p.answers \in Seq(Range(p.answers)), Validate(c, p)
    PROVE  CliAnalyze(c, p) = ReportOf(ItemsOf(c, p)) /\ Analyze(c, p) = ReportOf(ItemsOf(c, p))
<1>1. CliAnalyze(c, p) = ReportOf(ItemsOf(c, p))
  BY Zenon DEF CliAnalyze, ItemsOf, AnswerTo, Given
<1> DEFINE answer(q) == AnswerOr(p.answers, q, Blank(q))
           items == [q \in Range(Questions) |->
                        [status |-> answer(q).status, issues |-> Issues(answer(q), c)]]
<1>2. Analyze(c, p) = ReportOf(items)
  BY Zenon DEF Analyze
<1>3. ASSUME NEW q \in Range(Questions)
      PROVE  answer(q) = AnswerTo(p, q) /\ Issues(answer(q), c) = CliIssues(AnswerTo(p, q), c)
  <2>1. answer(q) = AnswerTo(p, q)
    BY OneAnswer
  <2> HIDE DEF answer
  <2> QED BY <2>1, AnswerKnown, SameIssues
<1> HIDE DEF answer
<1>4. items = ItemsOf(c, p)
  BY <1>3 DEF ItemsOf
<1> QED BY <1>1, <1>2, <1>4

OpenIssues == {"unanswered", "declared_gap", "evidence_unknown"} \cup Incomplete

\* A report has gaps or unknowns exactly when one of its items has an open issue.
LEMMA ReportExits ==
    ASSUME NEW items, DOMAIN items = Range(Questions)
    PROVE  /\ ReportOf(items).gapsOrUnknowns \in BOOLEAN
           /\ ReportOf(items).gapsOrUnknowns <=>
                 \E q \in Range(Questions) : items[q].issues \cap OpenIssues # {}
<1> DEFINE n == Len(Questions)
           Those(some) == {q \in DOMAIN items : items[q].issues \cap some # {}}
           Having(some) == Cardinality(Those(some))
<1>1. n \in Nat /\ DOMAIN Questions = 1..n /\ Questions \in [1..n -> Range(Questions)]
  <2>1. Questions \in Seq(Range(Questions))
    BY ReadinessAssumption
  <2> QED BY <2>1
<1>2. IsFiniteSet(Range(Questions))
  <2>1. IsFiniteSet(1..n)
    BY <1>1, FS_Interval
  <2>2. Questions \in Surjection(1..n, Range(Questions))
    BY <1>1 DEF Surjection, Range
  <2> HIDE DEF n
  <2> QED BY <2>1, <2>2, FS_Surjection
<1>3. ASSUME NEW some PROVE Having(some) \in Nat /\ (Having(some) > 0 <=> Those(some) # {})
  <2>1. Those(some) \subseteq Range(Questions)
    OBVIOUS
  <2> HIDE DEF Those
  <2>2. IsFiniteSet(Those(some))
    BY <1>2, <2>1, FS_Subset
  <2> QED BY <2>2, FS_CardinalityType, FS_EmptySet
<1> HIDE DEF n
<1>4. ReportOf(items).gapsOrUnknowns <=>
        \/ n - Having({"unanswered"}) < n
        \/ Having({"declared_gap"}) > 0 \/ Having({"evidence_unknown"}) > 0
        \/ Having(Incomplete) > 0
  BY DEF ReportOf, n
<1>5. ReportOf(items).gapsOrUnknowns \in BOOLEAN
  BY Zenon DEF ReportOf
<1> HIDE DEF Having
<1>6. ReportOf(items).gapsOrUnknowns <=>
        \/ Those({"unanswered"}) # {} \/ Those({"declared_gap"}) # {}
        \/ Those({"evidence_unknown"}) # {} \/ Those(Incomplete) # {}
  BY <1>1, <1>3, <1>4
<1> QED BY <1>5, <1>6 DEF OpenIssues

\* Browser and command line accept the same packets and report the same of them, for
\* any list of questions and any answers.
THEOREM TheTwoSidesAgree == Spec => []BrowserAndCliAgree
<1>1. BrowserAndCliAgree
  <2>1. ASSUME NEW c \in Contexts, NEW p \in Packets
        PROVE  /\ Validate(c, p) <=> CliValidate(c, p)
               /\ Validate(c, p) => Analyze(c, p) = CliAnalyze(c, p)
    <3>1. p = Garbage \/ p.answers \in Seq(Range(p.answers))
      BY WorksheetAssumption
    <3>2. Validate(c, p) <=> CliValidate(c, p)
      BY <3>1, SameValidation
    <3>3. ASSUME Validate(c, p) PROVE Analyze(c, p) = CliAnalyze(c, p)
      <4>1. p # Garbage
        BY <3>3 DEF Validate
      <4> QED BY <3>1, <3>3, <4>1, SameReport
    <3> QED BY <3>2, <3>3
  <2> QED BY <2>1 DEF BrowserAndCliAgree
<1> QED BY <1>1, PTL

\* Somebody answers for it, and it is implemented with dated evidence or excused.
IsComplete(a) ==
    /\ a.owner \notin BlankTexts /\ a.notes \notin BlankTexts
    /\ \/ a.status = "implemented" /\ a.evidenceRef # "" /\ a.evidenceDate # NoDate
       \/ a.status = "not_applicable" /\ a.reviewer \notin BlankTexts

\* An answer is complete when it raises no issue that is left open.
LEMMA CompleteAnswers ==
    ASSUME NEW a, NEW c, a.status \in Statuses
    PROVE  IsComplete(a) <=> CliIssues(a, c) \cap OpenIssues = {}
<1>1. CliIssues(a, c) \cap OpenIssues = {} <=>
        /\ "unanswered" \notin CliIssues(a, c) /\ "declared_gap" \notin CliIssues(a, c)
        /\ "evidence_unknown" \notin CliIssues(a, c)
        /\ "owner_or_explanation_missing" \notin CliIssues(a, c)
        /\ "remediation_date_missing" \notin CliIssues(a, c)
        /\ "applicability_review_missing" \notin CliIssues(a, c)
  BY DEF OpenIssues, Incomplete
<1>2. /\ Raised("unanswered", a, c) <=> a.status = "unanswered"
      /\ Raised("declared_gap", a, c) <=> a.status \in {"partial", "missing"}
      /\ Raised("evidence_unknown", a, c) <=>
            a.status = "implemented" /\ (a.evidenceRef = "" \/ a.evidenceDate = NoDate)
      /\ Raised("owner_or_explanation_missing", a, c) <=>
            a.status # "unanswered" /\ (a.owner \in BlankTexts \/ a.notes \in BlankTexts)
      /\ Raised("remediation_date_missing", a, c) <=>
            a.status \in {"partial", "missing"} /\ a.dueDate = NoDate
      /\ Raised("applicability_review_missing", a, c) <=>
            a.status = "not_applicable" /\ a.reviewer \in BlankTexts
  BY DEF Raised
<1>3. \A issue : issue \in CliIssues(a, c) <=> Raised(issue, a, c)
  BY CliRaises
<1> QED BY <1>1, <1>2, <1>3 DEF IsComplete, Statuses

\* A report leaves nothing open when each question's answer is complete.
LEMMA NothingOpen ==
    ASSUME NEW c, NEW p, p.answers \in Seq(Range(p.answers)), CliValidate(c, p)
    PROVE  /\ CliAssess(c, p).exit = 0 \/ CliAssess(c, p).exit = 2
           /\ CliAssess(c, p).exit = 2 <=>
                \E q \in Range(Questions) : ~IsComplete(AnswerTo(p, q))
<1> DEFINE items == ItemsOf(c, p)
           open == ReportOf(items).gapsOrUnknowns
<1>1. Validate(c, p)
  BY SameValidation
<1>2. CliAnalyze(c, p) = ReportOf(items)
  BY <1>1, SameReport
<1>3. CliAssess(c, p).exit = IF open THEN 2 ELSE 0
  BY <1>2 DEF CliAssess
<1>4. DOMAIN items = Range(Questions)
  BY DEF ItemsOf
<1>5. \A q \in Range(Questions) : items[q].issues = CliIssues(AnswerTo(p, q), c)
  BY DEF ItemsOf
<1>6. \A q : IsComplete(AnswerTo(p, q)) <=> CliIssues(AnswerTo(p, q), c) \cap OpenIssues = {}
  BY <1>1, AnswerKnown, CompleteAnswers
<1>7. open \in BOOLEAN /\ (open <=>
        \E q \in Range(Questions) : items[q].issues \cap OpenIssues # {})
  <2> HIDE DEF items
  <2> QED BY <1>4, ReportExits
<1> HIDE DEF items, open
<1>8. open <=> \E q \in Range(Questions) : ~IsComplete(AnswerTo(p, q))
  BY <1>5, <1>6, <1>7
<1> QED BY <1>3, <1>8

\* The command line rejects what the browser would not export, and is content with
\* the rest exactly when every question has a complete answer.
THEOREM CompletionIsContent == Spec => []ContentWhenComplete
<1>1. ASSUME NEW c \in Contexts, NEW p \in Packets
      PROVE  /\ CliAssess(c, p).exit = 1 <=> ~Validate(c, p)
             /\ CliAssess(c, p).exit = 0 =>
                  \A q \in Range(Questions) :
                     \E a \in Range(p.answers) : a.questionId = q /\ IsComplete(a)
             /\ CliAssess(c, p).exit = 2 =>
                  \E q \in Range(Questions) :
                     \A a \in Range(p.answers) : a.questionId = q => ~IsComplete(a)
  <2>1. p = Garbage \/ p.answers \in Seq(Range(p.answers))
    BY WorksheetAssumption
  <2>2. CASE ~Validate(c, p)
    <3>1. ~CliValidate(c, p)
      BY <2>1, <2>2, SameValidation
    <3> QED BY <2>2, <3>1 DEF CliAssess
  <2>3. CASE Validate(c, p)
    <3>1. p.answers \in Seq(Range(p.answers))
      BY <2>1, <2>3 DEF Validate
    <3>2. CliValidate(c, p)
      BY <2>3, <3>1, SameValidation
    <3>3. /\ CliAssess(c, p).exit = 0 \/ CliAssess(c, p).exit = 2
          /\ CliAssess(c, p).exit = 2 <=>
                \E q \in Range(Questions) : ~IsComplete(AnswerTo(p, q))
      BY <3>1, <3>2, NothingOpen
    <3>4. \A q : \A a \in Given(p, q) : a = AnswerTo(p, q)
      BY <2>3, <3>1, OneAnswer
    <3>5. ASSUME NEW q, IsComplete(AnswerTo(p, q))
          PROVE  \E a \in Range(p.answers) : a.questionId = q /\ IsComplete(a)
      <4>1. Given(p, q) # {}
        BY <3>5 DEF AnswerTo, Blank, IsComplete
      <4>2. AnswerTo(p, q) \in Given(p, q)
        BY <4>1 DEF AnswerTo
      <4> QED BY <3>5, <4>2 DEF Given
    <3>6. ASSUME NEW q, ~IsComplete(AnswerTo(p, q))
          PROVE  \A a \in Range(p.answers) : a.questionId = q => ~IsComplete(a)
      BY <3>4, <3>6 DEF Given
    <3> QED BY <2>3, <3>3, <3>5, <3>6
  <2> QED BY <2>2, <2>3
<1>2. ContentWhenComplete
  BY <1>1, Zenon DEF ContentWhenComplete, IsComplete
<1> QED BY <1>2, PTL

=============================================================================
