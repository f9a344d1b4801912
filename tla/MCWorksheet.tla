---------------------------- MODULE MCWorksheet -----------------------------
(* Instances of Worksheet for TLC. *)
EXTENDS Worksheet

MCQuestions == <<"q1", "q2">>
MCBlankTexts == {"", " "}
MCLegalTexts == {"", " ", "x", "id", "url"}
MCIdentifiers == {"x", "id"}
MCDates == 1..3

Context(names, asOf) ==
    [names |-> names, scope |-> "x", periodStart |-> 1, periodEnd |-> 1, asOf |-> asOf]

\* A context that is valid and one whose period ends after the as-of date.
MCContexts == {Context("id", 2), [Context("id", 1) EXCEPT !.periodEnd = 3]}

Packet(names, list) == [version |-> Version, context |-> Context(names, 2), answers |-> list]
File(packet) == [packet |-> packet, big |-> FALSE]

Gap(q) == [Blank(q) EXCEPT !.status = "partial", !.notes = "x"]
Owned(q) == [Blank(q) EXCEPT !.owner = "x"]

\* A packet of this assessment, one of another, one file that is no packet, and
\* one that is too big, which answers a question twice.
MCFiles ==
    {File(Packet("id", <<Gap("q2"), Owned("q1")>>)), File(Packet("x", <<>>)),
     File(Garbage), [File(Packet("id", <<Gap("q1"), Owned("q1")>>)) EXCEPT !.big = TRUE]}

\* A declared gap, and a reference that is not an identifier.
MCEntries == {<<"status", "partial">>, <<"evidenceRef", "url">>}

-----------------------------------------------------------------------------

\* Every answer there may be to the first question: every status, blank and real
\* texts, a reference that is none, dates before, at and after the as-of date.
AllAnswers ==
    [questionId : {"q1"}, status : Statuses, owner : {"", "x"}, notes : {" ", "x"},
     evidenceRef : {"", "id", "url"}, evidenceDate : {NoDate, 2, 3}, reviewer : {"", "x"},
     dueDate : 0..2]

Complete(q) ==
    [Blank(q) EXCEPT !.status = "implemented", !.owner = "x", !.notes = "x", !.reviewer = "x",
                     !.evidenceRef = "id", !.evidenceDate = 1]

\* Such an answer beside a complete one, in either order, and packets with answers
\* left out, given twice, or too many, of another assessment, and no packet at all.
MCPackets ==
    {f.packet : f \in MCFiles} \cup
    {Packet(names, <<>>) : names \in {"id", "url"}} \cup
    {Packet("id", <<a, Complete("q2")>>) : a \in AllAnswers} \cup
    UNION {{Packet("id", <<Complete("q2"), a>>), Packet("id", <<a>>), Packet("id", <<a, a>>),
            Packet("id", <<a, Complete("q2"), a>>), Packet("x", <<a>>)} :
        a \in {Complete("q1"), Blank("q1"), Gap("q1"), Blank("q3")}}

=============================================================================
