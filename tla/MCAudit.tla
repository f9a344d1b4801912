------------------------------ MODULE MCAudit -------------------------------
(* Instances of Audit for TLC. *)
EXTENDS Audit

Value(sort, is) == [sort |-> sort, is |-> is]

\* One rule of high severity and one of low.
MCProgram ==
    [frameworks |-> {"nist"},
     rules |-> {[id |-> "r1", type |-> "t1", severity |-> 3, mappings |-> {"nist"},
                 condition |-> [fact |-> "f", operator |-> "equals",
                                expected |-> Value("boolean", 1)]],
                [id |-> "r2", type |-> "t2", severity |-> 1, mappings |-> {},
                 condition |-> [fact |-> "f", operator |-> "nonEmpty",
                                expected |-> Value("boolean", 1)]]}]

MCManifest ==
    [tenant |-> "acme", scope |-> <<"org">>, frameworks |-> <<"nist">>, starts |-> 0, ends |-> 2]

Obs(ext, type, v) ==
    [external |-> ext, type |-> type, subject |-> <<"org">>, collected |-> 1,
     validUntil |-> 2, facts |-> ("f" :> v)]

\* Evidence for and against the first rule; for the second, some that passes and
\* some of the wrong type.
MCObservations ==
    {Obs("e1", "t1", Value("boolean", 1)), Obs("e2", "t1", Value("boolean", 0)),
     Obs("e3", "t2", Value("array", 2)), Obs("e4", "t2", Value("integer", 2))}

MCExternalRank == [e \in {"e1", "e2", "e3", "e4"} |->
    CHOOSE i \in 1..4 : <<"e1", "e2", "e3", "e4">>[i] = e]

MCDigestRank == [o \in MCObservations |-> MCExternalRank[o.external]]

-----------------------------------------------------------------------------

Sign(by, verdict) == [reviewer |-> by, at |-> 2, conclusion |-> verdict]

Paper(rule, preparer, design, operating, exceptions, signoff) ==
    [id |-> rule, rule |-> rule, preparer |-> preparer, preparedAt |-> 1, design |-> design,
     operating |-> operating, evidence |-> {}, sample |-> None, exceptions |-> exceptions,
     signoff |-> signoff]

Exc(id, class, disposition) ==
    [id |-> id, class |-> class, evidence |-> {}, disposition |-> disposition]

Clean(rule) == Paper(rule, "ann", "effective", "effective", {}, Sign("ben", "approved"))

MCPapers ==
    {Clean("r1"),
     [Clean("r1") EXCEPT !.signoff = Sign("ben", "changesRequested")],
     [Clean("r1") EXCEPT !.signoff = Sign("ann", "approved")],
     Paper("r1", "ann", "ineffective", "notTested", {Exc("x1", "minor", "open")},
           Sign("ben", "approved")),
     [Paper("r1", "ann", "effective", "ineffective", {Exc("x1", "major", "remediated")},
            Sign("ben", "approved")) EXCEPT !.sample = "s1"],
     Clean("r2"),
     [Clean("r2") EXCEPT !.design = "notTested"],
     [Clean("r2") EXCEPT !.exceptions = {Exc("x2", "major", "riskAccepted")}],
     [Clean("r2") EXCEPT !.exceptions = {Exc("x2", "major", "compensatingControl")}]}

MCRequests ==
    {[id |-> "q1", rules |-> {"r1"}, owner |-> "cfo", status |-> "open", evidence |-> {}],
     [id |-> "q1", rules |-> {"r1"}, owner |-> "cfo", status |-> "accepted", evidence |-> {"e1"}]}

MCResponses ==
    {[id |-> "a1", exception |-> "x1", owner |-> "cfo", status |-> "complete"],
     [id |-> "a2", exception |-> "x2", owner |-> "ann", status |-> "riskAccepted"]}

Actor(id, role, independent) == [id |-> id, role |-> role, independent |-> independent]

MCSample ==
    [id |-> "s1", rule |-> "r1", method |-> "random", population |-> 3, size |-> 2,
     selected |-> <<"i1", "i2">>]

Draft(mode, independent, completedAt) ==
    [tenant |-> "acme", scope |-> <<"org">>, mode |-> mode, phase |-> "fieldwork",
     period |-> [starts |-> 0, ends |-> 2], frameworks |-> <<"nist">>,
     actors |-> {Actor("ann", "auditLead", FALSE), Actor("ben", "reviewer", independent),
                 Actor("cfo", "executive", FALSE)},
     milestones |-> {[id |-> "m1", completedAt |-> completedAt]},
     requests |-> {}, samples |-> {MCSample}, papers |-> {}, responses |-> {},
     events |-> <<[sequence |-> 0, actor |-> "ann"]>>, recipients |-> {"board"}]

\* A full audit with an independent reviewer and one without.
MCDrafts ==
    {Draft("fullAudit", TRUE, 3), Draft("fullAudit", FALSE, 3)}

=============================================================================
