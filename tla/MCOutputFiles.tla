---------------------------- MODULE MCOutputFiles ---------------------------
(* Instances of OutputFiles for TLC. *)
EXTENDS OutputFiles

CONSTANTS D, R, P1, P2

Line(k, s, d, o, js, fo) ==
    [kind |-> k, source |-> s, dir |-> d, out |-> o, json |-> js, failOn |-> fo]

AuditTo(f, js, fo) == Line("audit", NoPath, NoDir, f, js, fo)
PackageFrom(f, d) == Line("package", f, d, NoPath, TRUE, "never")

\* Two audits that contend for one dossier path (one of them writes Markdown and
\* has a bad --fail-on), two packagings that contend for one directory, a
\* packaging of the packet's own dossier, and an audit that writes to the
\* manifest's path.
ContendingJobs ==
    {AuditTo(D, TRUE, "severity"), AuditTo(D, FALSE, "invalid"),
     PackageFrom(D, P1), PackageFrom(<<P1, Documents>>, P2), AuditTo(Manifest(P1), TRUE, "never")}

\* The commands that write one output, or none.
SingleJobs ==
    {Line("assess", NoPath, NoDir, R, TRUE, "severity"),
     Line("prompt", R, NoDir, D, FALSE, "never"),
     Line("prompt", R, NoDir, NoPath, FALSE, "never"),
     Line("readiness", NoPath, NoDir, D, TRUE, "never"),
     AuditTo(NoPath, FALSE, "invalid"), AuditTo(D, TRUE, "never"), PackageFrom(D, P1)}

=============================================================================
