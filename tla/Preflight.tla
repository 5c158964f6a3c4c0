----------------------------- MODULE Preflight ------------------------------
(***************************************************************************)
(* What a machine is, before any design is read: which adapter the server  *)
(* starts with (server/adapter_selection.py), the report of                *)
(* preflight/assembler.py against the support matrix, and the records of a *)
(* diagnostics bundle (preflight/redaction.py).                            *)
(*                                                                         *)
(* A machine is what the probes meet: the install roots in its             *)
(* environment, what its metadata say of PyAEDT, the running Python. A     *)
(* text that is no version is Unparseable; a version is a pair.            *)
(***************************************************************************)
EXTENDS Values, FiniteSets

CONSTANTS
  Registered,     \* the tool names of the capability registry
  Unparseable     \* a version text no pair can be read from

Version == Nat \X Nat

ASSUME UnparseableAssumption ==
  Unparseable # None /\ \A text \in {Unparseable, None} : text \notin Version

AedtVersionSources == {"attached_session", "installed_scan"}

ASSUME SourcesAssumption == None \notin AedtVersionSources

----------------------------------------------------------------------------
(* support_matrix.py *)

AedtAnchor == <<2026, 1>>
AedtFloor == <<2022, 2>>
PythonTarget == <<3, 12>>
PythonFloor == <<3, 10>>
PythonCeilingExclusive == <<3, 13>>
PyaedtPin == <<1, 2>>

Before(a, b) == a[1] < b[1] \/ (a[1] = b[1] /\ a[2] < b[2])

\* Three digits name a release; before 2020 they are shifted the way PyAEDT
\* shifts them.
ParseAedtEnvVarName(root) ==
  LET year == root.digits \div 10
      release == root.digits % 10
  IN CASE year >= 20 -> <<2000 + year, release>>
       [] year < 20 /\ release < 3 -> <<2000 + year - 1, release>>
       [] year < 20 /\ release >= 3 -> <<2000 + year, release - 2>>

ParseDottedVersion(text) == IF text = Unparseable THEN None ELSE text

ClassifyAedt(version) ==
  CASE Before(version, AedtFloor) -> "unsupported"
    [] ~ Before(version, AedtFloor) /\ Before(version, AedtAnchor) -> "expected"
    [] version = AedtAnchor -> "target"
    [] Before(AedtAnchor, version) -> "beyond-pin"

ClassifyPython(version) ==
  IF Before(version, PythonFloor) THEN "unsupported"
  ELSE IF ~ Before(version, PythonCeilingExclusive) THEN "beyond-pin"
  ELSE IF version = PythonTarget THEN "target" ELSE "expected"

ClassifyPyaedt(version) ==
  IF Before(version, PyaedtPin) THEN "unsupported"
  ELSE IF version = PyaedtPin THEN "target" ELSE "beyond-pin"

ComponentStatus(support) == IF support = "unsupported" THEN "incompatible" ELSE "ok"

\* Mutant: one old install blocks the others.
AggregateAllInstalled(versions) ==
  IF /\ versions # {}
     /\ \A version \in versions : ComponentStatus(ClassifyAedt(version)) = "ok"
  THEN "ok" ELSE "incompatible"

\* One supported install is enough, and none is a determination.
AggregateInstalledAedtStatus(versions) ==
  IF \E version \in versions : ComponentStatus(ClassifyAedt(version)) = "ok"
  THEN "ok" ELSE "incompatible"

----------------------------------------------------------------------------
(* probes.py: every probe answers, whatever it meets.                      *)

\* An AWP root counts only when an AEDT is in it.
AedtEnvVarNames(machine) ==
  {root \in machine.roots : root.prefix # "AWP_ROOT" \/ root.holdsAedt}

\* A lookup that raises, a missing field and a text of no version's shape all
\* leave an installed PyAEDT unreadable, which is not absent.
ReadDistributionVersion(metadata) ==
  [version |-> IF metadata.installed THEN metadata.version ELSE None,
   state |-> IF ~ metadata.installed THEN "absent"
             ELSE IF metadata.version = None THEN "unreadable" ELSE "found"]

----------------------------------------------------------------------------
(* adapter_selection.py and __main__.py *)

LegalAdapterValues == {"live", "fake"}

\* requested.strip().lower(): how the word is spelled does not matter.
Choice(requested) == IF requested = None THEN "live" ELSE requested.word

\* Asking for the fake never reads the machine; live is never replaced by it.
ResolveAdapterKind(requested, machine) ==
  LET read == ReadDistributionVersion(machine.pyaedt)
      choice == Choice(requested)
  IN CASE choice \notin LegalAdapterValues -> "refused"
       [] choice = "fake" -> "fake"
       [] choice = "live" -> IF read.state = "found" THEN "live" ELSE "refused"

\* Only building the live adapter imports PyAEDT, and nothing catches that.
BuildAdapter(kind, machine) ==
  IF kind = "live" /\ ~ machine.importable THEN "raised" ELSE kind

----------------------------------------------------------------------------
(* assembler.py *)

\* An attached version that cannot be read is not used: the scan answers.
AttachedAedtVersion(environment) ==
  IF environment = None THEN None ELSE ParseDottedVersion(environment.aedt_version)

AedtReading(version, source, detected, status) ==
  [version |-> version, source |-> source, detected |-> detected, status |-> status]

\* The report names a version only when it is the attached one's or there is
\* exactly one; every installed one is detected.
ResolveAedt(machine, environment) ==
  LET installed == {ParseAedtEnvVarName(root) : root \in AedtEnvVarNames(machine)}
      attached == AttachedAedtVersion(environment)
      scan == AggregateInstalledAedtStatus(installed)
  IN CASE attached # None ->
            AedtReading(attached, "attached_session", {attached},
                        ComponentStatus(ClassifyAedt(attached)))
       [] attached = None /\ Cardinality(installed) = 1 ->
            AedtReading(CHOOSE v \in installed : TRUE, "installed_scan", installed, scan)
       [] OTHER -> AedtReading(None, None, installed, scan)

ComponentCheck(component, detected, status, severity) ==
  [component |-> component, detected |-> detected, status |-> status,
   severity |-> severity]

PyaedtCheck(read) ==
  LET parsed == IF read.state = "found" THEN ParseDottedVersion(read.version) ELSE None
  IN ComponentCheck("pyaedt", IF read.version = None THEN {} ELSE {read.version},
       IF parsed = None THEN "incompatible" ELSE ComponentStatus(ClassifyPyaedt(parsed)),
       "required")

PythonCheck(version) ==
  LET parsed == ParseDottedVersion(version)
  IN ComponentCheck("python", {version},
       IF parsed = None THEN "incompatible" ELSE ComponentStatus(ClassifyPython(parsed)),
       "required")

AdvisoryCheck(component) == ComponentCheck(component, {}, "unavailable", "advisory")

Checks(aedt, read, python) ==
  <<ComponentCheck("aedt", aedt.detected, aedt.status, "required"),
    PyaedtCheck(read), PythonCheck(python),
    AdvisoryCheck("grpc"), AdvisoryCheck("license"), AdvisoryCheck("processes")>>

Overall(checks) ==
  IF \E i \in DOMAIN checks : /\ checks[i].severity = "required"
                              /\ checks[i].status = "incompatible"
  THEN "incompatible" ELSE "ok"

PreflightEnvironment(machine, environment) ==
  LET aedt == ResolveAedt(machine, environment)
      read == ReadDistributionVersion(machine.pyaedt)
      checks == Checks(aedt, read, machine.python)
  IN [environment |-> [aedt_version |-> aedt.version,
                       aedt_version_source |-> aedt.source,
                       pyaedt_version |-> read.version,
                       python_version |-> machine.python],
      checks |-> checks,
      overall |-> Overall(checks)]

----------------------------------------------------------------------------
(* redaction.py and bundle.py *)

SelectionKeys ==
  {"process_id", "project", "design", "solution_type", "setup", "sweep", "variation"}

AllowedArgumentKeys == {}

\* Mutant: a name nobody registered is repeated.
ToolNameVerbatim(record) == record.tool_name

\* An unregistered call is logged under the name it was handed.
ToolName(record) ==
  IF record.tool_name \in Registered THEN record.tool_name ELSE "<unregistered>"

RedactAuditRecord(record) ==
  [timestamp |-> record.timestamp,
   tool_name |-> ToolName(record),
   risk_tier |-> record.risk_tier,
   outcome |-> record.outcome,
   duration |-> record.duration,
   session_degraded |-> record.session_degraded,
   selection_present |->
     [key \in SelectionKeys |-> record.selection_state[key] # None],
   arguments |->
     [key \in DOMAIN record.sanitized_arguments \cap AllowedArgumentKeys |->
        record.sanitized_arguments[key]],
   arguments_dropped |->
     Cardinality(DOMAIN record.sanitized_arguments \ AllowedArgumentKeys)]

DiagnosticsBundleError == [arm |-> "DiagnosticsBundleError"]

\* Without a log there is no bundle: an empty history would be a false claim.
BuildDiagnosticsBundle(report, log) ==
  IF log = None THEN DiagnosticsBundleError
  ELSE [arm |-> "bundle", preflight |-> report,
        record_count |-> Len(log.records), torn_tail |-> log.torn_tail,
        corrupt_lines |-> log.corrupt_lines,
        records |-> [i \in DOMAIN log.records |-> RedactAuditRecord(log.records[i])]]
=============================================================================
