------------------------------- MODULE Doctor -------------------------------
(***************************************************************************)
(* The doctor (doctor/runner.rs, doctor/command.rs): the checks run beside *)
(* each other and are joined in the order in which they end; a result      *)
(* carries the place of its check, a panic does not. A check ends with a   *)
(* finding of some severity or panics, as it likes.                        *)
(***************************************************************************)
EXTENDS Integers, Sequences, FiniteSets

CONSTANTS
  Checks,    \* the registered checks, in their order
  Unknown    \* an id that no check has

VARIABLES
  entry,    \* run_all, run_filtered or the command, and the ids asked for
  running,  \* the places whose check has not been joined
  ended,    \* per place, how its check ended
  slots,    \* per place, its finding
  panics,   \* run_all: the messages, in the order of the joins
  report

doctor == <<entry, running, ended, slots, panics, report>>

Severities == {"Ok", "Warning", "Error", "Skipped"}
Finding(check, severity, about) == [check |-> check, severity |-> severity, about |-> about]
Blank == Finding("", "none", 0)
Registry == {Checks[i] : i \in DOMAIN Checks}

ASSUME DoctorAssumption == Checks \in Seq(Registry) /\ Unknown \notin Registry

\* DoctorReport::from_findings.
from_findings(findings) ==
  [done |-> TRUE, findings |-> findings,
   count |-> [s \in Severities |-> Cardinality({i \in DOMAIN findings : findings[i].severity = s})]]
NoReport == [from_findings(<<>>) EXCEPT !.done = FALSE]
UsageError == Finding("usage", "Error", 0)

\* Vec of Option, flattened.
Present(s) ==
  LET kept[n \in 0 .. Len(s)] ==
        IF n = 0 THEN <<>> ELSE IF s[n] = Blank THEN kept[n - 1] ELSE Append(kept[n - 1], s[n])
  IN kept[Len(s)]

\* One task per place whose id is a check's.
Ask(kind, ids, filled) ==
  /\ entry.kind = "none"
  /\ entry' = [kind |-> kind, ids |-> ids]
  /\ slots' = filled
  /\ running' = {i \in DOMAIN ids : ids[i] \in Registry}
  /\ ended' = [i \in DOMAIN ids |-> "none"]
  /\ UNCHANGED panics
Blanks(ids) == [i \in DOMAIN ids |-> Blank]

run_all == Ask("run_all", Checks, Blanks(Checks)) /\ UNCHANGED report
\* An unknown id is an Error in its place.
run_filtered ==
  /\ \E ids \in {Checks} \cup UNION {[1 .. n -> Registry \cup {Unknown}] : n \in 1 .. 2} :
       Ask("run_filtered", ids, [i \in DOMAIN ids |-> IF ids[i] \in Registry THEN Blank ELSE Finding(ids[i], "Error", i)])
  /\ UNCHANGED report
\* All checks, or the one of --check; an unknown one is a usage error.
create_doctor_command ==
  \/ \E ids \in {Checks} \cup {<<id>> : id \in Registry} :
       Ask("command", ids, Blanks(ids)) /\ UNCHANGED report
  \/ Ask("command", <<Unknown>>, <<Blank>>) /\ report' = from_findings(<<UsageError>>)

\* Mutant: a place that is taken keeps what it has.
JoinedFirst(i, severity) ==
  slots' = IF slots[i] = Blank THEN [slots EXCEPT ![i] = Finding(entry.ids[i], severity, i)] ELSE slots
\* A result goes to the place it carries.
Joined(i, severity) == slots' = [slots EXCEPT ![i] = Finding(entry.ids[i], severity, i)]

\* A panic takes the first place that is empty, whichever check it was.
FirstEmpty ==
  LET free == {j \in DOMAIN slots : slots[j] = Blank /\ entry.ids[j] \in Registry}
  IN {j \in free : \A k \in free : j <= k}
PanicShown(i) ==
  LET name(j) == IF entry.kind = "command" THEN "unknown" ELSE entry.ids[j]
  IN slots' = [j \in DOMAIN slots |-> IF j \in FirstEmpty THEN Finding(name(j), "Error", i) ELSE slots[j]]

\* run_all keeps the message for later.
PanicJoined(i) ==
  IF entry.kind = "run_all"
  THEN panics' = Append(panics, i) /\ UNCHANGED slots
  ELSE PanicShown(i) /\ UNCHANGED panics

\* join_next: whichever check has ended.
join_next ==
  /\ \E i \in running :
       /\ running' = running \ {i}
       /\ \/ \E severity \in {"Ok", "Error"} :
               Joined(i, severity) /\ ended' = [ended EXCEPT ![i] = severity] /\ UNCHANGED panics
          \/ PanicJoined(i) /\ ended' = [ended EXCEPT ![i] = "panic"]
  /\ UNCHANGED <<entry, report>>

\* The places left empty get the messages in their order.
Filled ==
  [i \in DOMAIN slots |->
     IF slots[i] # Blank THEN slots[i]
     ELSE LET n == Cardinality({j \in 1 .. i : slots[j] = Blank})
          IN Finding(entry.ids[i], "Error", IF n <= Len(panics) THEN panics[n] ELSE 0)]

Report ==
  /\ entry.kind # "none" /\ running = {} /\ ~report.done
  /\ report' = from_findings(IF entry.kind = "run_all" THEN Filled ELSE Present(slots))
  /\ UNCHANGED <<entry, running, ended, slots, panics>>

DoctorInit ==
  /\ entry = [kind |-> "none", ids |-> <<>>]
  /\ running = {} /\ ended = <<>> /\ slots = <<>> /\ panics = <<>>
  /\ report = NoReport
DoctorNext == run_all \/ run_filtered \/ create_doctor_command \/ join_next \/ Report

-----------------------------------------------------------------------------
(* Properties.                                                             *)

\* A report holds the finding of every check that did not panic, under its own
\* id and in the order asked for, in whatever order the checks end and however
\* many panic in between: a panic only takes a place until its owner comes
\* (DoctorRunner, create_doctor_command).
NormalFindingsSurvive ==
  report.done /\ report.findings # <<UsageError>> =>
    LET own == {n \in DOMAIN report.findings : ended[report.findings[n].about] # "panic"}
        of(i) == Finding(entry.ids[i], IF ended[i] = "none" THEN "Error" ELSE ended[i], i)
    IN /\ \A i \in DOMAIN entry.ids : ended[i] # "panic" => \E n \in own : report.findings[n] = of(i)
       /\ \A n \in own : report.findings[n] = of(report.findings[n].about)
       /\ \A m, n \in own : m < n => report.findings[m].about < report.findings[n].about

\* run_all reports every check once, in the order of registration, and each
\* that panicked as an Error under its own id, although a panic does not say
\* whose it is (DoctorRunner::run_all).
RunAllAttributesPanics ==
  report.done /\ entry.kind = "run_all" =>
    /\ Len(report.findings) = Len(Checks)
    /\ \A i \in DOMAIN Checks :
         /\ report.findings[i].check = Checks[i]
         /\ report.findings[i].severity = IF ended[i] = "panic" THEN "Error" ELSE ended[i]
    /\ report.count["Error"] = Cardinality({i \in DOMAIN Checks : ended[i] \in {"panic", "Error"}})
=============================================================================
