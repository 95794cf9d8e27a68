---------------------------- MODULE MCRunEvidence ----------------------------
(* Instances of RunEvidence: one report that two commands share, a composite *)
(* command, and requests with and without keys, arguments and baselines.     *)
EXTENDS RunEvidence

Tree(commit, clean) == [commit |-> commit, branch |-> 1, clean |-> clean]
History == <<Tree(1, TRUE), Tree(2, FALSE)>>

Report == [kind |-> "report", path |-> "report", retention |-> "compactable",
           format |-> "lcov", required |-> FALSE, large |-> FALSE,
           composite |-> Absent]
Part(role, format) ==
    [role |-> role, format |-> format, component |-> "c", variant |-> "v",
     inventory |-> "report"]
Inventory == [Report EXCEPT !.kind = "inventory", !.format = "inventory",
                !.required = TRUE, !.composite = Part("inventory", "inventory")]
Measured == [Report EXCEPT !.required = TRUE,
               !.composite = Part("coverage", "lcov")]

Command(specs) ==
    [name |-> "unit", text |-> "cargo", markers |-> 0, specs |-> specs, enabled |-> TRUE,
     human_approved |-> TRUE, approved_by |-> "me", approval_note |-> "ok"]

Request == [command |-> "unit", arguments |-> Absent, baseline |-> Absent,
            execution |-> Absent, key |-> Absent, reuse |-> FALSE,
            summary_lines |-> 80, timeout |-> Absent]
Execution(mode) == [mode |-> mode, identity |-> Absent, label |-> Absent,
                    unknown_field |-> FALSE]

Reused == [Request EXCEPT !.reuse = TRUE]
WithArguments == [Request EXCEPT !.key = "k", !.arguments = <<7>>]
Incremental == [Request EXCEPT !.key = "k", !.baseline = 1,
                               !.execution = Execution("incremental")]
NoBaseline == [Incremental EXCEPT !.baseline = Absent]

RegistrationSet == {Command(<<Report, Inventory>>), Command(<<Measured>>)}
RequestSet == {Reused, WithArguments, Incremental, NoBaseline}
=============================================================================
