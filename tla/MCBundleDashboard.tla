------------------------- MODULE MCBundleDashboard -------------------------
EXTENDS BundleDashboard

CONSTANTS c1, total

MCCells == {c1, total}
MCTotals == {total}

(* The forms of a bundle that may be submitted. *)
EEA2 == [Blank EXCEPT !.id = "eea2", !.status = "signed",
                      !.workforce = [c \in Cells |-> 1],
                      !.disability = [c \in Cells |-> 0],
                      !.targets = [c \in Totals |-> 1],
                      !.sections = TRUE, !.signature = TRUE]
EEA4 == [Blank EXCEPT !.id = "eea4", !.status = "signed", !.linkedEEA2Id = "eea2",
                      !.headcount = [c \in Cells |-> 1],
                      !.highest = [c \in Cells |-> 1],
                      !.lowest = [c \in Cells |-> 1], !.signature = TRUE]

(* Each of the others differs from these in a place or two. *)
MCEEA2Forms ==
    {EEA2,
     [EEA2 EXCEPT !.status = Undefined, !.reportStatus = "draft"],
     [EEA2 EXCEPT !.status = Undefined, !.reportStatus = "signed", !.sections = FALSE],
     [EEA2 EXCEPT !.workforce[c1] = 0, !.disability[c1] = 1, !.workforce[total] = Undefined]}
MCEEA4Forms ==
    {EEA4,
     [EEA4 EXCEPT !.linkedEEA2Id = Undefined],
     [EEA4 EXCEPT !.linkedEEA2Id = "another", !.status = Undefined],
     [EEA4 EXCEPT !.headcount[c1] = 0, !.highest[c1] = 0, !.signature = FALSE]}

MCForms == {<<"this year", "EEA2">>, <<"this year", "EEA4">>, <<"last year", "EEA2">>}
MCPeriods == {"this year", "last year"}
=============================================================================
