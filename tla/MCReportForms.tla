--------------------------- MODULE MCReportForms ---------------------------
(* ReportForms for TLC: a level and the temporary row, two columns, two    *)
(* EEA2s for the EEA4 and three for the EEA12, two sectors, two tenants    *)
(* for the dashboards.                                                     *)
EXTENDS ReportForms, TLC

\* Eea2Sections: the level above the temporary row.
MCPermanentRows2 == <<"skilled">>

\* Eea4Form: the same level, and Table 1.1 in two versions; an EEA2 without one.
MCPermanentRows == <<"skilled">>
MCDemoCols == <<"male", "female">>

Table(skilled, temporary) ==
    LET Given(r) == CASE r = "skilled" -> skilled
                      [] r = TemporaryRow -> temporary
                      [] OTHER -> <<0, 0>>
    IN ComputeGridTotals([r \in Rows |-> [c \in Cols |->
           IF c = "total" THEN 0 ELSE Given(r)[PosIn(DemoCols, c)]]])

\* Another level has one employee in each.
T1 == Table(<<1, 1>>, <<0, 1>>)
T2 == Table(<<1, 0>>, <<1, 1>>)
Item(profile, workforce) == [profile |-> profile, workforce |-> workforce]
MCLists ==
    {("a" :> Item(TRUE, T1)) @@ ("b" :> Item(FALSE, T2)),
     ("a" :> Item(TRUE, T2)) @@ ("b" :> Item(TRUE, Undefined))}

\* Eea12Form: y has a cell with more disabled than employees, z lacks Table 1.2.
Counted(am, wf, foreign) == ("AM" :> am) @@ ("WF" :> wf) @@ ("foreign" :> foreign)
Levelled(top, temporary) == (1 :> top) @@ (7 :> temporary)
MCTables ==
    ("x" :> [w |-> Levelled(Counted(2, 1, 1), Counted(0, 3, 0)),
             d |-> Levelled(Counted(1, 0, 0), Counted(0, 2, 0))])
    @@ ("y" :> [w |-> Levelled(Counted(0, 3, 0), Counted(1, 1, 0)),
                d |-> Levelled(Counted(0, 0, 0), Counted(2, 0, 0))])
    @@ ("z" :> [w |-> Levelled(Counted(1, 1, 0), Counted(0, 0, 1)), d |-> Undefined])
MCEapPct == ("AM" :> 428) @@ ("WF" :> 100)

\* Eea13Form: one kind has a target of its sector, the other has none.
Women == <<2, "F">>
African == <<2, "A">>
MCKinds == {Women, African}
MCEapOf == (African :> 40) @@ (Women :> 30)
MCSectorTarget ==
    ("mining" :> ((African :> Undefined) @@ (Women :> 45)))
    @@ ("retail" :> ((African :> Undefined) @@ (Women :> 20)))

Row(level, race, gender, disability) ==
    [level |-> level, race |-> race, gender |-> gender, disability |-> disability]
Barrier(category, severity) == [category |-> category, severity |-> severity]
MCPrefills ==
    {Undefined,
     [rows |-> (Row(1, "A", "M", FALSE) :> 2) @@ (Row(1, "W", "M", FALSE) :> 3)
               @@ (Row(2, "W", "M", TRUE) :> 1),
      foreign |-> 1,
      barriers |-> <<Barrier("training", "low"), Barrier("promotion", "medium"),
                     Barrier("training", "high")>>]}

\* Eea1Form: a complete declaration; of another employee; of a foreign national without
\* and with the date.
Complete ==
    [f \in {"name", "workplaceNumber", "foreignNational", "citizenshipDate", "race", "gender",
            "disability", "disabilityNature", "reasonableAccommodation", "employeeId",
            "signatureDataUrl", "declarationDate"} |->
        CASE f = "employeeId" -> "caller"
          [] f \in {"name", "workplaceNumber"} -> "valid"
          [] f = "foreignNational" -> FALSE
          [] f = "signatureDataUrl" -> "drawn"
          [] f = "race" -> "stated"
          [] f = "gender" -> Absent
          [] f = "declarationDate" -> "2020-01-01"
          [] OTHER -> Undefined]
MCOtherBodies ==
    {Complete, [Complete EXCEPT !["employeeId"] = "another"],
     [Complete EXCEPT !["foreignNational"] = TRUE],
     [Complete EXCEPT !["foreignNational"] = TRUE, !["citizenshipDate"] = "2015-03-01"]}

\* ComplianceData: a list whose first EEA2 has no valid table; totals that do not divide.
MCGenders == {"male", "female"}
GroupHeads(am, af, wm, wf, fm) ==
    [c \in {"african", "white", "foreign"} \X MCGenders |->
        CASE c = <<"african", "male">> -> am
          [] c = <<"african", "female">> -> af
          [] c = <<"white", "male">> -> wm
          [] c = <<"white", "female">> -> wf
          [] c = <<"foreign", "male">> -> fm
          [] OTHER -> 0]
WithTotal(top, temporary) ==
    (1 :> top) @@ (7 :> temporary) @@ (0 :> [c \in DOMAIN top |-> top[c] + temporary[c]])
MCAnsweredLists ==
    ("tenant 1" :>
        {<<[workforce |-> Undefined, disability |-> Undefined],
           [workforce |-> WithTotal(GroupHeads(1, 0, 2, 1, 1), GroupHeads(0, 3, 0, 0, 0)),
            disability |-> WithTotal(GroupHeads(1, 0, 0, 0, 0), GroupHeads(0, 1, 0, 0, 1))]>>,
         <<[workforce |-> WithTotal(GroupHeads(0, 0, 0, 0, 2), GroupHeads(1, 1, 1, 1, 0)),
            disability |-> Undefined]>>})
    @@ ("tenant 2" :>
        {<<[workforce |-> WithTotal(GroupHeads(3, 3, 1, 0, 0), GroupHeads(0, 0, 0, 0, 0)),
            disability |-> Undefined]>>})
Pay(headsMen, totalMen, headsWomen, totalWomen) ==
    [g \in PayRaces \X MCGenders |->
        CASE g = <<"white", "male">> -> [headcount |-> headsMen, total |-> totalMen]
          [] g = <<"african", "female">> -> [headcount |-> headsWomen, total |-> totalWomen]
          [] OTHER -> [headcount |-> 0, total |-> 0]]
MCSectionsC ==
    "report" :> {Levelled(Pay(2, 2399, 1, 1000), Pay(0, 0, 3, 100)),
                 Levelled(Pay(1, 1, 1, 1000), Pay(1, 0, 3, 100))}
MCLevelTargets == 1 :> [male |-> 300, female |-> 250, disabled |-> 30]
Figures(heads, men, women) ==
    [workforce |-> [citizens |-> [g \in PayRaces \X MCGenders |-> heads[g]],
                    foreign |-> [g \in MCGenders |-> heads[<<"foreign", g>>]], disabled |-> 0],
     pay |-> [g \in PayRaces \X MCGenders |->
                 CASE g = <<"white", "male">> -> men
                   [] g = <<"african", "female">> -> women
                   [] OTHER -> [headcount |-> 0, avg |-> 0]]]
MCDemoCompany ==
    LET levels == Levelled(
            Figures(GroupHeads(2, 1, 4, 1, 1), [headcount |-> 2, avg |-> 10], [headcount |-> 1, avg |-> 8]),
            Figures(GroupHeads(1, 1, 0, 0, 0), [headcount |-> 0, avg |-> 0], [headcount |-> 1, avg |-> 8]))
    IN [workforce |-> [l \in RealLevels |-> levels[l].workforce],
        remuneration |-> [l \in RealLevels |-> levels[l].pay], penalties |-> 31]
=============================================================================
