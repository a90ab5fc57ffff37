--------------------------- MODULE MCLeadPipeline ---------------------------
EXTENDS LeadPipeline, TLC
CONSTANTS l1, l2, c1, i1, i2
MCLead == {l1, l2}
MCCompany == {c1}
MCCompanyOf == [l \in MCLead |-> c1]
MCIngest == {i1, i2}
MCRowsOf == i1 :> {l1, l2} @@ i2 :> {l2}
MCFailing == {<<"research_company", c1>>}
NoTask == {}
NoLead == {}
=============================================================================
