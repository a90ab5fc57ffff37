-------------------------- MODULE MCCompanyResearch --------------------------
EXTENDS CompanyResearch, TLC
CONSTANTS p1, p2
MCPass == {p1, p2}
MCCareers == <<"/careers">>
MCElsewhere == {}
MCOverviews == <<"about">>
MCNews == <<>>
MCBoards == <<"lever">>
MCHintOf == [u \in {"/careers"} |-> "none"]
MCTextOf == "/" :> "home" @@ "/careers" :> "openings" @@ "about" :> "about" @@ "launch" :> "news"
MCServed == {"/careers"}
MCBrief == {}
MCJobNo == {1}
PassSymmetry == Permutations(MCPass)
=============================================================================
