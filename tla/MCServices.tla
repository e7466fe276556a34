------------------------------ MODULE MCServices ------------------------------
(***************************************************************************)
(* Services for TLC.  A search may be made once a minute and an edit war   *)
(* asked for twice; the place of a title is told in one edition by its     *)
(* item's description, in another by its English article, in a third by    *)
(* nothing; digests are daily.                                             *)
(***************************************************************************)
EXTENDS Services, TLC

MCLimits == [search |-> 1] @@ ("edit-wars" :> 2)

InEnglish == <<"shared", "en">>
InBengali == <<"shared", "bn">>
InHindi == <<"shared", "hi">>

MCArticles == {InEnglish, InBengali, InHindi}
MCTelling == InEnglish :> {"description"} @@ InBengali :> {} @@ InHindi :> {"english"}
MCLinked == {InEnglish, InHindi}
MCForeign == {InHindi}

MCEvery == [daily |-> 1]

=============================================================================
