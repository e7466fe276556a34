------------------------------ MODULE MCEditWar ------------------------------
(***************************************************************************)
(* One page fought over by two users, who take turns in any order.         *)
(***************************************************************************)
EXTENDS EditWar

MCEditKinds == {<<"ann", 20>>, <<"bob", -15>>}
=============================================================================
