------------------------------- MODULE MCChat -------------------------------
(***************************************************************************)
(* Chat on a small instance: four rounds, in each of which the model       *)
(* calls no tool, one, or two of which one may have arguments that cannot  *)
(* be parsed.                                                              *)
(***************************************************************************)
EXTENDS Chat

MCTool == {"get_users", "get_top_products"}

MCCall(tool, parsed) == [tool |-> tool, parsed |-> parsed]

MCCallLists ==
  {<<>>,
   <<MCCall("get_users", "yes")>>,
   <<MCCall("get_users", "yes"), MCCall("get_top_products", "yes")>>,
   <<MCCall("get_top_products", "no"), MCCall("get_users", "yes")>>}

MCHistories == {<<>>, <<"user", "assistant">>, <<"user", "model">>}
=============================================================================
