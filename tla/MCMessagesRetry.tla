-------------------------- MODULE MCMessagesRetry --------------------------
(* e1 maps the model, strips tools and allows 2 attempts; e2 does none of  *)
(* it and keeps the default of 5 attempts; e3 maps the model to itself; e4 *)
(* has a proxy that cannot be used.                                        *)
EXTENDS MessagesRetry, TLC

CONSTANTS e1, e2, e3, e4, mapped

MaxRetriesOf == e1 :> 2 @@ e2 :> 0 @@ e3 :> 0 @@ e4 :> 0
MapsToOf     == e1 :> mapped @@ e2 :> NoMapping @@ e3 :> Requested @@ e4 :> NoMapping

=============================================================================
