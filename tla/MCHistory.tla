------------------------------ MODULE MCHistory ------------------------------
(* History on two autoscalers of one namespace, the name of one of which is *)
(* the beginning of the name of the other, as in "web" and "web-blue".      *)
EXTENDS History

MCTokens == {"/", "shop", "web", "-blue", "cpu", "memory"}
MCNamespaces == {<<"shop">>}
MCNames == {<<"web">>, <<"web", "-blue">>}
MCResources == {"cpu"}
MCSamples == {10, 20}
==============================================================================
