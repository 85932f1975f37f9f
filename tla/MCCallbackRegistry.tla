------------------------- MODULE MCCallbackRegistry -------------------------
(* The node and a plug-in register for responses under the same name, the  *)
(* plug-in for both messages of the class at once; it also gives a message *)
(* a callback of another name when it registers one of them.               *)
EXTENDS CallbackRegistry, TLC

CONSTANT Plugin

MCAsked == (Node :> {<<"response", {<<"RESPONSE", 1>>}>>}) @@ (Plugin :> {<<"response", Messages>>})

MCGiven == {<<<<"RESPONSE", 1>>, "tap", Plugin>>}
=============================================================================
