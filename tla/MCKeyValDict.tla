----------------------------- MODULE MCKeyValDict -----------------------------
(***************************************************************************)
(* KeyValDict over every message of up to MaxTokens tokens, and the action *)
(* classes with values that are empty, plain, contain a separator, contain *)
(* the end of a line, or end with it, which makes the end of a message.    *)
(***************************************************************************)
EXTENDS KeyValDict

CONSTANT MaxTokens

MCWord     == LibraryWords \cup {"a", "b"}
MCReceived == UNION {[1 .. n -> {SEP, EOR, "a", "b"}] : n \in 0 .. MaxTokens}
MCValues   == {<<>>, <<"a", SEP, "b">>, <<"a", EOR, "b">>, <<"a", EOR>>}
================================================================================
