----------------------------- MODULE MCStreamParser -----------------------------
(* Streams for StreamParser: a banner line and messages that end every way they can. *)
EXTENDS StreamParser

x == "x"
CR == "CR"
LF == "LF"
Line == <<x, CR, LF>>
End  == <<CR, LF>>

\* Two messages; messages and a line end too many (the ends overlap); a message cut short.
MCStreams == { Line \o Line \o End \o Line \o End,
               Line \o Line \o End \o End \o End,
               Line \o Line \o End \o <<x, CR, LF, CR>>,
               Line \o End \o End \o Line \o <<CR, CR, LF>> }
================================================================================
