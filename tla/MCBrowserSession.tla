-------------------------- MODULE MCBrowserSession --------------------------
(* BrowserSession with numbered requests. *)
EXTENDS BrowserSession

CONSTANT MaxRequest   \* bound: the requests of a run

MCRequest == 1 .. MaxRequest
MCSent == [login |-> 1, refresh |-> 3, logout |-> 1]

\* The pages are alike: the first request is sent by the first of them.
HomeFirst == sender'[1] = Home
=============================================================================
