----------------------------- MODULE MCProcessing -----------------------------
(* A small tenant: one measured run and one import on the same days.          *)
EXTENDS Processing, TLC
Serp(p, t, d) == [ran |-> TRUE, present |-> p, top |-> t, dominant |-> d]
NoSerp == [ran |-> FALSE, present |-> FALSE, top |-> FALSE, dominant |-> FALSE]
Base == [id |-> 1, run |-> 1, query |-> "q1", surface |-> "openai", persona |-> "generic",
         location |-> "", variant |-> "search", ok |-> TRUE, names |-> {"brand", "rival"},
         cites |-> "own.com", searched |-> TRUE, diverged |-> TRUE, serp |-> NoSerp]
Twin == [Base EXCEPT !.id = 2, !.variant = "nosearch", !.names = {}, !.cites = "none"]
Default == [Base EXCEPT !.id = 5, !.surface = "google_aio", !.names = {"rival"},
                        !.serp = Serp(TRUE, FALSE, FALSE)]
North == [Default EXCEPT !.id = 4, !.location = "north", !.serp = Serp(TRUE, TRUE, FALSE)]
Other == [Base EXCEPT !.id = 3, !.run = 2, !.cites = "rival.com"]
SmallAnswers == {Base, Twin, Other}
LocatedAnswers == {Base, Other, Default, North}
Plain == [rivals |-> {"rival"}, own |-> {"own.com"}, theirs |-> {"rival.com"}, off |-> {}]
Paused == [Plain EXCEPT !.rivals = {}, !.off = {"q1"}]
OneConfig == {Plain}
TwoConfigs == {Plain, Paused}
===============================================================================
