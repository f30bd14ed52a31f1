------------------------------ MODULE MCWebSession ------------------------------
EXTENDS WebSession
CONSTANTS j1, t1, t2, u1, u2
MCTabOwner == [t \in Tabs |-> IF t = t1 THEN "ann" ELSE "bob"]
MCJobTab == [j \in Runs |-> t1]

Form(s, save, raw, p, send, target) ==
  [src |-> s, save |-> save, raw |-> raw, rawTo |-> FALSE, process |-> p, send |-> send, target |-> target]
MCForms == {
  Form("upload", FALSE, TRUE, "process", "remote", "output"),
  Form("upload", FALSE, FALSE, "forward", "remote", "none"),
  Form("link", FALSE, FALSE, "forward", "local", "none"),
  Form("link", TRUE, FALSE, "forward", "local", "none"),
  Form("link", FALSE, TRUE, "forward", "local", "none"),
  Form("key", TRUE, FALSE, "process", "local", "directory"),
  Form("key", FALSE, TRUE, "process", "remote", "otherhost"),
  Form("host", TRUE, FALSE, "forward", "remote", "output"),
  Form("host", FALSE, FALSE, "forward", "remote", "sendhost"),
  [Form("host", TRUE, FALSE, "process", "remote", "output") EXCEPT !.rawTo = TRUE],
  [Form("link", FALSE, FALSE, "forward", "local", "none") EXCEPT !.rawTo = TRUE],
  Form("host", FALSE, FALSE, "process", "local", "localhost")}

Of(src) == {f \in MCForms : f.src \in src}
Base == [modes |-> {"user", "service"}, jobs |-> {j1}, forms |-> MCForms, tabs |-> {}, unlockers |-> {},
         failures |-> 0, secured |-> {FALSE}, followers |-> {}, stops |-> FALSE]

\* A page that listens for its bundle; two pages while the server stops; a
\* link that its owner and another user follow; a job while the keystore is
\* unlocked and locked; two requests to unlock at a time.
MCScenarios == {
  [Base EXCEPT !.tabs = {t1}, !.forms = {f \in @ : f.raw}],
  [Base EXCEPT !.tabs = {t1, t2}, !.stops = TRUE, !.forms = {f \in Of({"upload", "link"}) : f.process = "forward" /\ ~f.raw /\ ~f.save}],
  [Base EXCEPT !.followers = {t1, t2}, !.forms = {f \in Of({"link", "key"}) : f.save}],
  [Base EXCEPT !.modes = {"user"}, !.unlockers = {u1}, !.failures = 1, !.secured = BOOLEAN],
  [Base EXCEPT !.modes = {"user"}, !.jobs = {}, !.unlockers = {u1, u2}, !.failures = 6]}
=============================================================================
