--------------------------- MODULE MCPagePipeline ---------------------------
(***************************************************************************)
(* A site in which every kind of redirect leads somewhere:                 *)
(*   page   a page                  old      moved permanently to page     *)
(*   login  a login form            private  for now redirected to login   *)
(*   secret forbidden by robots     door     moved permanently to secret   *)
(*   gone   was a page              mirror   for now at old                *)
(*   broken an error for now        away     for now redirected to gone    *)
(*   slash  old with a slash, for now redirected to old                    *)
(*   far    for now at mirror, a redirect too many from page               *)
(* All that is no page now was one, and indexed, when the site was crawled *)
(* before.                                                                 *)
(***************************************************************************)
EXTENDS PagePipeline

MCURLs == {"page", "old", "login", "private", "secret", "door", "gone", "mirror", "slash",
           "broken", "away", "far"}

Page(status) == [hop |-> "none", to |-> "page", status |-> status, text |-> TRUE]
Moved(to)    == [hop |-> "permanent", to |-> to, status |-> "ok", text |-> FALSE]
ForNow(to)   == [hop |-> "temporary", to |-> to, status |-> "ok", text |-> FALSE]

MCSite == [u \in MCURLs |->
    CASE u \in {"page", "login", "secret"} -> Page("ok")
      [] u = "gone" -> Page("gone")
      [] u = "broken" -> Page("error")
      [] u = "old" -> Moved("page")
      [] u = "door" -> Moved("secret")
      [] u = "private" -> ForNow("login")
      [] u = "away" -> ForNow("gone")
      [] u = "far" -> ForNow("mirror")
      [] u \in {"mirror", "slash"} -> ForNow("old")]

MCSamePath == {<<"slash", "old">>}

MCHost == [u \in MCURLs |-> IF u = "secret" THEN "closed" ELSE "open"]
MCRobotsSays ==
    {[open |-> "missing", closed |-> "rules"], [open |-> "missing", closed |-> "errorPage"]}

Task(u, useCache, render) == [url |-> u, useCache |-> useCache, render |-> render]

MCBatches ==
    {{Task("page", FALSE, FALSE), Task("page", TRUE, TRUE)},
     {Task("private", FALSE, TRUE), Task("slash", FALSE, FALSE)},
     {Task("mirror", FALSE, FALSE), Task("gone", FALSE, TRUE)},
     {Task("door", FALSE, FALSE), Task("secret", FALSE, FALSE)},
     {Task("broken", FALSE, FALSE), Task("away", FALSE, FALSE)},
     {Task("far", FALSE, FALSE)}}

MCOldIndexes == {MCURLs \ {"page", "login", "secret"}}
=============================================================================
