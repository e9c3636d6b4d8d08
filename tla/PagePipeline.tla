---------------------------- MODULE PagePipeline ----------------------------
(***************************************************************************)
(* One crawler process from the task channel to the page savers, and its   *)
(* end: crawl workers fetch, render, index, hand the page to a saver and   *)
(* complete the task, while StopApp closes what they use stage by stage,   *)
(* each stage with a deadline. Savers take pages from an unbuffered        *)
(* channel. What becomes of the links is the subject of CrawlRun.          *)
(***************************************************************************)
EXTENDS Fetching, FiniteSets

CONSTANTS
    Batches,      \* sets of tasks [url, useCache, render] a process may get
    Workers, Savers,
    Host,         \* URLs -> hosts
    RobotsSays,   \* what a GET of /robots.txt may give, host by host: functions to
                  \* "rules", "missing", "errorPage", "unreachable"
    Disallowed,   \* the URLs the rules forbid
    OldIndexes    \* sets of URLs that earlier crawls may have left indexed, each with
                  \* the text it had then: the site may have changed since

Tasks == [url : URLs, useCache : BOOLEAN, render : BOOLEAN]
Hosts == {Host[u] : u \in URLs}
Answers == {"rules", "missing", "errorPage", "unreachable"}

\* A host without robots.txt forbids nothing.
ASSUME PagePipelineAssumption ==
    /\ Disallowed \subseteq URLs /\ UNION Batches \subseteq Tasks
    /\ OldIndexes \subseteq SUBSET URLs
    /\ None \notin Tasks \cup Answers
    /\ \A a \in RobotsSays : /\ \A h \in Hosts : a[h] \in Answers
                             /\ \A u \in Disallowed : a[Host[u]] # "missing"

VARIABLES
    input,     \* tasks in the task channel
    worker,    \* worker -> [pc, task, text]
    saver,     \* saver -> [pc, page, alias]: Idle, "saving" that page, or "ended"
    browser,   \* "up", "down"
    robots,    \* cacheRobots: host -> "rules", "errorPage" or None
    cached,    \* cachePages: URLs
    graph,     \* pages saved: [page, alias]
    index,     \* URL -> the URL whose text is indexed under it, or None
    stage,     \* of StopApp: "running", "queues", "crawler", "outputs", "pages", "exited"
    closed,    \* what StopApp has closed
    overdue,   \* a stage went on at its deadline
    refused,   \* history: what a worker wanted to use and found closed
    misled     \* history: an error page was read as a host's robots.txt

vars == <<input, worker, saver, browser, robots, cached, graph, index, stage, closed,
          overdue, refused, misled>>
outside == <<stage, closed, overdue>>

Idle == "idle"
Resting == [pc |-> Idle, task |-> None, text |-> FALSE]
SaverAt(pc) == [pc |-> pc, page |-> None, alias |-> None]
Saving(names) == [pc |-> "saving", page |-> names.page, alias |-> names.alias]

Init ==
    /\ input \in Batches
    /\ worker = [w \in Workers |-> Resting]
    /\ saver = [s \in Savers |-> SaverAt(Idle)]
    /\ browser = "up"
    /\ robots = [h \in Hosts |-> None]
    /\ cached = {} /\ graph = {}
    /\ \E old \in OldIndexes : index = [u \in URLs |-> IF u \in old THEN u ELSE None]
    /\ stage = "running" /\ closed = {} /\ overdue = FALSE
    /\ refused = {} /\ misled = FALSE

Alive == stage # "exited"
At(w, pc) == Alive /\ worker[w].pc = pc
Goto(w, pc) == worker' = [worker EXCEPT ![w].pc = pc]
Use(what) == refused' = refused \cup (closed \cap {what})

------------------------------------------------------------------------------
\* Crawl workers

Take(w) ==
    /\ At(w, Idle)
    /\ \E t \in input :
        /\ input' = input \ {t}
        /\ worker' = [worker EXCEPT ![w] = [pc |-> "fetch", task |-> t, text |-> FALSE]]
    /\ UNCHANGED <<saver, browser, robots, cached, graph, index, refused, misled, outside>>

\* range over a closed channel ends once it is empty.
Leave(w) ==
    /\ At(w, Idle) /\ "input" \in closed /\ input = {}
    /\ Goto(w, "left")
    /\ UNCHANGED <<input, saver, browser, robots, cached, graph, index, refused, misled, outside>>

CacheHit(w) ==
    /\ At(w, "fetch") /\ worker[w].task.useCache /\ worker[w].task.url \in cached
    /\ Goto(w, "complete")
    /\ UNCHANGED <<input, saver, browser, robots, cached, graph, index, refused, misled, outside>>

\* isAllowedByRobots, when the host says a: whatever was cached wins.
Robots(u, a) == IF robots[Host[u]] # None THEN robots[Host[u]] ELSE a[Host[u]]
isAllowedByRobots(u, a) ==
    CASE Robots(u, a) = "unreachable" -> FALSE
      [] Robots(u, a) \in {"missing", "errorPage"} -> TRUE
      [] Robots(u, a) = "rules" -> u \notin Disallowed

\* processCrawlTask and scrap: the task's URL is checked, and the page's own
\* name when that is another.
MayBeCrawled(u, a) == isAllowedByRobots(u, a) /\ isAllowedByRobots(pageIdentity(u).page, a)

\* Robots, the GET and the second look at robots. Any GET may fail.
Fetch(w) ==
    LET t == worker[w].task
    IN  /\ At(w, "fetch")
        /\ ~(t.useCache /\ t.url \in cached)
        /\ \E a \in RobotsSays, reached \in BOOLEAN :
            /\ LET ok    == reached /\ Fetched(t.url) /\ MayBeCrawled(t.url, a)
                   asked == {Host[t.url]} \cup
                            (IF reached /\ Fetched(t.url) /\ isAllowedByRobots(t.url, a)
                                THEN {Host[pageIdentity(t.url).page]} ELSE {})
               IN  /\ robots' = [h \in DOMAIN robots |->
                                   IF h \in asked /\ robots[h] = None /\ a[h] \in {"rules", "errorPage"}
                                      THEN a[h] ELSE robots[h]]
                   /\ misled' = (misled \/ \E h \in asked : robots'[h] = "errorPage")
                   /\ worker' = [worker EXCEPT
                        ![w].pc = IF ~ok THEN "complete" ELSE IF t.render THEN "render" ELSE "submit",
                        ![w].text = ok /\ Site[Followed(t.url).final].text]
    /\ UNCHANGED <<input, saver, browser, cached, graph, index, refused, outside>>

\* PerformExtraTask: the rendered HTML replaces the body. When the browser
\* panics the body is empty, and the worker that recovers tries to restart the
\* browser all workers share. Waiting for a page to load has no timeout.
Render(w) ==
    /\ At(w, "render")
    /\ Use("browser")
    /\ \/ /\ browser = "up" /\ "browser" \notin closed
          /\ Goto(w, "submit")
          /\ UNCHANGED browser
       \/ /\ worker' = [worker EXCEPT ![w].pc = "submit", ![w].text = FALSE]
          /\ browser' \in {"up", "down"}
    /\ UNCHANGED <<input, saver, robots, cached, graph, index, misled, outside>>

\* The body is the page's own: no temporary redirect led elsewhere.
TextIsOfPage(final, page) == final = page

\* submitDocument for the page, then removeDocument for the alias.
Submit(w) ==
    LET u     == worker[w].task.url
        final == Followed(u).final
        id    == pageIdentity(u)
        what  == IF TextIsOfPage(final, id.page) THEN Submission(final, worker[w].text) ELSE "keep"
    IN  /\ At(w, "submit")
        /\ Use("sink")
        /\ index' = IF "sink" \in closed THEN index
                    ELSE [v \in URLs |-> IF v = id.alias THEN None
                                         ELSE IF v # id.page \/ what = "keep" THEN index[v]
                                         ELSE IF what = "remove" THEN None ELSE final]
        /\ Goto(w, "hand")
        /\ UNCHANGED <<input, saver, browser, robots, cached, graph, misled, outside>>

\* The select of processTask: a saver takes the page,
HandOver(w) ==
    /\ At(w, "hand") /\ "savers" \notin closed
    /\ \E s \in Savers :
        /\ saver[s].pc = Idle
        /\ saver' = [saver EXCEPT ![s] = Saving(pageIdentity(worker[w].task.url))]
    /\ Goto(w, "cache")
    /\ UNCHANGED <<input, browser, robots, cached, graph, index, refused, misled, outside>>

\* or none is free for SaverSendTimeout and the page is dropped,
DropPage(w) ==
    /\ At(w, "hand") /\ "savers" \notin closed
    /\ \A s \in Savers : saver[s].pc # Idle
    /\ Goto(w, "cache")
    /\ UNCHANGED <<input, saver, browser, robots, cached, graph, index, refused, misled, outside>>

\* or the channel is closed: the send panics and ends the process.
Panic(w) ==
    /\ At(w, "hand") /\ "savers" \in closed
    /\ Use("savers")
    /\ stage' = "exited"
    /\ UNCHANGED <<input, worker, saver, browser, robots, cached, graph, index, misled, closed, overdue>>

\* The page is cached under the task's URL, saved or not.
CachePage(w) ==
    /\ At(w, "cache")
    /\ Use("caches")
    /\ cached' = IF "caches" \in closed THEN cached ELSE cached \cup {worker[w].task.url}
    /\ Goto(w, "complete")
    /\ UNCHANGED <<input, saver, browser, robots, graph, index, misled, outside>>

\* Children are queued and the task is completed, or it is left for redelivery.
Complete(w) ==
    /\ At(w, "complete")
    /\ Use("runState")
    /\ worker' = [worker EXCEPT ![w] = Resting]
    /\ UNCHANGED <<input, saver, browser, robots, cached, graph, index, misled, outside>>

Work(w) ==
    \/ Take(w) \/ Leave(w) \/ CacheHit(w) \/ Fetch(w) \/ Submit(w) \/ HandOver(w) \/ DropPage(w)
    \/ Panic(w) \/ CachePage(w) \/ Complete(w)

\* Mutant: a save that failed ends its worker.
EndsOnError(saved) == SaverAt(IF saved THEN Idle ELSE "ended")

\* startSaverWorker: the error is logged and the loop goes on.
AfterSave(saved) == SaverAt(Idle)

\* SavePage ends within its five seconds; it fails on a closed driver.
SaveEnds(s) ==
    /\ Alive /\ saver[s].pc = "saving"
    /\ \E saved \in BOOLEAN :
        /\ saved => "driver" \notin closed
        /\ graph' = IF saved THEN graph \cup {[page |-> saver[s].page, alias |-> saver[s].alias]} ELSE graph
        /\ saver' = [saver EXCEPT ![s] = AfterSave(saved)]
    /\ UNCHANGED <<input, worker, browser, robots, cached, index, refused, misled, outside>>

------------------------------------------------------------------------------
\* StopApp

inside == <<input, worker, saver, browser, robots, cached, graph, index, refused, misled>>

\* SIGTERM
Stop == stage = "running" /\ stage' = "queues" /\ UNCHANGED <<closed, overdue, inside>>

\* StopProcessor waits for the queues' loops, or for the deadline.
StopProcessor ==
    /\ stage = "queues" /\ stage' = "crawler"
    /\ overdue' \in BOOLEAN
    /\ UNCHANGED <<closed, inside>>

\* StartTaskConsumer closes the task channel once its queue no longer feeds it;
\* StopProcessor does not wait for that.
InputCloses ==
    /\ stage \in {"queues", "crawler", "outputs", "pages"} /\ "input" \notin closed
    /\ closed' = closed \cup {"input"}
    /\ UNCHANGED <<stage, overdue, inside>>

WorkersLeft == \A w \in Workers : worker[w].pc = "left"

\* Mutant: the crawler closes its outputs when its input is closed.
NotWaitedFor == "input" \in closed

WorkersWaitedFor == WorkersLeft

\* Mutant: there is no deadline, the workers are always waited for.
NoDeadline == FALSE

StageDeadline == TRUE

\* CrawlerRepo.Shutdown waits for the workers or for the deadline, then closes
\* what only they use.
CrawlerShutdown ==
    /\ stage = "crawler" /\ stage' = "outputs"
    /\ \/ WorkersWaitedFor /\ UNCHANGED overdue
       \/ StageDeadline /\ ~WorkersLeft /\ overdue' = TRUE
    /\ closed' = closed \cup {"browser", "sink", "caches"}
    /\ UNCHANGED inside

\* The saver channel and the driver are closed at once, and the run state.
PagesShutdown ==
    /\ stage = "outputs" /\ stage' = "pages"
    /\ closed' = closed \cup {"savers", "driver", "runState"}
    /\ UNCHANGED <<overdue, inside>>

\* main returns: savers still at work are not waited for.
Exit == stage = "pages" /\ stage' = "exited" /\ UNCHANGED <<closed, overdue, inside>>

Shutdown == StopProcessor \/ CrawlerShutdown \/ PagesShutdown \/ Exit

Next ==
    \/ \E w \in Workers : Work(w) \/ Render(w)
    \/ \E s \in Savers : SaveEnds(s)
    \/ Stop \/ InputCloses \/ Shutdown

\* Workers and savers run and every call they make ends, rendering excepted;
\* StopApp runs. Nothing says that the process is ever asked to stop.
Spec ==
    /\ Init /\ [][Next]_vars
    /\ \A w \in Workers : WF_vars(Work(w))
    /\ \A s \in Savers : WF_vars(SaveEnds(s))
    /\ WF_vars(Shutdown)

------------------------------------------------------------------------------
\* Properties

TypeOK ==
    /\ input \subseteq UNION Batches
    /\ worker \in [Workers ->
         [pc : {Idle, "fetch", "render", "submit", "hand", "cache", "complete", "left"},
          task : Tasks \cup {None}, text : BOOLEAN]]
    /\ \A w \in Workers : worker[w].pc \in {Idle, "left"} <=> worker[w].task = None
    /\ saver \in [Savers -> [pc : {Idle, "saving"}, page : URLs \cup {None}, alias : URLs \cup {None}]]
    /\ \A s \in Savers : saver[s].pc = Idle \/ saver[s].page \in URLs
    /\ robots \in [Hosts -> {"rules", "errorPage", None}]
    /\ cached \subseteq URLs /\ index \in [URLs -> URLs \cup {None}]
    /\ browser \in {"up", "down"} /\ overdue \in BOOLEAN /\ misled \in BOOLEAN

\* As long as every stage ends in time no worker finds the browser, the sink, the
\* caches, the savers' channel or the run state closed, and so none panics on
\* that channel (the comment of StopApp).
ClosedOnlyAfterUse == refused # {} => overdue

\* Text is only found under the address it is or was served at: not under an
\* alias, and not under a page that redirected temporarily to a login form (scrap).
IndexHoldsOwnText == \A u \in URLs : index[u] \in {None, u}

\* What is indexed, by this process or by crawls of the site as it was, leaves the
\* index by the server's own word on that address only: that it is gone, or now
\* another page's name. Not by an error, a page without text or a failed browser,
\* a redirect for now, whatever it leads to, nor the crawl of another address.
OnlyGoneOrRenamedLeaveTheIndex ==
    [][\A u \in URLs : index[u] # None /\ index'[u] = None =>
          \/ Site[u].hop = "none" /\ Site[u].status = "gone"
          \/ Site[u].hop # "none" /\ isIdentityRedirect(u)]_vars

\* A page is stored under the name the server's identity redirects give it, and
\* an alias is what reaches it through such redirects alone.
NamesAreTheServers ==
    \A g \in graph :
        g.alias # None =>
            LET hop[n \in 0 .. Followable] == IF n = 0 THEN g.alias ELSE Site[hop[n - 1]].to
            IN  \E n \in 1 .. Followable :
                    hop[n] = g.page /\ \A i \in 0 .. n - 1 : isIdentityRedirect(hop[i])

\* No page is stored that its host's robots.txt forbids, whichever redirect led
\* to it, unless an error page passed for robots.txt.
StoredIsAllowed == ~misled => \A g \in graph : g.page \notin Disallowed

\* Once asked to stop the process ends, even if a worker never comes back.
StopEnds == stage = "queues" ~> stage = "exited"

\* Failed saves and dropped pages never use up the savers.
SaversComeBack == \A s \in Savers : []<>(saver[s].pc = Idle \/ stage = "exited")

\* A page is stored under the server's name for it, if its robots.txt allows, and
\* its own text is what the index finds it by.
PagesAreStoredTruly == TypeOK /\ NamesAreTheServers /\ StoredIsAllowed /\ IndexHoldsOwnText

\* Nothing that hangs or fails in one part holds up another for ever: a worker in
\* the browser not the end of the process, a failed save not the workers.
NobodyHoldsUpTheRest == StopEnds /\ SaversComeBack
=============================================================================
