------------------------- MODULE PagePipelineProofs -------------------------
(***************************************************************************)
(* PagePipeline for every site, any tasks and any number of workers and    *)
(* savers: what redirects make of a name, what a page may be stored and    *)
(* indexed under, and that no worker finds closed what it uses.  At its    *)
(* end Urlnorm, for any spellings: what Canonical returns it returns for   *)
(* itself.                                                                 *)
(***************************************************************************)
EXTENDS PagePipeline, Urlnorm, Integers, WellFoundedInduction, FiniteSetTheorems, SequenceTheorems, TLAPS

-----------------------------------------------------------------------------
(* Redirects.  What n of them lead to is defined by recursion on n; the     *)
(* induction is that of the least counterexample.                           *)

LEMMA LeastCase ==
    ASSUME NEW T, T \subseteq Nat, T # {}
    PROVE  \E x \in T : x - 1 \notin T
  <1> DEFINE R == OpToRel(<, Nat)
  <1>1. PICK x \in T : \A y \in T : ~ (<<y, x>> \in R)
    <2>1. IsWellFoundedOn(R, Nat)
      BY NatLessThanWellFounded
    <2> HIDE DEF R
    <2> QED BY <2>1, WFMin
  <1>2. \A y \in T : ~ (y < x)
    BY <1>1 DEF OpToRel
  <1> QED BY <1>2

LEMMA FollowableIsNat == Followable \in Nat
  BY FetchingAssumption DEF FetchingAssumption, Followable

\* Where a GET of u is before the first redirect, and after one more.
Start(u) == [final |-> u, identity |-> u, renamed |-> TRUE]

Hop(p) ==
    LET r == StillRenamed(p.renamed, p.final)
    IN  IF Site[p.final].hop = "none" THEN p
        ELSE [final    |-> Site[p.final].to,
              identity |-> IF r THEN Site[p.final].to ELSE p.identity,
              renamed  |-> r]

\* The functions Followed and NamesAreTheServers define by recursion.
Steps(u) == CHOOSE step : step = [n \in 0 .. Followable |->
                                    IF n = 0 THEN Start(u) ELSE Hop(step[n - 1])]
Hops(u) == CHOOSE hop : hop = [n \in 0 .. Followable |->
                                 IF n = 0 THEN u ELSE Site[hop[n - 1]].to]

\* A GET ends where its last redirect leads.
LEMMA FollowedIsLastStep ==
    ASSUME NEW u
    PROVE  Followed(u) = Steps(u)[Followable]
  BY DEF Followed, Steps, Start, Hop

\* Both are what their equations say.
LEMMA StepsUnfold ==
    ASSUME NEW u
    PROVE  \A n \in 0 .. Followable :
              Steps(u)[n] = IF n = 0 THEN Start(u) ELSE Hop(Steps(u)[n - 1])
  <1> DEFINE Fits(g, k) == g = [n \in 0 .. k |-> IF n = 0 THEN Start(u) ELSE Hop(g[n - 1])]
             T == {k \in Nat : ~ \E g : Fits(g, k)}
  <1>1. T = {}
    <2>1. SUFFICES ASSUME T # {}
                   PROVE  FALSE
      OBVIOUS
    <2>2. PICK k \in T : k - 1 \notin T
      BY <2>1, LeastCase
    <2>3. k # 0
      <3> DEFINE g == [n \in 0 .. 0 |-> Start(u)]
      <3>1. g = [n \in 0 .. 0 |-> IF n = 0 THEN Start(u) ELSE Hop(g[n - 1])]
        OBVIOUS
      <3> QED BY <3>1
    <2>4. PICK g : Fits(g, k - 1)
      BY <2>2, <2>3
    <2> DEFINE h == [n \in 0 .. k |-> IF n = k THEN Hop(g[k - 1]) ELSE g[n]]
    <2>5. \A n \in 0 .. k - 1 : g[n] = IF n = 0 THEN Start(u) ELSE Hop(g[n - 1])
      BY <2>4
    <2>6. /\ \A n \in 0 .. k - 1 : h[n] = g[n]
          /\ h[k] = Hop(g[k - 1]) /\ k \in Nat
      OBVIOUS
    <2>7. \A n \in 0 .. k : h[n] = IF n = 0 THEN Start(u) ELSE Hop(h[n - 1])
      <3> HIDE DEF h
      <3>1. \A n \in 1 .. k : h[n - 1] = g[n - 1]
        BY <2>6
      <3> QED BY <2>3, <2>5, <2>6, <3>1
    <2>8. Fits(h, k)
      BY <2>7
    <2> QED BY <2>8
  <1>2. \E g : Fits(g, Followable)
    BY <1>1, FollowableIsNat
  <1>3. Fits(Steps(u), Followable)
    BY <1>2 DEF Steps
  <1> QED BY <1>3

\* The names the server gives, one redirect after another.
LEMMA HopsUnfold ==
    ASSUME NEW u
    PROVE  \A n \in 0 .. Followable :
              Hops(u)[n] = IF n = 0 THEN u ELSE Site[Hops(u)[n - 1]].to
  <1> DEFINE Fits(g, k) == g = [n \in 0 .. k |-> IF n = 0 THEN u ELSE Site[g[n - 1]].to]
             T == {k \in Nat : ~ \E g : Fits(g, k)}
  <1>1. T = {}
    <2>1. SUFFICES ASSUME T # {}
                   PROVE  FALSE
      OBVIOUS
    <2>2. PICK k \in T : k - 1 \notin T
      BY <2>1, LeastCase
    <2>3. k # 0
      <3> DEFINE g == [n \in 0 .. 0 |-> u]
      <3>1. g = [n \in 0 .. 0 |-> IF n = 0 THEN u ELSE Site[g[n - 1]].to]
        OBVIOUS
      <3> QED BY <3>1
    <2>4. PICK g : Fits(g, k - 1)
      BY <2>2, <2>3
    <2> DEFINE h == [n \in 0 .. k |-> IF n = k THEN Site[g[k - 1]].to ELSE g[n]]
    <2>5. \A n \in 0 .. k - 1 : g[n] = IF n = 0 THEN u ELSE Site[g[n - 1]].to
      BY <2>4
    <2>6. /\ \A n \in 0 .. k - 1 : h[n] = g[n]
          /\ h[k] = Site[g[k - 1]].to /\ k \in Nat
      OBVIOUS
    <2>7. \A n \in 0 .. k : h[n] = IF n = 0 THEN u ELSE Site[h[n - 1]].to
      <3> HIDE DEF h
      <3>1. \A n \in 1 .. k : h[n - 1] = g[n - 1]
        BY <2>6
      <3> QED BY <2>3, <2>5, <2>6, <3>1
    <2>8. Fits(h, k)
      BY <2>7
    <2> QED BY <2>8
  <1>2. \E g : Fits(g, Followable)
    BY <1>1, FollowableIsNat
  <1>3. Fits(Hops(u), Followable)
    BY <1>2 DEF Hops
  <1> QED BY <1>3

\* However many redirects: addresses of the site, and names reached through
\* identity redirects alone.
Reached(u, n) ==
    /\ Steps(u)[n].final \in URLs /\ Steps(u)[n].identity \in URLs
    /\ Steps(u)[n].renamed \in BOOLEAN
    /\ \E k \in 0 .. n : /\ Steps(u)[n].identity = Hops(u)[k]
                         /\ \A i \in 0 .. k - 1 : isIdentityRedirect(Hops(u)[i])
                         /\ Steps(u)[n].renamed => Steps(u)[n].final = Hops(u)[k]

\* However many redirects have been followed, the identity is one of the names
\* along them, reached by renames only.
LEMMA NamesAreReached ==
    ASSUME NEW u \in URLs
    PROVE  \A n \in 0 .. Followable : Reached(u, n)
  <1> DEFINE T == {n \in 0 .. Followable : ~ Reached(u, n)}
  <1>1. Followable \in Nat
    BY FollowableIsNat
  <1>2. SUFFICES ASSUME T # {}
                 PROVE  FALSE
    OBVIOUS
  <1>3. T \subseteq Nat
    BY <1>1
  <1>4. PICK n \in T : n - 1 \notin T
    BY <1>2, <1>3, LeastCase
  <1>5. n \in 0 .. Followable /\ ~ Reached(u, n)
    OBVIOUS
  <1>6. n # 0
    <2>1. SUFFICES ASSUME n = 0
                   PROVE  Reached(u, 0)
      BY <1>5
    <2>2. Steps(u)[0] = Start(u) /\ Hops(u)[0] = u
      BY <1>1, StepsUnfold, HopsUnfold
    <2> QED BY <2>2 DEF Reached, Start
  <1> DEFINE m == n - 1
             p == Steps(u)[m]
  <1>7. m \in 0 .. Followable - 1 /\ n = m + 1 /\ Reached(u, m)
    BY <1>1, <1>4, <1>5, <1>6
  <1>8. Steps(u)[n] = Hop(p)
    BY <1>5, <1>6, StepsUnfold
  <1>9. p.final \in URLs /\ p.identity \in URLs /\ p.renamed \in BOOLEAN
    BY <1>7 DEF Reached
  <1>10. PICK k \in 0 .. m : /\ p.identity = Hops(u)[k]
                             /\ \A i \in 0 .. k - 1 : isIdentityRedirect(Hops(u)[i])
                             /\ p.renamed => p.final = Hops(u)[k]
    BY <1>7 DEF Reached
  <1>11. k + 1 \in 0 .. Followable /\ Hops(u)[k + 1] = Site[Hops(u)[k]].to
    <2>1. k + 1 \in 0 .. Followable /\ k + 1 # 0 /\ k + 1 - 1 = k
      BY <1>1, <1>7
    <2> QED BY <2>1, HopsUnfold
  <1>12. Site[p.final].to \in URLs
    BY <1>9, FetchingAssumption DEF FetchingAssumption
  <1> HIDE DEF m, p
  <1>13. CASE Site[p.final].hop = "none"
    <2>1. Steps(u)[n] = p
      BY <1>8, <1>13 DEF Hop
    <2>2. k \in 0 .. n
      BY <1>5, <1>7
    <2> QED BY <1>5, <1>9, <1>10, <2>1, <2>2 DEF Reached
  <1>14. CASE Site[p.final].hop # "none" /\ StillRenamed(p.renamed, p.final)
    <2>1. /\ Steps(u)[n].final = Site[p.final].to /\ Steps(u)[n].identity = Site[p.final].to
          /\ Steps(u)[n].renamed = StillRenamed(p.renamed, p.final)
      BY <1>8, <1>14 DEF Hop
    <2>2. p.renamed /\ isIdentityRedirect(p.final) /\ p.final = Hops(u)[k]
      BY <1>10, <1>14 DEF StillRenamed
    <2>3. k + 1 \in 0 .. n /\ \A i \in 0 .. (k + 1) - 1 : isIdentityRedirect(Hops(u)[i])
      <3>1. \A i \in 0 .. (k + 1) - 1 : i \in 0 .. k - 1 \/ i = k
        OBVIOUS
      <3>2. k + 1 \in 0 .. n
        BY <1>5, <1>7
      <3> QED BY <1>10, <2>2, <3>1, <3>2
    <2>4. Steps(u)[n].identity = Hops(u)[k + 1] /\ Steps(u)[n].final = Hops(u)[k + 1]
      BY <1>11, <2>1, <2>2
    <2>5. Steps(u)[n].renamed \in BOOLEAN
      BY <1>14, <2>1, Zenon
    <2> QED BY <1>5, <1>12, <2>1, <2>3, <2>4, <2>5 DEF Reached
  <1>15. CASE Site[p.final].hop # "none" /\ ~ StillRenamed(p.renamed, p.final)
    <2>1. /\ Steps(u)[n].final = Site[p.final].to /\ Steps(u)[n].identity = p.identity
          /\ Steps(u)[n].renamed = StillRenamed(p.renamed, p.final)
      BY <1>8, <1>15 DEF Hop
    <2>2. k \in 0 .. n
      BY <1>5, <1>7
    <2>3. Steps(u)[n].renamed \in BOOLEAN /\ ~ Steps(u)[n].renamed
      BY <1>9, <1>15, <2>1, Zenon DEF StillRenamed
    <2> QED BY <1>5, <1>9, <1>10, <1>12, <2>1, <2>2, <2>3 DEF Reached
  <1> QED BY <1>13, <1>14, <1>15

\* Where no redirect starts a GET stays.
LEMMA NoRedirect ==
    ASSUME NEW u \in URLs, Site[u].hop = "none"
    PROVE  Followed(u) = Start(u)
  <1> DEFINE T == {n \in 0 .. Followable : Steps(u)[n] # Start(u)}
  <1>1. Followable \in Nat
    BY FollowableIsNat
  <1>2. T = {}
    <2>1. SUFFICES ASSUME T # {}
                   PROVE  FALSE
      OBVIOUS
    <2>2. T \subseteq Nat
      BY <1>1
    <2>3. PICK n \in T : n - 1 \notin T
      BY <2>1, <2>2, LeastCase
    <2>4. n \in 0 .. Followable /\ Steps(u)[n] # Start(u)
      OBVIOUS
    <2>5. n # 0
      BY <1>1, <2>4, StepsUnfold
    <2>6. Steps(u)[n - 1] = Start(u)
      BY <1>1, <2>3, <2>4, <2>5
    <2>7. Steps(u)[n] = Hop(Start(u))
      BY <2>4, <2>5, <2>6, StepsUnfold
    <2>8. Hop(Start(u)) = Start(u)
      BY DEF Hop, Start
    <2> QED BY <2>4, <2>7, <2>8
  <1>3. Steps(u)[Followable] = Start(u)
    BY <1>1, <1>2
  <1> QED BY <1>3, FollowedIsLastStep

-----------------------------------------------------------------------------
(* The invariant. *)

\* A worker renders and submits only what its GET reached.
SubmitsWhatItGot ==
    \A w \in Workers : worker[w].pc \in {"render", "submit"} => Fetched(worker[w].task.url)

\* Once an error page was cached as a robots.txt, that is known.
ErrorPageIsKnown == \A h \in Hosts : robots[h] = "errorPage" => misled

\* Between the robots check and the saver the page is one that may be stored.
Storable(page) == ~misled => page \notin Disallowed
OnItsWay ==
    /\ \A w \in Workers : worker[w].pc \in {"render", "submit", "hand"} =>
                             Storable(pageIdentity(worker[w].task.url).page)
    /\ \A s \in Savers : saver[s].pc = "saving" => Storable(saver[s].page)

\* alias is None, or it reaches page through identity redirects alone.
Renames(alias, page) ==
    alias # None => \E n \in 1 .. Followable :
                       /\ Hops(alias)[n] = page
                       /\ \A i \in 0 .. n - 1 : isIdentityRedirect(Hops(alias)[i])
SaverIsNamedRight == \A s \in Savers : saver[s].pc = "saving" => Renames(saver[s].alias, saver[s].page)

\* Before the crawler is shut down nothing a worker uses is closed, and that it
\* is shut down means that every worker has left or the deadline passed.
NothingClosedYet ==
    /\ stage \in {"running", "queues"} => refused = {}
    /\ stage \in {"running", "queues", "crawler"} => closed \subseteq {"input"}
ClosedInTime == stage \in {"running", "queues", "crawler"} \/ overdue \/ WorkersLeft

IInv ==
    /\ TypeOK
    /\ SubmitsWhatItGot /\ ErrorPageIsKnown /\ OnItsWay /\ StoredIsAllowed
    /\ SaverIsNamedRight /\ NamesAreTheServers
    /\ IndexHoldsOwnText
    /\ NothingClosedYet /\ ClosedInTime /\ ClosedOnlyAfterUse

\* By its own word on an address the server says that it is another page's name, or
\* that its page is gone.
Renamed(u) == Site[u].hop # "none" /\ isIdentityRedirect(u)
IsGone(u) == Site[u].hop = "none" /\ Site[u].status = "gone"

\* What a page is stored under is what the server renames its address to.
LEMMA IdentityIsSound ==
    ASSUME NEW u \in URLs
    PROVE  /\ Followed(u).final \in URLs /\ pageIdentity(u).page \in URLs
           /\ pageIdentity(u).alias \in {None, u}
           /\ pageIdentity(u).alias = u => Renamed(u)
           /\ Renames(pageIdentity(u).alias, pageIdentity(u).page)
  <1> DEFINE p == Followed(u).identity
  <1>1. Followable \in Nat /\ None \notin URLs
    BY FollowableIsNat, FetchingAssumption DEF FetchingAssumption
  <1>2. Reached(u, Followable) /\ Followed(u) = Steps(u)[Followable]
    BY <1>1, NamesAreReached, FollowedIsLastStep
  <1>3. Followed(u).final \in URLs /\ p \in URLs
    BY <1>2 DEF Reached
  <1>4. pageIdentity(u).page = p /\ pageIdentity(u).alias = IF p = u THEN None ELSE u
    BY DEF pageIdentity
  <1>5. p # u => Site[u].hop # "none"
    BY NoRedirect DEF Start
  <1>6. ASSUME p # u
        PROVE  Renames(u, p) /\ isIdentityRedirect(u)
    <2>1. PICK k \in 0 .. Followable : /\ p = Hops(u)[k]
                                       /\ \A i \in 0 .. k - 1 : isIdentityRedirect(Hops(u)[i])
      BY <1>2 DEF Reached
    <2>2. k # 0
      BY <1>1, <1>6, <2>1, HopsUnfold
    <2>3. k \in 1 .. Followable
      BY <1>1, <2>2
    <2>4. isIdentityRedirect(Hops(u)[0]) /\ Hops(u)[0] = u
      BY <1>1, <2>1, <2>3, HopsUnfold
    <2> QED BY <2>1, <2>3, <2>4 DEF Renames
  <1> HIDE DEF p
  <1>7. Renames(None, p)
    BY DEF Renames
  <1> QED BY <1>1, <1>3, <1>4, <1>5, <1>6, <1>7 DEF Renamed

LEMMA NamesAreRenames ==
    NamesAreTheServers <=> \A g \in graph : Renames(g.alias, g.page)
  BY DEF NamesAreTheServers, Renames, Hops

-----------------------------------------------------------------------------
(* Types. *)

LEMMA TypeInit == Init => TypeOK
  <1> SUFFICES ASSUME Init
               PROVE  TypeOK
    OBVIOUS
  <1>1. input \subseteq UNION Batches
    BY DEF Init
  <1>2. worker \in [Workers ->
          [pc : {Idle, "fetch", "render", "submit", "hand", "cache", "complete", "left"},
           task : Tasks \cup {None}, text : BOOLEAN]]
    BY DEF Init, Resting
  <1>3. saver \in [Savers -> [pc : {Idle, "saving"}, page : URLs \cup {None}, alias : URLs \cup {None}]]
    BY DEF Init, SaverAt
  <1>4. /\ \A w \in Workers : worker[w].pc \in {Idle, "left"} <=> worker[w].task = None
        /\ \A s \in Savers : saver[s].pc = Idle \/ saver[s].page \in URLs
    BY DEF Init, Resting, SaverAt
  <1>5. robots \in [Hosts -> {"rules", "errorPage", None}]
    BY DEF Init
  <1>6. /\ cached \subseteq URLs /\ index \in [URLs -> URLs \cup {None}]
        /\ browser \in {"up", "down"} /\ overdue \in BOOLEAN /\ misled \in BOOLEAN
    BY DEF Init
  <1> QED BY <1>1, <1>2, <1>3, <1>4, <1>5, <1>6 DEF TypeOK

\* What one worker does to its own record.
PCs == {Idle, "fetch", "render", "submit", "hand", "cache", "complete", "left"}
States == [pc : PCs, task : Tasks \cup {None}, text : BOOLEAN]
Onward(w, before, after) ==
    \/ /\ before.pc = Idle /\ after.pc = "fetch" /\ after.task \in UNION Batches
    \/ /\ before.pc = Idle /\ after = [before EXCEPT !.pc = "left"]
    \/ /\ before.pc \in PCs \ {Idle, "left"} /\ after.task = before.task
       /\ after.pc \in PCs \ {Idle, "fetch", "left"}
       /\ after.pc = "render" => Fetch(w)
       /\ after.pc = "submit" => Fetch(w) \/ before.pc = "render"
       /\ after.pc = "hand" => before.pc = "submit"
    \/ /\ before.pc = "complete" /\ after = Resting

\* A worker's step takes it onward, with nothing but its own state.
LEMMA WorkerStep ==
    ASSUME TypeOK, NEW w \in Workers, Work(w) \/ Render(w)
    PROVE  \/ UNCHANGED worker
           \/ \E after \in States : /\ worker' = [worker EXCEPT ![w] = after]
                                    /\ Onward(w, worker[w], after)
  <1>1. /\ worker \in [Workers -> States]
        /\ worker[w].pc \in {Idle, "left"} <=> worker[w].task = None
        /\ worker[w] \in States /\ input \subseteq UNION Batches
    BY DEF TypeOK, PCs, States
  <1>2. UNION Batches \subseteq Tasks
    BY PagePipelineAssumption DEF PagePipelineAssumption
  <1>3. \A pc \in PCs : /\ [worker[w] EXCEPT !.pc = pc] \in States
                        /\ [worker[w] EXCEPT !.pc = pc].pc = pc
                        /\ [worker[w] EXCEPT !.pc = pc].task = worker[w].task
                        /\ Goto(w, pc) => worker' = [worker EXCEPT ![w] = [worker[w] EXCEPT !.pc = pc]]
    BY <1>1 DEF States, Goto
  <1>4. CASE Take(w)
    <2>1. PICK t \in input : worker' = [worker EXCEPT ![w] = [pc |-> "fetch", task |-> t, text |-> FALSE]]
      BY <1>4 DEF Take
    <2>2. [pc |-> "fetch", task |-> t, text |-> FALSE] \in States
      BY <1>1, <1>2 DEF States, PCs
    <2>3. worker[w].pc = Idle
      BY <1>4 DEF Take, At
    <2>4. Onward(w, worker[w], [pc |-> "fetch", task |-> t, text |-> FALSE])
      BY <1>1, <2>3 DEF Onward
    <2> QED BY <2>1, <2>2, <2>4
  <1>5. CASE Leave(w)
    <2>1. worker[w].pc = Idle /\ Goto(w, "left")
      BY <1>5 DEF Leave, At
    <2>2. Onward(w, worker[w], [worker[w] EXCEPT !.pc = "left"])
      BY <2>1 DEF Onward
    <2> QED BY <1>3, <2>1, <2>2 DEF PCs
  <1>6. CASE CacheHit(w) \/ CachePage(w)
    <2>1. worker[w].pc \in {"fetch", "cache"} /\ Goto(w, "complete")
      BY <1>6 DEF CacheHit, CachePage, At
    <2>2. Onward(w, worker[w], [worker[w] EXCEPT !.pc = "complete"])
      BY <1>3, <2>1 DEF Onward, PCs, Idle
    <2> QED BY <1>3, <2>1, <2>2 DEF PCs
  <1>7. CASE Fetch(w)
    <2>1. PICK pc \in {"complete", "render", "submit"}, text \in BOOLEAN :
            worker' = [worker EXCEPT ![w].pc = pc, ![w].text = text]
      <3> DEFINE t == worker[w].task
      <3>1. PICK a \in RobotsSays, reached \in BOOLEAN :
              LET ok == reached /\ Fetched(t.url) /\ MayBeCrawled(t.url, a)
              IN  worker' = [worker EXCEPT
                        ![w].pc = IF ~ok THEN "complete" ELSE IF t.render THEN "render" ELSE "submit",
                        ![w].text = ok /\ Site[Followed(t.url).final].text]
        BY <1>7, Zenon DEF Fetch
      <3> DEFINE ok == reached /\ Fetched(t.url) /\ MayBeCrawled(t.url, a)
                 pc == IF ~ok THEN "complete" ELSE IF t.render THEN "render" ELSE "submit"
                 text == ok /\ Site[Followed(t.url).final].text
      <3>2. text \in BOOLEAN
        BY Zenon
      <3>3. pc \in {"complete", "render", "submit"}
        BY Zenon
      <3>4. worker' = [worker EXCEPT ![w].pc = pc, ![w].text = text]
        BY <3>1, Zenon
      <3> HIDE DEF pc, text
      <3> QED BY <3>2, <3>3, <3>4
    <2> DEFINE after == [worker[w] EXCEPT !.pc = pc, !.text = text]
    <2>2. worker' = [worker EXCEPT ![w] = after]
      BY <1>1, <2>1
    <2>3. after \in States /\ after.pc = pc /\ after.task = worker[w].task
      BY <1>1, <2>1 DEF States, PCs
    <2>4. worker[w].pc = "fetch"
      BY <1>7 DEF Fetch, At
    <2> HIDE DEF after
    <2>5. Onward(w, worker[w], after)
      BY <1>7, <2>1, <2>3, <2>4 DEF Onward, PCs, Idle
    <2> QED BY <2>2, <2>3, <2>5
  <1>8. CASE Render(w)
    <2>1. worker[w].pc = "render"
      BY <1>8 DEF Render, At
    <2>2. CASE Goto(w, "submit")
      <3>1. Onward(w, worker[w], [worker[w] EXCEPT !.pc = "submit"])
        BY <1>3, <2>1 DEF Onward, PCs, Idle
      <3> QED BY <1>3, <2>2, <3>1 DEF PCs
    <2>3. CASE worker' = [worker EXCEPT ![w].pc = "submit", ![w].text = FALSE]
      <3> DEFINE after == [worker[w] EXCEPT !.pc = "submit", !.text = FALSE]
      <3>1. worker' = [worker EXCEPT ![w] = after]
        BY <1>1, <2>3
      <3>2. after \in States /\ after.pc = "submit" /\ after.task = worker[w].task
        BY <1>1 DEF States, PCs
      <3> HIDE DEF after
      <3>3. Onward(w, worker[w], after)
        BY <2>1, <3>2 DEF Onward, PCs, Idle
      <3> QED BY <3>1, <3>2, <3>3
    <2> QED BY <1>8, <2>2, <2>3 DEF Render
  <1>9. CASE Submit(w)
    <2>1. worker[w].pc = "submit" /\ Goto(w, "hand")
      BY <1>9 DEF Submit, At
    <2>2. Onward(w, worker[w], [worker[w] EXCEPT !.pc = "hand"])
      BY <1>3, <2>1 DEF Onward, PCs, Idle
    <2> QED BY <1>3, <2>1, <2>2 DEF PCs
  <1>10. CASE HandOver(w) \/ DropPage(w)
    <2>1. worker[w].pc = "hand" /\ Goto(w, "cache")
      BY <1>10 DEF HandOver, DropPage, At
    <2>2. Onward(w, worker[w], [worker[w] EXCEPT !.pc = "cache"])
      BY <1>3, <2>1 DEF Onward, PCs, Idle
    <2> QED BY <1>3, <2>1, <2>2 DEF PCs
  <1>11. CASE Panic(w)
    BY <1>11 DEF Panic
  <1>12. CASE Complete(w)
    <2>1. worker[w].pc = "complete" /\ worker' = [worker EXCEPT ![w] = Resting]
      BY <1>12 DEF Complete, At
    <2>2. Resting \in States
      BY DEF Resting, States, PCs
    <2>3. Onward(w, worker[w], Resting)
      BY <2>1 DEF Onward
    <2> QED BY <2>1, <2>2, <2>3
  <1> QED BY <1>4, <1>5, <1>6, <1>7, <1>8, <1>9, <1>10, <1>11, <1>12 DEF Work

\* Nobody else touches what the workers have and fill.
LEMMA WorkerFrame ==
    ASSUME [Next]_vars, \A w \in Workers : ~ (Work(w) \/ Render(w))
    PROVE  UNCHANGED <<input, worker, browser, robots, cached, index, refused, misled>>
  BY ZenonT(60) DEF Next, vars, SaveEnds, Stop, InputCloses, Shutdown, StopProcessor, CrawlerShutdown,
         PagesShutdown, Exit, inside

\* Whoever steps, a worker stays as it was or goes on as Onward says.
LEMMA WorkersStep ==
    ASSUME TypeOK, [Next]_vars, NEW v \in Workers
    PROVE  /\ worker' \in [Workers -> States]
           /\ worker'[v] = worker[v] \/ Onward(v, worker[v], worker'[v])
  <1>1. worker \in [Workers -> States]
    BY DEF TypeOK, PCs, States
  <1>2. ASSUME NEW w \in Workers, Work(w) \/ Render(w)
        PROVE  /\ worker' \in [Workers -> States]
               /\ worker'[v] = worker[v] \/ Onward(v, worker[v], worker'[v])
    <2>1. CASE UNCHANGED worker
      BY <1>1, <2>1
    <2>2. CASE ~ UNCHANGED worker
      <3>1. PICK after \in States : worker' = [worker EXCEPT ![w] = after] /\ Onward(w, worker[w], after)
        BY <1>2, <2>2, WorkerStep
      <3>2. worker' \in [Workers -> States] /\ worker'[w] = after /\ (v # w => worker'[v] = worker[v])
        BY <1>1, <3>1
      <3>3. v = w => Onward(v, worker[v], worker'[v])
        BY <3>1, <3>2
      <3> QED BY <3>2, <3>3
    <2> QED BY <2>1, <2>2
  <1>3. (\A w \in Workers : ~ (Work(w) \/ Render(w))) => worker' = worker
    BY WorkerFrame, Zenon
  <1> QED BY <1>1, <1>2, <1>3

\* A saver is handed a page by a worker or comes to its end.
LEMMA SaverStep ==
    ASSUME TypeOK, [Next]_vars
    PROVE  \/ UNCHANGED saver
           \/ \E s \in Savers : saver' = [saver EXCEPT ![s] = SaverAt(Idle)]
           \/ \E s \in Savers, w \in Workers :
                /\ worker[w].pc = "hand"
                /\ saver' = [saver EXCEPT ![s] = Saving(pageIdentity(worker[w].task.url))]
  <1>1. ASSUME NEW w \in Workers, HandOver(w)
        PROVE  \E s \in Savers : /\ worker[w].pc = "hand"
                                 /\ saver' = [saver EXCEPT ![s] = Saving(pageIdentity(worker[w].task.url))]
    BY <1>1 DEF HandOver, At
  <1>2. ASSUME NEW s \in Savers, SaveEnds(s)
        PROVE  saver' = [saver EXCEPT ![s] = SaverAt(Idle)]
    BY <1>2 DEF SaveEnds, AfterSave
  <1>3. ASSUME \A w \in Workers : ~ HandOver(w), \A s \in Savers : ~ SaveEnds(s)
        PROVE  UNCHANGED saver
    BY <1>3, ZenonT(60) DEF Next, vars, Work, Take, Leave, CacheHit, Fetch, Render, Submit, DropPage, Panic,
       CachePage, Complete, Stop, InputCloses, Shutdown, StopProcessor, CrawlerShutdown, PagesShutdown, Exit, inside
  <1> QED BY <1>1, <1>2, <1>3

\* The URL of a worker's task, as long as it has one.
LEMMA TaskURL ==
    ASSUME TypeOK, NEW w \in Workers, worker[w].pc \notin {Idle, "left"}
    PROVE  worker[w].task \in Tasks /\ worker[w].task.url \in URLs
  <1>1. worker[w].task \in Tasks
    BY DEF TypeOK
  <1> QED BY <1>1 DEF Tasks

\* What a process learns of the robots.txt of the hosts it asked.
Learns(asked, a) ==
    /\ robots' = [h \in DOMAIN robots |->
                    IF h \in asked /\ robots[h] = None /\ a[h] \in {"rules", "errorPage"}
                       THEN a[h] ELSE robots[h]]
    /\ misled' = (misled \/ \E h \in asked : robots'[h] = "errorPage")

\* What a fetch leaves for rendering or for the index was got and allowed.
LEMMA FetchStep ==
    ASSUME TypeOK, NEW w \in Workers, Fetch(w)
    PROVE  \E a \in RobotsSays, asked \in SUBSET Hosts :
              /\ Learns(asked, a)
              /\ worker'[w].pc \in {"render", "submit"} =>
                   LET u == worker[w].task.url
                   IN  /\ Fetched(u) /\ isAllowedByRobots(pageIdentity(u).page, a)
                       /\ Host[pageIdentity(u).page] \in asked
  <1> DEFINE t == worker[w].task
             u == t.url
             page == pageIdentity(u).page
  <1>1. PICK a \in RobotsSays, reached \in BOOLEAN :
          LET ok    == reached /\ Fetched(u) /\ MayBeCrawled(u, a)
              asked == {Host[u]} \cup
                       (IF reached /\ Fetched(u) /\ isAllowedByRobots(u, a) THEN {Host[page]} ELSE {})
          IN  /\ robots' = [h \in DOMAIN robots |->
                              IF h \in asked /\ robots[h] = None /\ a[h] \in {"rules", "errorPage"}
                                 THEN a[h] ELSE robots[h]]
              /\ misled' = (misled \/ \E h \in asked : robots'[h] = "errorPage")
              /\ worker' = [worker EXCEPT
                   ![w].pc = IF ~ok THEN "complete" ELSE IF t.render THEN "render" ELSE "submit",
                   ![w].text = ok /\ Site[Followed(u).final].text]
    BY Zenon DEF Fetch
  <1> DEFINE ok == reached /\ Fetched(u) /\ MayBeCrawled(u, a)
             asked == {Host[u]} \cup
                      (IF reached /\ Fetched(u) /\ isAllowedByRobots(u, a) THEN {Host[page]} ELSE {})
  <1>2. worker[w].pc = "fetch"
    BY DEF Fetch, At
  <1>3. u \in URLs
    BY <1>2, TaskURL DEF Idle
  <1>4. page \in URLs
    BY <1>3, IdentityIsSound
  <1>5. asked \in SUBSET Hosts
    BY <1>3, <1>4 DEF Hosts
  <1>6. Learns(asked, a)
    BY <1>1, Zenon DEF Learns
  <1>7. worker'[w].pc = "complete" \/ ok
    <2>1. worker \in [Workers -> States]
      BY DEF TypeOK, States, PCs
    <2>2. PICK text : worker' = [worker EXCEPT
                          ![w].pc = IF ~ok THEN "complete" ELSE IF t.render THEN "render" ELSE "submit",
                          ![w].text = text]
      BY <1>1, Zenon
    <2> HIDE DEF ok, t
    <2> QED BY <2>1, <2>2 DEF States
  <1>8. ok => Fetched(u) /\ isAllowedByRobots(page, a) /\ Host[page] \in asked
    BY DEF MayBeCrawled
  <1> HIDE DEF ok, asked, page
  <1>9. worker'[w].pc \in {"render", "submit"} =>
          Fetched(u) /\ isAllowedByRobots(page, a) /\ Host[page] \in asked
    BY <1>7, <1>8
  <1> QED BY <1>5, <1>6, <1>9 DEF page

\* Only a fetch learns of robots.txt.
LEMMA RobotsFrame ==
    ASSUME [Next]_vars, \A w \in Workers : ~ Fetch(w)
    PROVE  UNCHANGED <<robots, misled>>
  BY ZenonT(60) DEF Next, vars, Work, Take, Leave, CacheHit, Render, Submit, HandOver, DropPage, Panic,
     CachePage, Complete, SaveEnds, Stop, InputCloses, Shutdown, StopProcessor, CrawlerShutdown,
     PagesShutdown, Exit, inside

\* Every step keeps the types.
LEMMA TypeStep ==
    ASSUME TypeOK, [Next]_vars
    PROVE  TypeOK'
  <1> USE FetchingAssumption, PagePipelineAssumption
  <1>1. input' \subseteq UNION Batches
    <2>1. input' \subseteq input
      BY ZenonT(60) DEF Next, vars, Work, Take, Leave, CacheHit, Fetch, Render, Submit, HandOver, DropPage,
         Panic, CachePage, Complete, SaveEnds, Stop, InputCloses, Shutdown, StopProcessor, CrawlerShutdown,
         PagesShutdown, Exit, inside
    <2> QED BY <2>1 DEF TypeOK
  <1>2. worker' \in [Workers ->
          [pc : {Idle, "fetch", "render", "submit", "hand", "cache", "complete", "left"},
           task : Tasks \cup {None}, text : BOOLEAN]]
    <2>1. CASE Workers = {}
      <3>1. \A w \in Workers : ~ (Work(w) \/ Render(w))
        BY <2>1
      <3>2. worker' = worker
        BY <3>1, WorkerFrame, Zenon
      <3> QED BY <3>2 DEF TypeOK
    <2>2. CASE Workers # {}
      <3>1. worker' \in [Workers -> States]
        BY <2>2, WorkersStep
      <3> QED BY <3>1 DEF States, PCs
    <2> QED BY <2>1, <2>2
  <1>3. ASSUME NEW v \in Workers
        PROVE  worker'[v].pc \in {Idle, "left"} <=> worker'[v].task = None
    <2>1. worker[v].pc \in {Idle, "left"} <=> worker[v].task = None
      BY DEF TypeOK
    <2>2. worker[v] \in States /\ None \notin UNION Batches
      BY DEF TypeOK, States, PCs, PagePipelineAssumption
    <2>3. CASE worker'[v] = worker[v]
      BY <2>1, <2>3
    <2>4. CASE Onward(v, worker[v], worker'[v])
      <3>1. CASE worker[v].pc = Idle /\ worker'[v].pc = "fetch" /\ worker'[v].task \in UNION Batches
        BY <2>2, <3>1 DEF Idle
      <3>2. CASE worker[v].pc = Idle /\ worker'[v] = [worker[v] EXCEPT !.pc = "left"]
        <4>1. worker'[v].pc = "left" /\ worker'[v].task = worker[v].task
          BY <2>2, <3>2 DEF States
        <4> QED BY <2>1, <3>2, <4>1
      <3>3. CASE /\ worker[v].pc \in PCs \ {Idle, "left"} /\ worker'[v].task = worker[v].task
                 /\ worker'[v].pc \in PCs \ {Idle, "fetch", "left"}
        BY <2>1, <3>3
      <3>4. CASE worker'[v] = Resting
        BY <3>4 DEF Resting
      <3> QED BY <2>4, <3>1, <3>2, <3>3, <3>4 DEF Onward
    <2> QED BY <2>3, <2>4, WorkersStep
  <1> DEFINE SaverStates == [pc : {Idle, "saving"}, page : URLs \cup {None}, alias : URLs \cup {None}]
             SaversOK(f) == f \in [Savers -> SaverStates] /\ \A s \in Savers : f[s].pc = Idle \/ f[s].page \in URLs
  <1>4. SaversOK(saver')
    <2>1. SaversOK(saver)
      BY DEF TypeOK
    <2>2. ASSUME NEW s \in Savers, NEW r \in SaverStates, r.pc = Idle \/ r.page \in URLs,
                 saver' = [saver EXCEPT ![s] = r]
          PROVE  SaversOK(saver')
      BY <2>1, <2>2
    <2>3. SaverAt(Idle) \in SaverStates /\ SaverAt(Idle).pc = Idle
      BY DEF SaverAt
    <2>4. ASSUME NEW w \in Workers, worker[w].pc = "hand"
          PROVE  LET r == Saving(pageIdentity(worker[w].task.url))
                 IN  r \in SaverStates /\ r.page \in URLs
      <3> DEFINE id == pageIdentity(worker[w].task.url)
      <3>1. worker[w].task.url \in URLs
        BY <2>4, TaskURL DEF Idle
      <3>2. id.page \in URLs /\ id.alias \in URLs \cup {None}
        BY <3>1, IdentityIsSound
      <3>3. Saving(id) \in SaverStates /\ Saving(id).page \in URLs
        BY <3>2 DEF Saving
      <3> QED BY <3>3
    <2> HIDE DEF SaversOK, SaverStates
    <2>5. UNCHANGED saver => SaversOK(saver')
      BY <2>1, Zenon
    <2> QED BY <2>2, <2>3, <2>4, <2>5, SaverStep
  <1>5. robots' \in [Hosts -> {"rules", "errorPage", None}] /\ misled' \in BOOLEAN
    <2>1. robots \in [Hosts -> {"rules", "errorPage", None}] /\ misled \in BOOLEAN
      BY DEF TypeOK
    <2>2. ASSUME NEW w \in Workers, Fetch(w)
          PROVE  robots' \in [Hosts -> {"rules", "errorPage", None}] /\ misled' \in BOOLEAN
      <3>1. PICK a \in RobotsSays, asked \in SUBSET Hosts : Learns(asked, a)
        BY <2>2, FetchStep
      <3>2. robots' \in [Hosts -> {"rules", "errorPage", None}]
        BY <2>1, <3>1 DEF Learns
      <3>3. misled' \in BOOLEAN
        BY <3>1, Zenon DEF Learns
      <3> QED BY <3>2, <3>3
    <2>3. (\A w \in Workers : ~ Fetch(w)) => UNCHANGED <<robots, misled>>
      BY RobotsFrame, Zenon
    <2> QED BY <2>1, <2>2, <2>3
  <1>6. cached' \subseteq URLs
    <2>1. cached \subseteq URLs
      BY DEF TypeOK
    <2>2. ASSUME NEW w \in Workers, CachePage(w)
          PROVE  cached' \subseteq URLs
      <3>1. worker[w].task.url \in URLs
        BY <2>2, TaskURL DEF CachePage, At, Idle
      <3> QED BY <2>1, <2>2, <3>1 DEF CachePage
    <2>3. ASSUME \A w \in Workers : ~ CachePage(w)
          PROVE  cached' = cached
      BY <2>3, ZenonT(60) DEF Next, vars, Work, Take, Leave, CacheHit, Fetch, Render, Submit, HandOver,
         DropPage, Panic, Complete, SaveEnds, Stop, InputCloses, Shutdown, StopProcessor, CrawlerShutdown,
         PagesShutdown, Exit, inside
    <2> QED BY <2>1, <2>2, <2>3
  <1>7. index' \in [URLs -> URLs \cup {None}]
    <2>1. index \in [URLs -> URLs \cup {None}]
      BY DEF TypeOK
    <2>2. ASSUME NEW w \in Workers, Submit(w)
          PROVE  index' \in [URLs -> URLs \cup {None}]
      <3> DEFINE final == Followed(worker[w].task.url).final
                 what == IF TextIsOfPage(final, pageIdentity(worker[w].task.url).page)
                            THEN Submission(final, worker[w].text) ELSE "keep"
      <3>1. final \in URLs
        BY <2>2, TaskURL, IdentityIsSound DEF Submit, At, Idle
      <3>2. index' = IF "sink" \in closed THEN index
                     ELSE [v \in URLs |-> IF v = pageIdentity(worker[w].task.url).alias THEN None
                                          ELSE IF v # pageIdentity(worker[w].task.url).page \/ what = "keep"
                                                  THEN index[v]
                                          ELSE IF what = "remove" THEN None ELSE final]
        BY <2>2, Zenon DEF Submit
      <3> HIDE DEF final, what
      <3> QED BY <2>1, <3>1, <3>2
    <2>3. ASSUME \A w \in Workers : ~ Submit(w)
          PROVE  index' = index
      BY <2>3, ZenonT(60) DEF Next, vars, Work, Take, Leave, CacheHit, Fetch, Render, HandOver, DropPage,
         Panic, CachePage, Complete, SaveEnds, Stop, InputCloses, Shutdown, StopProcessor, CrawlerShutdown,
         PagesShutdown, Exit, inside
    <2> QED BY <2>1, <2>2, <2>3
  <1>8. browser' \in {"up", "down"}
    <2>1. browser \in {"up", "down"}
      BY DEF TypeOK
    <2>2. ASSUME NEW w \in Workers, Render(w)
          PROVE  browser' \in {"up", "down"}
      BY <2>1, <2>2 DEF Render
    <2>3. ASSUME \A w \in Workers : ~ Render(w)
          PROVE  browser' = browser
      BY <2>3, ZenonT(60) DEF Next, vars, Work, Take, Leave, CacheHit, Fetch, Submit, HandOver, DropPage,
         Panic, CachePage, Complete, SaveEnds, Stop, InputCloses, Shutdown, StopProcessor, CrawlerShutdown,
         PagesShutdown, Exit, inside
    <2> QED BY <2>1, <2>2, <2>3
  <1>9. overdue' \in BOOLEAN
    <2>1. overdue \in BOOLEAN
      BY DEF TypeOK
    <2>2. StopProcessor \/ CrawlerShutdown => overdue' \in BOOLEAN
      BY <2>1 DEF StopProcessor, CrawlerShutdown
    <2>3. ~ (StopProcessor \/ CrawlerShutdown) => overdue' = overdue
      BY ZenonT(60) DEF Next, vars, Work, Take, Leave, CacheHit, Fetch, Render, Submit, HandOver, DropPage,
         Panic, CachePage, Complete, SaveEnds, Stop, InputCloses, Shutdown, PagesShutdown, Exit, outside
    <2> QED BY <2>1, <2>2, <2>3
  <1> HIDE DEF SaversOK
  <1>10. /\ saver' \in [Savers -> [pc : {Idle, "saving"}, page : URLs \cup {None}, alias : URLs \cup {None}]]
         /\ \A s \in Savers : saver'[s].pc = Idle \/ saver'[s].page \in URLs
    BY <1>4, Zenon DEF SaversOK
  <1> QED BY <1>1, <1>2, <1>3, <1>5, <1>6, <1>7, <1>8, <1>9, <1>10, Zenon DEF TypeOK

-----------------------------------------------------------------------------
(* Closing. *)

\* Workers that have left do nothing more.
LEMMA LeftStay ==
    ASSUME TypeOK, [Next]_vars, WorkersLeft
    PROVE  WorkersLeft' /\ (\A w \in Workers : ~ (Work(w) \/ Render(w)))
  <1>1. ASSUME NEW w \in Workers
        PROVE  ~ (Work(w) \/ Render(w))
    <2>1. worker[w].pc = "left"
      BY DEF WorkersLeft
    <2> QED BY <2>1 DEF Work, Take, Leave, CacheHit, Fetch, Render, Submit, HandOver, DropPage, Panic, CachePage,
               Complete, At, Idle
  <1>2. worker' = worker
    BY <1>1, WorkerFrame, Zenon
  <1> QED BY <1>1, <1>2 DEF WorkersLeft

\* What a worker may find closed.
LEMMA Uses ==
    ASSUME NEW w \in Workers, Work(w) \/ Render(w)
    PROVE  /\ refused' \subseteq refused \cup (closed \ {"input"})
           /\ closed' = closed /\ overdue' = overdue
           /\ stage' = stage \/ (stage' = "exited" /\ "savers" \in closed)
  <1>1. CASE Render(w) \/ Submit(w) \/ Panic(w) \/ CachePage(w) \/ Complete(w)
    BY <1>1 DEF Render, Submit, Panic, CachePage, Complete, Use, outside
  <1>2. CASE Take(w) \/ Leave(w) \/ CacheHit(w) \/ Fetch(w) \/ HandOver(w) \/ DropPage(w)
    <2>1. UNCHANGED <<refused, closed, overdue, stage>>
      BY <1>2, Zenon DEF Take, Leave, CacheHit, Fetch, HandOver, DropPage, outside
    <2> QED BY <2>1
  <1> QED BY <1>1, <1>2 DEF Work

\* Every step keeps the order of the stop.
LEMMA ClosingStep ==
    ASSUME TypeOK, NothingClosedYet, ClosedInTime, ClosedOnlyAfterUse, [Next]_vars
    PROVE  (NothingClosedYet /\ ClosedInTime /\ ClosedOnlyAfterUse)'
  <1> USE DEF NothingClosedYet, ClosedInTime, ClosedOnlyAfterUse
  <1>1. ASSUME NEW w \in Workers, Work(w) \/ Render(w)
        PROVE  (NothingClosedYet /\ ClosedInTime /\ ClosedOnlyAfterUse)'
    <2>1. ~ WorkersLeft
      BY <1>1, LeftStay
    <2>2. /\ refused' \subseteq refused \cup (closed \ {"input"})
          /\ closed' = closed /\ overdue' = overdue
          /\ stage' = stage \/ (stage' = "exited" /\ "savers" \in closed)
      BY <1>1, Uses
    <2> QED BY <2>1, <2>2
  <1>2. ASSUME \A w \in Workers : ~ (Work(w) \/ Render(w))
        PROVE  (NothingClosedYet /\ ClosedInTime /\ ClosedOnlyAfterUse)'
    <2>1. refused' = refused /\ worker' = worker
      BY <1>2, WorkerFrame, Zenon
    <2>2. WorkersLeft => WorkersLeft'
      BY <2>1 DEF WorkersLeft
    <2>3. CASE UNCHANGED <<stage, closed, overdue>>
      BY <2>1, <2>2, <2>3
    <2>4. CASE Stop
      BY <2>1, <2>2, <2>4 DEF Stop
    <2>5. CASE StopProcessor
      BY <2>1, <2>2, <2>5 DEF StopProcessor
    <2>6. CASE InputCloses
      BY <2>1, <2>2, <2>6 DEF InputCloses
    <2>7. CASE CrawlerShutdown
      BY <2>1, <2>2, <2>7 DEF CrawlerShutdown, WorkersWaitedFor
    <2>8. CASE PagesShutdown
      BY <2>1, <2>2, <2>8 DEF PagesShutdown
    <2>9. CASE Exit
      BY <2>1, <2>2, <2>9 DEF Exit
    <2>10. ASSUME ~ (Stop \/ StopProcessor \/ InputCloses \/ CrawlerShutdown \/ PagesShutdown \/ Exit)
           PROVE  UNCHANGED <<stage, closed, overdue>>
      BY <1>2, <2>10, Zenon DEF Next, vars, SaveEnds, Shutdown, outside
    <2> QED BY <2>3, <2>4, <2>5, <2>6, <2>7, <2>8, <2>9, <2>10
  <1> QED BY <1>1, <1>2

-----------------------------------------------------------------------------
(* Robots. *)

\* What was learnt stays learnt.
LEMMA RobotsStep ==
    ASSUME TypeOK, ErrorPageIsKnown, [Next]_vars
    PROVE  ErrorPageIsKnown' /\ (misled => misled')
  <1>1. ASSUME NEW w \in Workers, Fetch(w)
        PROVE  ErrorPageIsKnown' /\ (misled => misled')
    <2>1. PICK a \in RobotsSays, asked \in SUBSET Hosts : Learns(asked, a)
      BY <1>1, FetchStep
    <2>2. robots \in [Hosts -> {"rules", "errorPage", None}]
      BY DEF TypeOK
    <2> QED BY <2>1, <2>2 DEF Learns, ErrorPageIsKnown
  <1>2. ASSUME \A w \in Workers : ~ Fetch(w)
        PROVE  ErrorPageIsKnown' /\ (misled => misled')
    <2>1. UNCHANGED <<robots, misled>>
      BY <1>2, RobotsFrame, Zenon
    <2> QED BY <2>1 DEF ErrorPageIsKnown
  <1> QED BY <1>1, <1>2

\* What a worker goes on with after its GET was reached and may be stored.
LEMMA FetchedMayBeStored ==
    ASSUME TypeOK, ErrorPageIsKnown, [Next]_vars, NEW w \in Workers, Fetch(w),
           worker'[w].pc \in {"render", "submit"}
    PROVE  /\ Fetched(worker[w].task.url)
           /\ Storable(pageIdentity(worker[w].task.url).page)'
  <1> DEFINE page == pageIdentity(worker[w].task.url).page
  <1>1. PICK a \in RobotsSays, asked \in SUBSET Hosts :
          /\ Learns(asked, a)
          /\ Fetched(worker[w].task.url) /\ isAllowedByRobots(page, a) /\ Host[page] \in asked
    BY FetchStep
  <1>2. worker[w].task.url \in URLs
    BY TaskURL DEF Fetch, At, Idle
  <1>3. page \in URLs
    BY <1>2, IdentityIsSound
  <1>4. worker'[w].task = worker[w].task
    <2>1. worker[w].pc = "fetch"
      BY DEF Fetch, At
    <2> QED BY <2>1, WorkersStep DEF Onward, Idle, Resting
  <1> HIDE DEF page
  <1>5. ASSUME page \in Disallowed
        PROVE  misled'
    <2>1. /\ robots \in [Hosts -> {"rules", "errorPage", None}] /\ Host[page] \in Hosts
          /\ a[Host[page]] \in Answers \ {"missing"}
      BY <1>3, <1>5, PagePipelineAssumption DEF TypeOK, Hosts, PagePipelineAssumption
    <2>2. Robots(page, a) = "errorPage"
      BY <1>1, <1>5, <2>1 DEF isAllowedByRobots, Robots, Answers
    <2>3. CASE robots[Host[page]] # None
      BY <2>1, <2>2, <2>3, RobotsStep DEF Robots, ErrorPageIsKnown
    <2>4. CASE robots[Host[page]] = None
      BY <1>1, <2>1, <2>2, <2>4 DEF Robots, Learns
    <2> QED BY <2>3, <2>4
  <1>6. pageIdentity(worker'[w].task.url).page = page
    BY <1>4, Zenon DEF page
  <1> QED BY <1>1, <1>5, <1>6 DEF Storable

\* Every step keeps what is said of a page on its way through a worker.
LEMMA OnItsWayStep ==
    ASSUME TypeOK, ErrorPageIsKnown, SubmitsWhatItGot, OnItsWay, [Next]_vars
    PROVE  SubmitsWhatItGot' /\ OnItsWay'
  <1>1. misled => misled'
    BY RobotsStep
  <1>2. ASSUME NEW w \in Workers, worker'[w].pc \in {"render", "submit", "hand"}
        PROVE  /\ Storable(pageIdentity(worker[w].task.url).page)'
               /\ worker'[w].pc \in {"render", "submit"} => Fetched(worker'[w].task.url)
    <2>1. CASE worker'[w] = worker[w]
      BY <1>1, <1>2, <2>1 DEF SubmitsWhatItGot, OnItsWay, Storable
    <2>2. CASE worker'[w] # worker[w]
      <3>1. /\ worker'[w].task = worker[w].task
            /\ worker'[w].pc = "render" => Fetch(w)
            /\ worker'[w].pc = "submit" => Fetch(w) \/ worker[w].pc = "render"
            /\ worker'[w].pc = "hand" => worker[w].pc = "submit"
        <4>1. worker[w] \in States
          BY DEF TypeOK, States, PCs
        <4>2. Onward(w, worker[w], worker'[w])
          BY <2>2, WorkersStep
        <4>3. worker'[w] # Resting /\ worker'[w].pc # "fetch"
          BY <1>2 DEF Resting, Idle
        <4>4. worker'[w] # [worker[w] EXCEPT !.pc = "left"]
          BY <1>2, <4>1 DEF States
        <4> QED BY <4>2, <4>3, <4>4 DEF Onward
      <3>2. CASE Fetch(w)
        <4>1. worker'[w].pc # "hand"
          BY <3>1, <3>2 DEF Fetch, At
        <4> QED BY <1>2, <3>1, <3>2, <4>1, FetchedMayBeStored
      <3>3. CASE ~ Fetch(w)
        BY <1>1, <1>2, <3>1, <3>3 DEF SubmitsWhatItGot, OnItsWay, Storable
      <3> QED BY <3>2, <3>3
    <2> QED BY <2>1, <2>2
  <1>3. ASSUME NEW s \in Savers, saver'[s].pc = "saving"
        PROVE  Storable(saver[s].page)'
    <2>1. saver[s].pc = "saving" => Storable(saver[s].page)
      BY DEF OnItsWay
    <2>2. CASE saver'[s] = saver[s]
      BY <1>1, <1>3, <2>1, <2>2 DEF Storable
    <2>3. CASE saver'[s] # saver[s]
      <3>1. PICK w \in Workers : worker[w].pc = "hand" /\ saver'[s] = Saving(pageIdentity(worker[w].task.url))
        BY <1>3, <2>3, SaverStep DEF SaverAt, Idle, TypeOK
      <3>2. saver'[s].page = pageIdentity(worker[w].task.url).page
        BY <3>1 DEF Saving
      <3>3. Storable(pageIdentity(worker[w].task.url).page)
        BY <3>1 DEF OnItsWay
      <3> QED BY <1>1, <3>2, <3>3 DEF Storable
    <2> QED BY <2>2, <2>3
  <1> QED BY <1>2, <1>3 DEF SubmitsWhatItGot, OnItsWay

-----------------------------------------------------------------------------
(* Names. *)

\* Every step keeps what is said of the savers' pages.
LEMMA SaverNamesStep ==
    ASSUME TypeOK, SaverIsNamedRight, [Next]_vars
    PROVE  SaverIsNamedRight'
  <1> SUFFICES ASSUME NEW s \in Savers, saver'[s].pc = "saving", saver'[s] # saver[s]
               PROVE  Renames(saver'[s].alias, saver'[s].page)
    BY DEF SaverIsNamedRight
  <1>1. PICK w \in Workers : worker[w].pc = "hand" /\ saver'[s] = Saving(pageIdentity(worker[w].task.url))
    BY SaverStep DEF SaverAt, Idle, TypeOK
  <1> DEFINE id == pageIdentity(worker[w].task.url)
  <1>2. Renames(id.alias, id.page)
    BY <1>1, TaskURL, IdentityIsSound DEF Idle
  <1>3. saver'[s].alias = id.alias /\ saver'[s].page = id.page
    BY <1>1 DEF Saving
  <1> HIDE DEF id
  <1> QED BY <1>2, <1>3

\* Only savers write to the graph, and what they were given.
LEMMA GraphStep ==
    ASSUME [Next]_vars, NEW g \in graph', g \notin graph
    PROVE  \E s \in Savers : /\ saver[s].pc = "saving"
                             /\ g = [page |-> saver[s].page, alias |-> saver[s].alias]
  <1>1. \E s \in Savers : SaveEnds(s)
    <2>1. SUFFICES ASSUME \A s \in Savers : ~ SaveEnds(s)
                   PROVE  graph' = graph
      OBVIOUS
    <2> QED BY <2>1, ZenonT(60) DEF Next, vars, Work, Take, Leave, CacheHit, Fetch, Render, Submit, HandOver,
       DropPage, Panic, CachePage, Complete, Stop, InputCloses, Shutdown, StopProcessor, CrawlerShutdown,
       PagesShutdown, Exit, inside
  <1>2. PICK s \in Savers : SaveEnds(s)
    BY <1>1
  <1>3. saver[s].pc = "saving" /\ g = [page |-> saver[s].page, alias |-> saver[s].alias]
    BY <1>2 DEF SaveEnds
  <1> QED BY <1>3

\* Every step keeps what is said of the graph.
LEMMA StoredStep ==
    ASSUME TypeOK, ErrorPageIsKnown, OnItsWay, SaverIsNamedRight, StoredIsAllowed, NamesAreTheServers,
           [Next]_vars
    PROVE  StoredIsAllowed' /\ NamesAreTheServers'
  <1>1. misled => misled'
    BY RobotsStep
  <1>2. ASSUME NEW g \in graph'
        PROVE  Renames(g.alias, g.page) /\ (~ misled' => g.page \notin Disallowed)
    <2>1. CASE g \in graph
      BY <1>1, <2>1, NamesAreRenames DEF StoredIsAllowed
    <2>2. CASE g \notin graph
      <3>1. PICK s \in Savers : /\ saver[s].pc = "saving"
                                /\ g = [page |-> saver[s].page, alias |-> saver[s].alias]
        BY <2>2, GraphStep
      <3>2. g.page = saver[s].page /\ g.alias = saver[s].alias
        BY <3>1
      <3> QED BY <1>1, <3>1, <3>2 DEF OnItsWay, SaverIsNamedRight, Storable
    <2> QED BY <2>1, <2>2
  <1>3. NamesAreTheServers' <=> \A g \in graph' : Renames(g.alias, g.page)
    BY DEF NamesAreTheServers, Renames, Hops
  <1> QED BY <1>2, <1>3 DEF StoredIsAllowed

-----------------------------------------------------------------------------
(* The index. *)

\* What a step does to the entry of one address.
LEMMA IndexStep ==
    ASSUME TypeOK, SubmitsWhatItGot, [Next]_vars, NEW u \in URLs, index'[u] # index[u]
    PROVE  \/ index'[u] = u /\ Site[u].hop = "none"
           \/ index'[u] = None /\ (Renamed(u) \/ IsGone(u))
  <1>1. \E w \in Workers : Submit(w)
    <2>1. SUFFICES ASSUME \A w \in Workers : ~ Submit(w)
                   PROVE  index' = index
      OBVIOUS
    <2> QED BY <2>1, ZenonT(60) DEF Next, vars, Work, Take, Leave, CacheHit, Fetch, Render, HandOver,
       DropPage, Panic, CachePage, Complete, SaveEnds, Stop, InputCloses, Shutdown, StopProcessor,
       CrawlerShutdown, PagesShutdown, Exit, inside
  <1>2. PICK w \in Workers : Submit(w)
    BY <1>1
  <1> DEFINE url   == worker[w].task.url
             final == Followed(url).final
             id    == pageIdentity(url)
             what  == IF TextIsOfPage(final, id.page) THEN Submission(final, worker[w].text) ELSE "keep"
  <1>3. /\ worker[w].pc = "submit"
        /\ index' = IF "sink" \in closed THEN index
                    ELSE [v \in URLs |-> IF v = id.alias THEN None
                                         ELSE IF v # id.page \/ what = "keep" THEN index[v]
                                         ELSE IF what = "remove" THEN None ELSE final]
    BY <1>2, Zenon DEF Submit, At
  <1>4. url \in URLs
    BY <1>3, TaskURL DEF Idle
  <1>5. final \in URLs /\ id.alias \in {None, url} /\ (id.alias = url => Renamed(url))
    BY <1>4, IdentityIsSound
  <1>6. Site[final].hop = "none"
    BY <1>3 DEF SubmitsWhatItGot, Fetched
  <1>7. what # "keep" => final = id.page
    BY DEF TextIsOfPage
  <1>8. what = "remove" => Site[final].status = "gone"
    <2>1. Site[final].status \in {"ok", "gone", "error"}
      BY <1>5, FetchingAssumption DEF FetchingAssumption
    <2> QED BY <2>1 DEF Submission
  <1> HIDE DEF what, id, final, url
  <1>9. CASE u = id.alias
    <2>1. u # None
      BY FetchingAssumption DEF FetchingAssumption
    <2>2. index'[u] = None
      BY <1>3, <1>9
    <2> QED BY <1>5, <1>9, <2>1, <2>2
  <1>10. CASE u # id.alias
    <2>1. u = id.page /\ what # "keep" /\ index'[u] = IF what = "remove" THEN None ELSE final
      BY <1>3, <1>10
    <2> QED BY <1>6, <1>7, <1>8, <2>1 DEF IsGone
  <1> QED BY <1>9, <1>10

-----------------------------------------------------------------------------
(* The theorems. *)

LEMMA IInvInit == Init => IInv
  <1> SUFFICES ASSUME Init
               PROVE  IInv
    OBVIOUS
  <1>1. TypeOK
    BY TypeInit
  <1>2. SubmitsWhatItGot /\ OnItsWay /\ SaverIsNamedRight
    BY DEF Init, Resting, SaverAt, Idle, SubmitsWhatItGot, OnItsWay, SaverIsNamedRight
  <1>3. ErrorPageIsKnown
    BY PagePipelineAssumption DEF Init, ErrorPageIsKnown, PagePipelineAssumption, Answers
  <1>4. StoredIsAllowed /\ NamesAreTheServers
    BY NamesAreRenames DEF Init, StoredIsAllowed
  <1>5. IndexHoldsOwnText
    BY DEF Init, IndexHoldsOwnText
  <1>6. NothingClosedYet /\ ClosedInTime /\ ClosedOnlyAfterUse
    BY DEF Init, NothingClosedYet, ClosedInTime, ClosedOnlyAfterUse
  <1> QED BY <1>1, <1>2, <1>3, <1>4, <1>5, <1>6 DEF IInv

LEMMA IInvStep == IInv /\ [Next]_vars => IInv'
  <1> SUFFICES ASSUME IInv, [Next]_vars
               PROVE  IInv'
    OBVIOUS
  <1> USE DEF IInv
  <1>1. TypeOK'
    BY TypeStep
  <1>2. SubmitsWhatItGot' /\ OnItsWay' /\ ErrorPageIsKnown'
    BY OnItsWayStep, RobotsStep
  <1>3. SaverIsNamedRight' /\ StoredIsAllowed' /\ NamesAreTheServers'
    BY SaverNamesStep, StoredStep
  <1>4. IndexHoldsOwnText'
    BY IndexStep DEF IndexHoldsOwnText
  <1>5. NothingClosedYet' /\ ClosedInTime' /\ ClosedOnlyAfterUse'
    BY ClosingStep
  <1> QED BY <1>1, <1>2, <1>3, <1>4, <1>5

\* Whatever the site, its redirects and its robots.txt, however many workers,
\* savers and tasks: a page is stored under the server's name for it and only if
\* its host allows, and the index finds it by its own text (scrap, pageIdentity,
\* submitDocument).
THEOREM StoresTruly == Spec => []PagesAreStoredTruly
  <1>1. IInv => PagesAreStoredTruly
    BY DEF IInv, PagesAreStoredTruly
  <1> QED BY <1>1, IInvInit, IInvStep, PTL DEF Spec

\* If every stage of StopApp ends in time no worker finds closed what it uses.
THEOREM ClosesInOrder == Spec => []ClosedOnlyAfterUse
  <1>1. IInv => ClosedOnlyAfterUse
    BY DEF IInv
  <1> QED BY <1>1, IInvInit, IInvStep, PTL DEF Spec

\* Whatever earlier crawls left indexed, and however the site has changed since,
\* only the server's word on an address takes it out of the index: that its page
\* is gone, or that it is now another page's name.
THEOREM IndexLosesTheGoneAndRenamed == Spec => OnlyGoneOrRenamedLeaveTheIndex
  <1> DEFINE Keeps == \A u \in URLs : index[u] # None /\ index'[u] = None =>
                         \/ Site[u].hop = "none" /\ Site[u].status = "gone"
                         \/ Site[u].hop # "none" /\ isIdentityRedirect(u)
  <1>1. IInv /\ [Next]_vars => Keeps
    <2> SUFFICES ASSUME IInv, [Next]_vars, NEW u \in URLs, index[u] # None, index'[u] = None
                 PROVE  IsGone(u) \/ Renamed(u)
      BY DEF IsGone, Renamed
    <2>1. u # None
      BY FetchingAssumption DEF FetchingAssumption
    <2> QED BY <2>1, IndexStep DEF IInv
  <1>2. IInv /\ [Next]_vars => [Keeps]_vars
    BY <1>1
  <1> QED BY <1>2, IInvInit, IInvStep, PTL DEF Spec, OnlyGoneOrRenamedLeaveTheIndex

-----------------------------------------------------------------------------
(* The name of a page.  What is kept of a path and of a query is defined by *)
(* recursion on how much of it has been read.                               *)

Follows(f, k, S, first, step) ==
    f \in [0..k -> S] /\ f[0] = first /\ \A n \in 1..k : f[n] = step[n][f[n - 1]]

\* A step for each number and value defines values as far as one likes.
LEMMA StepsExist ==
    ASSUME NEW S, NEW first \in S, NEW step \in [Nat -> [S -> S]]
    PROVE  \A k \in Nat : \E f : Follows(f, k, S, first, step)
  <1> DEFINE Fits(f, k) == Follows(f, k, S, first, step)
             T == {k \in Nat : ~ \E f : Fits(f, k)}
  <1>1. SUFFICES ASSUME T # {} PROVE FALSE
    OBVIOUS
  <1>2. PICK k \in T : k - 1 \notin T
    BY <1>1, LeastCase
  <1>3. k # 0
    <2> DEFINE f == [n \in 0..0 |-> first]
    <2>1. Fits(f, 0)
      BY DEF Follows
    <2> QED BY <2>1
  <1>4. PICK f : Fits(f, k - 1)
    BY <1>2, <1>3
  <1> DEFINE g == [n \in 0..k |-> IF n = k THEN step[k][f[k - 1]] ELSE f[n]]
  <1>5. k \in Nat /\ k - 1 \in Nat /\ f[k - 1] \in S
    BY <1>3, <1>4 DEF Follows
  <1>6. g \in [0..k -> S] /\ g[0] = first /\ g[k] = step[k][f[k - 1]] /\ \A n \in 0..(k - 1) : g[n] = f[n]
    BY <1>3, <1>4, <1>5 DEF Follows
  <1> HIDE DEF g
  <1>7. ASSUME NEW n \in 1..k PROVE g[n] = step[n][g[n - 1]]
    <2>1. n \in Int /\ g[n - 1] = f[n - 1]
      BY <1>5, <1>6
    <2>2. CASE n = k
      BY <1>6, <2>1, <2>2
    <2>3. CASE n # k
      <3>1. n \in 0..(k - 1) /\ n \in 1..(k - 1)
        BY <1>5, <2>1, <2>3
      <3> QED BY <1>4, <1>6, <2>1, <3>1 DEF Follows
    <2> QED BY <2>2, <2>3
  <1>8. Fits(g, k)
    BY <1>6, <1>7 DEF Follows
  <1> QED BY <1>8

DotSegments == {".", ".."}

\* Resolved, a path has no dot segment, and one that has none stays as it is.
LEMMA PathIsResolved ==
    ASSUME NEW T, NEW path \in Seq(T)
    PROVE  /\ WithoutDots(path) \in Seq(T \cup {""})
           /\ \A i \in DOMAIN WithoutDots(path) : WithoutDots(path)[i] \notin DotSegments
           /\ (\A i \in DOMAIN path : path[i] \notin DotSegments) => WithoutDots(path) = path
  <1> DEFINE Kept(f, n) ==
                CASE n = 0 -> <<>>
                  [] n > 0 /\ path[n] = "." -> f[n - 1]
                  [] n > 0 /\ path[n] = ".." -> IF f[n - 1] = <<>> THEN <<>> ELSE Front(f[n - 1])
                  [] OTHER -> Append(f[n - 1], path[n])
             kept == CHOOSE f : f = [n \in 0..Len(path) |-> Kept(f, n)]
             U == T \cup {""}
             W == {s \in Seq(U) : \A i \in DOMAIN s : s[i] \notin DotSegments}
             After(s, seg) ==
                CASE seg = "." -> s
                  [] seg = ".." -> IF s = <<>> THEN <<>> ELSE Front(s)
                  [] OTHER -> Append(s, seg)
             Step(n, s) == IF n \in 1..Len(path) THEN After(s, path[n]) ELSE s
             step == [n \in Nat |-> [s \in W |-> Step(n, s)]]
  <1>1. Len(path) \in Nat /\ DOMAIN path = 1..Len(path) /\ \A i \in 1..Len(path) : path[i] \in T
    OBVIOUS
  <1>9. T \subseteq U /\ "" \in U
    OBVIOUS
  <1> HIDE DEF U
  <1>2. \A s \in W, seg \in U : After(s, seg) \in W
    <2> SUFFICES ASSUME NEW s \in W, NEW seg \in U PROVE After(s, seg) \in W
      OBVIOUS
    <2>1. s \in Seq(U) /\ Len(s) \in Nat /\ DOMAIN s = 1..Len(s) /\ \A i \in 1..Len(s) : s[i] \notin DotSegments
      OBVIOUS
    <2>2. CASE seg = "."
      BY <2>2
    <2>3. CASE seg = ".." /\ s = <<>>
      BY <2>3
    <2>4. CASE seg = ".." /\ s # <<>>
      <3> DEFINE r == SubSeq(s, 1, Len(s) - 1)
      <3>1. Len(s) - 1 \in Nat
        BY <2>1, <2>4
      <3>2. r \in Seq(U) /\ Len(r) = Len(s) - 1 /\ DOMAIN r = 1..(Len(s) - 1) /\ \A i \in 1..(Len(s) - 1) : r[i] = s[i]
        BY <2>1, <3>1
      <3> HIDE DEF r
      <3>3. r \in W
        BY <2>1, <3>1, <3>2
      <3> QED BY <2>4, <3>3 DEF r, Front
    <2>5. CASE seg \notin DotSegments
      <3> DEFINE r == Append(s, seg)
      <3>1. r \in Seq(U) /\ Len(r) = Len(s) + 1
        BY <2>1
      <3>3. \A i \in 1..(Len(s) + 1) : r[i] = IF i = Len(s) + 1 THEN seg ELSE s[i]
        BY <2>1
      <3> HIDE DEF r
      <3>2. r \in W
        BY <2>1, <2>5, <3>1, <3>3
      <3> QED BY <2>5, <3>2 DEF r, DotSegments
    <2> QED BY <2>2, <2>3, <2>4, <2>5 DEF DotSegments
  <1>3. step \in [Nat -> [W -> W]] /\ <<>> \in W
    <2>1. \A n \in Nat, s \in W : Step(n, s) \in W
      BY <1>1, <1>2, <1>9
    <2> HIDE DEF Step, W
    <2>2. step \in [Nat -> [W -> W]]
      BY <2>1
    <2> QED BY <2>2 DEF W
  <1>4. PICK f \in [0..Len(path) -> W] : f[0] = <<>> /\ \A n \in 1..Len(path) : f[n] = step[n][f[n - 1]]
    <2> HIDE DEF step, W
    <2>1. \E f : Follows(f, Len(path), W, <<>>, step)
      BY <1>1, <1>3, StepsExist
    <2> QED BY <2>1 DEF Follows
  <1>5. \A g, n : n \in 1..Len(path) => Kept(g, n) = After(g[n - 1], path[n])
    OBVIOUS
  <1>6. f = [n \in 0..Len(path) |-> Kept(f, n)]
    <2>1. Kept(f, 0) = f[0]
      BY <1>4
    <2>2. \A n \in 1..Len(path) : f[n] = Kept(f, n)
      <3> SUFFICES ASSUME NEW n \in 1..Len(path) PROVE f[n] = Kept(f, n)
        OBVIOUS
      <3>1. n \in Nat /\ n - 1 \in 0..Len(path)
        BY <1>1
      <3>2. f[n - 1] \in W /\ f[n] = step[n][f[n - 1]]
        BY <1>4, <3>1
      <3>3. step[n][f[n - 1]] = After(f[n - 1], path[n])
        <4> HIDE DEF W, After
        <4> QED BY <3>1, <3>2
      <3> HIDE DEF Kept, After
      <3> QED BY <1>5, <3>2, <3>3
    <2>3. \A n \in 0..Len(path) : f[n] = Kept(f, n)
      <3> HIDE DEF Kept
      <3> QED BY <1>1, <2>1, <2>2
    <2> HIDE DEF Kept, W
    <2> QED BY <1>4, <2>3
  <1>7. kept = [n \in 0..Len(path) |-> Kept(kept, n)]
    BY <1>6
  <1>8. WithoutDots(path) = IF path # <<>> /\ Last(path) \in {".", ".."}
                            THEN Append(kept[Len(path)], "") ELSE kept[Len(path)]
    BY DEF WithoutDots
  <1> DEFINE Clean == \A i \in 1..Len(path) : path[i] \notin DotSegments
             Right(n) == kept[n] \in W /\ (Clean => kept[n] = SubSeq(path, 1, n))
  <1>10. kept[0] = <<>> /\ \A n \in 1..Len(path) : kept[n] = After(kept[n - 1], path[n])
    <2> HIDE DEF kept, After
    <2>1. \A n \in 0..Len(path) : kept[n] = Kept(kept, n)
      <3> HIDE DEF Kept
      <3> QED BY <1>7
    <2>2. Kept(kept, 0) = <<>>
      OBVIOUS
    <2> HIDE DEF Kept
    <2> QED BY <1>1, <1>5, <2>1, <2>2
  <1> HIDE DEF kept, Kept, Step, step
  <1>11. \A n \in 0..Len(path) : Right(n)
    <2> DEFINE B == {n \in 0..Len(path) : ~Right(n)}
    <2>1. SUFFICES ASSUME B # {} PROVE FALSE
      OBVIOUS
    <2>2. PICK n \in B : n - 1 \notin B
      <3>1. B \subseteq Nat
        BY <1>1
      <3> HIDE DEF B
      <3> QED BY <2>1, <3>1, LeastCase
    <2>3. n # 0
      <3>1. SubSeq(path, 1, 0) = <<>>
        BY <1>1
      <3> QED BY <1>3, <1>10, <3>1
    <2>4. n \in 1..Len(path) /\ n - 1 \in 0..Len(path) /\ Right(n - 1)
      BY <1>1, <2>2, <2>3
    <2>5. kept[n] = After(kept[n - 1], path[n]) /\ path[n] \in U
      BY <1>1, <1>9, <1>10, <2>4
    <2>6. kept[n] \in W
      <3> HIDE DEF After, W
      <3> QED BY <1>2, <2>4, <2>5
    <2>7. Clean => kept[n] = SubSeq(path, 1, n)
      <3> SUFFICES ASSUME Clean PROVE kept[n] = SubSeq(path, 1, n)
        OBVIOUS
      <3>1. kept[n - 1] = SubSeq(path, 1, n - 1) /\ path[n] \notin DotSegments
        BY <2>4
      <3>2. kept[n] = Append(kept[n - 1], path[n])
        BY <2>5, <3>1 DEF DotSegments
      <3>3. SubSeq(path, 1, n) = Append(SubSeq(path, 1, n - 1), path[n])
        BY <1>1, <2>4
      <3> QED BY <3>1, <3>2, <3>3
    <2> QED BY <2>6, <2>7
  <1>12. Right(Len(path))
    BY <1>1, <1>11
  <1>13. WithoutDots(path) \in W
    <2>1. "" \notin DotSegments /\ \A s : After(s, "") = Append(s, "")
      BY DEF DotSegments
    <2>2. Append(kept[Len(path)], "") \in W
      <3> HIDE DEF After, W
      <3> QED BY <1>2, <1>9, <1>12, <2>1
    <2> HIDE DEF W
    <2> QED BY <1>8, <1>12, <2>2
  <1>14. Clean => WithoutDots(path) = path
    <2> SUFFICES ASSUME Clean PROVE WithoutDots(path) = path
      OBVIOUS
    <2>1. path # <<>> => Last(path) \notin {".", ".."}
      BY <1>1 DEF Last, DotSegments
    <2>2. SubSeq(path, 1, Len(path)) = path
      BY <1>1
    <2> QED BY <1>8, <1>12, <2>1, <2>2
  <1> QED BY <1>1, <1>13, <1>14 DEF U

Tracks(pair) == lower(pair.key) \in TrackingParams

\* Stripped, a query has no parameter that tracks, and one that has none stays
\* as it is.
LEMMA QueryIsStripped ==
    ASSUME NEW T, NEW query \in Seq(T)
    PROVE  /\ stripTracking(query) \in Seq(T)
           /\ \A i \in DOMAIN stripTracking(query) : ~Tracks(stripTracking(query)[i])
           /\ (\A i \in DOMAIN query : ~Tracks(query[i])) => stripTracking(query) = query
  <1> DEFINE Kept(f, n) ==
                CASE n = 0 -> <<>>
                  [] n > 0 /\ lower(query[n].key) \in TrackingParams -> f[n - 1]
                  [] OTHER -> Append(f[n - 1], query[n])
             kept == CHOOSE f : f = [n \in 0..Len(query) |-> Kept(f, n)]
             W == {s \in Seq(T) : \A i \in DOMAIN s : ~Tracks(s[i])}
             After(s, pair) == IF Tracks(pair) THEN s ELSE Append(s, pair)
             Step(n, s) == IF n \in 1..Len(query) THEN After(s, query[n]) ELSE s
             step == [n \in Nat |-> [s \in W |-> Step(n, s)]]
  <1>1. Len(query) \in Nat /\ DOMAIN query = 1..Len(query) /\ \A i \in 1..Len(query) : query[i] \in T
    OBVIOUS
  <1>2. \A s \in W, pair \in T : After(s, pair) \in W
    <2> SUFFICES ASSUME NEW s \in W, NEW pair \in T, ~Tracks(pair) PROVE Append(s, pair) \in W
      OBVIOUS
    <2>1. s \in Seq(T) /\ Len(s) \in Nat /\ \A i \in 1..Len(s) : ~Tracks(s[i])
      OBVIOUS
    <2> DEFINE r == Append(s, pair)
    <2>2. r \in Seq(T) /\ Len(r) = Len(s) + 1
      BY <2>1
    <2>3. \A i \in 1..(Len(s) + 1) : r[i] = IF i = Len(s) + 1 THEN pair ELSE s[i]
      BY <2>1
    <2> HIDE DEF r
    <2>4. r \in W
      BY <2>1, <2>2, <2>3
    <2> QED BY <2>4 DEF r
  <1>3. step \in [Nat -> [W -> W]] /\ <<>> \in W
    <2>1. \A n \in Nat, s \in W : Step(n, s) \in W
      BY <1>1, <1>2
    <2> HIDE DEF Step, W
    <2>2. step \in [Nat -> [W -> W]]
      BY <2>1
    <2> QED BY <2>2 DEF W
  <1>4. PICK f \in [0..Len(query) -> W] : f[0] = <<>> /\ \A n \in 1..Len(query) : f[n] = step[n][f[n - 1]]
    <2> HIDE DEF step, W
    <2>1. \E f : Follows(f, Len(query), W, <<>>, step)
      BY <1>1, <1>3, StepsExist
    <2> QED BY <2>1 DEF Follows
  <1>5. \A g, n : n \in 1..Len(query) => Kept(g, n) = After(g[n - 1], query[n])
    BY DEF Tracks
  <1>6. f = [n \in 0..Len(query) |-> Kept(f, n)]
    <2>1. Kept(f, 0) = f[0]
      BY <1>4
    <2>2. \A n \in 1..Len(query) : f[n] = Kept(f, n)
      <3> SUFFICES ASSUME NEW n \in 1..Len(query) PROVE f[n] = Kept(f, n)
        OBVIOUS
      <3>1. n \in Nat /\ n - 1 \in 0..Len(query)
        BY <1>1
      <3>2. f[n - 1] \in W /\ f[n] = step[n][f[n - 1]]
        BY <1>4, <3>1
      <3>3. step[n][f[n - 1]] = After(f[n - 1], query[n])
        <4> HIDE DEF W, After
        <4> QED BY <3>1, <3>2
      <3> HIDE DEF Kept, After
      <3> QED BY <1>5, <3>2, <3>3
    <2>3. \A n \in 0..Len(query) : f[n] = Kept(f, n)
      <3> HIDE DEF Kept
      <3> QED BY <1>1, <2>1, <2>2
    <2> HIDE DEF Kept, W
    <2> QED BY <1>4, <2>3
  <1>7. kept = [n \in 0..Len(query) |-> Kept(kept, n)]
    BY <1>6
  <1>8. stripTracking(query) = kept[Len(query)]
    BY DEF stripTracking
  <1> DEFINE Clean == \A i \in 1..Len(query) : ~Tracks(query[i])
             Right(n) == kept[n] \in W /\ (Clean => kept[n] = SubSeq(query, 1, n))
  <1>9. kept[0] = <<>> /\ \A n \in 1..Len(query) : kept[n] = After(kept[n - 1], query[n])
    <2> HIDE DEF kept, After
    <2>1. \A n \in 0..Len(query) : kept[n] = Kept(kept, n)
      <3> HIDE DEF Kept
      <3> QED BY <1>7
    <2>2. Kept(kept, 0) = <<>>
      OBVIOUS
    <2> HIDE DEF Kept
    <2> QED BY <1>1, <1>5, <2>1, <2>2
  <1> HIDE DEF kept, Kept, Step, step
  <1>10. \A n \in 0..Len(query) : Right(n)
    <2> DEFINE B == {n \in 0..Len(query) : ~Right(n)}
    <2>1. SUFFICES ASSUME B # {} PROVE FALSE
      OBVIOUS
    <2>2. PICK n \in B : n - 1 \notin B
      <3>1. B \subseteq Nat
        BY <1>1
      <3> HIDE DEF B
      <3> QED BY <2>1, <3>1, LeastCase
    <2>3. n # 0
      <3>1. SubSeq(query, 1, 0) = <<>>
        BY <1>1
      <3> QED BY <1>3, <1>9, <3>1
    <2>4. n \in 1..Len(query) /\ n - 1 \in 0..Len(query) /\ Right(n - 1)
      BY <1>1, <2>2, <2>3
    <2>5. kept[n] = After(kept[n - 1], query[n]) /\ query[n] \in T
      BY <1>1, <1>9, <2>4
    <2>6. kept[n] \in W
      <3> HIDE DEF After, W
      <3> QED BY <1>2, <2>4, <2>5
    <2>7. Clean => kept[n] = SubSeq(query, 1, n)
      <3> SUFFICES ASSUME Clean PROVE kept[n] = SubSeq(query, 1, n)
        OBVIOUS
      <3>1. kept[n - 1] = SubSeq(query, 1, n - 1) /\ ~Tracks(query[n])
        BY <2>4
      <3>2. kept[n] = Append(kept[n - 1], query[n])
        BY <2>5, <3>1
      <3>3. SubSeq(query, 1, n) = Append(SubSeq(query, 1, n - 1), query[n])
        BY <1>1, <2>4
      <3> QED BY <3>1, <3>2, <3>3
    <2> QED BY <2>6, <2>7
  <1>11. Right(Len(query)) /\ SubSeq(query, 1, Len(query)) = query
    BY <1>1, <1>10
  <1> QED BY <1>1, <1>8, <1>11

Kinds == {"absolute", "network", "rooted", "relative"}
Parsed(k, s, n, d, p, path, q, x) ==
    [kind |-> k, scheme |-> s, host |-> [name |-> n, dots |-> d], port |-> p, path |-> path, query |-> q, extra |-> x]

\* The parts a URL can be named by, and the name.
Names(s, n, p, path, q) ==
    /\ s \in {"http", "https"} /\ n # "" /\ lower(n) = n
    /\ <<s, p>> \notin {<<"http", "80">>, <<"https", "443">>}
    /\ path # <<>> /\ (\E T : path \in Seq(T)) /\ \A i \in DOMAIN path : path[i] \notin DotSegments
    /\ (\E T : q \in Seq(T)) /\ \A i \in DOMAIN q : ~Tracks(q[i])
Name(s, n, p, path, q) == Parsed("absolute", s, n, 0, p, path, q, {})
IsName(c) == \E s, n, p, path, q : Names(s, n, p, path, q) /\ c = Name(s, n, p, path, q)

\* What Canonical makes of a resolved URL.
Canonized(r) ==
    [kind |-> "absolute", scheme |-> r.scheme, host |-> canonicalHost(r), port |-> canonicalPort(r),
     path |-> IF r.path = <<>> THEN <<"">> ELSE r.path, query |-> stripTracking(r.query), extra |-> {}]
Fetchable(R) == {s \in R : s.scheme \in {"http", "https"} /\ s.host.name # ""}
Named(R) == {Canonized(r) : r \in Fetchable(R)}
IsOneName(S, complete) == S = {} \/ \E c : S = {c} /\ (complete => IsName(c))

\* Lower case is lower case.
LEMMA LowerTwice ==
    ASSUME NEW n
    PROVE  lower(lower(n)) = lower(n) /\ (n # "" => lower(n) # "")
  BY UrlsAreParsed DEF lower

DotsLeft(d) == IF d > 0 THEN d - 1 ELSE 0
PortLeft(s, p) == IF <<s, p>> \in {<<"http", "80">>, <<"https", "443">>} THEN "" ELSE p
Way(path) == IF path = <<>> THEN <<"">> ELSE path

\* The parts of a parsed URL.
LEMMA PartsOf ==
    ASSUME NEW k, NEW s, NEW n, NEW d, NEW p, NEW path, NEW q, NEW x, NEW r, r = Parsed(k, s, n, d, p, path, q, x)
    PROVE  /\ r.kind = k /\ r.scheme = s /\ r.host.name = n /\ r.host.dots = d
           /\ r.port = p /\ r.path = path /\ r.query = q /\ r.extra = x /\ r.host = [name |-> n, dots |-> d]
  BY DEF Parsed

\* The parts of what Canonical makes of it.
LEMMA CanonizedParts ==
    ASSUME NEW k, NEW s, NEW n, NEW d, NEW p, NEW path, NEW q, NEW x
    PROVE  Canonized(Parsed(k, s, n, d, p, path, q, x)) =
             Parsed("absolute", s, lower(n), DotsLeft(d), PortLeft(s, p), Way(path), stripTracking(q), {})
  <1> DEFINE r == Parsed(k, s, n, d, p, path, q, x)
  <1>1. r.scheme = s /\ r.host.name = n /\ r.host.dots = d /\ r.port = p /\ r.path = path /\ r.query = q
    BY DEF Parsed
  <1> HIDE DEF r
  <1>2. /\ canonicalHost(r) = [name |-> lower(n), dots |-> DotsLeft(d)]
        /\ canonicalPort(r) = PortLeft(s, p)
        /\ (IF r.path = <<>> THEN <<"">> ELSE r.path) = Way(path)
    BY <1>1 DEF canonicalHost, canonicalPort, DotsLeft, PortLeft, Way
  <1>3. Canonized(r) = Parsed("absolute", s, lower(n), DotsLeft(d), PortLeft(s, p), Way(path), stripTracking(q), {})
    BY <1>1, <1>2 DEF Canonized, Parsed
  <1> QED BY <1>3 DEF r

\* A resolved URL has one name or none.
LEMMA ResolvedIsNamed ==
    ASSUME NEW s, NEW n, NEW d \in Nat, NEW p, NEW T, NEW path \in Seq(T), NEW Q, NEW q \in Seq(Q), NEW x
    PROVE  IsOneName(Named({Parsed("absolute", s, n, d, p, WithoutDots(path), q, x)}), d <= 1)
  <1> DEFINE r == Parsed("absolute", s, n, d, p, WithoutDots(path), q, x)
  <1>1. r.scheme = s /\ r.host.name = n
    BY DEF Parsed
  <1>2. CASE ~(s \in {"http", "https"} /\ n # "")
    <2> HIDE DEF r
    <2>1. Fetchable({r}) = {}
      BY <1>1, <1>2 DEF Fetchable
    <2>2. Named({r}) = {}
      BY <2>1 DEF Named
    <2>3. IsOneName(Named({r}), d <= 1)
      BY <2>2 DEF IsOneName
    <2> QED BY <2>3 DEF r
  <1>3. CASE s \in {"http", "https"} /\ n # ""
    <2> DEFINE port == PortLeft(s, p)
               way == Way(WithoutDots(path))
               c == Canonized(r)
    <2>1. Named({r}) = {c}
      <3> HIDE DEF r
      <3>1. Fetchable({r}) = {r}
        BY <1>1, <1>3 DEF Fetchable
      <3> QED BY <3>1 DEF Named
    <2>2. c = Parsed("absolute", s, lower(n), DotsLeft(d), port, way, stripTracking(q), {})
      BY CanonizedParts
    <2>3. way # <<>> /\ (\E U : way \in Seq(U)) /\ \A i \in DOMAIN way : way[i] \notin DotSegments
      <3>1. WithoutDots(path) \in Seq(T \cup {""}) /\ \A i \in DOMAIN WithoutDots(path) : WithoutDots(path)[i] \notin DotSegments
        BY PathIsResolved
      <3>2. <<"">> \in Seq(T \cup {""}) /\ <<"">> # <<>> /\ \A i \in DOMAIN <<"">> : <<"">>[i] \notin DotSegments
        <4>1. <<"">> \in Seq(T \cup {""})
          OBVIOUS
        <4>2. Len(<<"">>) = 1 /\ <<"">>[1] = "" /\ DOMAIN <<"">> = 1..1
          OBVIOUS
        <4>3. <<"">> # <<>>
          OBVIOUS
        <4>4. ASSUME NEW i \in DOMAIN <<"">> PROVE <<"">>[i] \notin DotSegments
          <5>1. i = 1
            BY <4>2
          <5> QED BY <4>2, <5>1 DEF DotSegments
        <4> QED BY <4>1, <4>3, <4>4
      <3> QED BY <3>1, <3>2 DEF Way
    <2>4. stripTracking(q) \in Seq(Q) /\ \A i \in DOMAIN stripTracking(q) : ~Tracks(stripTracking(q)[i])
      BY QueryIsStripped
    <2>5. lower(n) # "" /\ lower(lower(n)) = lower(n)
      BY <1>3, LowerTwice
    <2>6. <<s, port>> \notin {<<"http", "80">>, <<"https", "443">>}
      BY <1>3 DEF PortLeft
    <2>7. Names(s, lower(n), port, way, stripTracking(q))
      <3> HIDE DEF way, port
      <3> QED BY <1>3, <2>3, <2>4, <2>5, <2>6 DEF Names
    <2>8. d <= 1 => c = Name(s, lower(n), port, way, stripTracking(q))
      <3>1. d <= 1 => DotsLeft(d) = 0
        BY DEF DotsLeft
      <3> HIDE DEF way, port, c
      <3> QED BY <2>2, <3>1 DEF Name
    <2> HIDE DEF way, port, c, r
    <2>9. d <= 1 => IsName(c)
      BY <2>7, <2>8 DEF IsName
    <2>10. IsOneName(Named({r}), d <= 1)
      BY <2>1, <2>9 DEF IsOneName
    <2> QED BY <2>10 DEF r
  <1> QED BY <1>2, <1>3

\* A name is what Canonical makes of it.
LEMMA NameIsNamed ==
    ASSUME NEW s, NEW n, NEW p, NEW path, NEW q, Names(s, n, p, path, q)
    PROVE  Named({Parsed("absolute", s, n, 0, p, WithoutDots(path), q, {})}) = {Name(s, n, p, path, q)}
  <1>1. WithoutDots(path) = path
    BY PathIsResolved DEF Names
  <1>2. stripTracking(q) = q
    BY QueryIsStripped DEF Names
  <1> DEFINE c == Parsed("absolute", s, n, 0, p, path, q, {})
  <1>3. c.scheme = s /\ c.host.name = n
    BY DEF Parsed
  <1>4. Canonized(c) = c
    <2>4. lower(n) = n /\ path # <<>> /\ <<s, p>> \notin {<<"http", "80">>, <<"https", "443">>}
      BY DEF Names
    <2>1. Way(path) = path /\ PortLeft(s, p) = p /\ DotsLeft(0) = 0
      <3>1. Way(path) = path
        BY <2>4 DEF Way
      <3>2. PortLeft(s, p) = p
        BY <2>4 DEF PortLeft
      <3>3. DotsLeft(0) = 0
        BY DEF DotsLeft
      <3> QED BY <3>1, <3>2, <3>3
    <2>2. Canonized(c) = Parsed("absolute", s, lower(n), DotsLeft(0), PortLeft(s, p), Way(path), stripTracking(q), {})
      BY CanonizedParts
    <2> HIDE DEF c
    <2>3. Canonized(c) = Parsed("absolute", s, n, 0, p, path, q, {})
      BY <1>2, <2>1, <2>2, <2>4
    <2> QED BY <2>3 DEF c
  <1>5. {Parsed("absolute", s, n, 0, p, WithoutDots(path), q, {})} = {c}
    BY <1>1
  <1> HIDE DEF c
  <1>6. Fetchable({c}) = {c}
    BY <1>3 DEF Fetchable, Names
  <1>7. Named({c}) = {c}
    BY <1>4, <1>6 DEF Named
  <1> QED BY <1>5, <1>7 DEF Name, c

IsParsed(u) ==
    \E k, s, n, d, p, path, q, x :
        /\ u = Parsed(k, s, n, d, p, path, q, x) /\ k \in Kinds /\ d \in Nat
        /\ \E T : path \in Seq(T)
        /\ \E T : q \in Seq(T)

\* What net/url has parsed has the parts it is made of.
LEMMA UrlHasParts ==
    ASSUME NEW u, IsUrl(u)
    PROVE  IsParsed(u)
  <1>1. /\ u = [kind |-> u.kind, scheme |-> u.scheme, host |-> u.host, port |-> u.port, path |-> u.path,
                query |-> u.query, extra |-> u.extra]
        /\ u.kind \in Kinds /\ u.host \in [name : {u.host.name}, dots : Nat]
        /\ u.path \in Seq(ToSet(u.path)) /\ u.query \in Seq(ToSet(u.query))
    BY DEF IsUrl, Kinds
  <1>2. u.host = [name |-> u.host.name, dots |-> u.host.dots] /\ u.host.dots \in Nat
    BY <1>1
  <1>3. u = Parsed(u.kind, u.scheme, u.host.name, u.host.dots, u.port, u.path, u.query, u.extra)
    BY <1>1, <1>2, Zenon DEF Parsed
  <1>4. (\E T : u.path \in Seq(T)) /\ \E T : u.query \in Seq(T)
    BY <1>1
  <1> QED BY <1>1, <1>2, <1>3, <1>4, Zenon DEF IsParsed

\* Whatever it is resolved against, it has one name or none.
LEMMA ReferenceIsNamed ==
    ASSUME NEW u, IsParsed(u), NEW b, IsParsed(b)
    PROVE  IsOneName(Named({ResolveReference(u, b)}), u.host.dots <= 1 /\ b.host.dots <= 1)
  <1>1. PICK k, s, n, d, p, path, q, x :
               /\ u = Parsed(k, s, n, d, p, path, q, x) /\ k \in Kinds /\ d \in Nat
               /\ \E T : path \in Seq(T)
               /\ \E T : q \in Seq(T)
    BY DEF IsParsed
  <1>2. PICK kb, sb, nb, db, pb, pathb, qb, xb :
               /\ b = Parsed(kb, sb, nb, db, pb, pathb, qb, xb) /\ kb \in Kinds /\ db \in Nat
               /\ \E T : pathb \in Seq(T)
               /\ \E T : qb \in Seq(T)
    BY DEF IsParsed
  <1>3. PICK T : path \in Seq(T)
    BY <1>1
  <1>4. PICK Tb : pathb \in Seq(Tb)
    BY <1>2
  <1>5. PICK Q : q \in Seq(Q)
    BY <1>1
  <1>6. PICK Qb : qb \in Seq(Qb)
    BY <1>2
  <1> DEFINE samePage == k = "relative" /\ path = <<>>
             scheme == IF k = "absolute" THEN s ELSE sb
             way == CASE k # "relative" -> path
                      [] samePage -> pathb
                      [] OTHER -> Front(pathb) \o path
             query == IF samePage /\ q = <<>> THEN qb ELSE q
  <1>7. /\ u.kind = k /\ u.scheme = s /\ u.host = [name |-> n, dots |-> d]
        /\ u.port = p /\ u.path = path /\ u.query = q /\ u.extra = x
    BY <1>1, PartsOf
  <1>8. /\ b.scheme = sb /\ b.host = [name |-> nb, dots |-> db]
        /\ b.port = pb /\ b.path = pathb /\ b.query = qb
    BY <1>2, PartsOf
  <1>9. way \in Seq(T \cup Tb)
    <2>1. path \in Seq(T \cup Tb) /\ pathb \in Seq(T \cup Tb)
      BY <1>3, <1>4
    <2>2. Front(pathb) \in Seq(T \cup Tb)
      <3>1. CASE pathb = <<>>
        <4>1. Front(pathb) = <<>>
          BY <3>1 DEF Front
        <4> QED BY <4>1
      <3>2. CASE pathb # <<>>
        <4>1. Len(pathb) - 1 \in Nat
          BY <2>1, <3>2
        <4> QED BY <2>1, <4>1 DEF Front
      <3> QED BY <3>1, <3>2
    <2>3. Front(pathb) \o path \in Seq(T \cup Tb)
      BY <2>1, <2>2
    <2> QED BY <2>1, <2>3
  <1>10. query \in Seq(Q \cup Qb)
    BY <1>5, <1>6
  <1>11. ResolveReference(u, b) =
             [kind |-> "absolute", scheme |-> scheme,
              host |-> IF k \in {"absolute", "network"} THEN u.host ELSE b.host,
              port |-> IF k \in {"absolute", "network"} THEN p ELSE pb,
              path |-> WithoutDots(way), query |-> query, extra |-> x]
    BY <1>7, <1>8, Zenon DEF ResolveReference
  <1>12. d \in Nat /\ db \in Nat /\ u.host.dots = d /\ b.host.dots = db
    BY <1>1, <1>2, <1>7, <1>8
  <1> HIDE DEF scheme, way, query
  <1>13. CASE k \in {"absolute", "network"}
    <2>1. ResolveReference(u, b) = Parsed("absolute", scheme, n, d, p, WithoutDots(way), query, x)
      BY <1>7, <1>11, <1>13 DEF Parsed
    <2>2. IsOneName(Named({Parsed("absolute", scheme, n, d, p, WithoutDots(way), query, x)}), d <= 1)
      BY <1>9, <1>10, <1>12, ResolvedIsNamed
    <2> QED BY <1>12, <2>1, <2>2 DEF IsOneName
  <1>14. CASE k \notin {"absolute", "network"}
    <2>1. ResolveReference(u, b) = Parsed("absolute", scheme, nb, db, pb, WithoutDots(way), query, x)
      BY <1>8, <1>11, <1>14 DEF Parsed
    <2>2. IsOneName(Named({Parsed("absolute", scheme, nb, db, pb, WithoutDots(way), query, x)}), db <= 1)
      BY <1>9, <1>10, <1>12, ResolvedIsNamed
    <2> QED BY <1>12, <2>1, <2>2 DEF IsOneName
  <1> QED BY <1>13, <1>14

\* What Canonical does of a resolved URL.
LEMMA CanonicalOf ==
    ASSUME NEW u, NEW from
    PROVE  Canonical(u, from) = IF u.kind = "relative" /\ u.path = <<>> /\ u.query = <<>> THEN {}
                                ELSE Named(IF u.kind = "absolute" THEN {ResolveReference(u, u)}
                                           ELSE {ResolveReference(u, b) : b \in from})
  BY DEF Canonical, Named, Canonized, Fetchable

\* Canonical returns one name or none.
LEMMA CanonicalIsNamed ==
    ASSUME NEW u, IsParsed(u), NEW from, from = {} \/ \E b : IsParsed(b) /\ from = {b}
    PROVE  IsOneName(Canonical(u, from), \A v \in {u} \cup from : v.host.dots <= 1)
  <1>1. CASE u.kind = "relative" /\ u.path = <<>> /\ u.query = <<>>
    BY <1>1, CanonicalOf DEF IsOneName
  <1>2. CASE u.kind = "absolute"
    <2>1. Canonical(u, from) = Named({ResolveReference(u, u)})
      BY <1>2, CanonicalOf
    <2>2. IsOneName(Named({ResolveReference(u, u)}), u.host.dots <= 1 /\ u.host.dots <= 1)
      BY ReferenceIsNamed
    <2> QED BY <2>1, <2>2 DEF IsOneName
  <1>3. CASE u.kind # "absolute" /\ ~(u.kind = "relative" /\ u.path = <<>> /\ u.query = <<>>)
    <2>1. Canonical(u, from) = Named({ResolveReference(u, b) : b \in from})
      BY <1>3, CanonicalOf
    <2>2. CASE from = {}
      <3>1. Canonical(u, from) = {}
        BY <2>1, <2>2 DEF Named, Fetchable
      <3> QED BY <3>1 DEF IsOneName
    <2>3. ASSUME NEW b, IsParsed(b), from = {b}
          PROVE  IsOneName(Canonical(u, from), \A v \in {u} \cup from : v.host.dots <= 1)
      <3>1. {ResolveReference(u, v) : v \in from} = {ResolveReference(u, b)}
        BY <2>3
      <3>2. IsOneName(Named({ResolveReference(u, b)}), u.host.dots <= 1 /\ b.host.dots <= 1)
        BY <2>3, ReferenceIsNamed
      <3>3. (\A v \in {u} \cup from : v.host.dots <= 1) => u.host.dots <= 1 /\ b.host.dots <= 1
        BY <2>3
      <3> QED BY <2>1, <3>1, <3>2, <3>3 DEF IsOneName
    <2> QED BY <2>2, <2>3
  <1> QED BY <1>1, <1>2, <1>3

\* A name is its own canonical form, whichever page it is on and however it is
\* given there.
LEMMA NameIsStable ==
    ASSUME NEW c, IsName(c)
    PROVE  /\ \A from : Canonical(c, from) = {c}
           /\ FromUserInput(c) = {c}
           /\ Canonical(Rooted(c), {c}) = {c}
           /\ c.scheme = "https" => FromUserInput(Typed(c)) = {c}
  <1>1. PICK s, n, p, path, q : Names(s, n, p, path, q) /\ c = Name(s, n, p, path, q)
    BY DEF IsName
  <1>2. c = Parsed("absolute", s, n, 0, p, path, q, {})
    BY <1>1 DEF Name
  <1>3. /\ c.kind = "absolute" /\ c.scheme = s /\ c.host = [name |-> n, dots |-> 0] /\ c.host.name = n
        /\ c.port = p /\ c.path = path /\ c.query = q /\ c.extra = {}
    BY <1>2, PartsOf
  <1> DEFINE Whole == Parsed("absolute", s, n, 0, p, WithoutDots(path), q, {})
  <1>4. Named({Whole}) = {c}
    BY <1>1, NameIsNamed
  <1>5. ResolveReference(c, c) = Whole
    BY <1>3 DEF ResolveReference, Parsed
  <1>6. \A from : Canonical(c, from) = {c}
    <2> HIDE DEF Whole
    <2> QED BY <1>3, <1>4, <1>5, CanonicalOf
  <1>7. FromUserInput(c) = {c}
    BY <1>3, <1>6 DEF FromUserInput, hasScheme
  <1>8. Canonical(Rooted(c), {c}) = {c}
    <2> DEFINE r == Rooted(c)
    <2>1. r.kind = "rooted" /\ r.path = path /\ r.query = q /\ r.extra = {}
      BY <1>3 DEF Rooted
    <2> HIDE DEF r
    <2>2. ResolveReference(r, c) = Whole
      BY <1>3, <2>1 DEF ResolveReference, Parsed
    <2>3. {ResolveReference(r, b) : b \in {c}} = {Whole}
      BY <2>2
    <2>4. Canonical(r, {c}) = Named({ResolveReference(r, b) : b \in {c}})
      BY <2>1, CanonicalOf
    <2>5. Canonical(r, {c}) = {c}
      BY <1>4, <2>3, <2>4
    <2> QED BY <2>5 DEF r
  <1>9. ASSUME s = "https" PROVE FromUserInput(Typed(c)) = {c}
    <2> DEFINE t == Typed(c)
               way == <<n>> \o path
    <2>1. t.kind = "relative" /\ t.port = p /\ t.path = way /\ t.query = q /\ t.extra = {}
      BY <1>3 DEF Typed
    <2>2. way # <<>> /\ way[1] = n /\ Tail(way) = path
      <3>1. PICK T : path \in Seq(T)
        BY <1>1 DEF Names
      <3>2. <<n>> \in Seq({n}) /\ Len(<<n>>) = 1 /\ <<n>>[1] = n
        OBVIOUS
      <3>3. Len(way) = Len(path) + 1 /\ \A i \in 1..Len(way) : way[i] = IF i <= 1 THEN <<n>>[i] ELSE path[i - 1]
        BY <3>1, <3>2
      <3>4. way \in Seq(T \cup {n})
        BY <3>1
      <3>5. way # <<>> /\ way[1] = n
        BY <3>1, <3>2, <3>3
      <3>6. Tail(way) = path
        <4>1. Tail(way) \in Seq(T \cup {n}) /\ Len(Tail(way)) = Len(path)
          BY <3>1, <3>3, <3>4, <3>5
        <4>2. \A i \in 1..Len(path) : Tail(way)[i] = path[i]
          BY <3>1, <3>3, <3>4, <3>5
        <4>3. path \in Seq(T \cup {n})
          BY <3>1
        <4> HIDE DEF way
        <4> QED BY <4>1, <4>2, <4>3, SeqEqual
      <3> QED BY <3>5, <3>6
    <2> HIDE DEF t, way
    <2>3. FromUserInput(t) = Canonical(c, {})
      <3>1. [kind |-> "absolute", scheme |-> "https", host |-> [name |-> t.path[1], dots |-> 0],
             port |-> t.port, path |-> Tail(t.path), query |-> t.query, extra |-> t.extra] = c
        BY <1>2, <1>9, <2>1, <2>2 DEF Parsed
      <3> QED BY <2>1, <2>2, <3>1 DEF FromUserInput, hasScheme
    <2>4. FromUserInput(t) = {c}
      BY <1>6, <2>3
    <2> QED BY <2>4 DEF t
  <1> QED BY <1>3, <1>6, <1>7, <1>8, <1>9

\* What a person types has one name or none.
LEMMA TypedIsNamed ==
    ASSUME NEW u, IsParsed(u)
    PROVE  IsOneName(FromUserInput(u), u.host.dots <= 1)
  <1>1. CASE hasScheme(u) \/ u.kind = "network"
    <2>1. FromUserInput(u) = Canonical(u, {})
      BY <1>1 DEF FromUserInput
    <2>2. IsOneName(Canonical(u, {}), \A v \in {u} \cup {} : v.host.dots <= 1)
      BY CanonicalIsNamed
    <2> QED BY <2>1, <2>2 DEF IsOneName
  <1>2. CASE ~(hasScheme(u) \/ u.kind = "network") /\ (u.kind = "rooted" \/ u.path = <<>>)
    <2>1. FromUserInput(u) = {}
      BY <1>2 DEF FromUserInput
    <2> QED BY <2>1 DEF IsOneName
  <1>3. CASE ~(hasScheme(u) \/ u.kind = "network") /\ ~(u.kind = "rooted" \/ u.path = <<>>)
    <2> DEFINE w == Parsed("absolute", "https", u.path[1], 0, u.port, Tail(u.path), u.query, u.extra)
    <2>1. FromUserInput(u) = Canonical(w, {})
      BY <1>3 DEF FromUserInput, Parsed
    <2>2. PICK k, s, n, d, p, path, q, x :
                 /\ u = Parsed(k, s, n, d, p, path, q, x)
                 /\ \E T : path \in Seq(T)
                 /\ \E T : q \in Seq(T)
      BY DEF IsParsed
    <2>3. u.path = path /\ u.query = q
      <3>1. u = Parsed(k, s, n, d, p, path, q, x)
        BY <2>2
      <3> QED BY <3>1 DEF Parsed
    <2>4. \E T : Tail(u.path) \in Seq(T)
      <3>1. PICK T : path \in Seq(T)
        BY <2>2
      <3>2. Tail(path) \in Seq(T)
        BY <1>3, <2>3, <3>1
      <3> QED BY <2>3, <3>2
    <2>5. IsParsed(w)
      <3>1. "absolute" \in Kinds /\ 0 \in Nat /\ \E T : u.query \in Seq(T)
        BY <2>2, <2>3 DEF Kinds
      <3> QED BY <2>4, <3>1, Zenon DEF IsParsed
    <2>6. w.host.dots = 0
      BY DEF Parsed
    <2> HIDE DEF w
    <2>7. IsOneName(Canonical(w, {}), \A v \in {w} \cup {} : v.host.dots <= 1)
      BY <2>5, CanonicalIsNamed
    <2> QED BY <2>1, <2>6, <2>7 DEF IsOneName
  <1> QED BY <1>1, <1>2, <1>3

\* A set of one in order.
LEMMA SeqOfOne ==
    /\ SetToSeq({}) = <<>>
    /\ \A c : Len(SetToSeq({c})) = 1 /\ SetToSeq({c})[1] = c
  <1>1. SetToSeq({}) = <<>>
    <2>1. Cardinality({}) = 0
      BY FS_EmptySet
    <2>2. \A f \in [1..0 -> {}] : f = <<>>
      OBVIOUS
    <2>3. <<>> \in [1..0 -> {}] /\ IsInjective(<<>>)
      BY DEF IsInjective
    <2> QED BY <2>1, <2>2, <2>3 DEF SetToSeq
  <1>2. ASSUME NEW c PROVE Len(SetToSeq({c})) = 1 /\ SetToSeq({c})[1] = c
    <2> DEFINE F == [1..1 -> {c}]
               s == SetToSeq({c})
    <2>1. Cardinality({c}) = 1
      BY FS_Singleton
    <2>2. [i \in 1..1 |-> c] \in F /\ IsInjective([i \in 1..1 |-> c])
      BY DEF IsInjective
    <2>3. s = CHOOSE f \in F : IsInjective(f)
      BY <2>1 DEF SetToSeq
    <2> HIDE DEF F, s
    <2>4. s \in F
      BY <2>2, <2>3
    <2>5. Len(s) = 1 /\ s[1] = c
      <3>1. s \in Seq({c}) /\ DOMAIN s = 1..1 /\ s[1] = c
        <4>1. s \in [1..1 -> {c}] /\ 1 \in 1..1
          BY <2>4 DEF F
        <4>2. DOMAIN s = 1..1 /\ s[1] = c
          BY <4>1
        <4>3. s \in Seq({c})
          BY <4>1, SeqDef
        <4> QED BY <4>2, <4>3
      <3> QED BY <3>1
    <2> QED BY <2>5 DEF s
  <1> QED BY <1>1, <1>2

Returned(u, b, t) == IF t THEN FromUserInput(u) ELSE Canonical(u, b)
UrlInv(u, b, t) ==
    /\ spelling = u /\ base = b /\ typed = t
    /\ canonical = <<>> \/ canonical = SetToSeq(Returned(u, b, t))

\* What has been returned is one name or none.
LEMMA NameIsReturned ==
    ASSUME NEW u \in Spellings, NEW b \in {{}} \cup {{x} : x \in Bases}, NEW t \in BOOLEAN
    PROVE  IsOneName(Returned(u, b, t), \A v \in {u} \cup b : v.host.dots <= 1)
  <1>1. IsUrl(u) /\ \A x \in Bases : IsUrl(x)
    BY UrlsAreParsed
  <1>2. IsParsed(u) /\ (b = {} \/ \E x : IsParsed(x) /\ b = {x})
    BY <1>1, UrlHasParts
  <1>3. CASE t
    <2>1. IsOneName(FromUserInput(u), u.host.dots <= 1)
      BY <1>2, TypedIsNamed
    <2> QED BY <1>3, <2>1 DEF Returned, IsOneName
  <1>4. CASE ~t
    <2>1. IsOneName(Canonical(u, b), \A v \in {u} \cup b : v.host.dots <= 1)
      BY <1>2, CanonicalIsNamed
    <2> QED BY <1>4, <2>1 DEF Returned
  <1> QED BY <1>3, <1>4

\* What the invariant says of the name that has been returned.
LEMMA InvIsStable ==
    ASSUME NEW u \in Spellings, NEW b \in {{}} \cup {{x} : x \in Bases}, NEW t \in BOOLEAN, UrlInv(u, b, t)
    PROVE  CanonicalIsStable
  <1>1. spelling = u /\ base = b
    BY DEF UrlInv
  <1>2. canonical = <<>> \/ \E c : Len(canonical) = 1 /\ canonical[1] = c /\ Returned(u, b, t) = {c}
    <2>1. CASE Returned(u, b, t) = {}
      BY <2>1, SeqOfOne DEF UrlInv
    <2>2. ASSUME NEW c, Returned(u, b, t) = {c}
          PROVE  canonical = <<>> \/ (Len(canonical) = 1 /\ canonical[1] = c)
      BY <2>2, SeqOfOne DEF UrlInv
    <2>3. Returned(u, b, t) = {} \/ \E c : Returned(u, b, t) = {c}
      BY NameIsReturned, Zenon DEF IsOneName
    <2> QED BY <2>1, <2>2, <2>3
  <1>3. UrlTypeOK
    BY <1>1, <1>2 DEF UrlTypeOK
  <1>4. ASSUME canonical # <<>>, \A v \in {u} \cup b : v.host.dots <= 1
        PROVE  IsName(canonical[1])
    <2>1. PICK c : canonical[1] = c /\ Returned(u, b, t) = {c}
      BY <1>2, <1>4
    <2> QED BY <1>4, <2>1, NameIsReturned DEF IsOneName
  <1>5. ASSUME NEW c, IsName(c)
        PROVE  /\ c.extra = {} /\ c.host.dots = 0 /\ ToSet(c.path) \cap {".", ".."} = {}
               /\ \A pair \in ToSet(c.query) : lower(pair.key) \notin TrackingParams
    <2>1. PICK s, n, p, path, q : Names(s, n, p, path, q) /\ c = Name(s, n, p, path, q)
      BY <1>5 DEF IsName
    <2>2. c.path = path /\ c.query = q /\ c.extra = {} /\ c.host.dots = 0
      <3>1. c = Parsed("absolute", s, n, 0, p, path, q, {})
        BY <2>1 DEF Name
      <3> QED BY <3>1 DEF Parsed
    <2>3. \A i \in DOMAIN path : path[i] \notin DotSegments
      BY <2>1 DEF Names
    <2>4. \A i \in DOMAIN q : ~Tracks(q[i])
      BY <2>1 DEF Names
    <2> QED BY <2>2, <2>3, <2>4 DEF ToSet, DotSegments, Tracks
  <1> QED BY <1>1, <1>3, <1>4, <1>5, NameIsStable DEF CanonicalIsStable

\* A name is a fixed point (CanonicalIsStable): whatever has been spelled, on
\* whatever page or by a person, what Canonical returns it returns for itself,
\* for the link to it and for what a person types of it, and it has none of what
\* a page is not named by (urlnorm.go: two spellings never become two pages).
THEOREM NamesAreStable ==
    ASSUME NEW u \in Spellings, NEW b \in {{}} \cup {{x} : x \in Bases}, NEW t \in BOOLEAN
    PROVE  UrlStarts(u, b, t) /\ [][Canonicalize]_urlVars => []CanonicalIsStable
  <1>1. UrlStarts(u, b, t) => UrlInv(u, b, t)
    BY DEF UrlStarts, UrlInv
  <1>2. UrlInv(u, b, t) /\ [Canonicalize]_urlVars => UrlInv(u, b, t)'
    BY DEF UrlInv, Canonicalize, urlVars, Returned
  <1>3. UrlInv(u, b, t) => CanonicalIsStable
    BY InvIsStable
  <1> QED BY <1>1, <1>2, <1>3, PTL
=============================================================================
