------------------------------ MODULE Fetching ------------------------------
(***************************************************************************)
(* What one GET of the crawler makes of a site: the redirects it follows,  *)
(* the name it stores the page under and the text it hands to the index    *)
(* (internal/networker, and the crawler's pageIdentity and submitDocument).*)
(***************************************************************************)
EXTENDS Naturals

CONSTANTS
    URLs,          \* canonical addresses of the site
    Site,          \* URLs -> what is served: [hop, to, status, text]
    SamePath,      \* pairs that differ by scheme or a trailing slash
    maxRedirects,  \* the client refuses the redirect with this number
    None

ASSUME FetchingAssumption ==
    /\ \A u \in URLs : /\ Site[u].hop \in {"none", "permanent", "temporary"}
                       /\ Site[u].to \in URLs /\ Site[u].text \in BOOLEAN
                       /\ Site[u].status \in {"ok", "gone", "error"}
    /\ maxRedirects \in Nat \ {0} /\ None \notin URLs

\* Redirects the client follows: those before the one it refuses.
Followable == maxRedirects - 1

\* The redirect says that its target is the same page.
isIdentityRedirect(u) == Site[u].hop = "permanent" \/ <<u, Site[u].to>> \in SamePath

\* Mutant: a permanent redirect behind a temporary one renames the page.
RenamedLater(before, u) == isIdentityRedirect(u)

\* CheckRedirect: the name moves along until the first redirect that is not one.
StillRenamed(before, u) == before /\ isIdentityRedirect(u)

\* client.Do from u: where n redirects lead, and the name they give.
Followed(u) ==
    LET step[n \in 0 .. Followable] ==
            IF n = 0 THEN [final |-> u, identity |-> u, renamed |-> TRUE]
            ELSE LET p == step[n - 1]
                     r == StillRenamed(p.renamed, p.final)
                 IN  IF Site[p.final].hop = "none" THEN p
                     ELSE [final    |-> Site[p.final].to,
                           identity |-> IF r THEN Site[p.final].to ELSE p.identity,
                           renamed  |-> r]
    IN  step[Followable]

\* errTooManyRedirects otherwise
Fetched(u) == Site[Followed(u).final].hop = "none"

\* The page a fetch of u is stored under, and the alias that u is, if any.
pageIdentity(u) ==
    LET p == Followed(u).identity
    IN  [page |-> p, alias |-> IF p = u THEN None ELSE u]

\* Mutant: a live page without text is a removal as well.
WipedWhenEmpty(final, text) ==
    IF Site[final].status = "gone" \/ ~text THEN "remove"
    ELSE IF Site[final].status = "error" THEN "keep" ELSE "index"

\* submitDocument: 404 and 410 remove what was indexed, other errors and pages
\* without text leave it alone.
Submission(final, text) ==
    CASE Site[final].status = "gone" -> "remove"
      [] Site[final].status = "error" -> "keep"
      [] Site[final].status = "ok" -> IF text THEN "index" ELSE "keep"
=============================================================================
