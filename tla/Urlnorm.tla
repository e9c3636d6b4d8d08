------------------------------- MODULE Urlnorm -------------------------------
(***************************************************************************)
(* The one identity of URLs: what Canonical makes of a spelling.  A        *)
(* spelling is a parsed URL [kind, scheme, host, port, path, query, extra]:*)
(* kind says how much of an address it gives; host is [name, dots], dots   *)
(* at its end; path is the segments after its slashes; query its pairs     *)
(* [key, value]; extra is what never is part of an identity: a user, a     *)
(* fragment, a quote.  net/url and idna are external.                      *)
(***************************************************************************)
EXTENDS Integers, SequencesExt

CONSTANTS
    Spellings,          \* what is canonicalized
    Bases,              \* the pages links are found on, as servers spell them
    Lower,              \* name -> its lower case; names with capitals only
    TrackingParams      \* keys of parameters that track a click, in lower case

VARIABLES
    spelling, base,     \* the spelling and the page it is on: {} or {base}
    typed,              \* a person has typed it: there is no page
    normalized,         \* Canonical has returned
    canonical           \* what it returned: <<>> or <<the URL>>

urlVars == <<spelling, base, typed, normalized, canonical>>

lower(name) == IF name \in DOMAIN Lower THEN Lower[name] ELSE name

(* What a parsed URL is made of. *)
IsUrl(u) ==
    u \in [kind : {"absolute", "network", "rooted", "relative"}, scheme : {u.scheme},
           host : [name : {u.host.name}, dots : Nat], port : {u.port}, path : Seq(ToSet(u.path)),
           query : Seq(ToSet(u.query)), extra : {u.extra}]

(* net/url parses every URL; a lower case has no capitals and is not empty. *)
ASSUME UrlsAreParsed ==
    /\ \A u \in Spellings \cup Bases : IsUrl(u)
    /\ \A name \in DOMAIN Lower : Lower[name] \notin DOMAIN Lower \cup {""}

-----------------------------------------------------------------------------
(* url.ResolveReference: dot segments name no segment of their own, and    *)
(* what is left out is the base's.                                         *)
WithoutDots(path) ==
    LET kept[n \in 0..Len(path)] ==
            CASE n = 0 -> <<>>
              [] n > 0 /\ path[n] = "." -> kept[n - 1]
              [] n > 0 /\ path[n] = ".." -> IF kept[n - 1] = <<>> THEN <<>> ELSE Front(kept[n - 1])
              [] OTHER -> Append(kept[n - 1], path[n])
        resolved == kept[Len(path)]
    IN IF path # <<>> /\ Last(path) \in {".", ".."} THEN Append(resolved, "") ELSE resolved

ResolveReference(u, b) ==
    LET hasHost == u.kind \in {"absolute", "network"}
        isSamePage == u.kind = "relative" /\ u.path = <<>>
    IN [kind   |-> "absolute",
        scheme |-> IF u.kind = "absolute" THEN u.scheme ELSE b.scheme,
        host   |-> IF hasHost THEN u.host ELSE b.host,
        port   |-> IF hasHost THEN u.port ELSE b.port,
        path   |-> WithoutDots(CASE u.kind # "relative" -> u.path
                                 [] isSamePage -> b.path
                                 [] OTHER -> Front(b.path) \o u.path),
        query  |-> IF isSamePage /\ u.query = <<>> THEN b.query ELSE u.query,
        extra  |-> u.extra]

stripTracking(query) ==
    LET kept[n \in 0..Len(query)] ==
            CASE n = 0 -> <<>>
              [] n > 0 /\ lower(query[n].key) \in TrackingParams -> kept[n - 1]
              [] OTHER -> Append(kept[n - 1], query[n])
    IN kept[Len(query)]

(* One dot at the end of a host says it is complete, and no more. *)
canonicalHost(u) ==
    [name |-> lower(u.host.name), dots |-> IF u.host.dots > 0 THEN u.host.dots - 1 ELSE 0]
canonicalPort(u) ==
    IF <<u.scheme, u.port>> \in {<<"http", "80">>, <<"https", "443">>} THEN "" ELSE u.port

\* Mutant: only a reference is resolved, and dot segments of a whole URL stay.
CanonicalWithDots(u, from) ==
    LET resolved == IF u.kind = "absolute" THEN {u} ELSE {ResolveReference(u, b) : b \in from}
    IN IF u.kind = "relative" /\ u.path = <<>> /\ u.query = <<>> THEN {}
       ELSE {[kind |-> "absolute", scheme |-> r.scheme, host |-> canonicalHost(r), port |-> canonicalPort(r),
              path |-> IF r.path = <<>> THEN <<"">> ELSE r.path, query |-> stripTracking(r.query), extra |-> {}] :
             r \in {s \in resolved : s.scheme \in {"http", "https"} /\ s.host.name # ""}}

(* {} for what no page is fetched by. *)
Canonical(u, from) ==
    LET resolved == IF u.kind = "absolute" THEN {ResolveReference(u, u)} ELSE {ResolveReference(u, b) : b \in from}
    IN IF u.kind = "relative" /\ u.path = <<>> /\ u.query = <<>> THEN {}
       ELSE {[kind |-> "absolute", scheme |-> r.scheme, host |-> canonicalHost(r), port |-> canonicalPort(r),
              path |-> IF r.path = <<>> THEN <<"">> ELSE r.path, query |-> stripTracking(r.query), extra |-> {}] :
             r \in {s \in resolved : s.scheme \in {"http", "https"} /\ s.host.name # ""}}

(* What a person types without a scheme is a host, its port and its path:  *)
(* read as a reference it is relative, and the host its first segment.  A  *)
(* colon before digits is a port's; before anything else it ends a scheme. *)
hasScheme(u) == u.kind = "absolute"
FromUserInput(u) ==
    IF hasScheme(u) \/ u.kind = "network" THEN Canonical(u, {})
    ELSE IF u.kind = "rooted" \/ u.path = <<>> THEN {}
    ELSE Canonical([kind |-> "absolute", scheme |-> "https", host |-> [name |-> u.path[1], dots |-> 0],
                    port |-> u.port, path |-> Tail(u.path), query |-> u.query, extra |-> u.extra], {})

-----------------------------------------------------------------------------
UrlStarts(u, b, t) ==
    /\ spelling = u /\ base = b /\ typed = t
    /\ normalized = FALSE /\ canonical = <<>>

Canonicalize ==
    /\ ~normalized /\ normalized' = TRUE
    /\ canonical' = SetToSeq(IF typed THEN FromUserInput(spelling) ELSE Canonical(spelling, base))
    /\ UNCHANGED <<spelling, base, typed>>

-----------------------------------------------------------------------------
UrlTypeOK == spelling \in Spellings /\ base \subseteq Bases /\ Len(canonical) <= 1

(* The same page, as a link on that page would give it without its host. *)
Rooted(c) ==
    [kind |-> "rooted", scheme |-> "", host |-> [name |-> "", dots |-> 0], port |-> "",
     path |-> c.path, query |-> c.query, extra |-> c.extra]
Typed(c) ==
    [kind |-> "relative", scheme |-> "", host |-> [name |-> "", dots |-> 0], port |-> c.port,
     path |-> <<c.host.name>> \o c.path, query |-> c.query, extra |-> c.extra]

(* What Canonical returns it returns for itself: canonicalized again, on   *)
(* any page, typed in full, followed as a link from the page it names, or  *)
(* - over https - typed without its scheme, it is the same URL; and it     *)
(* names no default port, no tracking parameter, no dot segment and no     *)
(* capital (urlnorm.go:1-3: two spellings never become two pages).  A host *)
(* spelled with one dot too many keeps a dot: see the README.              *)
CanonicalIsStable ==
    /\ UrlTypeOK
    /\ (canonical # <<>> /\ \A u \in {spelling} \cup base : u.host.dots <= 1) =>
        LET c == canonical[1]
        IN /\ \A from \in {{}} \cup {{b} : b \in Bases} : Canonical(c, from) = {c}
           /\ FromUserInput(c) = {c}
           /\ Canonical(Rooted(c), {c}) = {c}
           /\ c.scheme = "https" /\ c.path # <<>> => FromUserInput(Typed(c)) = {c}
           /\ c.extra = {} /\ c.host.dots = 0 /\ ToSet(c.path) \cap {".", ".."} = {}
           /\ \A pair \in ToSet(c.query) : lower(pair.key) \notin TrackingParams
=============================================================================
