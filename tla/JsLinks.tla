------------------------------- MODULE JsLinks -------------------------------
(***************************************************************************)
(* The legacy page parser: the links of a script, or of a page and its     *)
(* inline scripts.  A script is evaluated as far as strings go: passes     *)
(* over its declarations and assignments, repeated until one of them       *)
(* changes nothing, give names and properties their values, and calls and  *)
(* expressions then give links.                                            *)
(*                                                                         *)
(* A node of a script's tree is [kind, text, kids]: text holds a name, the *)
(* keys of an object or the parts of a string, a string being a sequence   *)
(* of tokens; kids are the nodes below it.  goja's trees are external.     *)
(***************************************************************************)
EXTENDS Integers, SequencesExt

CONSTANTS
    Documents,      \* what is parsed: see DocumentOf
    PathTokens,     \* tokens that make a string look like a path
    OddTokens,      \* tokens no path has: blanks, quotes, data:
    OtherSchemes,   \* tokens that start a string with another scheme: mailto:
    Punctuation,    \* tokens that are no part of a link they end
    FetchNames,     \* callees whose first argument is an address
    AjaxNames,      \* callees whose argument is an object with an address in url
    resolveAndAdd(_)    \* urlnorm.Canonical on tokens, with the base: {} or {link}

VARIABLES
    doc,        \* the document being parsed
    at,         \* the element the parser has come to
    stage,      \* "element", "objects", "inits", "assigns", "ended" or "failed"
    vars,       \* name -> its string
    objects,    \* object -> key -> its string
    todo,       \* declared names the range over a map has not come to yet
    next,       \* the assignment to come
    changed,    \* whether this pass has changed anything
    seen        \* the links found so far

jsVars == <<doc, at, stage, vars, objects, todo, next, changed, seen>>

IsScript(d) == d.kind = "script"

-----------------------------------------------------------------------------
(* Every node of a tree, in the order walk comes to it. *)
RECURSIVE walk(_)
walk(n) == <<n>> \o FlattenSeq([i \in 1..Len(n.kids) |-> walk(n.kids[i])])

Nodes(p) == FlattenSeq([i \in 1..Len(p.body) |-> walk(p.body[i])])
Of(p, kind) == SelectSeq(Nodes(p), LAMBDA n : n.kind = kind)

(* Reflection finds a declarator's name only where the tree keeps it under *)
(* one of three field names: p.named says whether this build's trees do.   *)
Declarators(p) ==
    IF p.named THEN SelectSeq(Of(p, "declare"), LAMBDA n : n.kids # <<>>) ELSE <<>>

Latest(decls) ==
    [x \in {decls[i].text : i \in DOMAIN decls} |->
        decls[CHOOSE i \in DOMAIN decls :
                /\ decls[i].text = x
                /\ \A j \in DOMAIN decls : decls[j].text = x => j <= i].kids[1]]

(* What the collector keeps of a tree, and the nodes it has come to. *)
IsNewXHR(n) == n.kind = "new" /\ n.kids[1].text = <<"XMLHttpRequest">>
newJSCollector(p) ==
    LET decls == Declarators(p)
        assigned == Of(p, "assign")
    IN [declared |-> decls,
        varInits |-> Latest(decls),
        objLiterals |-> Latest(SelectSeq(decls, LAMBDA n : n.kids[1].kind = "object")),
        assigns |-> assigned,
        calls |-> ToSet(Of(p, "call")),
        nodes |-> ToSet(Nodes(p)),
        xhrVars |-> {d.text : d \in {e \in ToSet(decls) : IsNewXHR(e.kids[1])}}
                      \cup {d.kids[1].text : d \in {e \in ToSet(assigned) : e.kids[1].kind = "id" /\ IsNewXHR(e.kids[2])}}]

Scripts(d) == {d.elements[i].script : i \in {j \in DOMAIN d.elements : d.elements[j].inline /\ d.elements[j].script.parses}}
collector == [p \in UNION {Scripts(d) : d \in Documents} |-> newJSCollector(p)]
Collected == collector[doc.elements[at].script]

-----------------------------------------------------------------------------
(* What a node is as a string: one value, or none. *)
Held(f, x) == IF x \in DOMAIN f THEN {f[x]} ELSE {}
PropsOf(o, x) == IF x \in DOMAIN o THEN o[x] ELSE <<>>

(* The parts of a template with the values of its expressions between them. *)
Concatenations(parts, values) ==
    FoldLeft(LAMBDA s, i : {a \o b \o <<parts[i + 1]>> : a \in s, b \in values[i]},
             {<<parts[1]>>}, [i \in 1..Len(values) |-> i])

RECURSIVE evalStringExpr(_, _, _)
evalStringExpr(n, v, o) ==
    CASE n.kind \in {"string", "number"} -> {n.text}
      [] n.kind = "id" -> Held(v, n.text)
      [] n.kind = "template" -> Concatenations(n.text, [i \in 1..Len(n.kids) |-> evalStringExpr(n.kids[i], v, o)])
      [] n.kind = "plus" ->
           {a \o b : a \in evalStringExpr(n.kids[1], v, o), b \in evalStringExpr(n.kids[2], v, o)}
      [] n.kind = "dot" /\ n.kids[1].kind = "id" -> Held(PropsOf(o, n.kids[1].text), n.text)
      [] n.kind = "index" /\ n.kids[1].kind = "id" ->
           UNION {Held(PropsOf(o, n.kids[1].text), key) : key \in evalStringExpr(n.kids[2], v, o)}
      [] OTHER -> {}

(* The properties of an object literal that have a string; the last of a key wins. *)
collectObjectLiteralStrings(n, v, o) ==
    FoldLeft(LAMBDA f, i : IF evalStringExpr(n.kids[i], v, o) = {} THEN f
                           ELSE (<<n.text[i]>> :> CHOOSE s \in evalStringExpr(n.kids[i], v, o) : TRUE) @@ f,
             <<>>, [i \in 1..Len(n.kids) |-> i])

(* One declaration of a pass: a name that has a string keeps it, whatever  *)
(* its initializer has come to mean since; an object is filled again.      *)
AfterInit(x, n, v, o) ==
    IF x \notin DOMAIN v /\ evalStringExpr(n, v, o) # {}
    THEN <<(x :> CHOOSE s \in evalStringExpr(n, v, o) : TRUE) @@ v, o>>
    ELSE IF n.kind = "object"
         THEN <<v, (x :> (collectObjectLiteralStrings(n, v, o) @@ PropsOf(o, x))) @@ o>>
         ELSE <<v, o>>

(* One assignment of a pass: to a name, to a property, or by an index. *)
AfterAssign(n, v, o) ==
    LET left == n.kids[1]
        ofName == left.kind \in {"dot", "index"} /\ left.kids[1].kind = "id"
        Put(key, s) == <<v, (left.kids[1].text :> ((key :> s) @@ PropsOf(o, left.kids[1].text))) @@ o>>
        Outcomes ==
            UNION {CASE left.kind = "id" -> {<<(left.text :> s) @@ v, o>>}
                     [] left.kind = "dot" /\ ofName -> {Put(left.text, s)}
                     [] left.kind = "index" /\ ofName ->
                          {Put(key, s) : key \in evalStringExpr(left.kids[2], v, o)}
                     [] OTHER -> {} : s \in evalStringExpr(n.kids[2], v, o)}
    IN IF Outcomes = {} THEN <<v, o>> ELSE CHOOSE e \in Outcomes : TRUE

-----------------------------------------------------------------------------
(* What calls and expressions give, once names and properties are settled. *)
RECURSIVE calleeName(_)
calleeName(n) ==
    CASE n.kind = "id" -> n.text
      [] n.kind = "dot" -> calleeName(n.kids[1]) \o <<".">> \o n.text
      [] n.kind = "new" -> calleeName(n.kids[1])
      [] OTHER -> <<>>

Argument(call, i) == IF Len(call.kids) > i THEN {call.kids[i + 1]} ELSE {}

(* The first value of a key in the object literal that is the first argument. *)
findObjectProp(call, key) ==
    UNION {IF n.kind = "object" /\ \E i \in DOMAIN n.text : n.text[i] = key
           THEN {n.kids[CHOOSE i \in DOMAIN n.text :
                          n.text[i] = key /\ \A j \in 1..(i - 1) : n.text[j] # key]}
           ELSE {} : n \in Argument(call, 1)}

IsOpen(c, callee) ==
    /\ callee.kind = "dot" /\ callee.text = <<"open">>
    /\ \/ callee.kids[1].kind \in {"new", "call"} /\ callee.kids[1].kids[1].text = <<"XMLHttpRequest">>
       \/ callee.kids[1].kind = "id" /\ callee.kids[1].text \in c.xhrVars

CalledWith(c, call) ==
    LET name == calleeName(call.kids[1])
    IN CASE name \in FetchNames -> Argument(call, 1)
         [] name \in AjaxNames -> findObjectProp(call, "url")
         [] IsOpen(c, call.kids[1]) -> Argument(call, 2)
         [] OTHER -> {}

looksLikeRelativePath(s) ==
    /\ s # <<>> /\ ToSet(s) \cap OddTokens = {}
    /\ ToSet(s) \cap PathTokens # {}

(* linkAdder: what precedes a fragment, without the punctuation at its end *)
(* and unless it has a scheme no page is fetched by, resolved.             *)
normalizeURL(s) ==
    LET cut == SubSeq(s, 1, SelectInSeq(s \o <<"#">>, LAMBDA t : t = "#") - 1)
    IN IF cut = <<>> \/ cut[1] \in OtherSchemes THEN <<>>
       ELSE SubSeq(cut, 1, SelectLastInSeq(cut, LAMBDA t : t \notin Punctuation))
Added(s) == IF normalizeURL(s) = <<>> THEN {} ELSE resolveAndAdd(normalizeURL(s))

(* The links of a script whose nodes have these strings. *)
LinksOf(p, strings) ==
    LET called == UNION {CalledWith(collector[p], call) : call \in collector[p].calls}
        paths == {s \in UNION {strings[n] : n \in collector[p].nodes} : looksLikeRelativePath(s)}
    IN UNION {Added(s) : s \in UNION {strings[n] : n \in called} \cup paths \cup p.addresses}

-----------------------------------------------------------------------------
(* A document: [kind, elements, addresses, strings].  An element has the   *)
(* addresses of its URL attributes and, as a script without a source of    *)
(* its own, a tree; addresses are those a pattern finds in the text;       *)
(* strings are those of the document as JSON, none if it is not: [text,    *)
(* urls] with what the pattern finds in one, the string itself being a     *)
(* link only if that is nothing.                                           *)
InString(t) == IF t.urls = {} /\ looksLikeRelativePath(t.text) THEN {t.text} ELSE t.urls
JSONLinks(d) == UNION {resolveAndAdd(s) : s \in UNION {InString(t) : t \in d.strings}}

EnterElement ==
    /\ stage = "element" /\ at <= Len(doc.elements)
    /\ LET e == doc.elements[at]
       IN /\ seen' = seen \cup UNION {Added(s) : s \in e.attributes}
          /\ IF e.inline /\ e.script.parses
             THEN /\ stage' = "objects" /\ todo' = DOMAIN collector[e.script].objLiterals
                  /\ vars' = <<>> /\ objects' = <<>>
                  /\ UNCHANGED at
             ELSE /\ stage' = IF e.inline /\ IsScript(doc) THEN "failed" ELSE stage
                  /\ at' = at + 1
                  /\ UNCHANGED <<vars, objects, todo>>
    /\ UNCHANGED <<doc, next, changed>>

FillObject(x) ==
    /\ stage = "objects" /\ x \in todo
    /\ objects' = (x :> collectObjectLiteralStrings(Collected.objLiterals[x], vars, objects)) @@ objects
    /\ todo' = todo \ {x}
    /\ UNCHANGED <<doc, at, stage, vars, next, changed, seen>>

\* Mutant: what the pass before has changed counts for this one.
StartPassKeepsChanged ==
    /\ todo = {}
    /\ \/ stage = "objects"
       \/ stage = "assigns" /\ next > Len(Collected.assigns) /\ changed
    /\ stage' = "inits" /\ todo' = DOMAIN Collected.varInits
    /\ next' = 1
    /\ UNCHANGED <<doc, at, vars, objects, changed, seen>>

StartPass ==
    /\ todo = {}
    /\ \/ stage = "objects"
       \/ stage = "assigns" /\ next > Len(Collected.assigns) /\ changed
    /\ stage' = "inits" /\ todo' = DOMAIN Collected.varInits
    /\ next' = 1 /\ changed' = FALSE
    /\ UNCHANGED <<doc, at, vars, objects, seen>>

(* The values of vars and objects after a step of the pass; an object that *)
(* only comes to exist, empty, is no change.                               *)
\* Mutant: only the last step of a pass counts, and only for names.
TakeLast(after) ==
    /\ vars' = after[1] /\ objects' = after[2]
    /\ changed' = (after[1] # vars)

Take(after) ==
    /\ vars' = after[1] /\ objects' = after[2]
    /\ changed' = (changed \/ after[1] # vars \/ \E x \in DOMAIN after[2] : after[2][x] # PropsOf(objects, x))

Declaration(x) ==
    /\ stage = "inits" /\ x \in todo
    /\ Take(AfterInit(x, Collected.varInits[x], vars, objects))
    /\ todo' = todo \ {x}
    /\ UNCHANGED <<doc, at, stage, next, seen>>

InitsDone ==
    /\ stage = "inits" /\ todo = {}
    /\ stage' = "assigns"
    /\ UNCHANGED <<doc, at, vars, objects, todo, next, changed, seen>>

Assignment ==
    /\ stage = "assigns" /\ next <= Len(Collected.assigns)
    /\ Take(AfterAssign(Collected.assigns[next], vars, objects))
    /\ next' = next + 1
    /\ UNCHANGED <<doc, at, stage, todo, seen>>

Settled ==
    /\ stage = "assigns" /\ next > Len(Collected.assigns) /\ ~changed
    /\ seen' = seen \cup LinksOf(doc.elements[at].script,
                                [n \in Collected.nodes |-> evalStringExpr(n, vars, objects)])
    /\ stage' = "element" /\ at' = at + 1
    /\ UNCHANGED <<doc, vars, objects, todo, next, changed>>

EndParse ==
    /\ stage = "element" /\ at > Len(doc.elements)
    /\ seen' = seen \cup UNION {Added(s) : s \in doc.addresses} \cup JSONLinks(doc)
    /\ stage' = "ended"
    /\ UNCHANGED <<doc, at, vars, objects, todo, next, changed>>

ParseStep ==
    \/ EnterElement \/ StartPass \/ InitsDone \/ Assignment \/ Settled \/ EndParse
    \/ \E x \in todo : FillObject(x) \/ Declaration(x)

ParseStarts(d) ==
    /\ doc = d /\ at = 1 /\ stage = "element"
    /\ vars = <<>> /\ objects = <<>> /\ todo = {}
    /\ next = 1 /\ changed = FALSE /\ seen = {}

-----------------------------------------------------------------------------
(* What an expression may mean, whatever the order: a name stands for what *)
(* is declared or assigned to it anywhere in the script, as deep as there  *)
(* are sources to stand for one another.                                   *)
NameSources(c, x) ==
    Held(c.varInits, x) \cup {a.kids[2] : a \in {b \in ToSet(c.assigns) : b.kids[1].kind = "id" /\ b.kids[1].text = x}}

Literals(c, x) == {n \in Held(c.varInits, x) \cup Held(c.objLiterals, x) : n.kind = "object"}
PropAssigns(c, x, kind) ==
    {a \in ToSet(c.assigns) : a.kids[1].kind = kind /\ a.kids[1].kids[1].kind = "id" /\ a.kids[1].kids[1].text = x}

RECURSIVE Means(_, _, _)
Means(c, n, depth) ==
    LET M(e) == Means(c, e, depth)
        Deeper(sources) == IF depth = 0 THEN {} ELSE UNION {Means(c, e, depth - 1) : e \in sources}
        Prop(x, key) ==
            Deeper(UNION {{l.kids[j] : j \in {i \in DOMAIN l.kids : <<l.text[i]>> = key}} : l \in Literals(c, x)}
                   \cup {a.kids[2] : a \in {b \in PropAssigns(c, x, "dot") : b.kids[1].text = key}}
                   \cup {a.kids[2] : a \in {b \in PropAssigns(c, x, "index") :
                                              depth > 0 /\ key \in Means(c, b.kids[1].kids[2], depth - 1)}})
    IN CASE n.kind \in {"string", "number"} -> {n.text}
         [] n.kind = "id" -> Deeper(NameSources(c, n.text))
         [] n.kind = "template" ->
              Concatenations(n.text, [i \in 1..Len(n.kids) |-> M(n.kids[i])])
         [] n.kind = "plus" -> {a \o b : a \in M(n.kids[1]), b \in M(n.kids[2])}
         [] n.kind = "dot" /\ n.kids[1].kind = "id" -> Prop(n.kids[1].text, n.text)
         [] n.kind = "index" /\ n.kids[1].kind = "id" -> UNION {Prop(n.kids[1].text, key) : key \in M(n.kids[2])}
         [] OTHER -> {}

(* What a script writes: <<space, name, key>> of each source, in any order. *)
Writes(c) ==
    FlattenSeq([i \in 1..Len(c.declared) |->
        LET d == c.declared[i]
        IN IF d.kids[1].kind = "object"
           THEN [j \in 1..Len(d.kids[1].text) |-> <<"prop", d.text, <<d.kids[1].text[j]>>>>]
           ELSE <<<<"name", d.text, <<>>>>>>])
      \o [i \in 1..Len(c.assigns) |->
            LET left == c.assigns[i].kids[1]
            IN CASE left.kind = "id" -> <<"name", left.text, <<>>>>
                 [] left.kind = "dot" -> <<"prop", left.kids[1].text, left.text>>
                 [] left.kind = "index" -> <<"prop", left.kids[1].text, <<"*">>>>]

(* No name, no property and no declaration has two sources. *)
SingleSource(p) ==
    LET c == collector[p]
        writes == Writes(c)
    IN
    /\ Cardinality(DOMAIN c.varInits) = Len(c.declared)
    /\ \A i, j \in DOMAIN writes :
          LET v == writes[i]
              w == writes[j]
          IN (i < j /\ v[1] = w[1] /\ v[2] = w[2]) => v[3] # w[3] /\ <<"*">> \notin {v[3], w[3]}

MeantLinks(d) ==
    UNION {UNION {Added(s) : s \in e.attributes} : e \in ToSet(d.elements)}
      \cup UNION {Added(s) : s \in d.addresses} \cup JSONLinks(d)
      \cup UNION {LinksOf(p, [n \in collector[p].nodes |-> Means(collector[p], n, Len(Writes(collector[p])))]) : p \in Scripts(d)}
meant == [d \in Documents |-> MeantLinks(d)]
settles == [d \in Documents |-> \A p \in Scripts(d) : SingleSource(p)]

-----------------------------------------------------------------------------
(* Each variable has its type; a document is only given up as a script     *)
(* that does not parse.                                                    *)
ParseTypeOK ==
    /\ doc \in Documents /\ at \in 1..(Len(doc.elements) + 1)
    /\ stage \in {"element", "objects", "inits", "assigns", "ended", "failed"}
    /\ changed \in BOOLEAN /\ next \in Nat
    /\ stage = "failed" => IsScript(doc) /\ Scripts(doc) = {}

(* A document whose parse has ended has no link that some reading of it    *)
(* would not give; where every name and property of its scripts has one    *)
(* source, it has all of them, in whatever order the parser came to them   *)
(* (the map of declarations is ranged over in a different order every      *)
(* time, page_parser_basic_javascript.go:138).                             *)
ScriptLinksDetermined ==
    /\ ParseTypeOK
    /\ stage = "ended" =>
        /\ seen \subseteq meant[doc]
        /\ settles[doc] => seen = meant[doc]
=============================================================================
