--------------------------- MODULE ReplyComparison ---------------------------
(***************************************************************************)
(* One call of Runner.match: two replies, a tolerance and the verdict,     *)
(* against a definition of equality that neither sorts nor renders.        *)
(***************************************************************************)
EXTENDS RunnerMatch, ReplyTree

CONSTANTS
  Values,          \* the replies considered for each tolerance
  SameReply(_, _)  \* the recursive calls of Alike

ASSUME ValuesAssumption ==
  /\ DOMAIN Values \subseteq AllTolerances
  /\ \A t \in DOMAIN Values :
       /\ Values[t] \subseteq Replies
       /\ \A v \in Values[t] : v.kind = ":" => v.int \in Ints

VARIABLES base, got, tol, verdict

vars == <<base, got, tol, verdict>>

-----------------------------------------------------------------------------
Init ==
  /\ tol \in DOMAIN Values
  /\ base \in Values[tol]
  /\ got \in Values[tol]
  /\ verdict = "none"

\* match is called once for a target's reply at a step.
Compare ==
  /\ verdict = "none"
  /\ verdict' = IF Match(base, got, tol) THEN "same" ELSE "differs"
  /\ UNCHANGED <<base, got, tol>>

Next == Compare

Spec == Init /\ [][Next]_vars

-----------------------------------------------------------------------------
Permutes(s, t, Same(_, _)) ==
  \E p \in [DOMAIN s -> DOMAIN t] :
    /\ \A i \in DOMAIN t : \E j \in DOMAIN s : p[j] = i
    /\ \A j \in DOMAIN s : Same(s[j], t[p[j]])

\* The documented equality, without sorting or rendering: sets are equal up to
\* the order of their members, maps up to the order of their pairs.
Alike(a, b) ==
  LET samePairs(p, q) == SameReply(p[1], q[1]) /\ SameReply(p[2], q[2])
  IN  /\ a.kind = b.kind
      /\ a.kind = "_" \/ a = b \/ a.kind \in Lists \cup {"%"}
      /\ a.kind \in Lists => Len(a.elems) = Len(b.elems)
      /\ a.kind \in {"*", ">"} =>
           \A i \in DOMAIN a.elems : SameReply(a.elems[i], b.elems[i])
      /\ a.kind = "~" => Permutes(a.elems, b.elems, SameReply)
      /\ a.kind = "%" =>
           Len(a.map) = Len(b.map) /\ Permutes(a.map, b.map, samePairs)

\* The rendering tells apart the members of the sets in C, and the keys of a
\* map, with whatever is in them.
RendersApart(C) ==
  \A v \in C :
    /\ v.kind \in Lists => \A i \in DOMAIN v.elems : v.elems[i] \in C
    /\ v.kind = "%" =>
         /\ \A i \in DOMAIN v.map : v.map[i][1] \in C /\ v.map[i][2] \in C
         /\ \A i, j \in DOMAIN v.map :
              String(Normalize(v.map[i][1])) = String(Normalize(v.map[j][1])) => i = j
    /\ v.kind = "~" =>
         \A w \in C : w.kind = "~" =>
           \A i \in DOMAIN v.elems, j \in DOMAIN w.elems :
             String(Normalize(v.elems[i])) = String(Normalize(w.elems[j]))
               => Equal(v.elems[i], w.elems[j])

\* Kinds of which each is rendered like no other.  Left out are errors of kind
\* "!", which are rendered like those of kind "-", nulls and big numbers, which
\* start alike, and all that has members.
PlainKinds == {"+", "-", ":", "$", "#", ",", "="}

\* What servers send: sets of texts, numbers and the like, and maps with such
\* keys and no key twice, with anything in C as a value.
PlainMembers(C) ==
  \A v \in C :
    /\ v.kind \in Lists => \A i \in DOMAIN v.elems : v.elems[i] \in C
    /\ v.kind = "~" => \A i \in DOMAIN v.elems : v.elems[i].kind \in PlainKinds
    /\ v.kind = "%" =>
         \A i \in DOMAIN v.map :
           /\ v.map[i][1] \in C /\ v.map[i][2] \in C
           /\ v.map[i][1].kind \in PlainKinds
           /\ \A j \in DOMAIN v.map : SameReply(v.map[i][1], v.map[j][1]) => i = j

\* C has what is compared of v under tolerance t: v itself, or the set of the
\* elements that it lists.
ComparedOf(v, t, C) ==
  LET setOf(s) == List("~", s)
  IN  /\ t = "exact" => v \in C
      /\ t = "unordered" /\ v.kind = "*" => setOf(v.elems) \in C
      /\ t = "scan" =>
           /\ setOf(<<>>) \in C
           /\ v.kind = "*" /\ Len(v.elems) = 2 /\ v.elems[2].kind \in Lists =>
                setOf(v.elems[2].elems) \in C

ComparedIn(C) == \A t \in DOMAIN Values : \A v \in Values[t] : ComparedOf(v, t, C)

\* Every recursive call is the call it stands for.
MatchEquations ==
  /\ \A v \in Replies : String(v) = Rendering(v) /\ Normalize(v) = Normalizing(v)
  /\ \A a, b \in Replies : /\ EqualRaw(a, b) <=> Comparing(a, b)
                           /\ SameReply(a, b) <=> Alike(a, b)

Judged(t) == verdict # "none" /\ tol = t
Same == verdict = "same"

\* Sorting members by their rendering decides the documented equality: two
\* replies match exactly when they are the same up to the order of sets and
\* maps at every depth, whatever the order they arrived in (value.go:108-160).
ExactIsSameReply == Judged("exact") => (Same <=> SameReply(base, got))

\* One list has the elements of the other, in any order.
SameElements(s, t) == Len(s) = Len(t) /\ Permutes(s, t, SameReply)

\* The two replies have the same text.  A reply of a kind without one counts as an
\* empty text.
SameText(u, w) ==
  LET textual == {"+", "-", "!", "$", "="}
      noText(v) == v.kind \in textual => v.str = <<>>
  IN  \/ u.kind \in textual /\ w.kind \in textual /\ u.str = w.str
      \/ noText(u) /\ noText(w)

\* They list the same elements.  Whatever lists none counts as an empty list, an
\* error, a null or a text as well (value.go:7 promises otherwise of a null).
SameList(u, w) ==
  LET listsNone(v) == v.kind \in Lists => v.elems = <<>>
  IN  \/ u.kind \in Lists /\ w.kind \in Lists /\ SameElements(u.elems, w.elems)
      \/ listsNone(u) /\ listsNone(w)

\* The unordered tolerance matches an array with an array of the same elements in
\* any order and with nothing else: no error, null or reply of another type
\* passes.  The scan tolerance matches two pairs of a cursor and a list exactly if
\* cursors and lists are as SameText and SameList say, so that of two replies
\* [text, array] the cursors are the same and the elements permuted, and a pair
\* without a list passes for one with an empty list (case.go:46-48, 60-65).
UnorderedIsPermutation ==
  /\ Judged("unordered") =>
       (Same <=> BothKind(base, got, "*") /\ SameElements(base.elems, got.elems))
  /\ Judged("scan") =>
       (Same <=> /\ BothKind(base, got, "*") /\ Len(base.elems) = 2 /\ Len(got.elems) = 2
                 /\ SameText(base.elems[1], got.elems[1])
                 /\ SameList(base.elems[2], got.elems[2]))

\* Which target is the baseline changes no verdict: matching is symmetric, and
\* except for approximate integers two replies that match are matched by the
\* same replies of a third target (case.go:118-120, 149-160).
BaselineDoesNotMatter ==
  verdict # "none" =>
    /\ Same <=> Match(got, base, tol)
    /\ Same /\ tol # "intApprox" =>
         \A v \in Values[tol] : Match(got, v, tol) <=> Match(base, v, tol)

-----------------------------------------------------------------------------
\* What the documentation says and the code does not do.

\* "so we can tell apart a $-1 null bulk from a _ RESP3 null" (value.go:6-9).
NullsToldApart ==
  Judged("exact") /\ Same /\ base.kind = "_" => base.nullFrom = got.nullFrom

\* "an empty array from a null array" (value.go:6-9), under a scan step.
ScanTellsEmptyFromNull ==
  Judged("scan") /\ Same => base.elems[2].kind = got.elems[2].kind

\* The RESP2 shape of a RESP3 map or set.
Flat(v) ==
  CASE v.kind = "~" -> List("*", v.elems)
    [] v.kind = "%" -> List("*", FlattenSeq(v.map))
    [] OTHER -> v

\* "The comparator folds these to a canonical form so a RESP2 target and a
\* RESP3 target agree on the same logical reply." (README.md:24)
FoldsShapes == Judged("exact") /\ got = Flat(base) => Same

\* "An approximate integer still must be an integer of the same sign and close
\* value" (case.go:30-31).
ApproxKeepsSign ==
  Judged("intApprox") /\ Same => (base.int < 0 <=> got.int < 0)

\* "ToleranceIntApprox accepts two integers that differ by at most one."
\* (case.go:39)
ApproxWithinOne ==
  Judged("intApprox") /\ Same => base.int - got.int \in {-1, 0, 1}

\* "ToleranceAny accepts any two non-error replies" (case.go:56).
AnyNeedsSuccess == Judged("any") /\ Same => ~IsError(base) /\ ~IsError(got)
=============================================================================
