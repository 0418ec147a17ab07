----------------------------- MODULE RunnerMatch -----------------------------
(***************************************************************************)
(* The comparison of two decoded replies: Normalize and Equal of           *)
(* respwire/value.go, and Runner.match of differential/case.go, which      *)
(* applies a step's tolerance.                                             *)
(*                                                                         *)
(* Text is a sequence of byte values because sets and maps are sorted by   *)
(* the bytes of their members' String() form; the bytes considered need no *)
(* escape under %q, and integers have one digit.                           *)
(*                                                                         *)
(* String, Normalize and equalRaw call themselves for the members of a     *)
(* value.  The constants of these names are those calls: an instance gives *)
(* String the value Rendering, and so on.                                  *)
(***************************************************************************)
EXTENDS IntTolerance, RespValue, FiniteSets, SequencesExt

CONSTANTS
  String(_), Normalize(_), EqualRaw(_, _)  \* the recursive calls of value.go

AllTolerances ==
  {"exact", "intApprox", "errPrefix", "unordered", "encoding", "any", "scan"}

-----------------------------------------------------------------------------
\* Value.String: the text a reply is sorted by.

Quoted(t) == <<34>> \o t \o <<34>>

Digits(n) == IF n < 0 THEN <<45, 48 - n>> ELSE <<48 + n>>

\* strings.Join(parts, " ")
Joined(parts) ==
  FlattenSeq([i \in DOMAIN parts |->
                IF i = 1 THEN parts[i] ELSE <<32>> \o parts[i]])

Opening(k) == CASE k = "*" -> <<91>>      \* [
                [] k = "~" -> <<123>>     \* {
                [] k = ">" -> <<62, 91>>  \* >[
Closing(k) == IF k = "~" THEN <<125>> ELSE <<93>>

Rendering(v) ==
  CASE v.kind = "+" -> <<43>> \o v.str
    [] v.kind \in {"-", "!"} -> <<45>> \o v.str
    [] v.kind = ":" -> <<58>> \o Digits(v.int)
    [] v.kind = "$" -> <<36>> \o Quoted(v.str)
    [] v.kind = "_" -> <<40, 110, 117, 108, 108, 41>>
    [] v.kind = "#" -> <<35, IF v.bool THEN 116 ELSE 102>>
    [] v.kind = "," -> <<44>> \o v.str
    [] v.kind = "(" -> <<40>> \o v.str
    [] v.kind = "=" -> <<61, 116, 120, 116, 58>> \o Quoted(v.str)
    [] v.kind \in Lists ->
         Opening(v.kind)
           \o Joined([i \in DOMAIN v.elems |-> String(v.elems[i])])
           \o Closing(v.kind)
    [] v.kind = "%" ->
         <<37, 123>>
           \o Joined([i \in DOMAIN v.map |->
                        String(v.map[i][1]) \o <<61, 62>> \o String(v.map[i][2])])
           \o <<125>>

\* Go's < on strings.
Less(s, t) ==
  \E i \in DOMAIN t :
    /\ \A j \in 1..(i - 1) : j \in DOMAIN s /\ s[j] = t[j]
    /\ i \in DOMAIN s => s[i] < t[i]

\* s in the order of the texts of its members.  sort.Slice of at most twelve
\* elements is an insertion sort, which is stable.
SortedBy(s, texts) ==
  LET precedes(i, j) ==
        Less(texts[i], texts[j]) \/ (texts[i] = texts[j] /\ i < j)
      place(i) == 1 + Cardinality({j \in DOMAIN s : precedes(j, i)})
  IN  [p \in DOMAIN s |-> s[CHOOSE i \in DOMAIN s : place(i) = p]]

SortedMembers(s) == SortedBy(s, [i \in DOMAIN s |-> String(s[i])])
SortedPairs(s) == SortedBy(s, [i \in DOMAIN s |-> String(s[i][1])])

\* Mutant: a set or a map is sorted before its members are normalized.
NormalizingOutsideIn(v) ==
  LET each(s) == [i \in DOMAIN s |-> Normalize(s[i])]
  IN  CASE v.kind \in {"*", ">"} -> List(v.kind, each(v.elems))
        [] v.kind = "~" -> List("~", each(SortedMembers(v.elems)))
        [] v.kind = "%" ->
             Map([i \in DOMAIN v.map |-> each(SortedPairs(v.map)[i])])
        [] OTHER -> v

\* DefaultNormalize sorts both sets and maps.
Normalizing(v) ==
  LET each(s) == [i \in DOMAIN s |-> Normalize(s[i])]
  IN  CASE v.kind \in {"*", ">"} -> List(v.kind, each(v.elems))
        [] v.kind = "~" -> List("~", SortedMembers(each(v.elems)))
        [] v.kind = "%" ->
             Map(SortedPairs([i \in DOMAIN v.map |-> each(v.map[i])]))
        [] OTHER -> v

Comparing(a, b) ==
  LET equalSeqs(s, t) ==
        /\ Len(s) = Len(t)
        /\ \A i \in DOMAIN s : EqualRaw(s[i], t[i])
  IN  /\ a.kind = b.kind
      /\ a.kind \in Scalars => a.str = b.str
      /\ a.kind = ":" => a.int = b.int
      /\ a.kind = "#" => a.bool = b.bool
      /\ a.kind \in Lists => equalSeqs(a.elems, b.elems)
      /\ a.kind = "%" =>
           /\ Len(a.map) = Len(b.map)
           /\ \A i \in DOMAIN a.map : equalSeqs(a.map[i], b.map[i])

Equal(a, b) == EqualRaw(Normalize(a), Normalize(b))

-----------------------------------------------------------------------------
\* Runner.match.

\* The Str, Elems and Kind = KindSet retagging of a Value that may have none.
Str(v)   == IF v.kind \in {"+", "-", "!", "$", "="} THEN v.str ELSE <<>>
Elems(v) == IF v.kind \in Lists THEN v.elems ELSE <<>>
AsSet(v) == List("~", Elems(v))

FirstWord(t) ==
  CHOOSE w \in Prefixes(t) :
    /\ \A i \in DOMAIN w : w[i] # 32
    /\ Len(w) < Len(t) => t[Len(w) + 1] = 32

BothKind(a, b, k) == a.kind = k /\ b.kind = k

\* Mutant: the kinds are not looked at, so that a null passes for an empty array.
MatchMembers(a, b) == Equal(AsSet(a), AsSet(b))

MatchUnordered(a, b) == BothKind(a, b, "*") /\ Equal(AsSet(a), AsSet(b))

\* Mutant: the cursors of two scan replies are not compared.
MatchAnyCursor(a, b) ==
  /\ BothKind(a, b, "*")
  /\ Len(a.elems) = 2 /\ Len(b.elems) = 2
  /\ Equal(AsSet(a.elems[2]), AsSet(b.elems[2]))

MatchScan(a, b) ==
  /\ BothKind(a, b, "*")
  /\ Len(a.elems) = 2 /\ Len(b.elems) = 2
  /\ Str(a.elems[1]) = Str(b.elems[1])
  /\ Equal(AsSet(a.elems[2]), AsSet(b.elems[2]))

Match(a, b, t) ==
  CASE t = "intApprox" -> BothKind(a, b, ":") /\ IntApprox(a.int, b.int)
    [] t = "errPrefix" ->
         IsError(a) /\ IsError(b) /\ FirstWord(a.str) = FirstWord(b.str)
    [] t = "unordered" -> MatchUnordered(a, b)
    [] t = "encoding"  -> BothKind(a, b, "$")
    [] t = "any"       -> TRUE
    [] t = "scan"      -> MatchScan(a, b)
    [] t = "exact"     -> Equal(a, b)
=============================================================================
