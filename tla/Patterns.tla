------------------------------ MODULE Patterns ------------------------------
(***************************************************************************)
(* Patterns of kiwilib (userspace/kiwilib/src/compat.c): fnmatch, glob     *)
(* and the regular expressions.                                            *)
(*                                                                         *)
(* Characters are their codes.  A wildcard pattern is the sequence of its  *)
(* tokens, a regular expression the sequence of its atoms with their       *)
(* repetition; a bracket class is the sequence of its ranges.  The cursor  *)
(* of a matcher is a position in the text.  fnmatch and regexec put their  *)
(* result in "matching"; the glob_t of the caller lives in "globbed", with *)
(* the number of path strings that are allocated (GLOB_NOSORT, which only  *)
(* skips the sort, is left out).                                           *)
(***************************************************************************)
EXTENDS Integers, Sequences, FiniteSets

CONSTANTS
  FnPatterns,   \* sequences of tokens [kind, items, neg]
  FnTexts,      \* texts given to fnmatch
  Regexes,      \* [bol, atoms, eol, newline, icase]
  RegexTexts,   \* texts given to regexec
  GlobDirs,     \* directory (a sequence of names) -> its entries in readdir order
  GlobFiles,    \* paths of the files
  GlobPatterns, \* [abs, comps]: the components are sequences of tokens
  GlobRoom,     \* how many strings can be allocated in a call
  GlobOffsets,  \* values the caller puts into gl_offs
  GlobMax       \* bound: paths in a glob_t

VARIABLES matching, globbed

patternVars == <<matching, globbed>>

NewLine == 10
Period == 46
Slash == 47
FoldCase(c) == IF c \in 65..90 THEN c + 32 ELSE c
Largest(S) == CHOOSE n \in S : \A k \in S : k <= n

-----------------------------------------------------------------------------
(* fnmatch.                                                                *)

FnFlags == [pathname : BOOLEAN, period : BOOLEAN, casefold : BOOLEAN]

GlobClass(t, c) == (\E i \in 1..Len(t.items) : c \in t.items[i][1]..t.items[i][2]) # t.neg

\* fnmatch_ch_eq and the ?, [ and literal branches of fnmatch_impl at a character c.
TokenTakes(t, c, fl) ==
  CASE t.kind = "any" -> ~(fl.pathname /\ c = Slash)
    [] t.kind = "class" -> ~(fl.pathname /\ c = Slash) /\ GlobClass(t, c)
    [] OTHER -> IF fl.casefold THEN FoldCase(t.items[1][1]) = FoldCase(c) ELSE t.items[1][1] = c

RECURSIVE FnmatchImpl(_, _, _, _, _)
\* fnmatch_impl at token p and character s; start says that a path component begins here.
FnmatchImpl(pat, text, fl, at, start) ==
  LET p == at[1] s == at[2] IN
  IF p > Len(pat) THEN s > Len(text)
  ELSE IF pat[p].kind = "star"
  THEN IF \A j \in p..Len(pat) : pat[j].kind = "star"
       THEN ~(fl.pathname /\ \E j \in s..Len(text) : text[j] = Slash)
       ELSE LET next == CHOOSE j \in p..Len(pat) : pat[j].kind # "star" /\ \A k \in p..(j - 1) : pat[k].kind = "star"
            IN \E j \in s..Len(text) :
                 /\ ~(fl.pathname /\ \E k \in s..j : text[k] = Slash)
                 /\ FnmatchImpl(pat, text, fl, <<next, j>>,
                                (IF j = s THEN start ELSE text[j - 1] = Slash) /\ text[j] = Slash)
  ELSE /\ s <= Len(text)
       /\ ~(fl.period /\ start /\ text[s] = Period /\ pat[p].kind \in {"any", "class"})
       /\ TokenTakes(pat[p], text[s], fl)
       /\ FnmatchImpl(pat, text, fl, <<p + 1, s + 1>>, text[s] = Slash)

Fnmatch(pat, text, fl) == FnmatchImpl(pat, text, fl, <<1, 1>>, TRUE)

-----------------------------------------------------------------------------
(* Regular expressions.                                                    *)

\* regex_class_match: a range may be given in either order.
RegexClass(r, a, c) ==
  LET F(x) == IF r.icase THEN FoldCase(x) ELSE x
      In(it) == F(c) \in F(it[1])..F(it[2]) \/ F(c) \in F(it[2])..F(it[1])
  IN (\E i \in 1..Len(a.items) : In(a.items[i])) # a.neg

\* regex_atom_match at the character after position t of the text.
AtomMatch(r, a, text, t) ==
  /\ t < Len(text)
  /\ CASE a.kind = "dot" -> ~(r.newline /\ text[t + 1] = NewLine)
       [] OTHER -> RegexClass(r, a, text[t + 1])

LineStart(r, text, t, notbol) == IF t = 0 THEN ~notbol ELSE r.newline /\ text[t] = NewLine
LineEnd(r, text, t, noteol) == IF t = Len(text) THEN ~noteol ELSE r.newline /\ text[t + 1] = NewLine

MinCount(quant) == IF quant \in {"+", "1"} THEN 1 ELSE 0
MaxCount(quant, n) == IF quant \in {"?", "1"} THEN 1 ELSE n

\* The first loop of the repetition: as many characters as the atom takes.
Greedy(r, a, text, t) ==
  Largest({n \in 0..(Len(text) - t) : n <= MaxCount(a.quant, n) /\ \A k \in 0..(n - 1) : AtomMatch(r, a, text, t + k)})

RECURSIVE MatchHere(_, _, _, _, _)
\* regex_match_here from atom i on at position t: the end of the match, or -1.  The
\* second loop of the repetition gives characters back until the rest matches.
MatchHere(r, text, fl, i, t) ==
  IF i = 1 /\ r.bol /\ ~LineStart(r, text, t, fl.notbol) THEN -1
  ELSE IF i > Len(r.atoms) THEN IF r.eol /\ ~LineEnd(r, text, t, fl.noteol) THEN -1 ELSE t
  ELSE LET a == r.atoms[i]
           ends == {n \in MinCount(a.quant)..Greedy(r, a, text, t) : MatchHere(r, text, fl, i + 1, t + n) >= 0}
       IN IF ends = {} THEN -1 ELSE MatchHere(r, text, fl, i + 1, t + Largest(ends))

RECURSIVE MatchHereStubborn(_, _, _, _, _)
MatchHereStubborn(r, text, fl, i, t) ==
  IF i = 1 /\ r.bol /\ ~LineStart(r, text, t, fl.notbol) THEN -1
  ELSE IF i > Len(r.atoms) THEN IF r.eol /\ ~LineEnd(r, text, t, fl.noteol) THEN -1 ELSE t
  ELSE LET a == r.atoms[i]
           n == Greedy(r, a, text, t)
       IN IF n < MinCount(a.quant) THEN -1 ELSE MatchHereStubborn(r, text, fl, i + 1, t + n)

RegexecStubborn(r, text, fl) ==
  LET starts == {t \in 0..Len(text) : MatchHereStubborn(r, text, fl, 1, t) >= 0}
      so == CHOOSE t \in starts : \A u \in starts : t <= u
  IN IF starts = {} THEN <<>> ELSE <<so, MatchHereStubborn(r, text, fl, 1, so)>>

\* regexec: the first start that matches, with its end; <<>> stands for REG_NOMATCH.
Regexec(r, text, fl) ==
  LET starts == {t \in 0..Len(text) : MatchHere(r, text, fl, 1, t) >= 0}
      so == CHOOSE t \in starts : \A u \in starts : t <= u
  IN IF starts = {} THEN <<>> ELSE <<so, MatchHere(r, text, fl, 1, so)>>

-----------------------------------------------------------------------------
(* glob: the paths are strings of characters; <<>> is a null pointer.      *)

NoFlags == [pathname |-> FALSE, period |-> FALSE, casefold |-> FALSE]
HasMagic(comp) == \E i \in 1..Len(comp) : comp[i].kind # "lit"
LiteralName(comp) == [i \in 1..Len(comp) |-> comp[i].items[1][1]]
GlobIsDir(path) == path \in DOMAIN GlobDirs
GlobExists(path) == GlobIsDir(path) \/ path \in GlobFiles

\* glob_join_path, applied from the prefix on, and glob_mark_if_dir.
PathText(abs, path, mark) ==
  LET F[i \in 0..Len(path)] == IF i = 0 THEN IF abs THEN <<Slash>> ELSE <<>>
                               ELSE F[i - 1] \o (IF i > 1 THEN <<Slash>> ELSE <<>>) \o path[i]
  IN F[Len(path)] \o (IF mark /\ GlobIsDir(path) THEN <<Slash>> ELSE <<>>)

\* glob_list_push: strdup or the growing of the list fails when no room is left.
ListPush(list, text, room) ==
  IF Len(list.items) >= room THEN [list EXCEPT !.rc = "nospace"]
  ELSE [list EXCEPT !.items = Append(@, text)]

Hidden(comp, name) == name[1] = Period /\ ~(comp[1].kind = "lit" /\ comp[1].items[1][1] = Period)

RECURSIVE GlobExpand(_, _, _, _)
\* glob_expand_recursive: o holds the call's abs, mark and room.
GlobExpand(prefix, rest, list, o) ==
  LET comp == Head(rest)
      Reach(child, l) ==
        IF Len(rest) > 1 THEN IF GlobIsDir(child) THEN GlobExpand(child, Tail(rest), l, o) ELSE l
        ELSE ListPush(l, PathText(o.abs, child, o.mark), o.room)
      names == GlobDirs[prefix]
      Visit[i \in 0..Len(names)] ==
        IF i = 0 THEN list
        ELSE IF Visit[i - 1].rc # "ok" \/ Hidden(comp, names[i]) \/ ~Fnmatch(comp, names[i], NoFlags) THEN Visit[i - 1]
        ELSE Reach(Append(prefix, names[i]), Visit[i - 1])
  IN IF HasMagic(comp) THEN IF GlobIsDir(prefix) THEN Visit[Len(names)] ELSE list
     ELSE IF GlobExists(Append(prefix, LiteralName(comp))) THEN Reach(Append(prefix, LiteralName(comp)), list) ELSE list

RECURSIVE TextLeq(_, _)
TextLeq(x, y) == x = <<>> \/ (y # <<>> /\ (x[1] < y[1] \/ (x[1] = y[1] /\ TextLeq(Tail(x), Tail(y)))))

SwapIf(s, i, j) == IF TextLeq(s[i], s[j]) THEN s ELSE [s EXCEPT ![i] = s[j], ![j] = s[i]]

\* glob_sort: the exchange sort, pair (i, j) after pair (i, j - 1).
GlobSort(items) ==
  LET n == Len(items)
      F[i \in 0..n, j \in 0..n] ==
        IF i = 0 THEN items
        ELSE IF j <= i THEN F[i - 1, n]
        ELSE SwapIf(F[i, j - 1], i, j)
  IN IF n < 2 THEN items ELSE F[n - 1, n]

PatternText(p) == PathText(p.abs, [i \in 1..Len(p.comps) |-> [k \in 1..Len(p.comps[i]) |->
                     IF p.comps[i][k].kind = "lit" THEN p.comps[i][k].items[1][1] ELSE 42]], FALSE)

\* The list a call collects, before it goes to the caller.
GlobMatches(p, fl, room) ==
  LET empty == [rc |-> "ok", items |-> <<>>]
      plain == \A i \in 1..Len(p.comps) : ~HasMagic(p.comps[i])
      found == GlobExpand(<<>>, p.comps, empty, [abs |-> p.abs, mark |-> fl.mark, room |-> room])
      Nomatch == IF fl.nocheck THEN ListPush(empty, PatternText(p), room) ELSE [empty EXCEPT !.rc = "nomatch"]
  IN IF plain THEN IF GlobExists([i \in 1..Len(p.comps) |-> LiteralName(p.comps[i])])
                   THEN ListPush(empty, PatternText(p), room) ELSE Nomatch
     ELSE IF found.rc = "ok" /\ found.items = <<>> THEN Nomatch
     ELSE IF found.rc = "ok" THEN [found EXCEPT !.items = GlobSort(@)] ELSE found

-----------------------------------------------------------------------------
(* Reference definitions: a match cuts the text into one piece per token.  *)

Cuts(n, a, b) == {c \in [0..n -> a..b] : c[0] = a /\ c[n] = b /\ \A i \in 1..n : c[i - 1] <= c[i]}

FnPiece(pat, text, fl, c, i) ==
  IF pat[i].kind = "star" THEN ~(fl.pathname /\ \E k \in (c[i - 1] + 1)..c[i] : text[k] = Slash)
  ELSE /\ c[i] = c[i - 1] + 1
       /\ TokenTakes(pat[i], text[c[i]], fl)
       /\ pat[i].kind \in {"any", "class"} /\ fl.pathname => text[c[i]] # Slash
       /\ ~( /\ fl.period /\ text[c[i]] = Period /\ pat[i].kind \in {"any", "class"}
             /\ c[i] = 1 \/ text[c[i] - 1] = Slash
             /\ i = 1 \/ pat[i - 1].kind # "star" )

FnMatches(pat, text, fl) ==
  \E c \in Cuts(Len(pat), 0, Len(text)) : \A i \in 1..Len(pat) : FnPiece(pat, text, fl, c, i)

\* Under FNM_PATHNAME the star's loop stops at a slash before it tries the rest there.
StarThenSlash(pat, fl) ==
  fl.pathname /\ \E i \in 2..Len(pat) : pat[i - 1].kind = "star" /\ pat[i].kind = "lit" /\ pat[i].items[1][1] = Slash

RegexMatches(r, text, fl, a, b) ==
  /\ r.bol => LineStart(r, text, a, fl.notbol)
  /\ r.eol => LineEnd(r, text, b, fl.noteol)
  /\ \E c \in Cuts(Len(r.atoms), a, b) : \A i \in 1..Len(r.atoms) :
       LET q == r.atoms[i].quant n == c[i] - c[i - 1] IN
       /\ n >= MinCount(q) /\ n <= MaxCount(q, n)
       /\ \A k \in c[i - 1]..(c[i] - 1) : AtomMatch(r, r.atoms[i], text, k)

GlobNames == DOMAIN GlobDirs \union GlobFiles

\* The paths a pattern names.
GlobReference(p) ==
  {path \in GlobNames : Len(path) = Len(p.comps) /\ \A i \in 1..Len(path) :
     IF HasMagic(p.comps[i])
     THEN FnMatches(p.comps[i], path[i], NoFlags) /\ (path[i][1] = Period => p.comps[i][1].kind = "lit")
     ELSE path[i] = LiteralName(p.comps[i])}

-----------------------------------------------------------------------------
NoGlob == [pathv |-> <<>>, count |-> 0, offs |-> 0, live |-> 0, refs |-> <<>>, rc |-> "ok", due |-> "ok", set |-> FALSE]
GlobFlags == [append : BOOLEAN, nocheck : BOOLEAN, dooffs : BOOLEAN, mark : BOOLEAN]

PatternsInit ==
  /\ globbed = NoGlob
  /\ \/ matching \in [op : {"fnmatch"}, pat : FnPatterns, text : FnTexts, fl : FnFlags, done : {FALSE}]
     \/ matching \in [op : {"regexec"}, pat : Regexes, text : RegexTexts,
                      fl : [notbol : BOOLEAN, noteol : BOOLEAN], done : {FALSE}]
     \/ matching = [op |-> "glob"]

FnmatchCall ==
  /\ matching.op = "fnmatch" /\ ~matching.done
  /\ matching' = [op |-> "fnmatch", pat |-> matching.pat, text |-> matching.text, fl |-> matching.fl, done |-> TRUE,
                  result |-> Fnmatch(matching.pat, matching.text, matching.fl)]
  /\ UNCHANGED globbed

RegexecCall ==
  /\ matching.op = "regexec" /\ ~matching.done
  /\ matching' = [op |-> "regexec", pat |-> matching.pat, text |-> matching.text, fl |-> matching.fl, done |-> TRUE,
                  result |-> Regexec(matching.pat, matching.text, matching.fl)]
  /\ UNCHANGED globbed

Nulls(n) == [i \in 1..n |-> <<>>]

\* What a caller may expect of a call with room: its paths, or the rc.
GlobDue(p, fl, room, space) ==
  LET paths == GlobReference(p) IN
  IF paths = {} /\ ~fl.nocheck THEN "nomatch"
  ELSE IF Cardinality(paths) > room \/ room = 0 \/ ~space THEN "nospace" ELSE "ok"

\* The last part of glob: the new vector takes over the old paths and the matches.
GlobTake(g, fl, list, offs, space, p, due) ==
  LET old == IF fl.append THEN SubSeq(g.pathv, offs + 1, offs + g.count) ELSE <<>>
      refs == IF fl.append THEN g.refs ELSE <<>>
      kept == IF fl.append THEN g ELSE NoGlob
  IN IF list.rc # "ok" THEN [kept EXCEPT !.rc = list.rc, !.due = due]
     ELSE IF ~space THEN [kept EXCEPT !.rc = "nospace", !.due = due]
     ELSE [pathv |-> Nulls(offs) \o old \o list.items, count |-> Len(old) + Len(list.items), offs |-> offs,
           live |-> kept.live + Len(list.items), refs |-> Append(refs, [p |-> p, mark |-> fl.mark]),
           rc |-> "ok", due |-> due, set |-> TRUE]

\* glob: without GLOB_APPEND the caller passes a glob_t that holds nothing.
Glob(p, fl, room, offs, space) ==
  /\ fl.append \/ ~globbed.set
  /\ globbed.count < GlobMax
  /\ LET at == IF fl.append THEN globbed.offs ELSE IF fl.dooffs THEN offs ELSE 0
     IN globbed' = GlobTake(globbed, fl, GlobMatches(p, fl, room), at, space, p, GlobDue(p, fl, room, space))
  /\ UNCHANGED matching

Globfree ==
  /\ globbed.set
  /\ globbed' = [NoGlob EXCEPT !.live = globbed.live - globbed.count]
  /\ UNCHANGED matching

PatternsNext ==
  \/ FnmatchCall
  \/ RegexecCall
  \/ /\ matching.op = "glob"
     /\ \/ \E p \in GlobPatterns, fl \in GlobFlags, room \in GlobRoom, offs \in GlobOffsets, space \in BOOLEAN :
             Glob(p, fl, room, offs, space)
        \/ Globfree

PatternsSpec == PatternsInit /\ [][PatternsNext]_patternVars

-----------------------------------------------------------------------------
\* fnmatch finds a match when the text can be cut into pieces the tokens take, and
\* only then: the star's loop and its recursion try every cut that could matter.
FnmatchExact ==
  matching.op = "fnmatch" /\ matching.done =>
    /\ matching.result => FnMatches(matching.pat, matching.text, matching.fl)
    /\ FnMatches(matching.pat, matching.text, matching.fl) /\ ~StarThenSlash(matching.pat, matching.fl) => matching.result

\* regexec reports the leftmost place where the expression matches and a real match
\* there, and reports no match only when there is none at all: giving characters
\* back one at a time after a greedy repetition misses nothing.
RegexecLeftmost ==
  matching.op = "regexec" /\ matching.done =>
    LET M(a, b) == RegexMatches(matching.pat, matching.text, matching.fl, a, b)
        n == Len(matching.text)
    IN IF matching.result = <<>> THEN \A a \in 0..n : \A b \in a..n : ~M(a, b)
       ELSE /\ M(matching.result[1], matching.result[2])
            /\ \A a \in 0..(matching.result[1] - 1) : \A b \in a..n : ~M(a, b)

\* glob puts into gl_pathv exactly the paths of the tree its pattern names, those of
\* one call in strcmp order behind those of the calls it appends to, the offset slots
\* in front left null; it fails when nothing matches or no memory is left.
GlobExact ==
  LET g == globbed
      Named(ref) == LET paths == GlobReference(ref.p)
                        plain == \A i \in 1..Len(ref.p.comps) : ~HasMagic(ref.p.comps[i])
                    IN IF paths = {} \/ plain THEN {PatternText(ref.p)} ELSE {PathText(ref.p.abs, path, ref.mark) : path \in paths}
      Ends[i \in 0..Len(g.refs)] == IF i = 0 THEN g.offs ELSE Ends[i - 1] + Cardinality(Named(g.refs[i]))
  IN /\ g.rc = g.due
     /\ Ends[Len(g.refs)] = Len(g.pathv) /\ g.set => Len(g.pathv) = g.offs + g.count
     /\ \A i \in 1..g.offs : g.set => g.pathv[i] = <<>>
     /\ \A i \in 1..Len(g.refs) :
          LET part == SubSeq(g.pathv, Ends[i - 1] + 1, Ends[i]) IN
          /\ {part[k] : k \in 1..Len(part)} = Named(g.refs[i])
          /\ \A k \in 1..(Len(part) - 1) : TextLeq(part[k], part[k + 1])

\* Every path string the calls allocated is in gl_pathv or freed, on every error path
\* and after globfree.
GlobStringsOwned == globbed.live = globbed.count

\* The matchers find what their patterns describe, and glob owns what it returns.
PatternsExact ==
  /\ FnmatchExact /\ RegexecLeftmost /\ GlobExact
  /\ GlobStringsOwned

=============================================================================
