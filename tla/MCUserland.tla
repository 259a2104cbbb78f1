----------------------------- MODULE MCUserland -----------------------------
(***************************************************************************)
(* Descriptors and the library the programs use, for TLC: two views of the *)
(* system calls on descriptors, the allocator, the streams, formatting and *)
(* patterns.  The parts share no state, so an initial state chooses which  *)
(* of them moves.                                                          *)
(***************************************************************************)
EXTENDS Files, Malloc, Stdio, Format, Patterns, TLC

CONSTANTS p1, p2

VARIABLE focus

ProcSymmetry == Permutations(Procs)

Parts == {"books", "offsets", "malloc", "stdio", "format", "matching", "glob"}

MCFileModes == {<<"r", {}>>, <<"rw", {"creat", "trunc", "append"}>>}

\* Two views of Files: two processes that open, duplicate and close, and one
\* process alone at the file.
TwoProcesses ==
  \E p \in Procs : Lives(p) \/ DescriptorCalls(p) \/ MakePipe(p) \/ \E x \in File : Open(p, x, "rw", {"creat"})
OneFile ==
  /\ \E p \in Procs : /\ \A q \in Procs \ {p} : state[q] = "none"
                      /\ Lives(p) \/ DescriptorCalls(p) \/ FileCalls(p)
  /\ next_id' <= 3

MCEntryUnits == "s" :> 1 @@ "l" :> 4
MCInherited == "A" :> "s"

MCModes == {[read |-> TRUE, write |-> FALSE, create |-> FALSE, append |-> FALSE],
            [read |-> TRUE, write |-> TRUE, create |-> TRUE, append |-> FALSE]}
MCStartDisk == "p" :> <<"a", "NL">>
MCTexts == {<<"a", "NL">>, <<"a">>}

MCDirectives == [left : BOOLEAN, plus : BOOLEAN, space : BOOLEAN, alt : BOOLEAN, zero : BOOLEAN,
                 width : {0, 4}, spec : {"d", "i", "u", "o", "x"}]
MCNumerals == UNION {[1..n -> {" ", "-", "0", "x", "1", "9"}] : n \in 0..3}
                \cup {<<"-">> \o s : s \in [1..3 -> {"0", "x", "1", "9"}]}
MCPrintArgs == {-8, -1, 0, 5, 7}
NoCall == [kind |-> "parse", d |-> CHOOSE d \in Directives : TRUE, arg |-> 0, size |-> 0, text |-> <<>>, base |-> 10,
           done |-> FALSE, r |-> Pending]

\* Patterns over a, A, the period and the slash; a tree of two directories.
Lit(c) == [kind |-> "lit", items |-> <<<<c, c>>>>, neg |-> FALSE]
Tok(k) == [kind |-> k, items |-> <<>>, neg |-> FALSE]
NotSet == [kind |-> "class", items |-> <<<<46, 47>>, <<97, 97>>>>, neg |-> TRUE]
Upto(S, n) == UNION {[1..k -> S] : k \in 0..n}
MCFnPatterns == Upto({Lit(97), Lit(47), Tok("any"), Tok("star"), NotSet}, 3)
MCFnTexts == {<<>>, <<97>>, <<65>>, <<46, 97>>, <<97, 47>>, <<97, 46, 97>>, <<98, 47, 46>>}
Atom(k, lo, hi, n, q) == [kind |-> k, items |-> <<<<lo, hi>>>>, neg |-> n, quant |-> q]
Atoms == {Atom("lit", 97, 97, FALSE, q) : q \in {"1", "*", "+", "?"}}
           \cup {Atom("dot", 0, 0, FALSE, "*"), Atom("class", 98, 97, TRUE, "?")}
MCRegexes ==
  {[bol |-> b, atoms |-> a, eol |-> e, newline |-> n, icase |-> b] : b, e, n \in BOOLEAN, a \in Upto(Atoms, 1)}
    \cup {[bol |-> FALSE, atoms |-> a, eol |-> FALSE, newline |-> FALSE, icase |-> FALSE] : a \in Upto(Atoms, 3)}
MCRegexTexts == {<<>>, <<97>>, <<98, 97>>, <<65, 97>>, <<97, 97, 98>>, <<98, 10, 97>>}
MCGlobDirs == (<<>> :> <<<<98>>, <<97>>, <<46, 97>>, <<97, 98>>>>) @@ (<<<<97>>>> :> <<<<98>>, <<97>>>>) @@ (<<<<97, 98>>>> :> <<>>)
MCGlobFiles == {<<<<98>>>>, <<<<46, 97>>>>, <<<<97>>, <<98>>>>, <<<<97>>, <<97>>>>}
MCGlobPatterns ==
  {[abs |-> FALSE, comps |-> <<<<Tok("star")>>>>],
   [abs |-> TRUE, comps |-> <<<<Lit(97), Tok("star")>>, <<Tok("any")>>>>],
   [abs |-> FALSE, comps |-> <<<<Lit(97)>>, <<Lit(98)>>>>],
   [abs |-> FALSE, comps |-> <<<<Lit(98)>>, <<Tok("any")>>>>],
   [abs |-> FALSE, comps |-> <<<<Lit(46), Tok("any")>>>>]}

\* A part that does not move starts in one state only.
Init ==
  /\ focus \in Parts
  /\ focus \in {"books", "offsets"} \/ fsize = [x \in File |-> Absent]
  /\ focus = "format" \/ call = NoCall
  /\ focus = "matching" \/ matching = [op |-> "glob"]
  /\ FilesInit /\ MallocInit /\ StdioInit /\ FormatInit /\ PatternsInit

OthersOfFiles == UNCHANGED <<mallocVars, stdioVars, formatVars, patternVars, focus>>

Next ==
  \/ focus = "books" /\ TwoProcesses /\ OthersOfFiles
  \/ focus = "offsets" /\ OneFile /\ OthersOfFiles
  \/ focus = "malloc" /\ MallocNext /\ UNCHANGED <<filesVars, stdioVars, formatVars, patternVars, focus>>
  \/ focus = "stdio" /\ StdioNext /\ UNCHANGED <<filesVars, mallocVars, formatVars, patternVars, focus>>
  \/ focus = "format" /\ FormatNext /\ UNCHANGED <<filesVars, mallocVars, stdioVars, patternVars, focus>>
  \/ focus \in {"matching", "glob"} /\ PatternsNext /\ UNCHANGED <<filesVars, mallocVars, stdioVars, formatVars, focus>>

=============================================================================
