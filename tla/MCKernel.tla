------------------------------ MODULE MCKernel ------------------------------
(***************************************************************************)
(* Parts of the kernel for TLC: frames, heap, buffer cache, mounts,        *)
(* address spaces, keyboard with its readers, and the text console.  They  *)
(* share no state, so an initial state chooses which of them moves.        *)
(***************************************************************************)
EXTENDS Pmm, Bcache, Heap, Vfs, AddressSpace, Terminal, Console, TLC

VARIABLE focus

Parts == {"pmm", "bcache", "heap", "vfs", "space", "term", "console"}

\* Two devices, one with two blocks in use.
MCKey == {<<"sda", 1>>, <<"sda", 2>>, <<"sdb", 1>>}

\* A KiFS disk with a directory and a file, and a stick that can be pulled.
MCFormat == [hd |-> "kifs", stick |-> "fat"]
MCRoom == [hd |-> {<<<<"a">>, "dir">>, <<<<"a", "b">>, "file">>, <<<<"b">>, "file">>},
           stick |-> {<<<<"b">>, "file">>}]
MCContents == [hd |-> (<<"a">> :> Dir) @@ (<<"b">> :> File(<<1>>)), stick |-> (<<"b">> :> File(<<>>))]
AbsPath(c) == [abs |-> TRUE, comps |-> c]
RelPath(c) == [abs |-> FALSE, comps |-> c]
MCTargets == {AbsPath(<<>>), AbsPath(<<"a">>)}
MCInputs == {AbsPath(<<>>), AbsPath(<<"a">>), AbsPath(<<"dev", "stick">>), RelPath(<<"b">>), RelPath(<<"..", "b">>)}

\* Program images: code with and without data, a section past the stack, and no code.
Text(va, size) == [va |-> va, size |-> size, write |-> FALSE, exec |-> TRUE, load |-> TRUE, fsize |-> 1, off |-> 1]
Bss(va, size) == [va |-> va, size |-> size, write |-> TRUE, exec |-> FALSE, load |-> FALSE, fsize |-> 0, off |-> 0]
Image(max, sections) == [min |-> 2, max |-> max, entry |-> 2, size |-> 4, sections |-> sections]
MCImages == {Image(5, <<Text(2, 2), Bss(4, 1)>>), Image(4, <<Text(2, 2)>>),
             Image(6, <<Text(2, 3), Bss(4, 2)>>), Image(4, <<Bss(2, 2)>>)}
MCArguments == {<<<<5>>>>, <<<<5, 6>>, <<8>>>>, <<<<5, 5, 5>>, <<6, 6, 6>>, <<8, 8, 8>>>>}
MCPointers == {<<2, 1>>, <<2, 3>>, <<3, 2>>, <<4, 4>>, <<5, 0>>, <<9, 2>>, <<11, 1>>, <<13, 31>>, <<2, 30>>, <<10, 3>>}

KeyCap(c, e) == [code |-> c, ext |-> e]
MCKeys == {KeyCap("ctrl", TRUE), KeyCap("a", FALSE), KeyCap("up", TRUE)}

\* What programs write: text, controls, and escape sequences with numbers that wrap.
Csi(s) == <<"ESC", "[">> \o s
MCWrites == {<<"x">>, <<"NL">>, <<"TAB">>, <<"BS">>} \cup
            {Csi(s) : s \in {<<"H">>, <<"2", ";", "9", "H">>, <<"3", "1", "B">>, <<"3", "1", "C">>, <<"A">>, <<"G">>, <<"s">>,
                             <<"u">>, <<"?", "2", "5", "h">>, <<"?", "2", "5", "l">>, <<"J">>, <<"1", "K">>}}
MCInputLines == {[prefix |-> <<"x">>, text |-> <<"x">>, pos |-> 0, show |-> TRUE]}

\* A part that does not move starts in one state only.
Init ==
  /\ focus \in Parts
  /\ PmmInit /\ (focus # "pmm" => reserved = Frames \ {1})
  /\ BcacheInit /\ (focus # "bcache" => \A k \in Key : disk[k] = 0)
  /\ HeapInit /\ (focus # "heap" => heap.pages = 1..2)
  /\ VfsInit /\ (focus # "vfs" => attached = Disk)
  /\ SpaceInit /\ (focus # "space" => installed = 1)
  /\ TermInit
  /\ ConInit

Next ==
  \/ /\ focus = "pmm" /\ PmmNext
     /\ UNCHANGED <<bcacheVars, heapVars, vfsVars, spaceVars, termVars, conVars, focus>>
  \/ /\ focus = "bcache" /\ BcacheNext
     /\ UNCHANGED <<pmmVars, heapVars, vfsVars, spaceVars, termVars, conVars, focus>>
  \/ /\ focus = "heap" /\ HeapNext
     /\ UNCHANGED <<pmmVars, bcacheVars, vfsVars, spaceVars, termVars, conVars, focus>>
  \/ /\ focus = "vfs" /\ VfsNext
     /\ UNCHANGED <<pmmVars, bcacheVars, heapVars, spaceVars, termVars, conVars, focus>>
  \/ /\ focus = "space" /\ SpaceNext
     /\ UNCHANGED <<pmmVars, bcacheVars, heapVars, vfsVars, termVars, conVars, focus>>
  \/ /\ focus = "term" /\ TermNext
     /\ UNCHANGED <<pmmVars, bcacheVars, heapVars, vfsVars, spaceVars, conVars, focus>>
  \/ /\ focus = "console" /\ ConNext
     /\ UNCHANGED <<pmmVars, bcacheVars, heapVars, vfsVars, spaceVars, termVars, focus>>

-----------------------------------------------------------------------------
\* allocate_run_from finds the first run that fits, and pmm_alloc_below a frame
\* below the limit whenever there is one, in every bitmap and with every cursor
\* that the calls of pmm.c can leave behind (only asked where the frames move).
SearchIsFirstFit == focus = "pmm" => LoopIsFirstFit /\ LowFrameFound
=============================================================================
