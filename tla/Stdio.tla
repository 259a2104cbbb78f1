-------------------------------- MODULE Stdio --------------------------------
(***************************************************************************)
(* The streams of kiwilib (userspace/kiwilib/src/stdio.c).  A stream holds *)
(* a descriptor, the flags eof and error, at most one pushed-back          *)
(* character and, for a temporary file, the name to remove; there is no    *)
(* buffer, every call goes to the system.                                  *)
(*                                                                         *)
(* The files are short sequences of characters.  Any read or write may     *)
(* fail, a write may be short, and memory for a new stream may be missing. *)
(* A program uses a stream only while it is open.                          *)
(***************************************************************************)
EXTENDS Integers, Sequences, FiniteSets

CONSTANTS
  Streams,      \* the streams a program may have open at a time
  Standard,     \* the one of them that is stdin, open from the start
  StreamFds,          \* descriptor numbers
  Paths,        \* names of files
  TempPaths,    \* names mkstemp makes up
  Chars,        \* characters; "NL" ends a line
  StartDisk,    \* the files at the start: a function from Paths to contents
  FileMax,      \* a bound on the length of a file
  StreamModes,        \* modes of fopen: [read, write, create, append]
  Counts,       \* lengths for fread and fgets
  Texts,        \* what is written
  Pushed        \* characters pushed back

VARIABLES
  disk,         \* the files that exist
  fdt,          \* open descriptors
  strm,         \* open streams
  orphans,      \* history: temporary files whose stream was reopened
  honest        \* history: what every call has delivered was right

stdioVars == <<disk, fdt, strm, orphans, honest>>

EOF == "EOF"
None == "none"
Closed == [fd |-> 0, eof |-> FALSE, error |-> FALSE, ungot |-> None, temp |-> None]
NoFd == [path |-> None, off |-> 0, read |-> FALSE, write |-> FALSE, append |-> FALSE]

MinOf(a, b) == IF a < b THEN a ELSE b
LeastOf(S) == CHOOSE x \in S : \A y \in S : x <= y
IsOpen(s) == strm[s].fd # 0
FreeFds == {f \in StreamFds : fdt[f] = NoFd}
DescOf(s) == fdt[strm[s].fd]
Body(path) == IF path \in DOMAIN disk THEN disk[path] ELSE <<>>

\* What is still to be read from a stream.
Ahead(st, d, body) == (IF st.ungot = None THEN <<>> ELSE <<st.ungot>>) \o SubSeq(body, d.off + 1, Len(body))
IsStart(got, of) == Len(got) <= Len(of) /\ got = SubSeq(of, 1, Len(got))

-----------------------------------------------------------------------------
(* Opening and closing.                                                    *)

StreamInit(fd) == [Closed EXCEPT !.fd = fd]

FilesAfterOpen(path, mode) ==
  IF path \in DOMAIN disk /\ (mode.append \/ ~mode.create) THEN disk
  ELSE [p \in DOMAIN disk \union {path} |-> IF p = path THEN <<>> ELSE disk[p]]

OpenedFd(path, mode) ==
  [path |-> path, off |-> 0, read |-> mode.read, write |-> mode.write, append |-> mode.append]

CanOpen(path, mode) == FreeFds # {} /\ (path \in DOMAIN disk \/ mode.create)

Fopen(s, path, mode, memory) ==
  /\ ~IsOpen(s) /\ CanOpen(path, mode)
  /\ disk' = FilesAfterOpen(path, mode)
  /\ \E fd \in {LeastOf(FreeFds)} :
       IF memory
       THEN /\ fdt' = [fdt EXCEPT ![fd] = OpenedFd(path, mode)]
            /\ strm' = [strm EXCEPT ![s] = StreamInit(fd)]
       ELSE UNCHANGED <<fdt, strm>>
  /\ UNCHANGED <<orphans, honest>>

\* freopen opens the new file before it closes the old one; the name of a
\* temporary file is forgotten.
Freopen(s, path, mode) ==
  /\ IsOpen(s) /\ CanOpen(path, mode)
  /\ disk' = FilesAfterOpen(path, mode)
  /\ \E fd \in {LeastOf(FreeFds)} :
       /\ fdt' = [fdt EXCEPT ![fd] = OpenedFd(path, mode), ![strm[s].fd] = NoFd]
       /\ strm' = [strm EXCEPT ![s] = StreamInit(fd)]
  /\ orphans' = IF strm[s].temp = None THEN orphans ELSE orphans \union {strm[s].temp}
  /\ UNCHANGED honest

\* mkstemp, with O_EXCL, then the stream; without memory for it the file is
\* closed and unlinked again.
Tmpfile(s, path, memory) ==
  /\ ~IsOpen(s) /\ FreeFds # {} /\ path \in TempPaths \ DOMAIN disk
  /\ IF memory
     THEN /\ disk' = [p \in DOMAIN disk \union {path} |-> IF p = path THEN <<>> ELSE disk[p]]
          /\ \E fd \in {LeastOf(FreeFds)} :
            /\ fdt' = [fdt EXCEPT ![fd] = [path |-> path, off |-> 0, read |-> TRUE, write |-> TRUE, append |-> FALSE]]
            /\ strm' = [strm EXCEPT ![s] = [StreamInit(fd) EXCEPT !.temp = path]]
     ELSE UNCHANGED <<disk, fdt, strm>>
  /\ UNCHANGED <<orphans, honest>>

WithoutPath(path) == [p \in DOMAIN disk \ {path} |-> disk[p]]

Fclose(s) ==
  /\ IsOpen(s)
  /\ fdt' = [fdt EXCEPT ![strm[s].fd] = NoFd]
  /\ disk' = WithoutPath(strm[s].temp)
  /\ strm' = [strm EXCEPT ![s] = Closed]
  /\ UNCHANGED <<orphans, honest>>

\* remove: unlink; an open file cannot be unlinked here.
Remove(path) ==
  /\ path \in DOMAIN disk /\ \A f \in StreamFds : fdt[f].path # path
  /\ disk' = WithoutPath(path)
  /\ UNCHANGED <<fdt, strm, orphans, honest>>

-----------------------------------------------------------------------------
(* Reading.                                                                *)

FgetcOf(st, d, body, fails) ==
  IF st.ungot # None THEN [st |-> [st EXCEPT !.ungot = None], d |-> d, c |-> st.ungot]
  ELSE IF fails \/ ~d.read THEN [st |-> [st EXCEPT !.error = TRUE], d |-> d, c |-> EOF]
  ELSE IF d.off >= Len(body) THEN [st |-> [st EXCEPT !.eof = TRUE], d |-> d, c |-> EOF]
  ELSE [st |-> st, d |-> [d EXCEPT !.off = @ + 1], c |-> body[d.off + 1]]

AddChar(x, r, stops) ==
  IF r.c = EOF THEN [x EXCEPT !.st = r.st, !.d = r.d, !.more = FALSE]
  ELSE [st |-> r.st, d |-> r.d, got |-> Append(x.got, r.c), more |-> r.c \notin stops]

\* Characters one by one, at most n, up to one of "stops": the loops of
\* fgets, getdelim and vfscanf.  The read number "bad" fails.
GetChars(st, d, body, n, stops, bad) ==
  LET G[i \in 0..n] ==
        IF i = 0 THEN [st |-> st, d |-> d, got |-> <<>>, more |-> TRUE]
        ELSE IF ~G[i - 1].more THEN G[i - 1]
        ELSE AddChar(G[i - 1], FgetcOf(G[i - 1].st, G[i - 1].d, body, i = bad), stops)
  IN G[n]

FreadAgain(st, d, body, got, n, fails) ==
  IF fails \/ ~d.read THEN [st |-> [st EXCEPT !.error = TRUE], d |-> d, got |-> got]
  ELSE LET k == MinOf(n - Len(got), Len(body) - MinOf(d.off, Len(body)))
       IN [st |-> [st EXCEPT !.eof = @ \/ Len(got) + k < n],
           d |-> [d EXCEPT !.off = @ + k],
           got |-> got \o SubSeq(body, d.off + 1, d.off + k)]

\* fread: the pushed-back character, then as much as the file has; one read
\* more finds its end.
FreadOf(st, d, body, n, fails) ==
  IF st.ungot # None
  THEN IF n = 1 THEN [st |-> [st EXCEPT !.ungot = None], d |-> d, got |-> <<st.ungot>>]
       ELSE FreadAgain([st EXCEPT !.ungot = None], d, body, <<st.ungot>>, n, fails)
  ELSE FreadAgain(st, d, body, <<>>, n, fails)

\* A call that read "got" and asked for n characters, or up to a stop.
ReadHonest(st, d, r, body, n, stops) ==
  /\ IsStart(r.got, Ahead(st, d, body))
  /\ Ahead(st, d, body) = r.got \o Ahead(r.st, r.d, body)
  /\ \A i \in 1..(Len(r.got) - 1) : r.got[i] \notin stops
  /\ (r.st.eof /\ ~st.eof) => r.d.off >= Len(body)
  /\ Len(r.got) < n => r.st.error \/ r.st.eof \/ (r.got # <<>> /\ r.got[Len(r.got)] \in stops)

ReadDone(s, r, n, stops) ==
  /\ strm' = [strm EXCEPT ![s] = r.st]
  /\ fdt' = [fdt EXCEPT ![strm[s].fd] = r.d]
  /\ honest' = (honest /\ ReadHonest(strm[s], DescOf(s), r, Body(DescOf(s).path), n, stops))
  /\ UNCHANGED <<disk, orphans>>

Fgets(s, n, bad) ==
  /\ IsOpen(s)
  /\ \E r \in {GetChars(strm[s], DescOf(s), Body(DescOf(s).path), n, {"NL"}, bad)} : ReadDone(s, r, n, {"NL"})

\* getline and getdelim: no limit but the end of the line; and vfscanf,
\* which takes in everything up to the size of its buffer.
Getdelim(s, bad) ==
  /\ IsOpen(s)
  /\ \E r \in {GetChars(strm[s], DescOf(s), Body(DescOf(s).path), FileMax + 2, {"NL"}, bad)} :
       ReadDone(s, r, FileMax + 2, {"NL"})

Vfscanf(s, bad) ==
  /\ IsOpen(s)
  /\ \E r \in {GetChars(strm[s], DescOf(s), Body(DescOf(s).path), FileMax + 2, {}, bad)} :
       ReadDone(s, r, FileMax + 2, {})

Fread(s, n, fails) ==
  /\ IsOpen(s)
  /\ \E r \in {FreadOf(strm[s], DescOf(s), Body(DescOf(s).path), n, fails)} : ReadDone(s, r, n, {})

Ungetc(s, c) ==
  /\ IsOpen(s) /\ strm[s].ungot = None
  /\ strm' = [strm EXCEPT ![s].ungot = c, ![s].eof = FALSE]
  /\ UNCHANGED <<disk, fdt, orphans, honest>>

-----------------------------------------------------------------------------
(* Writing and positioning.                                                *)

WriteAt(d, body) == IF d.append THEN Len(body) ELSE d.off

Overwrite(body, at, text) ==
  [i \in 1..(IF at + Len(text) > Len(body) THEN at + Len(text) ELSE Len(body)) |->
     IF i > at /\ i <= at + Len(text) THEN text[i - at] ELSE body[i]]

\* fwrite retries short writes until one fails; "room" is what the disk takes.
FwriteOf(d, text, room) ==
  IF ~d.write THEN [done |-> 0, count |-> 0, error |-> TRUE]
  ELSE [done |-> room, count |-> room, error |-> room < Len(text)]

\* fputs, fputc and puts write once, and report a short write as EOF.
FputsOf(d, text, room) ==
  IF ~d.write THEN [done |-> 0, count |-> 0, error |-> TRUE]
  ELSE [done |-> room, count |-> IF room < Len(text) THEN 0 ELSE room, error |-> room < Len(text)]

WriteDone(s, text, w) ==
  LET d == DescOf(s)
      at == WriteAt(d, Body(d.path))
  IN /\ at <= Len(Body(d.path)) /\ at + w.done <= FileMax
     /\ disk' = IF w.done = 0 THEN disk ELSE [disk EXCEPT ![d.path] = Overwrite(@, at, SubSeq(text, 1, w.done))]
     /\ fdt' = [fdt EXCEPT ![strm[s].fd].off = IF w.done = 0 THEN @ ELSE at + w.done]
     /\ strm' = [strm EXCEPT ![s].error = @ \/ w.error]
     /\ honest' = (honest /\ w.count <= w.done /\ (~w.error => w.done = Len(text)))
     /\ UNCHANGED orphans

Fwrite(s, text, room) ==
  /\ IsOpen(s) /\ room <= Len(text) /\ DescOf(s).path \in DOMAIN disk
  /\ WriteDone(s, text, FwriteOf(DescOf(s), text, room))

Fputs(s, text, room) ==
  /\ IsOpen(s) /\ room <= Len(text) /\ DescOf(s).path \in DOMAIN disk
  /\ WriteDone(s, text, FputsOf(DescOf(s), text, room))

SeekKeepsUngot(st) == [st EXCEPT !.eof = FALSE]
SeekClears(st) == [st EXCEPT !.eof = FALSE, !.ungot = None]

Fseek(s, to) ==
  /\ IsOpen(s)
  /\ \E st \in {SeekClears(strm[s])} :
       /\ strm' = [strm EXCEPT ![s] = st]
       /\ fdt' = [fdt EXCEPT ![strm[s].fd].off = to]
       /\ honest' = (honest /\ Ahead(st, [DescOf(s) EXCEPT !.off = to], Body(DescOf(s).path))
                                 = SubSeq(Body(DescOf(s).path), to + 1, Len(Body(DescOf(s).path))))
  /\ UNCHANGED <<disk, orphans>>

FseekFails(s) ==
  /\ IsOpen(s) /\ strm' = [strm EXCEPT ![s].error = TRUE]
  /\ UNCHANGED <<disk, fdt, orphans, honest>>

Clearerr(s) ==
  /\ IsOpen(s) /\ strm' = [strm EXCEPT ![s].error = FALSE, ![s].eof = FALSE]
  /\ UNCHANGED <<disk, fdt, orphans, honest>>

StdioInit ==
  /\ disk = StartDisk
  /\ \E p \in DOMAIN StartDisk :
       fdt = [f \in StreamFds |-> IF f = 1 THEN [NoFd EXCEPT !.path = p, !.read = TRUE] ELSE NoFd]
  /\ strm = [s \in Streams |-> IF s = Standard THEN StreamInit(1) ELSE Closed]
  /\ orphans = {} /\ honest = TRUE

StdioNext ==
  \/ \E s \in Streams :
       \/ \E path \in Paths, mode \in StreamModes :
            Freopen(s, path, mode) \/ \E memory \in BOOLEAN : Fopen(s, path, mode, memory)
       \/ \E path \in TempPaths, memory \in BOOLEAN : Tmpfile(s, path, memory)
       \/ Fclose(s)
       \/ \E n \in Counts, bad \in {0, 2} : Fgets(s, n, bad)
       \/ \E bad \in {0, 2} : Getdelim(s, bad) \/ Vfscanf(s, bad)
       \/ \E n \in Counts, fails \in BOOLEAN : Fread(s, n, fails)
       \/ \E c \in Pushed : Ungetc(s, c)
       \/ \E text \in Texts : \E room \in 0..Len(text) : Fwrite(s, text, room) \/ Fputs(s, text, room)
       \/ Fseek(s, 0)
       \/ FseekFails(s) \/ Clearerr(s)
  \/ \E path \in Paths : Remove(path)

StdioSpec == StdioInit /\ [][StdioNext]_stdioVars

-----------------------------------------------------------------------------
StdioTypeOK ==
  /\ \A p \in DOMAIN disk : Len(disk[p]) <= FileMax /\ \A i \in 1..Len(disk[p]) : disk[p][i] \in Chars
  /\ \A s \in Streams : strm[s].fd \in StreamFds \union {0} /\ strm[s].ungot \in Chars \union {None}
  /\ \A f \in StreamFds : fdt[f].off \in Nat

\* Every open descriptor belongs to exactly one open stream: fopen and
\* tmpfile without memory, freopen and fclose leave none behind, and no two
\* streams share one.
DescriptorsOwned ==
  /\ \A f \in StreamFds : fdt[f] # NoFd => Cardinality({s \in Streams : strm[s].fd = f}) = 1
  /\ \A s \in Streams : IsOpen(s) => fdt[strm[s].fd] # NoFd

\* A temporary file lives as long as its stream: only freopen of a tmpfile
\* stream, which forgets the name, leaves one on disk.
TempFilesOwned ==
  \A p \in TempPaths \intersect DOMAIN disk : p \in orphans \/ \E s \in Streams : strm[s].temp = p

\* Whatever mix of fgetc, fgets, getline, fread, fscanf, ungetc and fseek a
\* program uses, each call delivers exactly the next characters of the file,
\* stops early only at the end, at a line end or at an error, and each
\* writing call that reports success has written everything.
CallsHonest == honest

\* Streams own their descriptors and files, and calls report what they did.
StreamsSound ==
  /\ StdioTypeOK /\ DescriptorsOwned /\ TempFilesOwned
  /\ CallsHonest
=============================================================================
