------------------------------ MODULE Terminal ------------------------------
(***************************************************************************)
(* The way of a key from the PS/2 controller to a program: the interrupt   *)
(* handler and the key buffer of src/core/keyboard.c, and the console part *)
(* of sys_read with the terminal modes of sys_ioctl, in                    *)
(* src/core/syscall.c.                                                     *)
(*                                                                         *)
(* System calls run with interrupts off, so a pass through the loop of     *)
(* sys_read is one step up to the point where the process goes to sleep.   *)
(* A key in the buffer carries the number under which it was typed, and so *)
(* does every byte made from it; the numbers are history.  The reads of    *)
(* the kernel shell (keyboard_getchar, with interrupts on) are left out.   *)
(***************************************************************************)
EXTENDS Integers, Sequences, FiniteSets

CONSTANTS
  Readers,      \* processes with the console as standard input
  Keys,         \* keys of the keyboard: [code |-> ..., ext |-> BOOLEAN]
  RingSize,     \* KEYBOARD_BUFFER_SIZE
  ReadLens,     \* lengths of reads
  MaxTyped      \* bound: keys with a character that are typed

VARIABLES
  held,         \* the keys that are down
  wire,         \* bytes waiting in the controller
  mods,         \* shift_pressed, ctrl_pressed, e0_prefix
  ring,         \* g_keybuf: sequence of [n, key]
  sleepers,     \* g_wait_head: processes waiting for a key
  reader,       \* per process: its call and stdin_pending
  typed,        \* history: number of keys translated so far
  received,     \* history: the bytes each process has got
  droppedKeys,         \* history: numbers of keys that no process will get
  masked        \* history: numbers of keys taken while bytes were pending

termVars == <<held, wire, mods, ring, sleepers, reader, typed, received, droppedKeys, masked>>

Extended == [code |-> "E0", up |-> FALSE]

\* The bytes of a key: E0 comes first for the keys of the extended block.
Scancodes(k, up) ==
  IF k.ext THEN <<Extended, [code |-> k.code, up |-> up]>> ELSE <<[code |-> k.code, up |-> up]>>

-----------------------------------------------------------------------------
(* The interrupt handler.                                                  *)

ExtendedKeys == {"home", "end", "delete", "pgup", "pgdn", "up"}

NoCode == "none"

\* maybe_ctrlify and the two tables; "a" stands for the letters.
Character(md, code) ==
  CASE code = "a" -> IF md.ctrl THEN "^A" ELSE IF md.shift THEN "A" ELSE "a"
    [] code = "enter" -> "\n"
    [] OTHER -> NoCode

\* translate_scancode
Translate(md, b) ==
  IF b = Extended THEN [mods |-> [md EXCEPT !.e0 = TRUE], key |-> NoCode]
  ELSE IF md.e0
  THEN [mods |-> [md EXCEPT !.e0 = FALSE, !.ctrl = IF b.code = "ctrl" THEN ~b.up ELSE @],
        key |-> IF b.code \in ExtendedKeys /\ ~b.up THEN b.code ELSE NoCode]
  ELSE [mods |-> [md EXCEPT !.shift = IF b.code = "shift" THEN ~b.up ELSE @,
                            !.ctrl = IF b.code = "ctrl" THEN ~b.up ELSE @],
        key |-> IF b.up THEN NoCode ELSE Character(md, b.code)]

\* keybuf_push: a key that finds the buffer full is dropped.
Push(S, key) ==
  IF Len(S.ring) >= RingSize
  THEN [S EXCEPT !.typed = @ + 1, !.droppedKeys = @ \cup {S.typed + 1}]
  ELSE [S EXCEPT !.typed = @ + 1, !.ring = Append(@, [n |-> S.typed + 1, key |-> key])]

\* keyboard_wait_pop and scheduler_add
WakeOne(S) ==
  IF S.sleepers = <<>> THEN S
  ELSE [S EXCEPT !.woken = @ \cup {Head(S.sleepers)}, !.sleepers = Tail(@)]

TakeTranslated(S, t) ==
  IF t.key = NoCode THEN [S EXCEPT !.mods = t.mods]
  ELSE WakeOne(Push([S EXCEPT !.mods = t.mods], t.key))

\* The loop of keyboard_interrupt_handler, over the bytes there are.
HandleAll(S, bytes) ==
  LET H[i \in 0..Len(bytes)] ==
        IF i = 0 THEN S ELSE TakeTranslated(H[i - 1], Translate(H[i - 1].mods, bytes[i]))
  IN H[Len(bytes)]

\* The interrupt comes when the first "n" bytes of the key have arrived.
KeyboardInterrupt ==
  /\ wire # <<>>
  /\ \E n \in 1..Len(wire) :
     \E S \in {HandleAll([mods |-> mods, ring |-> ring, sleepers |-> sleepers, woken |-> {},
                          typed |-> typed, droppedKeys |-> droppedKeys], SubSeq(wire, 1, n))} :
       /\ wire' = SubSeq(wire, n + 1, Len(wire))
       /\ mods' = S.mods /\ ring' = S.ring /\ sleepers' = S.sleepers
       /\ typed' = S.typed /\ droppedKeys' = S.droppedKeys
       /\ reader' = [r \in Readers |->
                       IF r \in S.woken THEN [reader[r] EXCEPT !.state = "ready"] ELSE reader[r]]
  /\ UNCHANGED <<held, received, masked>>

\* A key goes down, or repeats; it goes up.  Only for modifiers does it matter
\* which ones are down.  The controller holds the bytes of one key.
IsModifier(k) == k.code \in {"shift", "ctrl"}

Send(bytes) ==
  /\ wire = <<>>
  /\ wire' = bytes
  /\ UNCHANGED <<mods, ring, sleepers, reader, typed, received, droppedKeys, masked>>

Press(k) ==
  /\ typed < MaxTyped
  /\ held' = IF IsModifier(k) THEN held \cup {k} ELSE held
  /\ Send(Scancodes(k, FALSE))

Release(k) ==
  /\ IsModifier(k) => k \in held
  /\ held' = held \ {k}
  /\ Send(Scancodes(k, TRUE))

-----------------------------------------------------------------------------
(* sys_read of the console.  A call in progress is a record: "want" bytes, *)
(* "got" so far; R adds the buffer and the history to it.                  *)

\* stdin_queue_escape, stdin_queue_escape_string: what the key becomes.  An
\* empty sequence is a key that only scrolls the console.
EscapeOf(key, raw) ==
  CASE key = "up" -> <<"ESC", "[", "A">>
    [] key = "home" -> <<"ESC", "[", "H">>
    [] key = "end" -> <<"ESC", "[", "F">>
    [] key = "delete" -> <<"ESC", "[", "3", "~">>
    [] key = "pgup" -> IF raw THEN <<"ESC", "[", "5", "~">> ELSE <<>>
    [] key = "pgdn" -> IF raw THEN <<"ESC", "[", "6", "~">> ELSE <<>>

Numbered(n, bytes) == [i \in 1..Len(bytes) |-> [n |-> n, i |-> i, last |-> i = Len(bytes)]]

NoEntry == [n |-> 0, key |-> NoCode]

\* keybuf_pop
Popped(R) == IF R.ring = <<>> THEN NoEntry ELSE Head(R.ring)
AfterPopPeeks(R) == IF R.pending # <<>> THEN R ELSE IF R.ring = <<>> THEN R ELSE [R EXCEPT !.ring = Tail(@)]

AfterPop(R) ==
  IF R.ring = <<>> THEN R
  ELSE [R EXCEPT !.ring = Tail(@),
                 !.masked = IF R.pending # <<>> THEN @ \cup {Head(R.ring).n} ELSE @]

\* The inner loop: bytes of an earlier key go first.
Drain(R) ==
  LET m == IF R.want - Len(R.got) < Len(R.pending) THEN R.want - Len(R.got) ELSE Len(R.pending)
  IN [R EXCEPT !.got = @ \o SubSeq(R.pending, 1, m),
               !.pending = SubSeq(@, m + 1, Len(@))]

\* The end of the call; the key taken before the drain is not put back.
DropKey(R, e) == IF e = NoEntry THEN R ELSE [R EXCEPT !.droppedKeys = @ \cup {e.n}]

RECURSIVE ReadLoop(_)

QueueEscape(R, e) == [R EXCEPT !.pending = Numbered(e.n, EscapeOf(e.key, R.raw))]

\* What becomes of the key e.
Deliver(R, e) ==
  IF e.key \in ExtendedKeys THEN ReadLoop(QueueEscape(R, e))
  ELSE IF e.key = "\n"
  THEN [R EXCEPT !.got = @ \o Numbered(e.n, <<IF R.raw THEN "\r" ELSE "\n">>), !.state = "done"]
  ELSE IF Len(R.got) + 1 = R.want
  THEN [R EXCEPT !.got = @ \o Numbered(e.n, <<e.key>>), !.state = "done"]
  ELSE ReadLoop([R EXCEPT !.got = @ \o Numbered(e.n, <<e.key>>)])

DisposeEarly(R, e) ==
  IF Len(R.got) + 1 >= R.want THEN [DropKey(R, e) EXCEPT !.state = "done"]
  ELSE IF e = NoEntry THEN [R EXCEPT !.state = "asleep"]
  ELSE Deliver(R, e)

Dispose(R, e) ==
  IF Len(R.got) >= R.want THEN [DropKey(R, e) EXCEPT !.state = "done"]
  ELSE IF e = NoEntry THEN [R EXCEPT !.state = "asleep"]
  ELSE Deliver(R, e)

ReadLoop(R) == Dispose(Drain(AfterPop(R)), Popped(R))

CallOf(r, want) ==
  [want |-> want, got |-> reader[r].got, pending |-> reader[r].pending, raw |-> reader[r].raw,
   state |-> "run", ring |-> ring, droppedKeys |-> droppedKeys, masked |-> masked]

\* A pass of process r ends: it goes to sleep, or the call is over.
SettleKeys(r, R) ==
  /\ ring' = R.ring /\ droppedKeys' = R.droppedKeys /\ masked' = R.masked
  /\ sleepers' = IF R.state = "asleep" THEN Append(sleepers, r) ELSE sleepers
  /\ reader' = [reader EXCEPT ![r] =
       IF R.state = "asleep"
       THEN [@ EXCEPT !.state = "asleep", !.want = R.want, !.got = R.got, !.pending = R.pending]
       ELSE [@ EXCEPT !.state = "user", !.want = 0, !.got = <<>>, !.pending = R.pending]]
  /\ received' = [received EXCEPT ![r] = IF R.state = "done" THEN @ \o R.got ELSE @]
  /\ UNCHANGED <<held, wire, mods, typed>>

\* sys_read
Read(r, want) ==
  /\ reader[r].state = "user"
  /\ \E R \in {ReadLoop(CallOf(r, want))} : SettleKeys(r, R)

\* The scheduler runs a process that a key has woken: it goes round the loop.
Resume(r) ==
  /\ reader[r].state = "ready"
  /\ \E R \in {ReadLoop(CallOf(r, reader[r].want))} : SettleKeys(r, R)

\* sys_ioctl: TCSETS changes between canonical and raw mode.
SetRaw(r, raw) ==
  /\ reader[r].state = "user"
  /\ reader' = [reader EXCEPT ![r].raw = raw]
  /\ UNCHANGED <<held, wire, mods, ring, sleepers, typed, received, droppedKeys, masked>>

-----------------------------------------------------------------------------
TermInit ==
  /\ held = {} /\ wire = <<>> /\ ring = <<>> /\ sleepers = <<>>
  /\ mods = [shift |-> FALSE, ctrl |-> FALSE, e0 |-> FALSE]
  /\ reader = [r \in Readers |-> [state |-> "user", want |-> 0, got |-> <<>>, pending |-> <<>>,
                                  raw |-> FALSE]]
  /\ typed = 0 /\ droppedKeys = {} /\ masked = {}
  /\ received = [r \in Readers |-> <<>>]

TermNext ==
  \/ \E k \in Keys : Press(k) \/ Release(k)
  \/ KeyboardInterrupt
  \/ \E r \in Readers :
       \/ \E n \in ReadLens : Read(r, n)
       \/ Resume(r)
       \/ \E raw \in BOOLEAN : SetRaw(r, raw)

-----------------------------------------------------------------------------
(* Properties.                                                             *)

\* The bytes process r has got, holds in its call, or has pending, in order.
Stream(r) == received[r] \o reader[r].got \o reader[r].pending

TermTypeOK ==
  /\ Len(ring) <= RingSize /\ Len(wire) <= 2
  /\ \A r \in Readers : /\ Len(reader[r].got) <= reader[r].want
                        /\ reader[r].state = "asleep" <=> \E i \in 1..Len(sleepers) : sleepers[i] = r

\* The bytes a process gets are in the order in which the keys were typed, and
\* the escape sequence of a key arrives whole: its bytes follow each other with
\* nothing left out or put in between, over any number of reads of any length.
KeysInOrder ==
  \A r \in Readers : \A j \in 1..(Len(Stream(r)) - 1) :
    LET x == Stream(r)[j]
        y == Stream(r)[j + 1]
    IN \/ x.n = y.n /\ y.i = x.i + 1
       \/ x.n < y.n /\ x.last /\ y.i = 1

\* Every key is in one place: still in the buffer, given to one process, or
\* droppedKeys.  (Keys that only scroll the console vanish.)
EachKeyOnce ==
  LET inRing == {ring[i].n : i \in 1..Len(ring)}
      got(r) == {Stream(r)[j].n : j \in 1..Len(Stream(r))}
  IN /\ inRing \cap droppedKeys = {}
     /\ \A r \in Readers : got(r) \cap (inRing \cup droppedKeys) = {}
     /\ \A r, s \in Readers : r # s => got(r) \cap got(s) = {}

\* A key that was typed while the buffer had room reaches a program, unless
\* sys_read took it out of the buffer while bytes of an earlier key were still
\* pending: then, when those bytes fill the request, the call returns and the
\* key is gone.
LostOnlyBehindEscape ==
  [][\A n \in droppedKeys' \ droppedKeys : n > typed \/ n \in masked']_termVars

\* No process sleeps while a key is waiting that nobody is on the way to take:
\* with sleepers, there are at least as many woken readers as keys.
NoSleepOverKeys ==
  sleepers # <<>> => Len(ring) <= Cardinality({r \in Readers : reader[r].state = "ready"})

\* No modifier sticks: when all keys are up and all bytes have been handled,
\* neither shift nor control is on, also when interrupts split the bytes of the
\* extended keys.
NoStuckModifier ==
  held = {} /\ wire = <<>> => mods = [shift |-> FALSE, ctrl |-> FALSE, e0 |-> FALSE]

\* What is typed arrives: in order, once, and without a reader asleep over it.
KeysDelivered ==
  /\ TermTypeOK /\ KeysInOrder /\ EachKeyOnce
  /\ NoSleepOverKeys /\ NoStuckModifier
=============================================================================
