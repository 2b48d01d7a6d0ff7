-------------------------------- MODULE Console --------------------------------
(***************************************************************************)
(* Asking for the passphrase: bios_print of the prompt, bios_clear_kbd_buf *)
(* and bios_read_line of src/boot1/bios.c, called one after the other by   *)
(* main.                                                                   *)
(*                                                                         *)
(* Two actors share the BIOS keyboard buffer: the keyboard interrupt puts  *)
(* keys into it at any time and drops them when it is full, the loader     *)
(* takes them out.  The loader also writes to the screen, which nobody     *)
(* else does; it is a line of cells, COLUMNS to a row and more rows than   *)
(* the keys can fill, and the prompt goes into the first of them.          *)
(***************************************************************************)
EXTENDS Integers, Sequences, FiniteSets

CONSTANTS
  Chars,     \* the keys that bios_read_line stores
  maxlen,    \* its length limit
  FlagSets,  \* the flags it may be called with, each the set of its bits that are 1
  KBD_BUF,   \* keys the BIOS buffer holds
  COLUMNS,   \* cells in a row of the screen
  Prompt,    \* the characters of the prompt, without the NUL that ends it
  MaxKeys    \* bound of the model: key presses

BS == "BACKSPACE"
CR == "RETURN"
ESC == "ESC"
Keys == Chars \cup {BS, CR, ESC}

(* Two more control characters are characters to bios_read_line, but not   *)
(* to the screen.                                                          *)
BEL == "BEL"
LF == "LF"
Controls == {BEL, LF}

(* BIOS_RL_ECHO is bit 0, BIOS_RL_ECHO_STAR bits 0 and 1, BIOS_RL_CAN_ESC *)
(* bit 2.                                                                  *)
BIOS_RL_ECHO == {0}
BIOS_RL_ECHO_STAR == {0, 1}
BIOS_RL_CAN_ESC == {2}

ASSUME ConsoleAssumption ==
  /\ Chars \cap {BS, CR, ESC, "*", " "} = {}
  /\ Chars # {}
  /\ maxlen \in Nat
  /\ FlagSets \subseteq SUBSET (0 .. 2)
  /\ KBD_BUF \in Nat \ {0}
  /\ COLUMNS \in Nat \ {0}
  /\ Prompt \in Seq(STRING \ Controls)
  /\ Len(Prompt) < COLUMNS
  /\ MaxKeys \in Nat

BLANK == " "
UNSET == "unset"
START == Len(Prompt)
Cells == 0 .. START + maxlen + (MaxKeys + KBD_BUF) * COLUMNS

VARIABLES
  flags,     \* the flags of the call
  kbd,       \* the BIOS keyboard buffer
  pc,        \* where the loader is
  buf,       \* the caller's buffer
  read,      \* characters in it
  result,    \* what bios_read_line returned
  cursor,    \* the cursor's cell
  screen,
  torn,      \* the cursor was sent to column -1 of a row
  typed,     \* history: number of key presses
  taken,     \* history: keys bios_read_line took
  accepted   \* history: keys the BIOS buffer accepted once the drain was over

keyboard == <<kbd, typed, accepted>>
line == <<buf, read>>
display == <<cursor, screen, torn>>
vars == <<flags, keyboard, pc, line, result, display, taken>>

Init == /\ flags \in FlagSets
        /\ kbd \in UNION {[1 .. n -> {CHOOSE c \in Chars : TRUE}] : n \in 0 .. KBD_BUF}
        /\ pc = "print"
        /\ buf = [p \in 0 .. maxlen - 1 |-> UNSET]
        /\ read = 0
        /\ result = 0
        /\ cursor = 0
        /\ screen = [p \in Cells |-> BLANK]
        /\ torn = FALSE
        /\ typed = 0
        /\ taken = <<>>
        /\ accepted = <<>>

(* The keyboard interrupt. *)
KeyPressed(k) ==
  /\ typed < MaxKeys
  /\ typed' = typed + 1
  /\ IF Len(kbd) < KBD_BUF
       THEN kbd' = Append(kbd, k) /\ accepted' = Append(accepted, k)
       ELSE UNCHANGED <<kbd, accepted>>
  /\ UNCHANGED <<flags, pc, line, result, display, taken>>

(* Teletype output moves on to the next cell, in the next row when the row *)
(* is full; a bell takes no cell, and a line feed none but moves down.     *)
(* What a cell past the torn row shows depends on the BIOS, and is not     *)
(* followed.                                                               *)
Putc(c) ==
  IF torn THEN UNCHANGED display
  ELSE /\ screen' = IF c \in Controls THEN screen ELSE [screen EXCEPT ![cursor] = c]
       /\ cursor' = CASE c = BEL -> cursor
                       [] c = LF -> cursor + COLUMNS
                       [] OTHER -> cursor + 1
       /\ UNCHANGED torn

(* bios_print takes characters up to the NUL; the cursor, which starts in  *)
(* the first cell, moves along with SI.                                    *)
PrintChar ==
  /\ pc = "print"
  /\ cursor < START
  /\ Putc(Prompt[cursor + 1])
  /\ UNCHANGED <<keyboard, pc, line, result, taken>>

PrintEnd ==
  /\ pc = "print"
  /\ cursor = START
  /\ pc' = "peek"
  /\ UNCHANGED <<keyboard, line, result, display, taken>>

(* bios_clear_kbd_buf: peek, take the key if there is one, peek again. *)
PeekKey ==
  /\ pc = "peek"
  /\ kbd # <<>>
  /\ pc' = "drop"
  /\ UNCHANGED <<keyboard, line, result, display, taken>>

DropKey ==
  /\ pc = "drop"
  /\ kbd' = Tail(kbd)
  /\ pc' = "peek"
  /\ UNCHANGED <<typed, accepted, line, result, display, taken>>

DrainOver ==
  /\ pc = "peek"
  /\ accepted' = <<>>
  /\ pc' = "getc"
  /\ UNCHANGED <<kbd, typed, line, result, display, taken>>

(* Mutant: the drain takes one key at most. *)
PeekOnce == DrainOver

PeekNone == kbd = <<>> /\ DrainOver

(* The loop test, and inl_bios_getc, which waits for a key. *)
Getc(c) ==
  /\ pc = "getc"
  /\ read # maxlen
  /\ kbd # <<>>
  /\ c = Head(kbd)
  /\ kbd' = Tail(kbd)
  /\ taken' = Append(taken, c)
  /\ UNCHANGED <<typed, accepted>>

(* inl_bios_unputc decrements the column and blanks the cell there. *)
Unputc ==
  IF torn \/ cursor % COLUMNS = 0
  THEN torn' = TRUE /\ UNCHANGED <<cursor, screen>>
  ELSE /\ cursor' = cursor - 1
       /\ screen' = [screen EXCEPT ![cursor - 1] = BLANK]
       /\ UNCHANGED torn

Echo == flags \cap BIOS_RL_ECHO # {}
EchoStar == flags \cap BIOS_RL_ECHO_STAR = BIOS_RL_ECHO_STAR
CanEsc == flags \cap BIOS_RL_CAN_ESC # {}
Shown(c) == IF EchoStar THEN "*" ELSE c

Back == read' = read - 1 /\ (IF Echo THEN Unputc ELSE UNCHANGED display)

BackspaceBy(step) ==
  /\ Getc(BS)
  /\ step
  /\ UNCHANGED <<pc, buf, result>>

(* Mutants: the count, or only the screen, moves back at the line's start. *)
BackspaceAlways == BackspaceBy(Back)
BackspaceErasesPrompt ==
  BackspaceBy(IF read > 0 THEN Back ELSE read' = 0 /\ (IF Echo THEN Unputc ELSE UNCHANGED display))

Backspace == BackspaceBy(IF read > 0 THEN Back ELSE UNCHANGED <<read, display>>)

ReturnTo(next) ==
  /\ Getc(CR)
  /\ result' = read
  /\ pc' = next
  /\ UNCHANGED <<line, display>>

(* Mutant: RETURN leaves the switch and not the loop. *)
ReturnBreaks == ReturnTo("getc")

Return == ReturnTo("done")

EscapeIf(gives_up) ==
  /\ Getc(ESC)
  /\ IF gives_up THEN result' = -1 /\ pc' = "done"
                 ELSE UNCHANGED <<result, pc>>
  /\ UNCHANGED <<line, display>>

(* Mutant: ESC gives up whatever the flags say. *)
EscapeAlways == EscapeIf(TRUE)

Escape == EscapeIf(CanEsc)

Store(c) ==
  /\ Getc(c)
  /\ buf' = [buf EXCEPT ![read] = c]
  /\ read' = read + 1
  /\ IF Echo THEN Putc(Shown(c)) ELSE UNCHANGED display
  /\ UNCHANGED <<pc, result>>

Full ==
  /\ pc = "getc"
  /\ read = maxlen
  /\ result' = read
  /\ pc' = "done"
  /\ UNCHANGED <<keyboard, line, display, taken>>

LoaderStep == /\ \/ PrintChar \/ PrintEnd
                 \/ PeekKey \/ DropKey \/ PeekNone
                 \/ Backspace \/ Return \/ Escape \/ Full
                 \/ \E c \in Chars : Store(c)
              /\ UNCHANGED flags

Next == LoaderStep \/ \E k \in Keys : KeyPressed(k)

Spec == Init /\ [][Next]_vars

(* The processor keeps running the loader; nobody has to press a key. *)
FairSpec == Spec /\ WF_vars(LoaderStep)
-----------------------------------------------------------------------------
(* What a person means by a sequence of keys: a character stays unless the *)
(* backspaces that follow it, up to some point, outnumber the characters   *)
(* that do.                                                                *)
Count(keys, S, p, q) == Cardinality({n \in p .. q : keys[n] \in S})

Stays(keys, p) ==
  /\ keys[p] \in Chars
  /\ \A q \in p .. Len(keys) :
       Count(keys, {BS}, p + 1, q) <= Count(keys, Chars, p + 1, q)

Survivors(keys) ==
  LET kept == {p \in 1 .. Len(keys) : Stays(keys, p)}
      at(n) == CHOOSE p \in kept : Cardinality({q \in kept : q <= p}) = n
  IN  [n \in 1 .. Cardinality(kept) |-> keys[at(n)]]

Prefix(n) == SubSeq(taken, 1, n)
Line == [n \in 1 .. read |-> buf[n - 1]]

(* The pointer and the count of bios_read_line, moved together over a      *)
(* buffer that is never cleared, hold exactly the characters that survive  *)
(* the backspaces typed so far.                                            *)
LineIsWhatSurvives == Line = Survivors(taken)

(* The line ends at the first key that ends it, with the result that this  *)
(* key calls for, and no later key is taken from the buffer.               *)
Ends(n) == \/ taken[n] = CR
           \/ taken[n] = ESC /\ CanEsc
           \/ Len(Survivors(Prefix(n))) = maxlen

EndsOnce ==
  /\ \A n \in 1 .. Len(taken) - 1 : ~Ends(n)
  /\ pc = "done" /\ taken # <<>> =>
       /\ Ends(Len(taken))
       /\ result = IF taken[Len(taken)] = ESC THEN -1 ELSE Len(Line)

(* No key is lost or reordered between the drain and the line: what was    *)
(* typed before the drain's last look at the buffer is gone, and every key *)
(* the buffer accepted after it is in the line's input or still to come.   *)
NoKeyLost == pc \in {"getc", "done"} => taken \o kbd = accepted

ShownFor(c) == IF {0, 1} \subseteq flags THEN "*" ELSE c

(* The screen shows the prompt, which no backspace erases, and behind it   *)
(* one cell per character held, a star if both echo bits are set; the      *)
(* cursor is behind them.  It goes out of step only when a backspace meets *)
(* the first column, and that takes a line that has once reached the end   *)
(* of its row.                                                             *)
InStep ==
  IF torn
    THEN \E n \in 1 .. Len(taken) : Len(Survivors(Prefix(n))) >= COLUMNS - START
    ELSE pc # "print" =>
           /\ cursor = START + (IF Echo THEN read ELSE 0)
           /\ screen = [p \in Cells |-> IF p < START THEN Prompt[p + 1]
                                       ELSE IF Echo /\ p < START + read
                                         THEN ShownFor(buf[p - START]) ELSE BLANK]

(* The stars hide what a control character would do to the screen.  A call *)
(* that echoes the characters themselves has no such protection, and main  *)
(* makes none.                                                             *)
ControlEchoed ==
  /\ flags \cap {0, 1} = {0}
  /\ \E n \in 1 .. Len(taken) : taken[n] \in Controls

EchoInStep == ControlEchoed \/ InStep

(* A RETURN in the keyboard buffer is eventually heard, whatever is typed  *)
(* around it.                                                              *)
ReturnHeard ==
  (pc = "getc" /\ \E n \in DOMAIN kbd : kbd[n] = CR) ~> (pc = "done")
=============================================================================
