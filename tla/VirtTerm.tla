------------------------------ MODULE VirtTerm ------------------------------
(* The virtual terminals (drivers/tty/virtterm.c), the screen they are      *)
(* drawn on (screen.c) and the keyboard interrupt that switches and scrolls *)
(* them (keyboard.c).  A terminal keeps a circular buffer of rows; head,    *)
(* tail and top are at the start of a row.                                  *)
EXTENDS Integers

CONSTANTS
    DISPLAY_WIDTH, DISPLAY_HEIGHT, ScrollRows,
    NTERMS,
    Printable,  \* characters without a meaning for the terminal
    Keys        \* the keys that are not modifiers, enter and backspace among them

VARIABLES term, cur, screen, mask

vars == <<term, cur, screen, mask>>

DISPLAY_SIZE   == DISPLAY_WIDTH * DISPLAY_HEIGHT
SCROLL_BUFSIZE == DISPLAY_WIDTH * ScrollRows
BLANK == "nul"
With(x, Rest(_)) == Rest(x)

circ_dist(to, from) == (to - from + SCROLL_BUFSIZE) % SCROLL_BUFSIZE
next_row(i) == ((i \div DISPLAY_WIDTH + 1) * DISPLAY_WIDTH) % SCROLL_BUFSIZE
buf_add(p, amt) == (p + amt + SCROLL_BUFSIZE) % SCROLL_BUFSIZE

(* The code has terminals of 80 x 25 over five screenfuls of rows.          *)
SizesOK ==
    /\ DISPLAY_WIDTH \in Nat \ {0}
    /\ DISPLAY_HEIGHT \in Nat \ {0}
    /\ ScrollRows \in Nat /\ ScrollRows >= DISPLAY_HEIGHT + 2
    /\ NTERMS \in Nat \ {0}
    /\ Printable \cap {"BS", "CR", "NL"} = {}

-----------------------------------------------------------------------------
(* What vt_redraw copies from the buffer: from top to tail, at most a       *)
(* screenful, around the end of the buffer; the rest of the screen is blank.*)
Shown(vt) ==
    With(IF vt.top <= vt.tail THEN vt.tail - vt.top
         ELSE SCROLL_BUFSIZE - vt.top + vt.tail, LAMBDA n :
         [i \in 0..(DISPLAY_SIZE - 1) |->
             IF i < n THEN vt.buf[(vt.top + i) % SCROLL_BUFSIZE] ELSE BLANK])

RelCursor(vt) == circ_dist(vt.cursor, vt.top)

vt_redraw(vt) == [cells |-> Shown(vt), cursor |-> RelCursor(vt)]

(* The space a longer tail takes in is cleared, and rows near the head are  *)
(* given up when the buffer is full.                                        *)
Cleared(buf, tail, new_tail) ==
    [i \in DOMAIN buf |->
        IF \/ tail <= new_tail /\ i >= tail /\ i < new_tail
           \/ tail > new_tail /\ (i >= tail \/ i < new_tail)
        THEN BLANK ELSE buf[i]]

handle_tail(vt, cursor) ==
    IF circ_dist(cursor, vt.cursor) < circ_dist(vt.tail, vt.cursor)
    THEN [vt EXCEPT !.cursor = cursor]
    ELSE With(next_row(cursor), LAMBDA new_tail :
         [vt EXCEPT !.head = IF circ_dist(vt.tail, vt.head) >= circ_dist(vt.tail, new_tail)
                             THEN next_row(new_tail) ELSE @,
                    !.buf = Cleared(@, vt.tail, new_tail),
                    !.tail = new_tail,
                    !.cursor = cursor])

vt_handle_char(vt, c) ==
    CASE c = "BS" -> IF vt.cursor # vt.head THEN [vt EXCEPT !.cursor = buf_add(@, -1)] ELSE vt
      [] c = "CR" -> [vt EXCEPT !.cursor = (@ \div DISPLAY_WIDTH) * DISPLAY_WIDTH]
      [] c = "NL" -> handle_tail(vt, next_row(vt.cursor))
      [] c \in Printable -> handle_tail([vt EXCEPT !.buf[vt.cursor] = c], buf_add(vt.cursor, 1))

(* A cursor that is off the screen brings the last rows into view.          *)
Follow(vt) ==
    IF RelCursor(vt) >= DISPLAY_SIZE
    THEN [vt EXCEPT !.top = buf_add(next_row(vt.cursor), -DISPLAY_SIZE)] ELSE vt

DrawnInPlace(old, new, c) ==
    [cells  |-> IF c \in Printable
                THEN [screen.cells EXCEPT ![circ_dist(old.cursor, new.top)] = c] ELSE screen.cells,
     cursor |-> RelCursor(new)]

(* The screen after c: one cell where the top row stayed, else all of it.   *)
Drawn(old, new, c) ==
    IF old.top # new.top THEN vt_redraw(new)
    ELSE [cells  |-> IF c \in Printable
                     THEN [screen.cells EXCEPT ![circ_dist(old.cursor, new.top)] = c]
                     ELSE screen.cells,
          cursor |-> RelCursor(new)]

-----------------------------------------------------------------------------
NewTerm == [head |-> 0, tail |-> DISPLAY_WIDTH, top |-> 0, cursor |-> 0,
            buf |-> [i \in 0..(SCROLL_BUFSIZE - 1) |-> BLANK]]

vt_init ==
    /\ term = [t \in 0..(NTERMS - 1) |-> NewTerm]
    /\ cur = 0
    /\ screen = vt_redraw(NewTerm)
    /\ mask = {}

(* The screen keeps cells for the visible rows only: a cell past them is    *)
(* memory past the text buffer, which nothing reads.                        *)
vt_provide_char(t, c) ==
    /\ \E new \in {vt_handle_char(Follow(term[t]), c)} :
        /\ term' = [term EXCEPT ![t] = new]
        /\ screen' = IF cur = t THEN Drawn(term[t], new, c) ELSE screen
    /\ UNCHANGED <<cur, mask>>

vt_switch(t) ==
    /\ cur' = IF t \in 0..(NTERMS - 1) THEN t ELSE cur
    /\ screen' = IF t \in 0..(NTERMS - 1) THEN vt_redraw(term[t]) ELSE screen
    /\ UNCHANGED term

Scrolled(vt, lines, up) ==
    IF up THEN IF circ_dist(vt.top, vt.head) < lines * DISPLAY_WIDTH THEN [vt EXCEPT !.top = vt.head]
               ELSE [vt EXCEPT !.top = buf_add(@, -lines * DISPLAY_WIDTH)]
    ELSE IF circ_dist(vt.tail, vt.top) < (lines + 1) * DISPLAY_WIDTH
    THEN [vt EXCEPT !.top = buf_add(vt.tail, -DISPLAY_WIDTH)]
    ELSE [vt EXCEPT !.top = buf_add(@, lines * DISPLAY_WIDTH)]

vt_scroll(up) ==
    /\ term' = [term EXCEPT ![cur] = Scrolled(@, DISPLAY_HEIGHT, up)]
    /\ screen' = vt_redraw(term'[cur])
    /\ UNCHANGED cur

-----------------------------------------------------------------------------
(* keyboard_intr_handler, one action for each of its branches.  A scancode  *)
(* is a key and whether it was released; the escape codes 0xe0 and 0xe1     *)
(* have the release bit set, and once it is masked are no known key.        *)
Unseen == UNCHANGED <<term, cur, screen>>

KeyReleased(key) ==
    /\ mask' = CASE key = "shift" -> mask \ {"SHIFT"}
                 [] key = "ctrl"  -> mask \ {"CTRL"}
                 [] OTHER -> mask
    /\ Unseen

ModifierPressed(key) ==
    /\ key \in {"shift", "ctrl"}
    /\ mask' = mask \cup {IF key = "shift" THEN "SHIFT" ELSE "CTRL"}
    /\ Unseen

SwitchKey(t) == vt_switch(t) /\ UNCHANGED mask

ScrollKey(key) ==
    /\ "CTRL" \in mask
    /\ key \in {"enter", "backspace"}
    /\ vt_scroll(key = "backspace")
    /\ UNCHANGED mask

(* Any other key gives a character to the terminal's callback, which does   *)
(* nothing yet.                                                             *)
OtherKey(key) ==
    /\ ~("CTRL" \in mask /\ key \in {"enter", "backspace"})
    /\ UNCHANGED mask /\ Unseen

Next ==
    \/ \E t \in 0..(NTERMS - 1), c \in Printable \cup {"BS", "CR", "NL"} : vt_provide_char(t, c)
    \/ \E key \in {"shift", "ctrl", "escape"} \cup Keys : KeyReleased(key)
    \/ \E key \in {"shift", "ctrl"} : ModifierPressed(key)
    \/ \E t \in 0..NTERMS : SwitchKey(t)
    \/ \E key \in {"enter", "backspace"} : ScrollKey(key)
    \/ \E key \in Keys : OtherKey(key)

Spec == vt_init /\ [][Next]_vars

-----------------------------------------------------------------------------
ScreenShows == screen = vt_redraw(term[cur])

(* A cursor above the top row, so near to it around the end of a full       *)
(* buffer that vt_provide_char takes it for one on the screen.              *)
Misplaced(vt) ==
    /\ circ_dist(vt.tail, vt.top) <= RelCursor(vt)
    /\ RelCursor(vt) < DISPLAY_SIZE

(* A character written there appears below the tail, until the next full    *)
(* redraw.                                                                  *)
WritesMisplaced == Misplaced(term[cur]) /\ \E c \in Printable : vt_provide_char(cur, c)

(* Drawing one cell when the top did not move is as good as drawing all: a  *)
(* screen that shows the current terminal's buffer from its top row goes on *)
(* showing it, unless a character is written at a misplaced cursor; and a   *)
(* scroll, a switch or a cursor that comes back into view make any screen   *)
(* right again.                                                             *)
ScreenFollows ==
    \/ ScreenShows /\ ~WritesMisplaced
    \/ term[cur].top # term'[cur].top
    \/ cur # cur'
    => ScreenShows'

(* The head, the tail and the top stay at starts of rows; the cursor is in  *)
(* the rows from head to tail, and the tail never reaches the head.         *)
CursorInBuffer ==
    \A t \in DOMAIN term :
        LET vt == term[t]
        IN  /\ \A p \in {vt.head, vt.tail, vt.top} : p % DISPLAY_WIDTH = 0
            /\ vt.head # vt.tail
            /\ circ_dist(vt.cursor, vt.head) < circ_dist(vt.tail, vt.head)

=============================================================================
