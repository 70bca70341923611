---------------------------------- MODULE Vfd ----------------------------------
(***************************************************************************)
(* The vacuum fluorescent display (millennium_vfd_model.cpp): octets of    *)
(* the command register and of the data register become a text of cells,   *)
(* marks beside the cells and, kept in step by hand at every edit, the     *)
(* plane of dots that is drawn.                                            *)
(***************************************************************************)
EXTENDS Naturals, Sequences

CONSTANTS
    Rows, Columns,      \* the display profile
    DataOctets,         \* bound: octets for the data register
    CommandOctets,      \* bound: octets for the command register
    GlyphColumns,       \* columns of a user glyph: 5
    MaxLogged           \* bound: octets taken since the last reset, the length of m_raw_log

ASSUME VfdAssumption ==
    /\ Rows \in Nat \ {0} /\ Columns \in Nat \ {0}
    /\ DataOctets \subseteq 0..255 /\ CommandOctets \subseteq 0..255
    /\ GlyphColumns \in Nat \ {0} /\ MaxLogged \in Nat

VARIABLES
    vfd     \* the display

vfdVars == <<vfd>>

Cell == (0..Rows - 1) \X (0..Columns - 1)

\* Character codes the bound lets into cells.
Code == {32} \cup {b \in DataOctets : b >= 32}

\* The glyph of a code: the font's or the one last programmed for it.
Font == <<>>
Glyph == {Font} \cup [1..GlyphColumns -> DataOctets]

\* What a cell's dots show; no dot is lit in Dark, the font's glyph of a space.
Dots == [code : Code, glyph : Glyph, comma : BOOLEAN, arrow : BOOLEAN]
Dark == [code |-> 32, glyph |-> Font, comma |-> FALSE, arrow |-> FALSE]

VfdReset ==
    [cells |-> [c \in Cell |-> 32], comma |-> {}, arrow |-> {}, glyphs |-> [b \in Code |-> Font],
     dots |-> [c \in Cell |-> Dark], at |-> <<0, 0>>, mode |-> "normal", pending |-> 0, left |-> 0, args |-> <<>>,
     increment |-> TRUE, scroll |-> "none", panel |-> {}, blinkAt |-> 0, level |-> 255,
     decoded |-> FALSE, printed |-> FALSE, m6 |-> FALSE, busy |-> FALSE, logged |-> 0]

VfdInit == vfd = VfdReset
-----------------------------------------------------------------------------
\* rebuild_cell_dots: an arrow shows in the bottom row only.
Rebuilt(v, c) == [code |-> v.cells[c], glyph |-> v.glyphs[v.cells[c]],
                  comma |-> c \in v.comma, arrow |-> c \in v.arrow /\ c[1] = Rows - 1]

Rebuild(v, cells) == [v EXCEPT !.dots = [c \in Cell |-> IF c \in cells THEN Rebuilt(v, c) ELSE @[c]]]

\* mark_decoded_command and try_finalize_m6.
Finalized(v) == [v EXCEPT !.m6 = @ \/ ((v.decoded \/ v.printed) /\ \E c \in Cell : v.cells[c] # 32)]
Decode(v) == Finalized([v EXCEPT !.decoded = TRUE])

ClearDisplay(v) ==
    Decode([v EXCEPT !.cells = [c \in Cell |-> 32], !.comma = {}, !.arrow = {},
                     !.glyphs = [b \in Code |-> Font], !.dots = [c \in Cell |-> Dark], !.at = <<0, 0>>])

SoftwareReset(v) ==
    [ClearDisplay(v) EXCEPT !.increment = TRUE, !.scroll = "none", !.panel = {}, !.blinkAt = 0,
                            !.pending = 0, !.left = 0, !.args = <<>>]

\* The text moves up a row; the marks stay where they are.
ScrolledUp(v) ==
    Rebuild([v EXCEPT !.cells = [c \in Cell |-> IF c[1] = Rows - 1 THEN 32 ELSE @[<<c[1] + 1, c[2]>>]]], Cell)

LineFeed(v) ==
    Decode(IF v.at[1] + 1 < Rows THEN [v EXCEPT !.at[1] = @ + 1] ELSE ScrolledUp(v))

\* Where the cursor goes after a character, before a scroll.
Advance(v) ==
    LET r == v.at[1]
        c == v.at[2]
    IN IF v.increment
       THEN IF c + 1 < Columns THEN <<r, c + 1>>
            ELSE IF r + 1 < Rows THEN <<r + 1, 0>>
            ELSE IF v.scroll = "vertical" THEN <<r, 0>> ELSE <<0, 0>>
       ELSE IF c > 0 THEN <<r, c - 1>> ELSE <<IF r > 0 THEN r - 1 ELSE r, Columns - 1>>

\* write_glyph_byte.
WriteGlyph(v, b) ==
    LET r == v.at[1]
        last == v.at[2] = Columns - 1
        row == {c \in Cell : c[1] = r}
        put == Rebuild([v EXCEPT !.cells[v.at] = b, !.printed = TRUE], {v.at})
    IN IF v.scroll = "horizontal" /\ last
       THEN Finalized(Rebuild([v EXCEPT !.cells = [c \in Cell |-> IF c[1] # r THEN @[c]
                                                               ELSE IF c[2] = Columns - 1 THEN b
                                                               ELSE @[<<r, c[2] + 1>>]],
                                        !.printed = TRUE], row))
       ELSE Finalized([IF v.increment /\ last /\ r = Rows - 1 /\ v.scroll = "vertical" THEN ScrolledUp(put) ELSE put
                       EXCEPT !.at = Advance(v)])

\* 0x18 and 0x19: a comma after the cell, an arrow in the bottom row.
Annotate(v, b) ==
    Decode(Rebuild([v EXCEPT !.comma = IF b = 24 THEN @ \cup {v.at} ELSE @,
                             !.arrow = IF b = 25 /\ v.at[1] = Rows - 1 THEN @ \cup {v.at} ELSE @], {v.at}))

Await(v, command, n) ==
    [v EXCEPT !.mode = "param", !.pending = command, !.left = n, !.args = <<>>]

CursorAt(n) == LET p == IF n >= Rows * Columns THEN Rows * Columns - 1 ELSE n
               IN <<p \div Columns, p % Columns>>
-----------------------------------------------------------------------------
\* handle_normal.
NormalOctet(v, b) ==
    CASE b = 27 -> [v EXCEPT !.mode = "esc"]
      [] b \in {12, 14} -> ClearDisplay(v)
      [] b = 8 -> Decode([v EXCEPT !.at[2] = IF @ > 0 THEN @ - 1 ELSE @])
      [] b = 9 -> Decode([v EXCEPT !.at[2] = IF 4 * (@ \div 4 + 1) >= Columns THEN Columns - 1
                                             ELSE 4 * (@ \div 4 + 1)])
      [] b = 13 -> Decode([v EXCEPT !.at[2] = 0])
      [] b = 10 -> LineFeed(v)
      [] b = 16 -> Decode([v EXCEPT !.increment = FALSE])
      [] b = 17 -> Decode([v EXCEPT !.increment = TRUE, !.scroll = "none"])
      [] b = 18 -> Decode([v EXCEPT !.scroll = "vertical"])
      [] b = 21 -> Decode([v EXCEPT !.scroll = "horizontal", !.increment = TRUE])
      [] b = 19 -> Decode([v EXCEPT !.panel = @ \cup {"cursor"}])
      [] b = 20 -> Decode([v EXCEPT !.panel = @ \ {"cursor"}])
      [] b = 23 -> Decode([v EXCEPT !.panel = @ \ {"blink"}, !.blinkAt = 0])
      [] b = 29 -> Decode([v EXCEPT !.panel = @ \ {"katakana"}])
      [] b = 30 -> Decode([v EXCEPT !.panel = @ \cup {"katakana"}])
      [] b = 31 -> Decode([v EXCEPT !.panel = @ \cup {"extended"}])
      [] b \in {24, 25} -> Annotate(v, b)
      [] b \in {22, 26} -> Await(v, b, 1)
      [] b = 28 -> Await(v, b, GlyphColumns + 1)
      [] b >= 32 -> WriteGlyph(v, b)
      [] OTHER -> v

\* After ESC; the seven low bits of the octet select.
EscapeOctet(v, b) ==
    LET n == [v EXCEPT !.mode = "normal"]
    IN CASE b % 128 \in {64, 2} -> ClearDisplay(n)
         [] b % 128 = 1 -> Decode([n EXCEPT !.at = <<0, 0>>])
         [] b % 128 = 73 -> SoftwareReset(n)
         [] b % 128 = 83 -> Decode([n EXCEPT !.panel = @ \cup {"flickerless"}])
         [] b % 128 \in {56, 57} -> Await([v EXCEPT !.panel = @ \cup {"extended"}], b % 128, 5)
         [] b % 128 \in {88, 89} -> Decode([n EXCEPT !.panel = @ \cup {"extended"}])
         [] b % 128 \in {72, 76, 84} -> Await(v, b % 128, 1)
         [] b % 128 = 67 -> Await(v, b % 128, 2)
         [] b % 128 \in {0, 3, 15} -> Decode(n)
         [] OTHER -> n

\* A parameter; the last one carries the pending command out.
ParamOctet(v, b) ==
    LET w == Decode([v EXCEPT !.args = Append(@, b), !.left = @ - 1])
        done == [w EXCEPT !.mode = "normal", !.pending = 0, !.args = <<>>]
        code == w.args[1]
        named == [done EXCEPT !.glyphs[code] = SubSeq(w.args, 2, GlyphColumns + 1)]
    IN IF w.left > 0 THEN w
       ELSE CASE v.pending \in {76, 26} -> [done EXCEPT !.level = code]
              [] v.pending = 72 -> [done EXCEPT !.at = CursorAt(code)]
              [] v.pending = 22 -> [done EXCEPT !.panel = @ \cup {"blink"}, !.blinkAt = code]
              [] v.pending = 28 /\ code \in Code -> Rebuild(named, {c \in Cell : v.cells[c] = code})
              [] OTHER -> done

\* A write to the data register; every write makes the display busy for a while.
WriteData(b) ==
    LET next == IF vfd.mode = "normal" THEN NormalOctet(vfd, b)
                ELSE IF vfd.mode = "esc" THEN EscapeOctet(vfd, b) ELSE ParamOctet(vfd, b)
    IN /\ vfd.logged < MaxLogged
       /\ vfd' = [next EXCEPT !.busy = TRUE, !.logged = @ + 1]

\* A write to the command register abandons a sequence; 0x40 resets, else it is a position.
WriteCommand(b) ==
    LET v == [vfd EXCEPT !.mode = "normal", !.pending = IF vfd.mode = "normal" THEN @ ELSE 0,
                         !.left = IF vfd.mode = "normal" THEN @ ELSE 0,
                         !.args = IF vfd.mode = "normal" THEN @ ELSE <<>>]
        next == IF b = 64 THEN SoftwareReset(v) ELSE Decode([v EXCEPT !.at = CursorAt(b)])
    IN /\ vfd.logged < MaxLogged
       /\ vfd' = [next EXCEPT !.busy = TRUE, !.logged = @ + 1]

BusyEnds == vfd.busy /\ vfd' = [vfd EXCEPT !.busy = FALSE]

VfdDeviceReset == vfd' = VfdReset

VfdNext ==
    \/ \E b \in DataOctets : WriteData(b)
    \/ \E b \in CommandOctets : WriteCommand(b)
    \/ BusyEnds
    \/ VfdDeviceReset

VfdSpec == VfdInit /\ [][VfdNext]_vfdVars
-----------------------------------------------------------------------------
\* The display has its type: the cursor never leaves the cells.
VfdTypeOK ==
    /\ vfd.cells \in [Cell -> Code] /\ vfd.dots \in [Cell -> Dots] /\ vfd.at \in Cell
    /\ vfd.comma \subseteq Cell /\ vfd.arrow \subseteq {c \in Cell : c[1] = Rows - 1}
    /\ vfd.glyphs \in [Code -> Glyph]
    /\ vfd.mode \in {"normal", "esc", "param"} /\ vfd.args \in Seq(DataOctets)
    /\ vfd.mode = "param" <=> vfd.left > 0
    /\ vfd.scroll \in {"none", "vertical", "horizontal"}
    /\ vfd.panel \subseteq {"cursor", "blink", "katakana", "flickerless", "extended"}
    /\ {vfd.increment, vfd.decoded, vfd.printed, vfd.m6, vfd.busy} \subseteq BOOLEAN
    /\ vfd.logged \in 0..MaxLogged

\* Whatever order text, scrolls, marks, glyphs, clears and resets come in, the dots drawn are
\* those of the cells, the marks and the glyphs now in force.
DotsShowText == \A c \in Cell : vfd.dots[c] = Rebuilt(vfd, c)
===============================================================================
