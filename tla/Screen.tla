------------------------------- MODULE Screen -------------------------------
(***************************************************************************)
(* The text renderer src/gop.c and the entry list that src/menu.c draws    *)
(* with it: what the screen's cells show, and what is in the frame buffer. *)
(* The screen's mode is the one EfiMain left the display in, and the first *)
(* entry's name is the one that owfs_name_to_ascii decodes.                 *)
(*                                                                         *)
(* A call of vga_write or vga_fill is the sequence of glyphs it renders.   *)
(* A byte of the frame buffer is the glyph and the pixel of it that was put *)
(* there; what the font and the colours make of it is left out.  vga_goto, *)
(* vga_putc and vga_puts have no caller.                                    *)
(***************************************************************************)
EXTENDS Sutf8, EfiEntry

CONSTANTS
  FONT_W, FONT_H,
  MAX_COLS, MAX_ROWS, \* the renderer's cap on the text grid
  VGA_COLS, ENTRY_TOP, VISIBLE,   \* the menu's layout
  OtherNames          \* names of the entries behind the first

ASSUME ScreenAssumption ==
  /\ {FONT_W, FONT_H, MAX_COLS, MAX_ROWS, VGA_COLS, VISIBLE} \subseteq Nat \ {0}
  /\ ENTRY_TOP \in Nat
  /\ OtherNames \in Seq(Seq(Nat))

VARIABLES
  mode,      \* g_fb_hres, g_fb_vres, g_fb_pitch
  cells,     \* the glyph rendered last in each cell of the grid
  fb,        \* the frame buffer
  list,      \* the list drawn last: names, selection and first row, or none
  spc        \* "entry", "names", "menu"

screenVars == <<mode, cells, fb, list, spc>>

-----------------------------------------------------------------------------
AtMost(n, m) == IF n < m THEN n ELSE m

(* vga_init_gop. *)
TextCols == AtMost(mode.hres \div FONT_W, MAX_COLS)
TextRows == AtMost(mode.vres \div FONT_H, MAX_ROWS)
Grid     == (0 .. TextRows - 1) \X (0 .. TextCols - 1)

Space == 32
Blank == [ch |-> Space, attr |-> "normal"]
Unknown == [ch |-> Space, attr |-> "firmware"]   \* what the firmware left
Filled(cell) == [glyph |-> cell, pixel |-> <<0, 0>>]

(* What is written over what was there. *)
Over(new, old) ==
  [a \in DOMAIN new \cup DOMAIN old |-> IF a \in DOMAIN new THEN new[a] ELSE old[a]]

(* Where a line of pixels and a pixel in it start: the memory the firmware *)
(* shows, four bytes to a pixel and pitch pixels to a line...               *)
Displayed(x, y) == (y * mode.pitch + x) * 4
FrameBuffer == 0 .. mode.pitch * mode.vres * 4 - 1

(* A plausible bug in place of the next definition. *)
PixelAt_ScaledTwice(x, y) == (y * mode.pitch + x * 4) * 4

(* ...and put_pixel's. *)
PixelAt(x, y) == y * mode.pitch + x * 4

(* font_glyph: a character without a glyph of its own is a space. *)
Glyph(ch) == IF ch \in 32 .. 126 THEN ch ELSE Space

(* render_glyph: the bytes it puts into the frame buffer.  A glyph's lines *)
(* are further apart there than the glyph is wide.                          *)
Pixels(g) ==
  {p \in (0 .. FONT_W - 1) \X (0 .. FONT_H - 1) :
     g.col * FONT_W + p[1] < mode.hres /\ g.row * FONT_H + p[2] < mode.vres}
Painted(g) ==
  LET bytes(p) == {PixelAt(g.col * FONT_W + p[1], g.row * FONT_H + p[2]) + k : k \in 0 .. 3}
  IN  [a \in UNION {bytes(p) : p \in Pixels(g)} |->
         [glyph |-> g.cell, pixel |-> CHOOSE p \in Pixels(g) : a \in bytes(p)]]

(* Glyphs rendered one after the other: what the cells and the frame      *)
(* buffer hold then, each cell the glyph that was rendered there last.      *)
Last(indices) == CHOOSE k \in indices : \A j \in indices : j <= k
Cell(g) == <<g.row, g.col>>
Rendered(glyphs) ==
  LET inCell(c) == {k \in DOMAIN glyphs : Cell(glyphs[k]) = c}
  IN  [c \in DOMAIN cells \cup {Cell(glyphs[k]) : k \in DOMAIN glyphs} |->
         IF inCell(c) = {} THEN cells[c] ELSE glyphs[Last(inCell(c))].cell]
PaintedAll(glyphs) ==
  LET after[k \in 0 .. Len(glyphs)] ==
        IF k = 0 THEN fb ELSE Over(Painted(glyphs[k]), after[k - 1])
  IN  after[Len(glyphs)]

-----------------------------------------------------------------------------
(* A plausible bug in place of the next definition. *)
Clipped_NotAtAll(col, n) == n

(* vga_write and vga_fill: nothing outside the grid. *)
Clipped(col, n) == IF col >= TextCols THEN 0 ELSE AtMost(n, TextCols - col)
Write(row, col, s, attr) ==
  IF row >= TextRows THEN <<>>
  ELSE [k \in 1 .. Clipped(col, Len(s)) |->
          [row |-> row, col |-> col + k - 1, cell |-> [ch |-> Glyph(s[k]), attr |-> attr]]]
Fill(row, col, n, attr) == Write(row, col, [k \in 1 .. n |-> Space], attr)

(* draw_entry and draw_list. *)
Marker(selected) == IF selected THEN <<62, Space>> ELSE <<Space, Space>>   \* "> "
EntryGlyphs_NotFilled(row, entryName, selected) ==   \* a plausible bug in its place
  LET attr == IF selected THEN "hilite" ELSE "normal"
  IN  Write(row, 2, Marker(selected), attr) \o Write(row, 4, entryName, attr)
EntryGlyphs(row, entryName, selected) ==
  LET attr == IF selected THEN "hilite" ELSE "normal"
  IN  Fill(row, 0, VGA_COLS, attr) \o Write(row, 2, Marker(selected), attr)
        \o Write(row, 4, entryName, attr)
RowGlyphs(names, sel, top, k) ==
  IF top + k < Len(names)
  THEN EntryGlyphs(ENTRY_TOP + k, names[top + k + 1], top + k = sel)
  ELSE Fill(ENTRY_TOP + k, 0, VGA_COLS, "normal")
ListGlyphs(names, sel, top) ==
  LET upTo[k \in 0 .. VISIBLE] ==
        IF k = 0 THEN <<>> ELSE upTo[k - 1] \o RowGlyphs(names, sel, top, k - 1)
  IN  upTo[VISIBLE]

(* A C string ends at its first zero. *)
CString(s) == LET zeros == {k \in DOMAIN s : s[k] = 0}
              IN  IF zeros = {} THEN s
                  ELSE SubSeq(s, 1, (CHOOSE k \in zeros : \A z \in zeros : k <= z) - 1)

-----------------------------------------------------------------------------
NoList == [names |-> <<>>, sel |-> 0, top |-> 0]

ScreenInit ==
  /\ Init /\ EntryInit
  /\ mode = [hres |-> 0, vres |-> 0, pitch |-> 0]
  /\ cells = <<>> /\ fb = <<>>
  /\ list = NoList /\ spc = "entry"

(* vga_init_gop and vga_clear, as kmain starts.  The frame buffer holds    *)
(* what the firmware left, but for the bytes that are cleared.              *)
Clear ==
  /\ spc = "entry" /\ epc = "entered" /\ spc' = "names"
  /\ LET info == displays[gGOP].modes[current + 1]
     IN  mode' = [hres |-> info.hres, vres |-> info.vres, pitch |-> info.pitch]
  /\ cells' = [c \in Grid' |-> Blank]
  /\ fb' = Over([a \in 0 .. mode'.pitch * mode'.vres - 1 |-> Filled(Blank)],
               [a \in FrameBuffer' |-> Filled(Unknown)])
  /\ UNCHANGED list /\ UNCHANGED <<nameVars, entryVars>>

(* The menu draws the list, with any selection and window it may have.      *)
DrawList(sel, top) ==
  LET names  == <<CString(out)>> \o OtherNames
      glyphs == ListGlyphs(names, sel, top)
  IN
  /\ spc \in {"names", "menu"} /\ npc = "decoded" /\ spc' = "menu"
  /\ sel \in top .. top + VISIBLE - 1 /\ sel < Len(names)
  /\ cells' = Rendered(glyphs)
  /\ fb' = PaintedAll(glyphs)
  /\ list' = [names |-> names, sel |-> sel, top |-> top]
  /\ UNCHANGED mode /\ UNCHANGED <<nameVars, entryVars>>

ScreenNext ==
  \/ EntryNext /\ UNCHANGED <<nameVars, screenVars>>
  \/ Clear
  \/ spc = "names" /\ Next /\ UNCHANGED <<entryVars, screenVars>>
  \/ \E top \in 0 .. Len(OtherNames), sel \in 0 .. Len(OtherNames) : DrawList(sel, top)

ScreenSpec == ScreenInit /\ [][ScreenNext]_<<nameVars, entryVars, screenVars>>

-----------------------------------------------------------------------------
(* Types: every glyph is in the grid, every byte in the frame buffer. *)
ScreenTypeOK == /\ spc \in {"entry", "names", "menu"}
                /\ spc # "entry" => DOMAIN cells = Grid

(* memory.md:132: the renderer draws on the display's largest mode, of     *)
(* those it tells about, when the display lets it be set                    *)
(* (efi_entry.c:84-113, gop.c:41-61).                                        *)
DrawsOnLargestMode ==
  spc # "entry" =>
    LET display  == displays[gGOP]
        readable == {display.modes[m] : m \in {n \in DOMAIN display.modes :
                                                 display.modes[n].readable}}
    IN  display.sets /\ readable # {} =>
          /\ \A m \in readable : m.hres * m.vres <= mode.hres * mode.vres
          /\ \E m \in readable : m.hres = mode.hres /\ m.vres = mode.vres

(* Nothing is painted outside the memory the firmware gave the screen, for *)
(* any mode (gop.c:66-105, 169-177).                                        *)
PaintsInside == spc # "entry" => DOMAIN fb = FrameBuffer

(* In the layout's columns each row of the list shows its entry, marked     *)
(* and in reverse when it is selected, and nothing of what was there before *)
(* (menu.c:56-75, gop.c:219-249).                                           *)
RowsShowEntries ==
  spc = "menu" =>
    \A k \in 0 .. VISIBLE - 1, col \in 0 .. AtMost(TextCols, VGA_COLS) - 1 :
      LET index    == list.top + k
          selected == index = list.sel
          text4    == IF index < Len(list.names) THEN list.names[index + 1] ELSE <<>>
          ch       == IF col = 2 /\ selected THEN 62
                      ELSE IF col - 3 \in DOMAIN text4 THEN Glyph(text4[col - 3])
                      ELSE Space
      IN  ENTRY_TOP + k < TextRows =>
            cells[<<ENTRY_TOP + k, col>>]
              = [ch |-> ch, attr |-> IF selected THEN "hilite" ELSE "normal"]

(* gop.c:22: "bytes per scanline".  Where the firmware displays a cell, the *)
(* frame buffer holds the glyph that was rendered there.                    *)
CellsDisplayed ==
  spc = "menu" =>
    \A k \in 0 .. VISIBLE - 1, col \in 0 .. TextCols - 1,
       dx \in 0 .. FONT_W - 1, dy \in 0 .. FONT_H - 1, byte \in 0 .. 3 :
      LET row == ENTRY_TOP + k IN
      row < TextRows /\ col < VGA_COLS =>
        fb[Displayed(col * FONT_W + dx, row * FONT_H + dy) + byte]
          = [glyph |-> cells[<<row, col>>], pixel |-> <<dx, dy>>]
=============================================================================
