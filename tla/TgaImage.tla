------------------------------ MODULE TgaImage ------------------------------
(***************************************************************************)
(* Image (image.cpp) and the TGA files it is loaded from and saved to      *)
(* (imageutils.cpp).  A file is a header and a sequence of pixels or of    *)
(* packets; a pixel has a colour and an opacity.  The conversion of a      *)
(* component from a byte to a float and back is exact, so both are one     *)
(* value here.  Rows are counted from the top, columns from the left.      *)
(***************************************************************************)
EXTENDS Integers, SequencesExt, FiniteSetsExt

CONSTANTS Pixels,        \* records [rgb, a]
          Black,         \* the pixel of zero bytes
          Opaque,
          Sizes          \* <<width, height>> of pictures

VARIABLES picture,       \* what the file shows: [w, h, at], at[<<x, y>>] a pixel
          file,          \* [bpp, top, right, rows, present]: for each row of the file,
                         \*   in its order, the packets [run, count, pixels], of which
                         \*   the first ones are there; or Empty
          image,         \* [w, h, ch, inverted, at], or None
          flipped        \* FlipVertical since the image was loaded

vars == <<picture, file, image, flipped>>

None == [ch |-> 0]
Empty == [rows |-> <<>>]
Places(w, h) == (0 .. w - 1) \X (0 .. h - 1)
-----------------------------------------------------------------------------
(* The encodings of a row: a run stands for two equal pixels or more,      *)
(* other packets hold theirs.  No packet goes on in the next row, as       *)
(* LoadTGA asserts.                                                        *)
RECURSIVE Encodings(_)
Encodings(line) ==
    IF line = <<>> THEN {<<>>}
    ELSE UNION {{<<[run |-> r, count |-> n, pixels |-> IF r THEN <<line[1]>> ELSE SubSeq(line, 1, n)]>> \o rest :
                    rest \in Encodings(SubSeq(line, n + 1, Len(line))),
                    r \in {q \in BOOLEAN : q => n > 1 /\ \A k \in 1 .. n : line[k] = line[1]}} :
                n \in 1 .. Len(line)}
(* Without compression a row is as many packets of one pixel each. *)
Plain(line) == [k \in DOMAIN line |-> [run |-> FALSE, count |-> 1, pixels |-> <<line[k]>>]]
RowOf(p, header, n) ==
    LET y == IF header.top THEN n - 1 ELSE p.h - n IN
    [k \in 1 .. p.w |-> p.at[<<IF header.right THEN p.w - k ELSE k - 1, y>>]]

NumPackets(rows) == FoldLeft(LAMBDA n, row : n + Len(row), 0, rows)

Init ==
    /\ \E size \in Sizes : picture \in [w : {size[1]}, h : {size[2]}, at : [Places(size[1], size[2]) -> Pixels]]
    /\ \E bpp \in {24, 32}, top, right, rle \in BOOLEAN :
          LET header == [top |-> top, right |-> right]
              Lines(n) == IF rle THEN Encodings(RowOf(picture, header, n)) ELSE {Plain(RowOf(picture, header, n))}
          IN  \E rows \in {f \in [1 .. picture.h -> Lines(1) \cup Lines(picture.h)] :
                               \A n \in 1 .. picture.h : f[n] \in Lines(n)} :
                 \E present \in 0 .. NumPackets(rows) :
                    file = [bpp |-> bpp, top |-> top, right |-> right, rows |-> rows, present |-> present]
    /\ image = None /\ flipped = FALSE
-----------------------------------------------------------------------------
(* Image: Init, Set and Get, through m_inverted.                           *)
Row(img, y) == IF img.inverted THEN img.h - y - 1 ELSE y
ImageInit(img, w, h, ch) ==
    [w |-> w, h |-> h, ch |-> ch, inverted |-> img # None /\ img.inverted,
     at |-> [p \in Places(w, h) |-> Black]]
Set(img, x, y, pixel) ==
    IF x \in 0 .. img.w - 1 /\ y \in 0 .. img.h - 1
    THEN [img EXCEPT !.at[<<x, Row(img, y)>>] = pixel] ELSE img
Get(img, x, y) ==
    IF x \in 0 .. img.w - 1 /\ y \in 0 .. img.h - 1 THEN img.at[<<x, Row(img, y)>>] ELSE Black

(* A packet of the file, or what reading behind its end gives: a count of  *)
(* zero and a black pixel.                                                 *)
PacketAt(f, k) ==
    LET packets == FlattenSeq(f.rows) IN
    IF k <= f.present THEN packets[k] ELSE [run |-> FALSE, count |-> 1, pixels |-> <<Black>>]
Opacity(f, pixel) == IF f.bpp = 32 THEN pixel ELSE [pixel EXCEPT !.a = Opaque]

(* One row: from place x on, the packets from k on until it is full.       *)
(* Mistake: every pixel of a packet but the first is set from the left. *)
RECURSIVE ScanlineRightward(_, _, _, _, _, _)
ScanlineRightward(f, img, k, x, y, count) ==
    LET p == PacketAt(f, k)
        inc == IF f.right THEN -1 ELSE 1
        SetOne(acc, n) == Set(acc, x + (n - 1), y, Opacity(f, p.pixels[IF p.run THEN 1 ELSE n]))
    IN  IF count >= img.w THEN [img |-> img, next |-> k]
        ELSE ScanlineRightward(f, FoldLeft(SetOne, img, [n \in 1 .. p.count |-> n]),
                               k + 1, x + inc * p.count, y, count + p.count)
RECURSIVE Scanline(_, _, _, _, _, _)
Scanline(f, img, k, x, y, count) ==
    LET p == PacketAt(f, k)
        inc == IF f.right THEN -1 ELSE 1
        SetOne(acc, n) == Set(acc, x + inc * (n - 1), y, Opacity(f, p.pixels[IF p.run THEN 1 ELSE n]))
    IN  IF count >= img.w THEN [img |-> img, next |-> k]
        ELSE Scanline(f, FoldLeft(SetOne, img, [n \in 1 .. p.count |-> n]),
                      k + 1, x + inc * p.count, y, count + p.count)

(* LoadTGA behind the checks of the header.  Packets of one pixel are read *)
(* like the pixels of a file without compression.                          *)
Loaded(f, img, w, h) ==
    LET start == IF f.right THEN w - 1 ELSE 0
        y(n) == IF f.top THEN n - 1 ELSE h - n
        One(acc, n) == Scanline(f, acc.img, acc.next, start, y(n), 0)
    IN  FoldLeft(One, [img |-> ImageInit(img, w, h, f.bpp \div 8), next |-> 1], [n \in 1 .. h |-> n]).img

LoadTGA == /\ IF file = Empty THEN UNCHANGED <<image, flipped>>
              ELSE image' = Loaded(file, image, picture.w, picture.h) /\ flipped' = FALSE
           /\ UNCHANGED <<picture, file>>

FlipVertical == /\ image # None
                /\ image' = [image EXCEPT !.inverted = ~ @] /\ flipped' = ~ flipped
                /\ UNCHANGED <<picture, file>>

(* What SaveTGA writes: 32 bits a pixel, the lowest row first.  It goes to *)
(* a copy of the caller's buffer, which is passed by value: the file the   *)
(* other version of SaveTGA writes stays empty.                            *)
Saved(img) ==
    LET Shown(x, y) == IF img.ch > 3 THEN Get(img, x, y) ELSE [Get(img, x, y) EXCEPT !.a = Opaque]
        rows == [n \in 1 .. img.h |-> Plain([k \in 1 .. img.w |-> Shown(k - 1, img.h - n)])]
    IN  [bpp |-> 32, top |-> FALSE, right |-> FALSE, rows |-> rows, present |-> NumPackets(rows)]
SaveTGA == /\ image # None /\ file # Empty
           /\ file' = Empty
           /\ UNCHANGED <<picture, image, flipped>>

Next == LoadTGA \/ FlipVertical \/ SaveTGA
Spec == Init /\ [][Next]_vars
-----------------------------------------------------------------------------
(* The image shows what the file does, wherever its first pixel is and     *)
(* however its rows are cut into packets, also if it is loaded into an     *)
(* image that was flipped; what is missing from a file that ends early is  *)
(* black (imageutils.cpp:116 to 184).                                      *)
ImageShowsPicture ==
    image # None /\ file # Empty =>
        LET packets == SubSeq(FlattenSeq(file.rows), 1, file.present)
            there == FoldLeft(LAMBDA n, p : n + p.count, 0, packets)
            NthOf(x, y) == (IF file.top THEN y ELSE picture.h - 1 - y) * picture.w
                           + (IF file.right THEN picture.w - x ELSE x + 1)
            Shown(x, y) == Get(image, x, IF flipped THEN picture.h - 1 - y ELSE y)
        IN  \A p \in Places(picture.w, picture.h) :
                LET want == IF NthOf(p[1], p[2]) <= there THEN picture.at[p] ELSE Black IN
                /\ Shown(p[1], p[2]).rgb = want.rgb
                /\ image.ch = 4 => Shown(p[1], p[2]).a = want.a

(* The bytes SaveTGA puts together would load as the image that was saved, *)
(* flipped or not, with opacity one for an image that has none.            *)
SavedShowsImage ==
    image # None =>
        LET again == Loaded(Saved(image), None, image.w, image.h) IN
        \A p \in Places(image.w, image.h) :
            /\ Get(again, p[1], p[2]).rgb = Get(image, p[1], p[2]).rgb
            /\ Get(again, p[1], p[2]).a = IF image.ch = 4 THEN Get(image, p[1], p[2]).a ELSE Opaque
=============================================================================
