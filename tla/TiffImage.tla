----------------------------- MODULE TiffImage ------------------------------
(***************************************************************************)
(* LoadTIFF (imageutils.cpp): the entries of the first directory become    *)
(* settings, a way to unpack is chosen by them, and the strips are         *)
(* unpacked one after another, one strip a step.  A unit of the file is a  *)
(* byte of data, or a float; a byte stands for two samples of half its     *)
(* width, and has Nibble * Nibble values.  The byte order of numbers is    *)
(* that of MemReader (see MemStream) and left out.                         *)
(***************************************************************************)
EXTENDS Integers, SequencesExt, FiniteSetsExt

CONSTANTS Files,      \* records [order, id, entries, units]; an entry is [tag, type,
                      \*   values]: what a reader at its place gives, wherever that is
          Nibble

VARIABLES file,
          settings,   \* the values of each tag; <<>> if the entry was not read
          kind,       \* how the image is unpacked, "none" before and after
          strip,      \* strips unpacked
          at,         \* [row, col, held]: curVal's upper half, or None, and the position
          image,      \* [w, h, at]: at[<<x, y>>] holds the channels of a pixel
          result      \* of LoadTIFF, or "none"

vars == <<file, settings, kind, strip, at, image, result>>

None == <<>>
(* Tags and values of the format; the code does not know the last two tags. *)
Tag == [ImageWidth |-> 256, ImageLength |-> 257, BitsPerSample |-> 258, Compression |-> 259,
        PhotometricInterpretation |-> 262, StripOffsets |-> 273, SamplePerPixel |-> 277,
        RowsPerStrip |-> 278, StripByteCounts |-> 279, XResolution |-> 282, YResolution |-> 283,
        ResolutionUnit |-> 296, ColorMap |-> 320, SampleFormat |-> 339,
        Orientation |-> 274, Software |-> 305]
Known == DOMAIN Tag \ {"Orientation", "Software"}
NoCompression == 1
ModifiedHuffman == 2
PackBits == 32773

NoSettings == [tag \in Known |-> IF tag = "SamplePerPixel" THEN <<1>> ELSE <<>>]
NoImage == [w |-> 0, h |-> 0, at |-> <<>>]

Init == /\ file \in Files
        /\ settings = NoSettings /\ kind = "none" /\ strip = 0
        /\ at = [row |-> 0, col |-> 0, held |-> None] /\ image = NoImage /\ result = "none"
-----------------------------------------------------------------------------
(* s_entryReaders: what an entry must be like for its value to be taken.   *)
Accepts(s, e) ==
    LET One == Len(e.values) = 1 IN
    CASE e.tag \in {"ImageWidth", "ImageLength", "RowsPerStrip"} -> One /\ e.type \in {"Short", "Long"}
      [] e.tag \in {"Compression", "PhotometricInterpretation", "SamplePerPixel", "ResolutionUnit"} -> One /\ e.type = "Short"
      [] e.tag \in {"XResolution", "YResolution"} -> One /\ e.type = "Rational"
      [] e.tag \in {"BitsPerSample", "ColorMap"} -> e.type = "Short"
      [] e.tag = "StripOffsets" -> e.type \in {"Short", "Long"}
      [] e.tag = "StripByteCounts" -> e.type \in {"Short", "Long"} /\ Len(e.values) = Len(s.StripOffsets)
      [] e.tag = "SampleFormat" -> e.type = "Short" /\ Len(e.values) = s.SamplePerPixel[1]
      [] OTHER -> FALSE
(* The table of readers is gone through once, from the lowest tag to the   *)
(* highest: an entry behind one with a higher tag is not found in it.      *)
(* Mistake: the search stops at the first tag that is not in the table. *)
SettingsToUnknown(entries) ==
    LET Step(s, n) ==
            IF (\A k \in 1 .. n : entries[k].tag \in Known /\ Tag[entries[k].tag] <= Tag[entries[n].tag]) /\ Accepts(s, entries[n])
            THEN [s EXCEPT ![entries[n].tag] = entries[n].values] ELSE s
    IN  FoldLeft(Step, NoSettings, [n \in DOMAIN entries |-> n])
Settings(entries) ==
    LET Step(s, n) ==
            IF (\A k \in 1 .. n : Tag[entries[k].tag] <= Tag[entries[n].tag]) /\ Accepts(s, entries[n])
            THEN [s EXCEPT ![entries[n].tag] = entries[n].values] ELSE s
    IN  FoldLeft(Step, NoSettings, [n \in DOMAIN entries |-> n])

(* Get<uint16_t> of a setting's reader: zero behind its end. *)
Value(s, tag, n) == IF n <= Len(s[tag]) THEN s[tag][n] ELSE 0
AllAlike(s, tag) == \A ch \in 2 .. s.SamplePerPixel[1] : Value(s, tag, ch) = Value(s, tag, 1)

(* The conditions of UnpackRGBImage, UnpackColorMappedRGBImage,            *)
(* UnpackGrayscaleImage and UnpackBilevelImage, in the order they are      *)
(* tried in.                                                               *)
Kinds == <<"RGB", "Mapped", "Gray", "Bilevel">>
Can(s, k) ==
    LET bits == Value(s, "BitsPerSample", 1)
        photometric == Value(s, "PhotometricInterpretation", 1)
        compression == Value(s, "Compression", 1)
        float == s.SampleFormat # <<>> /\ s.SampleFormat[1] = 3
    IN  CASE k = "RGB" -> /\ photometric = 2 /\ s.ColorMap = <<>> /\ s.SamplePerPixel[1] >= 3
                          /\ compression \in {NoCompression, PackBits}
                          /\ AllAlike(s, "BitsPerSample") /\ (s.SampleFormat # <<>> => AllAlike(s, "SampleFormat"))
                          /\ bits = IF float THEN 32 ELSE 8
          [] k = "Mapped" -> /\ photometric = 3 /\ s.ColorMap # <<>>
                             /\ compression \in {NoCompression, PackBits} /\ bits \in {4, 8}
          [] k = "Gray" -> bits \in {4, 8} /\ compression \in {NoCompression, PackBits}
          [] k = "Bilevel" -> photometric < 2 /\ compression \in {NoCompression, PackBits, ModifiedHuffman}
Channels(s, k) == CASE k = "RGB" -> s.SamplePerPixel[1] [] k = "Mapped" -> 3 [] OTHER -> 1
Blank(s, k) ==
    LET w == s.ImageWidth[1] h == s.ImageLength[1] IN
    [w |-> w, h |-> h, at |-> [p \in (0 .. w - 1) \X (0 .. h - 1) |-> [ch \in 1 .. Channels(s, k) |-> 0]]]

(* The first way from the n-th on that is possible: the image is cleared.  *)
Choose(s, n) ==
    LET ways == SelectSeq(SubSeq(Kinds, n, Len(Kinds)), LAMBDA k : Can(s, k)) IN
    /\ strip' = 0 /\ at' = [row |-> 0, col |-> 0, held |-> None]
    /\ IF ways = <<>> THEN kind' = "none" /\ result' = "FALSE" /\ UNCHANGED image
       ELSE kind' = ways[1] /\ image' = Blank(s, ways[1]) /\ UNCHANGED result

LoadTIFF ==
    /\ result = "none" /\ kind = "none"
    /\ settings' = Settings(file.entries)
    /\ IF file.order \in {"II", "MM"} /\ file.id = 42
          /\ Value(settings', "ImageWidth", 1) # 0 /\ Value(settings', "ImageLength", 1) # 0
       THEN Choose(settings', 1)
       ELSE result' = "FALSE" /\ UNCHANGED <<kind, strip, at, image>>
    /\ UNCHANGED file
-----------------------------------------------------------------------------
(* DecompressStrip, from the unit at pos on: the bytes pushed to result.   *)
UnitAt(pos) == IF pos < Len(file.units) THEN file.units[pos + 1] ELSE 0
RECURSIVE Expanded(_, _, _)
Expanded(pos, size, out) ==
    LET n == UnitAt(pos) IN
    IF Len(out) >= size THEN out
    ELSE CASE n \in 0 .. 127 -> Expanded(pos + n + 2, size, out \o [k \in 1 .. n + 1 |-> UnitAt(pos + k)])
           [] n \in -127 .. -1 -> Expanded(pos + 2, size, out \o [k \in 1 .. 1 - n |-> UnitAt(pos + 1)])
           [] OTHER -> Expanded(pos + 1, size, out)
Size(n) == Value(settings, "StripByteCounts", n)
Offset(n) == Value(settings, "StripOffsets", n)
Packed == Value(settings, "Compression", 1) # NoCompression
Decompresses(n) == /\ Value(settings, "Compression", 1) = PackBits
                   /\ Len(Expanded(Offset(n), Size(n), <<>>)) = Size(n)
(* The units stripReader gives: without compression all to the end of the  *)
(* file; with it, the bytes pushed behind those result was resized to.     *)
StripUnits(n) ==
    IF Packed THEN [k \in 1 .. Size(n) |-> 0] \o Expanded(Offset(n), Size(n), <<>>)
    ELSE SubSeq(file.units, Offset(n) + 1, Len(file.units))

(* The function that unpacks a pixel: its channels, how far it read, and   *)
(* the half byte it keeps.                                                 *)
Mapped(value, bits) ==
    LET colors == IF bits = 4 THEN Nibble ELSE Nibble * Nibble IN
    [ch \in 1 .. 3 |-> Value(settings, "ColorMap", (ch - 1) * colors + value + 1)]
Pixel(units, pos, held) ==
    LET bits == Value(settings, "BitsPerSample", 1)
        unit == units[pos + 1]
        halves == bits = 4 /\ kind \in {"Mapped", "Gray"}
        value == IF ~ halves THEN unit ELSE IF held = None THEN unit % Nibble ELSE held[1]
        white == IF Value(settings, "PhotometricInterpretation", 1) = 0 THEN 0 ELSE 1
    IN  [value |-> CASE kind = "RGB" -> [ch \in 1 .. Channels(settings, kind) |->
                                           IF pos + ch <= Len(units) THEN units[pos + ch] ELSE 0]
                     [] kind = "Mapped" -> Mapped(value, bits)
                     [] kind = "Gray" -> <<value>>
                     [] kind = "Bilevel" -> <<IF unit = 0 THEN 1 - white ELSE white>>,
         next |-> IF held # None THEN pos ELSE pos + (IF kind = "RGB" THEN Channels(settings, kind) ELSE 1),
         held |-> IF halves /\ held = None THEN <<unit \div Nibble>> ELSE None]
(* UnpackImage's loop over a strip, with WrapPos. *)
RECURSIVE Fill(_, _, _)
Fill(units, pos, st) ==
    LET p == Pixel(units, pos, st.held)
        wraps == st.col + 1 >= image.w
    IN  IF pos >= Len(units) THEN st
        ELSE Fill(units, p.next,
                  [held |-> p.held, row |-> IF wraps THEN st.row + 1 ELSE st.row,
                   col |-> IF wraps THEN 0 ELSE st.col + 1,
                   pixels |-> IF st.row < image.h THEN [st.pixels EXCEPT ![<<st.col, st.row>>] = p.value]
                              ELSE st.pixels])

UnpackStrip ==
    LET n == strip + 1
        done == Fill(StripUnits(n), 0, at @@ [pixels |-> image.at])
    IN  /\ kind # "none" /\ result = "none" /\ strip < Len(settings.StripOffsets)
        /\ IF Packed /\ ~ Decompresses(n)
           THEN Choose(settings, SelectInSeq(Kinds, LAMBDA k : k = kind) + 1)
           ELSE /\ image' = [image EXCEPT !.at = done.pixels]
                /\ at' = [row |-> done.row, col |-> done.col, held |-> done.held]
                /\ strip' = n /\ UNCHANGED <<kind, result>>
        /\ UNCHANGED <<file, settings>>
UnpackImageReturns ==
    /\ kind # "none" /\ result = "none" /\ strip = Len(settings.StripOffsets)
    /\ result' = "TRUE"
    /\ UNCHANGED <<file, settings, kind, strip, at, image>>

Next == LoadTIFF \/ UnpackStrip \/ UnpackImageReturns
Spec == Init /\ [][Next]_vars
-----------------------------------------------------------------------------
(* What the strips of the file hold, if they follow one another and hold a *)
(* sample for each place of the image.                                     *)
Samples == image.w * image.h * Channels(settings, IF kind = "Mapped" THEN "Gray" ELSE kind)
Half == kind \in {"Mapped", "Gray"} /\ settings.BitsPerSample[1] = 4
Units == IF Half THEN (Samples + 1) \div 2 ELSE Samples
Adjoining ==
    /\ \A n \in DOMAIN settings.StripOffsets : n > 1 => Offset(n) = Offset(n - 1) + Size(n - 1)
    /\ settings.StripOffsets # <<>> /\ Offset(1) + Units <= Len(file.units)
SampleAt(first, i) ==
    IF Half THEN LET unit == UnitAt(first + i \div 2) IN IF i % 2 = 0 THEN unit % Nibble ELSE unit \div Nibble
    ELSE UnitAt(first + i)

(* A TIFF without compression whose strips follow one another is shown as  *)
(* it is, through whichever function it is unpacked, with the half bytes   *)
(* that are kept from pixel to pixel and from strip to strip; only the     *)
(* last half byte of a file that ends with it may be missing               *)
(* (imageutils.cpp:709).  Its settings are those of its entries, whichever *)
(* others are between them, if their tags ascend (imageutils.cpp:1001).    *)
TiffIsShown ==
    /\ kind # "none" /\ (\A k, n \in DOMAIN file.entries : k < n => Tag[file.entries[k].tag] < Tag[file.entries[n].tag]) =>
           \A n \in DOMAIN file.entries :
               LET e == file.entries[n] IN
               e.tag \in Known /\ Accepts(settings, e) => settings[e.tag] = e.values
    /\ result = "TRUE" /\ ~ Packed /\ Adjoining =>
           \A p \in DOMAIN image.at :
               LET i == p[2] * image.w + p[1]
                   v(k) == SampleAt(Offset(1), k)
                   last == Half /\ i % 2 = 1 /\ Offset(1) + Units = Len(file.units) /\ i = Samples - 1
               IN  last \/ image.at[p] = CASE kind = "RGB" -> [ch \in DOMAIN image.at[p] |-> v(i * Channels(settings, kind) + ch - 1)]
                                           [] kind = "Mapped" -> Mapped(v(i), settings.BitsPerSample[1])
                                           [] kind = "Gray" -> <<v(i)>>
                                           [] kind = "Bilevel" -> <<IF (v(i) = 0) = (Value(settings, "PhotometricInterpretation", 1) = 0) THEN 1 ELSE 0>>

(* "at this point strip reader is uncompressed and can be read from        *)
(* 'stripReader'" (imageutils.cpp:705): an image of one packed strip shows *)
(* the bytes the strip unpacks to.                                         *)
PackedIsShown ==
    result = "TRUE" /\ Packed /\ kind = "Gray" /\ ~ Half /\ Len(settings.StripOffsets) = 1 =>
        \A p \in DOMAIN image.at :
            LET unpacked == Expanded(Offset(1), Size(1), <<>>)
                i == p[2] * image.w + p[1] + 1
            IN  i \in DOMAIN unpacked => image.at[p] = <<unpacked[i]>>
=============================================================================
