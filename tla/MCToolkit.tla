----------------------------- MODULE MCToolkit -----------------------------
(***************************************************************************)
(* The sequential components that MCResources leaves out, each on its own  *)
(* small instance, checked in one run: a behaviour moves the component it  *)
(* starts with and no other, so that their state spaces add up.  x1 .. x8  *)
(* stand for the variables of that component, in the order of its          *)
(* VARIABLES.                                                              *)
(***************************************************************************)
EXTENDS Integers, SequencesExt

CONSTANTS Components,    \* those that are checked
          MaxDepth,      \* readers that MemStream takes from readers
          MaxTokItems,   \* items of a text for TokParser
          Nil,           \* every component's value for nothing
          Word1, Word2   \* what serialized objects hold

VARIABLES component, x1, x2, x3, x4, x5, x6, x7, x8
vars == <<component, x1, x2, x3, x4, x5, x6, x7, x8>>

Seqs(S, least, most) == UNION {[1 .. n -> S] : n \in least .. most}

(* Every kind of item that TokWriter writes, with numbers with a negative  *)
(* exponent, a positive one and none, and with no flag, one and two.       *)
TokItem(kind, text) == [kind |-> kind, text |-> text]
TokFlags(flags) == [kind |-> "flag", flags |-> flags]
TokItems ==
    {TokFlags({}), TokFlags({2}), TokFlags({1, 3}), TokItem("number", <<"1", "e", "+", "0">>),
     TokItem("string", <<"a", " ">>), TokItem("symbol", <<"a", "1">>), TokItem("bool", <<"t">>),
     TokItem("number", <<"-", "1", ".", "0", "e", "-", "1">>), TokItem("number", <<"1">>),
     TokItem("tok", <<"{">>), TokItem("tok", <<"}">>), TokItem("comment", <<"a">>), TokItem("nl", <<>>)}

(* A byte, numbers that are swapped and that are not, a vec3 and a color.  *)
StreamItem(width, count, swap) == [width |-> width, count |-> count, swap |-> swap]
StreamItems == {StreamItem(1, 1, TRUE), StreamItem(2, 1, TRUE), StreamItem(2, 1, FALSE),
                StreamItem(2, 3, TRUE), StreamItem(1, 4, FALSE)}
StreamFlags == {{}, {"SwapEndian"}, {"AlignedAccess", "BigEndianData"},
                {"AlignedAccess", "LittleEndianData"}}

(* A root and two objects, shared, null, nested and arrays of two, with    *)
(* alignments up to twice the size of a pointer.                           *)
Object(align, n, fields) == [align |-> align, count |-> n, fields |-> fields]
Graphs ==
    {[o \in {"r", "a", "b"} |-> CASE o = "r" -> Object(2, 1, root)
                                  [] o = "a" -> Object(align, n, fields)
                                  [] OTHER -> Object(alignB, 1, <<Word1>>)] :
        root \in {<<Word2, "a">>, <<"a", "b">>, <<"a", "a">>, <<"b", "a">>, <<Word2, "b", "a">>,
                  <<"a", "null", "b">>, <<"null">>},
        align \in {2, 4}, alignB \in {1, 4}, n \in {1, 2},
        fields \in {<<Word1>>, <<Word1, "b">>, <<"b", "b">>}}

(* Formats of up to four characters that do not end inside a placeholder.  *)
FormatStrs ==
    LET Signs(f) == {k \in 0 .. Len(f) : \A j \in Len(f) - k + 1 .. Len(f) : f[j] = "%"}
    IN  {f \in Seqs({"%", "0", "1", "x"}, 0, 4) :
            \E k \in Signs(f) : k + 1 \notin Signs(f) /\ k % 2 = 0}

PathStrs == {<<>>, <<"a">>, <<"b">>, <<"/">>, <<"/", "a">>, <<"a", "/">>, <<"a", "b">>, <<"a", "/", "b">>,
             <<"/", "/", "a">>, <<"a", "/", "/", "b">>, <<"a", "/", "b", "/">>, <<"b", "/", "a">>}

(* Files of two pixels or four: gray, colored, bilevel and RGB in one      *)
(* strip or several, out of order, and with a byte too much; others that   *)
(* lack an entry, have them out of order, or are no TIFF file.             *)
Entry(tag, type, values) == [tag |-> tag, type |-> type, values |-> values]
Directory(w, h, bits, compression, photometric, offsets, sizes, rest) ==
    <<Entry("ImageWidth", "Short", <<w>>), Entry("ImageLength", "Long", <<h>>),
      Entry("BitsPerSample", "Short", bits), Entry("Compression", "Short", <<compression>>),
      Entry("PhotometricInterpretation", "Short", <<photometric>>),
      Entry("StripOffsets", "Long", offsets), Entry("Orientation", "Short", <<1>>),
      Entry("SamplePerPixel", "Short", <<Len(bits)>>), Entry("RowsPerStrip", "Short", <<1>>),
      Entry("StripByteCounts", "Short", sizes), Entry("XResolution", "Rational", <<72>>)>> \o rest
Tiff(entries, units) == [order |-> "II", id |-> 42, entries |-> entries, units |-> units]
Colors(n) == <<Entry("ColorMap", "Short", [k \in 1 .. 3 * n |-> 10 + k])>>
SampleFormat(f) == <<Entry("SampleFormat", "Short", <<f, f, f>>)>>
GrayPair == Tiff(Directory(2, 1, <<8>>, 1, 1, <<0>>, <<2>>, <<>>), <<1, 2>>)
TiffFiles ==
    {[GrayPair EXCEPT !.order = "XX"], [GrayPair EXCEPT !.id = 7],
     [GrayPair EXCEPT !.entries = Tail(@)], [GrayPair EXCEPT !.entries = Reverse(@)]}
    \cup {Tiff(Directory(2, 2, <<8>>, 1, 1, <<1, 3>>, <<2, 2>>, <<>>), <<0>> \o u \o t) :
            u \in [1 .. 4 -> 0 .. 3], t \in {<<>>, <<0>>}}
    \cup {Tiff(Directory(2, 2, <<4>>, 1, 1, <<0, 1>>, <<1, 1>>, <<>>), u \o t) :
            u \in [1 .. 2 -> 0 .. 3], t \in {<<>>, <<0>>}}
    \cup {Tiff(Directory(2, 2, <<4>>, 1, 3, <<0>>, <<2>>, Colors(2)), u \o t) :
            u \in [1 .. 2 -> 0 .. 3], t \in {<<>>, <<0>>}}
    \cup {Tiff(Directory(2, 1, <<8>>, 1, 3, <<0>>, <<2>>, Colors(4)), u) : u \in [1 .. 2 -> 0 .. 3]}
    \cup {Tiff(Directory(2, 1, <<1>>, c, p, <<0>>, <<2>>, <<>>), u) :
            u \in [1 .. 2 -> 0 .. 3], c \in {1, 2}, p \in {0, 1, 2}}
    \cup {Tiff(Directory(1, 2, <<8, 8, 8>>, 1, 2, <<0, 3>>, <<3, 3>>, rest), u) :
            u \in [1 .. 6 -> {0, 3}], rest \in {<<>>, SampleFormat(1)}}
    \cup {Tiff(Directory(1, 2, <<32, 32, 32>>, 1, 2, offsets, <<3, 3>>, SampleFormat(3)), u) :
            u \in [1 .. 6 -> {0, 3}], offsets \in {<<0, 3>>, <<3, 0>>}}
    \cup {Tiff(Directory(2, 1, <<8>>, 32773, 1, <<0>>, <<s>>, <<>>), u) :
            s \in {2, 3}, u \in {<<-1, 2>>, <<1, 2, 3>>, <<0, 2, 0, 3>>, <<-128, -1, 2>>}}
-----------------------------------------------------------------------------
(* Containers. *)
DA == INSTANCE DynAry
         WITH Values <- {"u", "v"}, Default <- "u", Raw <- "raw", Moved <- "moved", MinGrow <- 2, MaxSize <- 3,
              ary <- x1, abs <- x2
BV == INSTANCE BankedVector
         WITH Values <- {"u", "v"}, Raw <- "raw", Moved <- "moved", ChunkLength <- 2, MaxChunks <- 2,
              TriviallyDestructible <- FALSE,
              vec <- x1, seq <- x2, result <- x3, spare <- x4
Bits == INSTANCE BitVector                \* two words, half a word being two bits
         WITH W <- 4, MaxBits <- 5,
              bv <- x1, other <- x2, abs <- x3, otherAbs <- x4
Words == INSTANCE BitVector               \* up to three words
         WITH W <- 2, MaxBits <- 6,
              bv <- x1, other <- x2, abs <- x3, otherAbs <- x4
(* Parsing, streams and serialization. *)
TP == INSTANCE TokParser
         WITH Items <- TokItems, MaxItems <- MaxTokItems, MaxPieces <- 5, MaxToken <- 9, BufferSizes <- {2, 4},
              FlagNames <- << <<"a">>, <<"a", "1">>, <<"b">> >>,
              text <- x1, items <- x2, parser <- x3, answer <- x4, mistaken <- x5
MS == INSTANCE MemStream
         WITH BufferSize <- 7, Flags <- StreamFlags, Items <- StreamItems, MaxItems <- 3, MaxDepth <- MaxDepth,
              Zero <- "zero", Outside <- "outside",
              flags <- x1, writer <- x2, put <- x3, wrote <- x4, reader <- x5, got <- x6, outer <- x7, depth <- x8
Se == INSTANCE Serialize
         WITH Graphs <- Graphs, Root <- "r", Null <- "null", Values <- {Word1, Word2}, P <- 2, None <- Nil,
              graph <- x1, ser <- x2, file <- x3, memory <- x4, loaded <- x5
(* Texts and searches. *)
Fm == INSTANCE Format
         WITH FormatStrs <- FormatStrs, Arguments <- {<<>>, <<"%", "0">>}, MaxArgs <- 2, Digits <- <<"0", "1", "2">>,
              None <- Nil,
              fmt <- x1, args <- x2, str <- x3
Tx == INSTANCE Text
         WITH Texts <- Seqs({"a", "b", "."}, 0, 4), Patterns <- {<<"a">>, <<"a", "b">>, <<"a", "a", "b">>},
              Replacements <- {<<>>, <<"a">>, <<"a", "b">>, <<"b", "a", "b">>},
              Wild <- Seqs({"*", "?", "a"}, 0, 4), None <- Nil,
              text <- x1, answer <- x2
AS == INSTANCE ArrayString
         WITH SIZE <- 4, Chars <- {"a", "b"}, End <- "end", Texts <- Seqs({"a", "b"}, 0, 5),
              ShortTexts <- Seqs({"a", "b"}, 0, 2),
              data <- x1, length <- x2, value <- x3
U == INSTANCE Utf8
         WITH CodePoints <- {36, 127, 128, 2047, 2048, 65535, 65536, 66376}, MaxPoints <- 3, Other <- 97,
              points <- x1, bytes <- x2, spoiled <- x3, pos <- x4, visited <- x5, length <- x6
KD == INSTANCE KdTree
         WITH Points <- {<<0, 0>>, <<2, 1>>, <<1, 3>>, <<3, 0>>, <<0, 2>>}, MaxPoints <- 5, BucketSize <- 2,
              Queries <- {<<0, 0>>, <<1, 1>>, <<3, 2>>}, Infinity <- 1000,
              points <- x1, nodes <- x2, given <- x3, query <- x4, found <- x5
(* Files. *)
Pa == INSTANCE Paths
         WITH Paths <- PathStrs, Sep <- "/", Home <- << <<"d">> >>, Files <- {<< <<"d">>, <<"b">> >>},
              MaxDirs <- 3, MaxDepth <- 2,
              dirs <- x1, cwd <- x2, olds <- x3, came <- x4, made <- x5, back <- x6
TGA == INSTANCE TgaImage
         WITH Pixels <- {[rgb |-> "r", a |-> 1], [rgb |-> "g", a |-> 2]}, Black <- [rgb |-> "k", a |-> 0],
              Opaque <- 255, Sizes <- {<<2, 2>>, <<3, 1>>},
              picture <- x1, file <- x2, image <- x3, flipped <- x4
TIFF == INSTANCE TiffImage
         WITH Files <- TiffFiles, Nibble <- 2,
              file <- x1, settings <- x2, kind <- x3, strip <- x4, at <- x5, image <- x6, result <- x7
-----------------------------------------------------------------------------
(* The variables a component leaves alone are empty. *)
Blank8 == x8 = {}
Blank7 == x7 = {} /\ Blank8
Blank6 == x6 = {} /\ Blank7
Blank5 == x5 = {} /\ Blank6
Blank4 == x4 = {} /\ Blank5
Blank3 == x3 = {} /\ Blank4

Init ==
    /\ component \in Components
    /\ \/ component = "DynAry" /\ DA!Init /\ Blank3
       \/ component = "BankedVector" /\ BV!Init /\ Blank5
       \/ component = "BitVector" /\ Bits!Init /\ Blank5
       \/ component = "BitVectorWords" /\ Words!Init /\ Blank5
       \/ component = "TokParser" /\ TP!Init /\ Blank6
       \/ component = "MemStream" /\ MS!Init
       \/ component = "Serialize" /\ Se!Init /\ Blank6
       \/ component = "Format" /\ Fm!Init /\ Blank4
       \/ component = "Text" /\ Tx!Init /\ Blank3
       \/ component = "ArrayString" /\ AS!Init /\ Blank4
       \/ component = "Utf8" /\ U!Init /\ Blank7
       \/ component = "KdTree" /\ KD!Init /\ Blank6
       \/ component = "Paths" /\ Pa!Init /\ Blank7
       \/ component = "TgaImage" /\ TGA!Init /\ Blank5
       \/ component = "TiffImage" /\ TIFF!Init /\ Blank8

Next ==
    \/ component = "DynAry" /\ DA!Next /\ UNCHANGED <<component, x3, x4, x5, x6, x7, x8>>
    \/ component = "BankedVector" /\ BV!Next /\ UNCHANGED <<component, x5, x6, x7, x8>>
    \/ component = "BitVector" /\ Bits!Next /\ UNCHANGED <<component, x5, x6, x7, x8>>
    \/ component = "BitVectorWords" /\ Words!Next /\ UNCHANGED <<component, x5, x6, x7, x8>>
    \/ component = "TokParser" /\ TP!Next /\ UNCHANGED <<component, x6, x7, x8>>
    \/ component = "MemStream" /\ MS!Next /\ UNCHANGED <<component>>
    \/ component = "Serialize" /\ Se!Next /\ UNCHANGED <<component, x6, x7, x8>>
    \/ component = "Format" /\ Fm!Next /\ UNCHANGED <<component, x4, x5, x6, x7, x8>>
    \/ component = "Text" /\ Tx!Next /\ UNCHANGED <<component, x3, x4, x5, x6, x7, x8>>
    \/ component = "ArrayString" /\ AS!Next /\ UNCHANGED <<component, x4, x5, x6, x7, x8>>
    \/ component = "Utf8" /\ U!Next /\ UNCHANGED <<component, x7, x8>>
    \/ component = "KdTree" /\ KD!Next /\ UNCHANGED <<component, x6, x7, x8>>
    \/ component = "Paths" /\ Pa!Next /\ UNCHANGED <<component, x7, x8>>
    \/ component = "TgaImage" /\ TGA!Next /\ UNCHANGED <<component, x5, x6, x7, x8>>
    \/ component = "TiffImage" /\ TIFF!Next /\ UNCHANGED <<component, x8>>

Spec == Init /\ [][Next]_vars
-----------------------------------------------------------------------------
Of(name, property) == component = name => property

(* Arrays and chunked vectors hold the sequence that their operations      *)
(* describe, and no element is constructed twice, destroyed twice or left  *)
(* behind, but for the destruction of a chunked vector with a chunk behind *)
(* its last element.  A bit vector has the bits last written, through      *)
(* resize, subtract and add within the limits that BitVector names         *)
(* (ResizeKeeps, MaskKeeps, CombineKeeps), and its searches find the next  *)
(* one from the first word and from words that are like it.  A k-d tree    *)
(* finds what a search through everything would find (dynary.hh:460,       *)
(* bankedvector.inl:145, bitvector.cpp:74, 134, kdtree.inl:202).           *)
ContainersHoldTheirElements ==
    /\ Of("DynAry", DA!IsSequence)
    /\ Of("BankedVector", BV!IsSequence)
    /\ Of("BitVector", Bits!BitsAgree /\ Bits!SearchesAgree)
    /\ Of("BitVectorWords", Words!BitsAgree /\ Words!SearchesAgree)
    /\ Of("KdTree", KD!TreeSplits /\ KD!NearestIsNearest)

(* What the token writer writes the parser reads, also when a call asked   *)
(* for something else before: strings, symbols, Booleans, tokens, integers *)
(* and numbers with a negative exponent call for call, a number with       *)
(* another exponent and several flags in the tokens they fall into, and no *)
(* flag as an empty string (tokparser.cpp:98, 117, 183).                   *)
WrittenIsParsed == Of("TokParser", TP!RoundTrip /\ TP!InStep)

(* Values that were put into a stream come back in order, aligned and      *)
(* swapped, up to where the buffer ends.  A graph of objects comes back,   *)
(* and pointers of one object lead to one place exactly if they did;       *)
(* nothing is said of the sharing between objects, which the code undoes   *)
(* (memstream.cpp:56, serialize.cpp:107).                                  *)
StoredIsLoaded ==
    /\ Of("MemStream", MS!ValuesReturn /\ MS!FirstSubReaderInside)
    /\ Of("Serialize", Se!LoadedIsSerialized)

(* Two passes over a text agree: what is counted first is written then,    *)
(* and what is cut, matched and decoded is what is there (format.inl:87,   *)
(* str.hh:404, 77, strutil.hh:81, utf8str.cpp:44).                         *)
TextsAreWhole ==
    /\ Of("Format", Fm!FormatFits)
    /\ Of("Text", Tx!SubFits /\ Tx!NameAndExtension /\ Tx!BeginsAndEnds /\ Tx!MatchesIfPossible)
    /\ Of("ArrayString", AS!LengthIsStrlen)
    /\ Of("Utf8", U!IterationDecodes)

(* Directories are made with those above them; where an object of          *)
(* PushWorkingDirectory ends, the program is where it was made; an image   *)
(* shows the picture of its file (filehelper.cpp:119, 354,                 *)
(* imageutils.cpp:116, 709, 1001).                                         *)
FilesAreRead ==
    /\ Of("Paths", Pa!DirectoriesMade /\ Pa!TreeOfDirectories /\ Pa!ComesBack /\ Pa!SplitAndJoin)
    /\ Of("TgaImage", TGA!ImageShowsPicture /\ TGA!SavedShowsImage)
    /\ Of("TiffImage", TIFF!TiffIsShown)

(* "Get a subreader starting at the specified offset and requestedSize, if *)
(* that size is less than or equal to the size in this reader after the    *)
(* offset." (memstream.hh:107): also a reader taken from such a reader.    *)
SubReaderInside == Of("MemStream", MS!SubReaderInside)

(* "at this point strip reader is uncompressed and can be read from        *)
(* 'stripReader'" (imageutils.cpp:705): an image of one packed strip shows *)
(* the bytes the strip unpacks to.                                         *)
PackedIsShown == Of("TiffImage", TIFF!PackedIsShown)
=============================================================================
