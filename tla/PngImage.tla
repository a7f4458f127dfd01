------------------------------ MODULE PngImage ------------------------------
(***************************************************************************)
(* Images of png++ (OpenCL-examples/include/png++), which save_png fills   *)
(* and writes: pixels in rows, packed into bytes when they are smaller     *)
(* than one, the conversions that are asked of libpng when a file is read, *)
(* the passes over the rows, and streams that fail after `lasts' transfers *)
(* (the header, a row, the end).                                           *)
(*                                                                         *)
(* libpng is external: what it is asked for decides the format of the rows *)
(* it delivers. The value of a pixel stands for what libpng makes of it.   *)
(***************************************************************************)
EXTENDS Integers, FiniteSets, FiniteSetsExt, Sequences

\* A colour type is the set of its masks.
ColorType == [gray |-> {}, ga |-> {"alpha"}, rgb |-> {"color"}, rgba |-> {"color", "alpha"},
              palette |-> {"palette", "color"}, none |-> {"none"}]

\* ---- pixel types
Traits(color, channels, depth) == [color |-> ColorType[color], channels |-> channels, depth |-> depth]
RgbPixels   == {Traits("rgb", 3, d) : d \in {8, 16}}
RgbaPixels  == {Traits("rgba", 4, d) : d \in {8, 16}}
GrayPixels  == {Traits("gray", 1, d) : d \in {1, 2, 4, 8, 16}}
GaPixels    == {Traits("ga", 2, d) : d \in {8, 16}}
IndexPixels == {Traits("palette", 1, d) : d \in {1, 2, 4, 8}}
PixelTypes  == RgbPixels \cup RgbaPixels \cup GrayPixels \cup GaPixels \cup IndexPixels
\* The pixel types a file is converted to (no others have the conversion).
Convertible == {px \in PixelTypes : px.depth >= 8}

Mask(px, value) == IF px.depth < 8 THEN value % 2 ^ px.depth ELSE value

\* ---- rows and buffers; positions count from 0
PerByte(px)        == IF px.depth < 8 THEN 8 \div px.depth ELSE 1
RowBytes(px, n)    == n \div PerByte(px) + (IF n % PerByte(px) # 0 THEN 1 ELSE 0)
Fit(vector, n)     == [k \in 0 .. n - 1 |-> IF k \in DOMAIN vector THEN vector[k] ELSE 0]
RowResized(px, row, n) == [size |-> n, bytes |-> Fit(row.bytes, RowBytes(px, n))]

Shift(px, i) == IF px.depth < 8 THEN (8 - px.depth) - (i % PerByte(px)) * px.depth ELSE 0
Pixel(px, byte, i) == Mask(px, byte \div 2 ^ Shift(px, i))
WithPixel(px, byte, i, value) ==
  IF px.depth < 8 THEN byte - Pixel(px, byte, i) * 2 ^ Shift(px, i) + Mask(px, value) * 2 ^ Shift(px, i) ELSE value

EmptyBuffer == [width |-> 0, height |-> 0, rows |-> <<>>]
Resized(px, buffer, w, h) ==
  [width |-> w, height |-> h,
   rows |-> [y \in 0 .. h - 1 |->
               RowResized(px, IF y \in DOMAIN buffer.rows THEN buffer.rows[y] ELSE [size |-> 0, bytes |-> <<>>], w)]]

\* at() throws for a row that is not there or a byte that is not: pixels
\* beyond the width that share the last byte are let through.
Reachable(px, buffer, x, y) == y \in DOMAIN buffer.rows /\ x \div PerByte(px) \in DOMAIN buffer.rows[y].bytes
get_pixel(px, buffer, x, y) == Pixel(px, buffer.rows[y].bytes[x \div PerByte(px)], x)
set_pixel(px, buffer, x, y, value) ==
  [buffer EXCEPT !.rows[y].bytes[x \div PerByte(px)] = WithPixel(px, @, x, value)]

\* A buffer in one piece: resizing keeps the bytes, not their places.
SolidEmpty            == [width |-> 0, height |-> 0, stride |-> 0, length |-> 0, bytes |-> <<>>]
SolidResized(b, w, h) == [width |-> w, height |-> h, stride |-> w, length |-> w * h, bytes |-> Fit(b.bytes, w * h)]
SolidRow(b, y)        == y * b.stride
SolidIndex(b, x, y)   == y * b.width + x
SolidReachable(b, x, y)  == SolidIndex(b, x, y) < b.length
SolidSet(b, x, y, value) == [b EXCEPT !.bytes[SolidIndex(b, x, y)] = value]
SolidFetched(b)       == [left |-> SolidEmpty, bytes |-> b.bytes]

SolidStep(b, op) ==
  CASE op.op = "resize" -> SolidResized(b, op.w, op.h)
    [] op.op = "set_pixel" -> IF SolidReachable(b, op.x, op.y) THEN SolidSet(b, op.x, op.y, op.value) ELSE b
    [] op.op = "fetch_bytes" -> SolidFetched(b).left
SolidRun(ops) ==
  LET after[k \in 0 .. Len(ops)] == IF k = 0 THEN SolidEmpty ELSE SolidStep(after[k - 1], ops[k])
  IN  after[Len(ops)]

\* ---- what is known of an image
image_info == [width |-> 0, height |-> 0, depth |-> 0, color |-> ColorType.none, interlace |-> FALSE,
               palette |-> <<>>, tRNS |-> <<>>, gamma |-> 0]
With(info, field, value) == [info EXCEPT ![field] = value]
make_image_info(px) == With(With(image_info, "color", px.color), "depth", px.depth)

NewImage(px, w, h) ==
  [info |-> With(With(make_image_info(px), "width", w), "height", h), pixbuf |-> Resized(px, EmptyBuffer, w, h)]

\* ---- a reader of a file, and what it asks libpng to do
Reads(lasts, step) == step <= lasts

\* info::read: transparency is kept for palettes only.
ReadInfo(file) ==
  [file.info EXCEPT !.tRNS = IF file.info.color = ColorType.palette THEN @ ELSE <<>>]
Reader(file) == [info |-> ReadInfo(file), tRNS |-> file.info.tRNS # <<>>, asked |-> {}, thrown |-> ""]

Ask(rd, request)   == [rd EXCEPT !.asked = @ \cup {request}]
Throw(rd, what)    == IF rd.thrown = "" THEN [rd EXCEPT !.thrown = what] ELSE rd
\* No colour type is both of those that set_shift expects.
SetShift(rd, one, other) ==
  IF rd.info.color # ColorType[one] \/ rd.info.color # ColorType[other] THEN Throw(rd, "error") ELSE Ask(rd, "shift")

require_color_space(px, rd) ==
  IF rd.info.color # px.color \/ rd.info.depth # px.depth THEN Throw(rd, "error") ELSE rd

handle_16(px, rd) ==
  IF rd.info.depth = 16 /\ px.depth = 8 THEN Ask(rd, "strip 16")
  ELSE IF rd.info.depth # 16 /\ px.depth = 16 THEN Ask(rd, "8 to 16")
  ELSE rd

handle_alpha(px, rd) ==
  LET src_alpha == "alpha" \in rd.info.color
      dst_alpha == "alpha" \in px.color
  IN  CASE (src_alpha \/ rd.tRNS) /\ ~dst_alpha -> Ask(rd, "strip alpha")
        [] ~src_alpha /\ dst_alpha /\ rd.tRNS   -> Ask(rd, "tRNS to alpha")
        [] ~src_alpha /\ dst_alpha /\ ~rd.tRNS  -> Ask(rd, "add alpha")
        [] OTHER -> rd

\* Mutation of handle_palette: the indices are taken for colours.
handle_palette_as_is(px, rd) == IF rd.info.color # ColorType.palette /\ px.color = ColorType.palette THEN Throw(rd, "error") ELSE rd

handle_palette(px, rd) ==
  LET src_palette == rd.info.color = ColorType.palette
      dst_palette == px.color = ColorType.palette
  IN  CASE src_palette /\ ~dst_palette -> [Ask(rd, "palette to rgb") EXCEPT !.info.palette = <<>>]
        [] ~src_palette /\ dst_palette -> Throw(rd, "error")
        [] src_palette /\ dst_palette /\ rd.info.depth # px.depth ->
             IF px.depth = 8 THEN Ask(rd, "packing") ELSE Throw(rd, "error")
        [] OTHER -> rd

handle_rgb(px, rd) ==
  LET src_rgb == rd.info.color \cap {"color", "palette"} # {}
      dst_rgb == "color" \in px.color
  IN  CASE src_rgb /\ ~dst_rgb -> Ask(rd, "rgb to gray")
        [] ~src_rgb /\ dst_rgb -> Ask(rd, "gray to rgb")
        [] OTHER -> rd

handle_gray(px, rd) ==
  IF rd.info.color \ {"alpha"} = ColorType.gray /\ rd.info.depth < 8 /\ px.depth >= 8 THEN Ask(rd, "gray to 8") ELSE rd

convert_color_space(px, rd) ==
  LET done == handle_gray(px, handle_rgb(px, handle_palette(px, handle_alpha(px, handle_16(px, rd)))))
  IN  [done EXCEPT !.info = With(With(@, "color", px.color), "depth", px.depth)]

\* The user transformation from 8 to 16 bits, in place from the last byte.
expand_8_to_16(row, rowbytes) ==
  LET from[i \in 0 .. rowbytes] ==
        IF i = rowbytes THEN row ELSE [from[i + 1] EXCEPT ![2 * i + 1] = from[i + 1][i], ![2 * i] = 0]
  IN  from[0]

\* libpng: the format of the rows, from the file's and from what was asked.
Adding(color, mask, wanted)  == IF wanted THEN color \cup mask ELSE color
Without(color, mask, wanted) == IF wanted THEN color \ mask ELSE color
Expands(source, asked) == \/ asked \cap {"palette to rgb", "gray to 8", "tRNS to alpha"} # {}
                          \/ source.color = ColorType.palette /\ "rgb to gray" \in asked
Expanded(source, asked) ==
  IF source.color = ColorType.palette
  THEN IF ~Expands(source, asked) THEN source.color ELSE IF source.tRNS # <<>> THEN ColorType.rgba ELSE ColorType.rgb
  ELSE Adding(source.color, {"alpha"}, source.tRNS # <<>> /\ "tRNS to alpha" \in asked)
Filled(color, asked) == Adding(color, {"alpha"}, "add alpha" \in asked /\ color \in {ColorType.gray, ColorType.rgb})
Reduced(depth, asked) == CASE "packing" \in asked /\ depth < 8 -> 8
                           [] "strip 16" \in asked /\ depth = 16 -> 8
                           [] "8 to 16" \in asked /\ depth = 8 -> 16
                           [] OTHER -> depth
Delivered(source, asked) ==
  [color |-> Filled(Adding(Without(Without(Expanded(source, asked), {"alpha"}, "strip alpha" \in asked),
                                  {"color"}, "rgb to gray" \in asked),
                          {"color"}, "gray to rgb" \in asked), asked),
   depth |-> Reduced(IF Expands(source, asked) /\ source.depth < 8 THEN 8 ELSE source.depth, asked)]

Transformed(px, transform, rd) ==
  CASE transform = "convert" -> convert_color_space(px, rd)
    [] transform = "require" -> require_color_space(px, rd)
    [] transform = "identity" -> rd
    [] transform = "shift rgb" -> SetShift(rd, "rgb", "rgba")
    [] transform = "shift gray" -> SetShift(rd, "gray", "ga")

\* ---- rows in passes: libpng takes or fills the pixels of one pass
Passes(interlace) == IF interlace THEN 7 ELSE 1
PassOf(interlace, x, y) ==
  CASE ~interlace -> 0
    [] interlace /\ y % 2 = 1 -> 6
    [] interlace /\ y % 2 = 0 /\ x % 2 = 1 -> 5
    [] interlace /\ y % 4 = 2 /\ x % 2 = 0 -> 4
    [] interlace /\ y % 4 = 0 /\ x % 4 = 2 -> 3
    [] interlace /\ y % 8 = 4 /\ x % 4 = 0 -> 2
    [] interlace /\ y % 8 = 0 /\ x % 8 = 4 -> 1
    [] interlace /\ y % 8 = 0 /\ x % 8 = 0 -> 0
RowCall(info, x, y) == PassOf(info.interlace, x, y) * info.height + y

\* libpng packs small pixels from the left.
Place(px, x)        == 8 - px.depth * (1 + (x % PerByte(px)))
Unpacked(px, row, x) ==
  IF px.depth < 8 THEN (row.bytes[x \div PerByte(px)] \div 2 ^ Place(px, x)) % 2 ^ px.depth ELSE row.bytes[x]
Packed(px, n, value) ==
  [k \in 0 .. RowBytes(px, n) - 1 |->
     IF px.depth < 8 THEN MapThenSumSet(LAMBDA x : value[x] * 2 ^ Place(px, x), {x \in 0 .. n - 1 : x \div PerByte(px) = k})
     ELSE value[k]]

\* The rows after n calls of read_row: reset sizes the buffer in the first
\* pass, and a row that is met again keeps what it has.
ReadRows(px, info, buffer, file, n) ==
  LET sized == Resized(px, buffer, info.width, info.height)
      Known(x, y) == IF RowCall(info, x, y) < n THEN file.pixels[y][x] ELSE Unpacked(px, sized.rows[y], x)
  IN  [sized EXCEPT !.rows =
         [y \in DOMAIN @ |-> IF \E x \in 0 .. info.width - 1 : RowCall(info, x, y) < n
                             THEN [@[y] EXCEPT !.bytes = Packed(px, info.width, [x \in 0 .. info.width - 1 |-> Known(x, y)])]
                             ELSE @[y]]]

\* consumer::read for an image: what the stream holds may end early.
Swapped(px, rd)    == IF px.depth = 16 THEN Ask(rd, "swap") ELSE rd
Mismatched(px, rd) == IF rd.info.color # px.color \/ rd.info.depth # px.depth THEN Throw(rd, "logic_error") ELSE rd
RowsRead(streams, calls) == CHOOSE n \in 0 .. calls : (n = calls \/ ~Reads(streams, n + 2)) /\ \A k \in 1 .. n : Reads(streams, k + 1)

Consumed(px, im, file, rd, streams, calls) ==
  CASE ~Reads(streams, 1)                     -> [im |-> im, thrown |-> "error", format |-> <<>>]
    [] Reads(streams, 1) /\ rd.thrown # ""    -> [im |-> im, thrown |-> rd.thrown, format |-> <<>>]
    [] Reads(streams, 1) /\ rd.thrown = ""    ->
         [im |-> [info |-> rd.info, pixbuf |-> ReadRows(px, rd.info, im.pixbuf, file, RowsRead(streams, calls))],
          thrown |-> IF Reads(streams, calls + 2) THEN "" ELSE "error",
          format |-> Delivered(file.info, rd.asked)]

consumer_read(px, im, file, transform, lasts) ==
  Consumed(px, im, file, Mismatched(px, Swapped(px, Transformed(px, transform, Reader(file)))),
           IF lasts < file.lasts THEN lasts ELSE file.lasts, Passes(file.info.interlace) * file.info.height)

\* A consumer of one's own that knows no passes: the call of read_row that
\* yields each of its rows, after those for the rows that are skipped.
skip_interlaced_rows(info) == Passes(info.interlace) - 1
CallsSeen(info) == [y \in 0 .. info.height - 1 |-> skip_interlaced_rows(info) + y]

read(px, im, path, transform, lasts) ==
  IF path = <<>> THEN [im |-> im, thrown |-> "std_error", format |-> <<>>]
  ELSE consumer_read(px, im, path[1], transform, lasts)
\* An image that cannot be read is not constructed.
ImageFrom(px, path, transform, lasts) ==
  LET r == read(px, [info |-> image_info, pixbuf |-> EmptyBuffer], path, transform, lasts)
  IN  IF r.thrown = "" THEN r ELSE [r EXCEPT !.im = <<>>]

\* ---- writing
Writes(lasts, step) == step <= lasts

\* info::write: the palette and its transparency; libpng takes no image
\* without pixels and no palette image without a palette.
WriteInfo(info) == [info EXCEPT !.tRNS = IF info.color = ColorType.palette THEN @ ELSE <<>>,
                                !.palette = IF info.color = ColorType.palette THEN @ ELSE <<>>]
Accepted(info) == info.width > 0 /\ info.height > 0 /\ (info.color = ColorType.palette => info.palette # <<>>)

\* generator::write. The rows are as long as the image's information says,
\* whatever their buffer holds: `beyond' is read past a row's end.
RowsWritten(info, buffer, lasts, calls) ==
  CHOOSE n \in 0 .. calls :
    /\ n = calls \/ n % info.height \notin DOMAIN buffer.rows \/ ~Writes(lasts, n + 2)
    /\ \A k \in 0 .. n - 1 : k % info.height \in DOMAIN buffer.rows /\ Writes(lasts, k + 2)

Generated(px, info, buffer, lasts, calls, rows) ==
  [thrown |-> CASE rows = calls /\ Writes(lasts, calls + 2) -> ""
                [] rows < calls /\ rows % info.height \notin DOMAIN buffer.rows -> "out_of_range"
                [] OTHER -> "error",
   file |-> [info |-> WriteInfo(info),
             lasts |-> rows + (IF rows = calls /\ Writes(lasts, calls + 2) THEN 2 ELSE 1),
             pixels |-> [y \in 0 .. info.height - 1 |-> [x \in 0 .. info.width - 1 |->
               IF RowCall(info, x, y) < rows /\ x \div PerByte(px) \in DOMAIN buffer.rows[y].bytes
               THEN Unpacked(px, buffer.rows[y], x) ELSE 0]]],
   beyond |-> \E y \in DOMAIN buffer.rows :
                y < info.height /\ y < rows /\ RowBytes(px, buffer.rows[y].size) < RowBytes(px, info.width)]

NotGenerated(info, what, lasts) ==
  [thrown |-> what, file |-> [info |-> WriteInfo(info), pixels |-> <<>>, lasts |-> lasts], beyond |-> FALSE]

generator_write(px, info, buffer, supported, lasts, calls) ==
  CASE ~Accepted(info) \/ ~Writes(lasts, 1) -> NotGenerated(info, "error", 0)
    [] Accepted(info) /\ Writes(lasts, 1) /\ info.interlace /\ ~supported -> NotGenerated(info, "logic_error", 1)
    [] OTHER -> Generated(px, info, buffer, lasts, calls, RowsWritten(info, buffer, lasts, calls))

\* The stream is closed when it goes out of scope, and what it could not
\* put into the file by then is lost without a word.
Closed(w, closes) == IF closes \/ w.file.lasts = 0 THEN w ELSE [w EXCEPT !.file.lasts = @ - 1]
write(px, im, opened, lasts, closes) ==
  IF ~opened THEN NotGenerated(image_info, "std_error", 0)
  ELSE Closed(generator_write(px, im.info, im.pixbuf, TRUE, lasts, Passes(im.info.interlace) * im.info.height), closes)

\* ---- operations on an image
resize(px, im, w, h) ==
  [info |-> With(With(im.info, "width", w), "height", h), pixbuf |-> Resized(px, im.pixbuf, w, h)]
set_pixbuf(im, buffer)       == [im EXCEPT !.pixbuf = buffer]
set_field(im, field, value)  == [im EXCEPT !.info = With(@, field, value)]
\* Another size is a failed assertion, another row out of range.
put_row(buffer, y, row) ==
  IF row.size = buffer.width /\ y \in DOMAIN buffer.rows THEN [buffer EXCEPT !.rows[y] = row] ELSE buffer

Step(px, im, op) ==
  CASE op.op = "resize" -> resize(px, im, op.w, op.h)
    [] op.op = "set_pixel" ->
         IF Reachable(px, im.pixbuf, op.x, op.y) THEN [im EXCEPT !.pixbuf = set_pixel(px, @, op.x, op.y, op.value)] ELSE im
    [] op.op = "set_pixbuf" -> set_pixbuf(im, Resized(px, EmptyBuffer, op.w, op.h))
    [] op.op = "put_row" ->
         set_pixbuf(im, put_row(im.pixbuf, op.y, RowResized(px, [size |-> 0, bytes |-> <<>>], op.w)))
    [] op.op = "set" -> set_field(im, op.field, op.value)
Run(px, im, ops) ==
  LET after[k \in 0 .. Len(ops)] == IF k = 0 THEN im ELSE Step(px, after[k - 1], ops[k])
  IN  after[Len(ops)]

\* save_png: every value through the colour map, and the picture to a file.
rgb(c) == (c[1] % 256) * 65536 + (c[2] % 256) * 256 + (c[3] % 256)
RgbPixel == Traits("rgb", 3, 8)
save_png(width, height, data, palette, opened, lasts, closes) ==
  write(RgbPixel,
        [NewImage(RgbPixel, width, height) EXCEPT !.pixbuf.rows =
           [j \in DOMAIN @ |-> [@[j] EXCEPT !.bytes = [i \in DOMAIN @ |-> rgb(palette[data[i + j * width]])]]]],
        opened, lasts, closes)

-----------------------------------------------------------------------------
\* What is read is the file's picture in the format of the pixels, or an
\* error is thrown; an image that was to be overwritten keeps its size
\* unless the rows had begun, and is as large as its information says.
Picture(px, im, info, pixels) ==
  /\ im.info.width = info.width /\ im.info.height = info.height
  /\ im.pixbuf.width = info.width /\ im.pixbuf.height = info.height
  /\ \A y \in 0 .. info.height - 1, x \in 0 .. info.width - 1 : get_pixel(px, im.pixbuf, x, y) = pixels[y][x]
ReadSoundly(px, im, file, transform, r) ==
  /\ r.thrown = "" => /\ Picture(px, r.im, file.info, file.pixels)
                      /\ transform \in {"convert", "require", "identity"}
  /\ r.format # <<>> => r.format.color = px.color /\ r.format.depth = px.depth /\ r.im.info.color = px.color
  /\ r.format = <<>> => r.im = im /\ r.thrown # ""
  /\ \A y \in 0 .. r.im.info.height - 1, x \in 0 .. r.im.info.width - 1 :
       LET v == get_pixel(px, r.im.pixbuf, x, y)
       IN  \/ v = 0 \/ v = file.pixels[y][x]
           \/ Reachable(px, im.pixbuf, x, y) /\ v = get_pixel(px, im.pixbuf, x, y)

\* Conversion fails only towards a palette.
Converts(px, file, r) == r.format = <<>> => r.thrown = "error" /\ px.color = ColorType.palette /\ file.info.color # px.color

\* What was written without an error is read back as it was; what was not,
\* is not read back as a whole.
Fits(im) == im.info.width = im.pixbuf.width /\ im.info.height = im.pixbuf.height
Again(px, im, again) ==
  /\ again.thrown = ""
  /\ again.im.info = [im.info EXCEPT !.tRNS = IF px.color = ColorType.palette THEN @ ELSE <<>>,
                                     !.palette = IF px.color = ColorType.palette THEN @ ELSE <<>>]
  /\ \A y \in 0 .. im.info.height - 1, x \in 0 .. im.info.width - 1 :
       get_pixel(px, again.im.pixbuf, x, y) = get_pixel(px, im.pixbuf, x, y)
SoundWith(px, im, whole, w, again) ==
  /\ Fits(im) => ~w.beyond /\ w.thrown # "out_of_range" /\ (whole => Again(px, im, again))
  /\ ~whole => again.thrown # ""
  /\ w.beyond => im.pixbuf.width < im.info.width
WrittenSoundly(px, im, closes, w) ==
  SoundWith(px, im, w.thrown = "" /\ closes, w,
            consumer_read(px, [info |-> image_info, pixbuf |-> EmptyBuffer], w.file, "require", 99))

\* A pixel holds what was last set there; rows that shrink and grow again
\* may show what they held before, but never another pixel's value.
Sets(ops, x, y)   == {k \in 1 .. Len(ops) : ops[k].op = "set_pixel" /\ ops[k].x = x /\ ops[k].y = y}
Reshapes(ops)     == {k \in 1 .. Len(ops) : ops[k].op \in {"resize", "set_pixbuf", "put_row", "fetch_bytes"}}
Remembers(px, ops, width, height, Get(_, _)) ==
  \A x \in 0 .. width - 1, y \in 0 .. height - 1 :
    /\ Get(x, y) \in {0} \cup {Mask(px, ops[k].value) : k \in Sets(ops, x, y)}
    /\ \A k \in Sets(ops, x, y) :
         (\A j \in Sets(ops, x, y) \cup Reshapes(ops) : j <= k) => Get(x, y) = Mask(px, ops[k].value)

\* Every row is as long as the buffer is wide, and an image is as large as
\* its information says unless its buffer was replaced after it was sized.
InStep(ops, im) ==
  /\ DOMAIN im.pixbuf.rows = 0 .. im.pixbuf.height - 1
  /\ \A y \in DOMAIN im.pixbuf.rows : im.pixbuf.rows[y].size = im.pixbuf.width
  /\ (\A k \in 1 .. Len(ops) : ops[k].op = "set_pixbuf" => \E j \in k .. Len(ops) : ops[j].op = "resize") =>
       im.info.width = im.pixbuf.width /\ im.info.height = im.pixbuf.height

\* A buffer in one piece holds what was last set since it was reshaped.
SolidHolds(ops, b) ==
  /\ b.length = b.width * b.height /\ DOMAIN b.bytes = 0 .. b.length - 1
  /\ \A x \in 0 .. b.width - 1, y \in 0 .. b.height - 1 :
       /\ SolidReachable(b, x, y) /\ SolidIndex(b, x, y) = SolidRow(b, y) + x
       /\ Reshapes(ops) = {1} => b.bytes[SolidIndex(b, x, y)] \in {0} \cup {ops[k].value : k \in
            {j \in 2 .. Len(ops) : ops[j].y * b.width + ops[j].x = y * b.width + x}}
       /\ \A k \in Sets(ops, x, y) :
            (\A j \in Reshapes(ops) \cup {j \in 1 .. Len(ops) : ops[j].op = "set_pixel"} : j <= k) =>
              b.bytes[SolidIndex(b, x, y)] = ops[k].value

\* Every byte becomes the low one of a pair.
Doubled(row, n, r) == \A i \in 0 .. n - 1 : r[2 * i + 1] = row[i] /\ r[2 * i] = 0

\* Every row is read once, in order; never more rows than there are.
InOrder(info, r) == /\ \A y \in 0 .. info.height - 1 : r[y] < Passes(info.interlace) * info.height
                    /\ ~info.interlace => r = [y \in 0 .. info.height - 1 |-> y]

\* The picture is in the file if nothing failed.
Saved(width, height, data, palette, opened, lasts, closes, w) ==
  /\ w.thrown = "" <=> opened /\ width > 0 /\ height > 0 /\ lasts >= height + 2
  /\ w.thrown = "" /\ closes =>
       /\ w.file.lasts = height + 2
       /\ \A x \in 0 .. width - 1, y \in 0 .. height - 1 :
            LET v == w.file.pixels[y][x]
                c == palette[data[x + y * width]]
            IN  v \div 65536 = c[1] % 256 /\ (v \div 256) % 256 = c[2] % 256 /\ v % 256 = c[3] % 256
=============================================================================
