----------------------------- MODULE PixelPack -----------------------------
(***************************************************************************)
(* Repacking one line of pixels (libs/dutils_image, dutils_img_filter):    *)
(* the functions that turn 10, 12 and 16 bit mono and Bayer lines, packed  *)
(* in the ways cameras pack them, into 8 or 16 bit pixels, and mono lines  *)
(* into BGR.  Every function exists three times: vectors of SSE, vectors   *)
(* of NEON, and plain C for what the vectors leave over.                   *)
(*                                                                         *)
(* A bit is <<x, k>>: the k-th bit, counted from the highest, of pixel x.  *)
(* A line or a register is a function from bit positions (byte 0, bit 0    *)
(* first) to bits, so each instruction is the permutation it performs and  *)
(* a conversion is correct when the right bits land in the right places.   *)
(***************************************************************************)
EXTENDS Integers, Sequences

CONSTANTS PkArchs,     \* the builds: "sse", "arm" or "c"
          PkWidths     \* the widths of a line in pixels

ASSUME PkAssumption == PkArchs \subseteq {"sse", "arm", "c"} /\ PkWidths \subseteq Nat \ {0}

VARIABLES pkFn,        \* the running conversion: source and target layout, function, width
          pkX,         \* x, the next pixel
          pkDst,       \* the target line, with the memory around it
          pkRead       \* the first byte past the last one read from the source

pkVars == <<pkFn, pkX, pkDst, pkRead>>

Zero == <<-1, 0>>
Full == <<-1, 1>>         \* a bit of the filling alpha
Junk == <<-2, 0>>        \* a bit the layout leaves undefined
Outside == <<-3, 0>>     \* read from beyond the line
Unwritten == <<-4, 0>>
Lost == <<-5, 0>>        \* a bit mixed with another

-----------------------------------------------------------------------------
(* Layouts. *)

Depth(src) ==
    CASE src = "fcc8" -> 8
      [] src = "fcc16" -> 16
      [] src \in {"fcc10", "fcc10_spacked", "fcc10_mipi"} -> 10
      [] OTHER -> 12

\* The pixels and the bytes of the smallest unit that starts on a byte.
Group(src) ==
    CASE src \in {"fcc10_spacked", "fcc10_mipi"} -> [px |-> 4, bytes |-> 5]
      [] src \in {"fcc12_packed", "fcc12_mipi", "fcc12_spacked"} -> [px |-> 2, bytes |-> 3]
      [] src = "fcc8" -> [px |-> 1, bytes |-> 1]
      [] OTHER -> [px |-> 1, bytes |-> 2]

Offset(src, x) == (x \div Group(src).px) * Group(src).bytes

\* enum class fccXX_pack_type: where a group keeps the bits of its pixels; p and b
\* are the byte in the group and the bit in the byte.
fccXX_pack_type(src, x, p, b) ==
    CASE src = "fcc8" -> <<x, 7 - b>>
      [] src = "fcc16" -> <<x, 15 - (8 * p + b)>>
      [] src \in {"fcc10", "fcc12"} ->
            IF 8 * p + b < Depth(src) THEN <<x, Depth(src) - 1 - (8 * p + b)>> ELSE Junk
      [] src \in {"fcc10_spacked", "fcc12_spacked"} ->
            <<x + (8 * p + b) \div Depth(src), Depth(src) - 1 - ((8 * p + b) % Depth(src))>>
      [] src = "fcc10_mipi" ->
            IF p < 4 THEN <<x + p, 7 - b>> ELSE <<x + b \div 2, 9 - (b % 2)>>
      [] src = "fcc12_mipi" ->
            IF p < 2 THEN <<x + p, 7 - b>> ELSE <<x + b \div 4, 11 - (b % 4)>>
      [] src = "fcc12_packed" ->
            IF p = 1 THEN <<x + b \div 4, 11 - (b % 4)>> ELSE <<x + p \div 2, 7 - b>>

\* A line of the camera.
SourceLine(src, w) ==
    LET g == Group(src)
    IN [i \in 0 .. 8 * Offset(src, w) - 1 |->
            fccXX_pack_type(src, (i \div (8 * g.bytes)) * g.px, (i \div 8) % g.bytes, i % 8)]

Bytes(dst) ==
    CASE dst = "fcc8" -> 1 [] dst = "fcc16" -> 2 [] dst = "BGR24" -> 3
      [] dst = "BGRA32" -> 4 [] dst = "BGRA64" -> 8

\* What a target pixel must be: the highest bits of its source, in every colour
\* for BGR; the filling alpha byte is not looked at.
Wanted(src, dst, x, i) ==
    LET depth == IF dst \in {"fcc8", "BGR24", "BGRA32"} THEN 8 ELSE 16
        k == depth - 1 - (i % depth)
    IN IF k < Depth(src) THEN <<x, k>> ELSE Zero

-----------------------------------------------------------------------------
(* Instructions.  A register is a function on 0 .. 8 * bytes - 1. *)

Load(l, bytes, at) ==
    [i \in 0 .. 8 * bytes - 1 |-> IF 8 * at + i \in DOMAIN l THEN l[8 * at + i] ELSE Outside]

Width(r) == IF DOMAIN r = {} THEN 0 ELSE 1 + (CHOOSE i \in DOMAIN r : i + 1 \notin DOMAIN r)

Cat(u, v) == LET n == Width(u) IN
    [i \in 0 .. n + Width(v) - 1 |-> IF i < n THEN u[i] ELSE v[i - n]]

Low(r, bytes) == [i \in 0 .. 8 * bytes - 1 |-> r[i]]

\* Bytes picked by their number; 128 gives a zero byte.
Shuffle(r, pick) ==
    [i \in 0 .. 8 * Len(pick) - 1 |->
        IF pick[1 + i \div 8] = 128 THEN Zero ELSE r[8 * pick[1 + i \div 8] + (i % 8)]]

Sll(r, n, lane) == [i \in DOMAIN r |-> IF i % lane >= n THEN r[i - n] ELSE Zero]
Srl(r, n, lane) == [i \in DOMAIN r |-> IF (i % lane) + n < lane THEN r[i + n] ELSE Zero]

OrBit(a, b) == IF a = Zero THEN b ELSE IF b = Zero THEN a ELSE Lost
Or(u, v) == [i \in DOMAIN u |-> OrBit(u[i], v[i])]

\* Bits lo .. hi - 1 of every lane are kept.
And(r, lo, hi, lane) == [i \in DOMAIN r |-> IF i % lane \in lo .. hi - 1 THEN r[i] ELSE Zero]

\* The lanes of several registers in turn (unpack, vst2, vst3, vst4, vzip).
InterleaveLanes(rs, lane) ==
    [i \in 0 .. Len(rs) * Width(rs[1]) - 1 |->
        rs[1 + ((i \div lane) % Len(rs))][lane * (i \div (lane * Len(rs))) + (i % lane)]]

UnpackLo(u, v, lane) == Low(InterleaveLanes(<<u, v>>, lane), 16)
UnpackHi(u, v, lane) == [i \in 0 .. 127 |-> InterleaveLanes(<<u, v>>, lane)[128 + i]]

\* Every n-th byte (vld2, vld3).
Every(r, n, k) == [i \in 0 .. Width(r) \div n - 1 |-> r[8 * n * (i \div 8) + 8 * k + (i % 8)]]

\* Low half of every 16 bit lane; packus loses what does not fit in it.
NarrowLanes(r) == [i \in 0 .. Width(r) \div 2 - 1 |-> r[16 * (i \div 8) + (i % 8)]]
Packus(r) ==
    [i \in 0 .. Width(r) \div 2 - 1 |->
        IF \A j \in 8 .. 15 : r[16 * (i \div 8) + j] = Zero THEN r[16 * (i \div 8) + (i % 8)] ELSE Lost]
Widen(r) == [i \in 0 .. 2 * Width(r) - 1 |-> IF i % 16 < 8 THEN r[8 * (i \div 16) + (i % 16)] ELSE Zero]

U16(l, at) == Widen(Load(l, 1, at))

-----------------------------------------------------------------------------
(* One pixel in C, to 16 and to 8 bits. *)

calc_fcc12_packed_to_fcc16(l, x) ==
    LET p == Offset("fcc12_packed", x) IN
    IF x % 2 = 0 THEN Or(Sll(U16(l, p), 8, 16), Sll(And(U16(l, p + 1), 0, 4, 16), 4, 16))
                 ELSE Or(Sll(U16(l, p + 2), 8, 16), And(U16(l, p + 1), 4, 8, 16))

calc_fcc12_mipi_to_fcc16(l, x) ==
    LET p == Offset("fcc12_mipi", x) IN
    IF x % 2 = 0 THEN Or(Sll(U16(l, p), 8, 16), Sll(And(U16(l, p + 2), 0, 4, 16), 4, 16))
                 ELSE Or(Sll(U16(l, p + 1), 8, 16), And(U16(l, p + 2), 4, 8, 16))

calc_fcc12_spacked_to_fcc16(l, x) ==
    LET p == Offset("fcc12_spacked", x) IN
    IF x % 2 = 0 THEN Or(Sll(U16(l, p), 4, 16), Sll(And(U16(l, p + 1), 0, 4, 16), 12, 16))
                 ELSE Or(And(U16(l, p + 1), 4, 8, 16), Sll(U16(l, p + 2), 8, 16))

calc_fcc10_spacked_to_fcc16(l, x) ==
    LET p == Offset("fcc10_spacked", x)
        k == x % 4
    IN Or(Sll(And(U16(l, p + k), 2 * k, 8, 16), 6 - 2 * k, 16),
          Sll(And(U16(l, p + k + 1), 0, 2 + 2 * k, 16), 14 - 2 * k, 16))

calc_fcc10_packed_mipi_to_fcc16(l, x) ==
    LET p == Offset("fcc10_mipi", x)
        k == x % 4
    IN Or(Sll(U16(l, p + k), 8, 16),
          Sll(Srl(And(U16(l, p + 4), 2 * k, 2 * k + 2, 16), 2 * k, 16), 6, 16))

calc_fcc12_to_fcc16(l, x) == Sll(Load(l, 2, 2 * x), 4, 16)
calc_fcc10_to_fcc16(l, x) == Sll(Load(l, 2, 2 * x), 6, 16)
transform_fcc8_to_fcc16_c_line(l, x) == Sll(U16(l, x), 8, 16)

calc_fcc12_packed_to_fcc8(l, x) == Load(l, 1, Offset("fcc12_packed", x) + 2 * (x % 2))
calc_fcc12_mipi_to_fcc8(l, x) == Load(l, 1, Offset("fcc12_mipi", x) + (x % 2))

calc_fcc12_spacked_to_fcc8(l, x) ==
    LET p == Offset("fcc12_spacked", x) IN
    IF x % 2 = 0 THEN Or(Srl(Load(l, 1, p), 4, 8), Sll(Load(l, 1, p + 1), 4, 8))
                 ELSE Load(l, 1, p + 2)

calc_fcc10_spacked_to_fcc8(l, x) ==
    LET p == Offset("fcc10_spacked", x)
        k == x % 4
    IN IF k = 3 THEN Load(l, 1, p + 4)
       ELSE Or(Srl(Load(l, 1, p + k), 2 * k + 2, 8), Sll(Load(l, 1, p + k + 1), 6 - 2 * k, 8))

calc_fcc10_mipi_to_fcc8(l, x) == Load(l, 1, Offset("fcc10_mipi", x) + (x % 4))
calc_fcc12_to_fcc8(l, x) == NarrowLanes(Srl(And(Load(l, 2, 2 * x), 0, 12, 16), 4, 16))
calc_fcc10_to_fcc8(l, x) == NarrowLanes(Srl(And(Load(l, 2, 2 * x), 0, 10, 16), 2, 16))
transform_fcc16_to_fcc8_c_line(l, x) == NarrowLanes(Srl(Load(l, 2, 2 * x), 8, 16))

\* The pixel as MONO8 or as MONO16.
get_fccXX_to_fcc8_func(src, l, x) ==
    CASE src = "fcc8" -> Load(l, 1, x)
      [] src = "fcc16" -> transform_fcc16_to_fcc8_c_line(l, x)
      [] src = "fcc12" -> calc_fcc12_to_fcc8(l, x)
      [] src = "fcc12_packed" -> calc_fcc12_packed_to_fcc8(l, x)
      [] src = "fcc12_mipi" -> calc_fcc12_mipi_to_fcc8(l, x)
      [] src = "fcc12_spacked" -> calc_fcc12_spacked_to_fcc8(l, x)
      [] src = "fcc10" -> calc_fcc10_to_fcc8(l, x)
      [] src = "fcc10_mipi" -> calc_fcc10_mipi_to_fcc8(l, x)
      [] src = "fcc10_spacked" -> calc_fcc10_spacked_to_fcc8(l, x)

get_fccXX_to_fcc16_func(src, l, x) ==
    CASE src = "fcc8" -> transform_fcc8_to_fcc16_c_line(l, x)
      [] src = "fcc16" -> Load(l, 2, 2 * x)
      [] src = "fcc12" -> calc_fcc12_to_fcc16(l, x)
      [] src = "fcc12_packed" -> calc_fcc12_packed_to_fcc16(l, x)
      [] src = "fcc12_mipi" -> calc_fcc12_mipi_to_fcc16(l, x)
      [] src = "fcc12_spacked" -> calc_fcc12_spacked_to_fcc16(l, x)
      [] src = "fcc10" -> calc_fcc10_to_fcc16(l, x)
      [] src = "fcc10_mipi" -> calc_fcc10_packed_mipi_to_fcc16(l, x)
      [] src = "fcc10_spacked" -> calc_fcc10_spacked_to_fcc16(l, x)

Alpha(bytes) == [i \in 0 .. 8 * bytes - 1 |-> Full]

transform_MONO_to_BGR24_c_line(src, l, x) ==
    LET v == get_fccXX_to_fcc8_func(src, l, x) IN Cat(Cat(v, v), v)
transform_MONO_to_BGRA32_c_line(src, l, x) ==
    LET v == get_fccXX_to_fcc8_func(src, l, x) IN Cat(Cat(Cat(v, v), v), Alpha(1))
transform_MONO_to_BGRA64_c_line(src, l, x) ==
    LET v == get_fccXX_to_fcc16_func(src, l, x) IN Cat(Cat(Cat(v, v), v), Alpha(2))

PixelInC(src, dst, l, x) ==
    CASE dst = "fcc8" -> get_fccXX_to_fcc8_func(src, l, x)
      [] dst = "fcc16" -> get_fccXX_to_fcc16_func(src, l, x)
      [] dst = "BGR24" -> transform_MONO_to_BGR24_c_line(src, l, x)
      [] dst = "BGRA32" -> transform_MONO_to_BGRA32_c_line(src, l, x)
      [] dst = "BGRA64" -> transform_MONO_to_BGRA64_c_line(src, l, x)

-----------------------------------------------------------------------------
(* The vector loops: what one round makes of the bytes at pixel x. *)

Zeroes == [i \in 0 .. 127 |-> Zero]

\* 12 bit pixels whose high bytes and shared low nibbles are scattered alike.
UpperAndNibbles(v, upper, mid) ==
    LET lower == Shuffle(v, mid)
        odd == Sll(Srl(lower, 4, 16), 4, 16)
        even == Srl(Sll(lower, 12, 16), 8, 16)
        low == Packus(Cat(UnpackLo(even, odd, 16), Zeroes))
    IN UnpackLo(low, Shuffle(v, upper), 8)

PackedUpper == <<0, 2, 3, 5, 6, 8, 9, 11, 12, 14, 15, 128, 128, 128, 128, 128>>
MipiUpper == <<0, 1, 3, 4, 6, 7, 9, 10, 12, 13, 15, 128, 128, 128, 128, 128>>

transform_fcc12_packed_to_fcc16_ssse3_v0(l, x) ==
    UpperAndNibbles(Load(l, 16, Offset("fcc12_packed", x)), PackedUpper,
        <<1, 128, 4, 128, 7, 128, 10, 128, 13, 128, 128, 128, 128, 128, 128, 128>>)

transform_fcc12_mipi_to_fcc16_ssse3_v0(l, x) ==
    UpperAndNibbles(Load(l, 16, Offset("fcc12_mipi", x)), MipiUpper,
        <<2, 128, 5, 128, 8, 128, 11, 128, 14, 128, 128, 128, 128, 128, 128, 128>>)

transform_fcc12_spacked_to_fcc16_ssse3_v0(l, x) ==
    LET v == Load(l, 16, Offset("fcc12_spacked", x))
        low == Shuffle(v, <<0, 128, 3, 128, 6, 128, 9, 128, 12, 128, 128, 128, 128, 128, 128, 128>>)
        mid == Shuffle(v, <<1, 128, 4, 128, 7, 128, 10, 128, 13, 128, 128, 128, 128, 128, 128, 128>>)
        hig == Shuffle(v, <<128, 2, 128, 5, 128, 8, 128, 11, 128, 14, 128, 128, 128, 128, 128, 128>>)
    IN UnpackLo(Or(Sll(low, 4, 16), Sll(mid, 12, 16)), Or(hig, Sll(Srl(mid, 4, 16), 4, 16)), 16)

transform_fcc10_spacked_to_fcc16_ssse3_v0(l, x) ==
    LET v == Load(l, 16, Offset("fcc10_spacked", x))
        Scatter(k) == Srl(Shuffle(v, <<k, k + 1, k + 5, k + 6, k + 10, k + 11,
                                       128, 128, 128, 128, 128, 128, 128, 128, 128, 128>>), 2 * k, 16)
        lo == UnpackLo(Scatter(0), Scatter(1), 16)
        hi == UnpackLo(Scatter(2), Scatter(3), 16)
    IN Cat(Sll(UnpackLo(lo, hi, 32), 6, 16), Low(Sll(UnpackHi(lo, hi, 32), 6, 16), 8))

transform_fcc12_to_fcc16_step(l, x) == Sll(Load(l, 16, 2 * x), 4, 16)
transform_fcc10_to_fcc16_step(l, x) == Sll(Load(l, 16, 2 * x), 6, 16)

transform_fcc12_packed_to_fcc8_ssse3_v0(l, x) ==
    Shuffle(Load(l, 16, Offset("fcc12_packed", x)), PackedUpper)

transform_fcc12_mipi_to_fcc8_ssse3_v0(l, x) ==
    Low(Shuffle(Load(l, 16, Offset("fcc12_mipi", x)), MipiUpper), 8)

transform_fcc12_spacked_to_fcc8_ssse3_v0(l, x) ==
    LET v == Load(l, 16, Offset("fcc12_spacked", x))
        p0 == Shuffle(v, <<0, 1, 3, 4, 6, 7, 9, 10, 12, 13, 15, 128, 128, 128, 128, 128>>)
        p1 == Shuffle(v, <<128, 2, 128, 5, 128, 8, 128, 11, 128, 14, 128, 128, 128, 128, 128, 128>>)
    IN Low(Or(p1, And(Srl(p0, 4, 16), 0, 8, 16)), 8)

transform_fcc10_spacked_to_fcc8_ssse3_v0(l, x) ==
    Packus(Srl(Cat(transform_fcc10_spacked_to_fcc16_ssse3_v0(l, x), Low(Zeroes, 8)), 8, 16))

transform_fcc8_to_fcc16_sse4_1_impl(l, x) ==
    LET v == Load(l, 16, x) IN Cat(UnpackLo(Zeroes, v, 8), UnpackHi(Zeroes, v, 8))
transform_fcc16_to_fcc8_sse4_1_impl(l, x) == Packus(Srl(Load(l, 32, 2 * x), 8, 16))

\* vsli: the low n bits of a, above them b.
Sli(a, b, n) == [i \in DOMAIN a |-> IF i % 16 < n THEN a[i] ELSE b[i - n]]

\* 16 pixels of 3 bytes for 2: the even ones from low and mid, the odd ones from mid and hig.
HighAndNibbles(low, mid, hig) ==
    InterleaveLanes(<<Sli(Sll(mid, 4, 16), low, 8), Sli(And(mid, 4, 8, 16), hig, 8)>>, 16)

transform_fcc12_packed_to_dst_neon_v0(l, x) ==
    LET v == Load(l, 24, Offset("fcc12_packed", x))
    IN HighAndNibbles(Widen(Every(v, 3, 0)), Widen(Every(v, 3, 1)), Widen(Every(v, 3, 2)))

transform_fcc12_packed_mipi_to_dst_neon_v0(l, x) ==
    LET v == Load(l, 24, Offset("fcc12_mipi", x))
    IN HighAndNibbles(Widen(Every(v, 3, 0)), Widen(Every(v, 3, 2)), Widen(Every(v, 3, 1)))

transform_fcc12_spacked_to_dst_neon_v0(l, x) ==
    LET v == Load(l, 24, Offset("fcc12_spacked", x))
        low == Widen(Every(v, 3, 0))
        mid == Widen(Every(v, 3, 1))
        hig == Widen(Every(v, 3, 2))
    IN InterleaveLanes(<<Sli(Sll(low, 4, 16), mid, 12), Sli(And(mid, 4, 8, 16), hig, 8)>>, 16)

\* The pairs of low bits of four pixels, each moved to the top of its byte.
ShiftAndMask(r) ==
    [i \in DOMAIN r |-> LET n == 6 - 2 * ((i \div 8) % 4)
                            at == 8 * (i \div 8) + (i % 8) - n
                        IN IF i % 8 < 6 THEN Zero ELSE r[at]]

transform_fcc10_mipi_to_fcc16_arm_neon_subblock(v, upper, lower) ==
    InterleaveLanes(<<ShiftAndMask(Shuffle(v, lower)), Shuffle(v, upper)>>, 8)

\* 40 bytes are 32 pixels; the last 8 pixels straddle the four lanes of the table
\* and the bytes loaded behind them.
transform_fcc10_mipi_to_fcc16_arm_neon_block(l, at) ==
    LET lanes == Load(l, 32, at)
        rest == Load(l, 8, at + 32)
        Sub(k) == transform_fcc10_mipi_to_fcc16_arm_neon_subblock(lanes,
                      [j \in 1 .. 8 |-> 10 * k + <<0, 1, 2, 3, 5, 6, 7, 8>>[j]],
                      [j \in 1 .. 8 |-> 10 * k + <<4, 4, 4, 4, 9, 9, 9, 9>>[j]])
        upper == Or(Shuffle(lanes, <<30, 31, 128, 128, 128, 128, 128, 128>>),
                    Shuffle(rest, <<128, 128, 0, 1, 3, 4, 5, 6>>))
        lower == ShiftAndMask(Shuffle(rest, <<2, 2, 2, 2, 7, 7, 7, 7>>))
    IN Cat(Cat(Cat(Sub(0), Sub(1)), Sub(2)), InterleaveLanes(<<lower, upper>>, 8))

transform_fcc10_packed_to_dst_neon_v0(l, x) ==
    transform_fcc10_mipi_to_fcc16_arm_neon_block(l, (x * 10) \div 8)

transform_fcc12_to_fcc16_neon_v0(l, x) == Sll(Load(l, 16, 2 * x), 4, 16)
transform_fcc10_to_fcc16_neon_v0(l, x) == Sll(Load(l, 16, 2 * x), 6, 16)

transform_fcc12_packed_to_fcc8_neon_v0(l, x) ==
    LET v == Load(l, 24, Offset("fcc12_packed", x)) IN InterleaveLanes(<<Every(v, 3, 0), Every(v, 3, 2)>>, 8)
transform_fcc12_mipi_to_fcc8_neon_v0(l, x) ==
    LET v == Load(l, 24, Offset("fcc12_mipi", x)) IN InterleaveLanes(<<Every(v, 3, 0), Every(v, 3, 1)>>, 8)

transform_fcc12_spacked_to_fcc8_neon_v0(l, x) ==
    LET v == Load(l, 24, Offset("fcc12_spacked", x))
        zip == InterleaveLanes(<<Every(v, 3, 0), Every(v, 3, 1)>>, 8)
    IN InterleaveLanes(<<Packus(Srl(Sll(zip, 4, 16), 8, 16)), Every(v, 3, 2)>>, 8)

transform_fcc12_to_fcc8_neon_v0(l, x) == NarrowLanes(Srl(Load(l, 16, 2 * x), 4, 16))
transform_fcc10_to_fcc8_neon_v0(l, x) == NarrowLanes(Srl(Load(l, 16, 2 * x), 2, 16))

transform_fcc8_to_fcc16_neon_v0(l, x) ==
    Shuffle(Load(l, 8, x), <<128, 0, 128, 1, 128, 2, 128, 3, 128, 4, 128, 5, 128, 6, 128, 7>>)
transform_fcc16_to_fcc8_neon_v0(l, x, px) == Every(Load(l, 2 * px, 2 * x), 2, 1)

\* The last a of every n bytes filled with ones.
WithAlpha(r, n, a) == [i \in DOMAIN r |-> IF (i \div 8) % n >= n - a THEN Full ELSE r[i]]

convert_MONO8_to_BGR24_store_sse41(v) == Shuffle(v, [i \in 1 .. 48 |-> (i - 1) \div 3])
convert_MONO8_to_BGRA32_store_sse41(v) == WithAlpha(Shuffle(v, [i \in 1 .. 64 |-> (i - 1) \div 4]), 4, 1)
convert_MONO8_to_BGRA64_store_sse41(v) ==
    WithAlpha(Shuffle(v, [i \in 1 .. 64 |-> IF i % 2 = 1 THEN 128 ELSE (i - 1) \div 8]), 8, 2)
convert_MONO16_to_BGRA32_store_sse41(v) ==
    WithAlpha(Shuffle(v, [i \in 1 .. 32 |-> 2 * ((i - 1) \div 4) + 1]), 4, 1)
convert_MONO16_to_BGRA64_store_sse41(v) ==
    WithAlpha(Shuffle(v, [i \in 1 .. 64 |-> 2 * ((i - 1) \div 8) + ((i - 1) % 2)]), 8, 2)

\* A vector given as the number 0xFF: only its first lane is set.
FirstLane(n) == [i \in 0 .. n - 1 |-> IF i < 8 THEN Full ELSE Zero]

transform_MONO8_to_BGR24_neon(l, x) == LET v == Load(l, 8, x) IN InterleaveLanes(<<v, v, v>>, 8)
transform_MONO8_to_BGRA32_neon(l, x) ==
    LET v == Load(l, 8, x) IN InterleaveLanes(<<v, v, v, FirstLane(64)>>, 8)
transform_MONO16_to_BGRA32_neon(l, x) ==
    LET v == NarrowLanes(Srl(Load(l, 16, 2 * x), 8, 16)) IN InterleaveLanes(<<v, v, v, FirstLane(64)>>, 8)
transform_MONO16_to_BGRA64_neon(l, x) ==
    LET v == Load(l, 16, 2 * x) IN InterleaveLanes(<<v, v, v, FirstLane(128)>>, 16)

-----------------------------------------------------------------------------
(* Which function runs, its loops and its rest. *)

\* A loop runs while x < width - margin, reading load bytes a round.  The rest of
\* the line is done in C, or by one more round that ends with the line ("last").
Loop(margin, step, load) == [margin |-> margin, step |-> step, load |-> load]
Plain == [loops |-> <<>>, last |-> 0]
Looped(margin, step, load) == [loops |-> <<Loop(margin, step, load)>>, last |-> 0]

get_transform_fcc10or12_packed_to_fcc16_ssse3(src, w) ==
    CASE w < 8 -> Plain
      [] src \in {"fcc12", "fcc10"} -> [loops |-> <<Loop(8, 8, 16)>>, last |-> 8]
      [] src \in {"fcc12_packed", "fcc12_mipi", "fcc12_spacked"} -> Looped(12, 8, 16)
      [] src = "fcc10_spacked" -> Looped(16, 12, 16)
      [] OTHER -> Plain

get_transform_fcc10or12_packed_to_fcc16_neon_v0(src, w) ==
    CASE src \in {"fcc12", "fcc10"} -> Looped(7, 8, 16)
      [] src \in {"fcc12_packed", "fcc12_mipi", "fcc12_spacked"} -> Looped(24, 16, 24)
      [] src = "fcc10_mipi" /\ w >= 32 -> [loops |-> <<Loop(32, 32, 40)>>, last |-> 32]
      [] OTHER -> Plain

get_transform_fcc10or12_packed_to_fcc8_ssse3(src) ==
    CASE src \in {"fcc12_packed", "fcc12_mipi", "fcc12_spacked"} -> Looped(16, 8, 16)
      [] src = "fcc10_spacked" -> Looped(16, 12, 16)
      [] OTHER -> Plain

get_transform_fcc10or12_packed_to_fcc8_neon_v0(src) ==
    CASE src \in {"fcc12", "fcc10"} -> Looped(7, 8, 16)
      [] src \in {"fcc12_packed", "fcc12_mipi", "fcc12_spacked"} -> Looped(15, 16, 24)
      [] OTHER -> Plain

\* NEON narrows 32, then 16, then 8 pixels a round.
get_transform_fcc16_to_fcc8(arch) ==
    CASE arch = "sse" -> Looped(15, 16, 32)
      [] arch = "arm" -> [loops |-> <<Loop(31, 32, 64), Loop(15, 16, 32), Loop(7, 8, 16)>>, last |-> 0]
      [] OTHER -> Plain

get_transform_fcc8_to_fcc16(arch) ==
    CASE arch = "sse" -> Looped(15, 16, 16) [] arch = "arm" -> Looped(7, 8, 8) [] OTHER -> Plain

get_transform_mono_to_bgr_sse41(src, dst) ==
    IF src = "fcc8" THEN IF dst = "BGRA64" THEN Looped(7, 8, 8) ELSE Looped(15, 16, 16)
                    ELSE Looped(7, 8, 16)
get_transform_mono_to_bgr_neon(src, dst) == Looped(7, 8, IF src = "fcc8" THEN 8 ELSE 16)

\* The pairs for which a selector returns a function.
Convertible(arch, src, dst) ==
    CASE dst \in {"fcc8", "fcc16"} -> src # dst
      [] arch = "c" -> src \in {"fcc8", "fcc16"}
      [] arch = "sse" -> src = "fcc8" \/ (src = "fcc16" /\ dst # "BGR24")
      [] arch = "arm" -> <<src, dst>> \in {<<"fcc8", "BGR24">>, <<"fcc8", "BGRA32">>,
                                           <<"fcc16", "BGRA32">>, <<"fcc16", "BGRA64">>}

find_transform_function_type(arch, src, dst, w) ==
    CASE arch = "c" -> Plain
      [] dst \notin {"fcc8", "fcc16"} ->
            IF arch = "sse" THEN get_transform_mono_to_bgr_sse41(src, dst)
                            ELSE get_transform_mono_to_bgr_neon(src, dst)
      [] src = "fcc8" -> get_transform_fcc8_to_fcc16(arch)
      [] src = "fcc16" -> get_transform_fcc16_to_fcc8(arch)
      [] dst = "fcc16" -> IF arch = "sse" THEN get_transform_fcc10or12_packed_to_fcc16_ssse3(src, w)
                                          ELSE get_transform_fcc10or12_packed_to_fcc16_neon_v0(src, w)
      [] OTHER -> IF arch = "sse" THEN get_transform_fcc10or12_packed_to_fcc8_ssse3(src)
                                  ELSE get_transform_fcc10or12_packed_to_fcc8_neon_v0(src)

SseRound(src, dst, l, x) ==
    CASE dst = "fcc16" /\ src = "fcc12" -> transform_fcc12_to_fcc16_step(l, x)
      [] dst = "fcc16" /\ src = "fcc10" -> transform_fcc10_to_fcc16_step(l, x)
      [] dst = "fcc16" /\ src = "fcc12_packed" -> transform_fcc12_packed_to_fcc16_ssse3_v0(l, x)
      [] dst = "fcc16" /\ src = "fcc12_mipi" -> transform_fcc12_mipi_to_fcc16_ssse3_v0(l, x)
      [] dst = "fcc16" /\ src = "fcc12_spacked" -> transform_fcc12_spacked_to_fcc16_ssse3_v0(l, x)
      [] dst = "fcc16" /\ src = "fcc10_spacked" -> transform_fcc10_spacked_to_fcc16_ssse3_v0(l, x)
      [] dst = "fcc16" /\ src = "fcc8" -> transform_fcc8_to_fcc16_sse4_1_impl(l, x)
      [] dst = "fcc8" /\ src = "fcc12_packed" -> transform_fcc12_packed_to_fcc8_ssse3_v0(l, x)
      [] dst = "fcc8" /\ src = "fcc12_mipi" -> transform_fcc12_mipi_to_fcc8_ssse3_v0(l, x)
      [] dst = "fcc8" /\ src = "fcc12_spacked" -> transform_fcc12_spacked_to_fcc8_ssse3_v0(l, x)
      [] dst = "fcc8" /\ src = "fcc10_spacked" -> transform_fcc10_spacked_to_fcc8_ssse3_v0(l, x)
      [] dst = "fcc8" /\ src = "fcc16" -> transform_fcc16_to_fcc8_sse4_1_impl(l, x)
      [] dst = "BGR24" -> convert_MONO8_to_BGR24_store_sse41(Load(l, 16, x))
      [] dst = "BGRA32" /\ src = "fcc8" -> convert_MONO8_to_BGRA32_store_sse41(Load(l, 16, x))
      [] dst = "BGRA64" /\ src = "fcc8" -> convert_MONO8_to_BGRA64_store_sse41(Load(l, 8, x))
      [] dst = "BGRA32" /\ src = "fcc16" -> convert_MONO16_to_BGRA32_store_sse41(Load(l, 16, 2 * x))
      [] dst = "BGRA64" /\ src = "fcc16" -> convert_MONO16_to_BGRA64_store_sse41(Load(l, 16, 2 * x))

NeonRound(src, dst, l, x, px) ==
    CASE dst = "fcc16" /\ src = "fcc12" -> transform_fcc12_to_fcc16_neon_v0(l, x)
      [] dst = "fcc16" /\ src = "fcc10" -> transform_fcc10_to_fcc16_neon_v0(l, x)
      [] dst = "fcc16" /\ src = "fcc12_packed" -> transform_fcc12_packed_to_dst_neon_v0(l, x)
      [] dst = "fcc16" /\ src = "fcc12_mipi" -> transform_fcc12_packed_mipi_to_dst_neon_v0(l, x)
      [] dst = "fcc16" /\ src = "fcc12_spacked" -> transform_fcc12_spacked_to_dst_neon_v0(l, x)
      [] dst = "fcc16" /\ src = "fcc10_mipi" -> transform_fcc10_packed_to_dst_neon_v0(l, x)
      [] dst = "fcc16" /\ src = "fcc8" -> transform_fcc8_to_fcc16_neon_v0(l, x)
      [] dst = "fcc8" /\ src = "fcc12" -> transform_fcc12_to_fcc8_neon_v0(l, x)
      [] dst = "fcc8" /\ src = "fcc10" -> transform_fcc10_to_fcc8_neon_v0(l, x)
      [] dst = "fcc8" /\ src = "fcc12_packed" -> transform_fcc12_packed_to_fcc8_neon_v0(l, x)
      [] dst = "fcc8" /\ src = "fcc12_mipi" -> transform_fcc12_mipi_to_fcc8_neon_v0(l, x)
      [] dst = "fcc8" /\ src = "fcc12_spacked" -> transform_fcc12_spacked_to_fcc8_neon_v0(l, x)
      [] dst = "fcc8" /\ src = "fcc16" -> transform_fcc16_to_fcc8_neon_v0(l, x, px)
      [] dst = "BGR24" -> transform_MONO8_to_BGR24_neon(l, x)
      [] dst = "BGRA32" /\ src = "fcc8" -> transform_MONO8_to_BGRA32_neon(l, x)
      [] dst = "BGRA32" /\ src = "fcc16" -> transform_MONO16_to_BGRA32_neon(l, x)
      [] dst = "BGRA64" -> transform_MONO16_to_BGRA64_neon(l, x)

-----------------------------------------------------------------------------
(* A call converts one line. *)

Layouts == {"fcc8", "fcc16", "fcc10", "fcc12", "fcc10_spacked", "fcc10_mipi",
            "fcc12_packed", "fcc12_mipi", "fcc12_spacked"}
Targets == {"fcc8", "fcc16", "BGR24", "BGRA32", "BGRA64"}

NoFn == [arch |-> "none", src |-> "none", dst |-> "none", w |-> 0, done |-> FALSE]

PkInit == pkFn = NoFn /\ pkX = 0 /\ pkDst = <<>> /\ pkRead = 0

Margin == 64     \* bits of foreign memory watched on either side of the target line

\* A line is a whole number of groups: assert(src.dim.cx % 2 == 0), % 4 == 0.
PkCall(arch, src, dst, w) ==
    /\ pkFn = NoFn
    /\ Convertible(arch, src, dst)
    /\ w % Group(src).px = 0
    /\ pkFn' = [arch |-> arch, src |-> src, dst |-> dst, w |-> w, done |-> FALSE]
    /\ pkDst' = [i \in -Margin .. 8 * w * Bytes(dst) + Margin - 1 |-> Unwritten]
    /\ UNCHANGED <<pkX, pkRead>>

Fn == find_transform_function_type(pkFn.arch, pkFn.src, pkFn.dst, pkFn.w)
Line == SourceLine(pkFn.src, pkFn.w)
Running == {j \in 1 .. Len(Fn.loops) : pkX < pkFn.w - Fn.loops[j].margin}

Round(x, px) ==
    IF pkFn.arch = "sse" THEN SseRound(pkFn.src, pkFn.dst, Line, x)
                         ELSE NeonRound(pkFn.src, pkFn.dst, Line, x, px)

store(d, x, r) ==
    LET at == 8 * x * Bytes(pkFn.dst)
    IN [i \in DOMAIN d |-> IF i - at \in DOMAIN r THEN r[i - at] ELSE d[i]]

ReadUpTo(end) == IF end > pkRead THEN end ELSE pkRead

PkRound ==
    /\ pkFn # NoFn /\ ~pkFn.done
    /\ Running # {}
    /\ LET loop == Fn.loops[CHOOSE j \in Running : \A k \in Running : j <= k] IN
        /\ pkDst' = store(pkDst, pkX, Round(pkX, loop.step))
        /\ pkRead' = ReadUpTo(Offset(pkFn.src, pkX) + loop.load)
        /\ pkX' = pkX + loop.step
    /\ UNCHANGED pkFn

PkLastRound ==
    /\ pkFn # NoFn /\ ~pkFn.done
    /\ Running = {} /\ Fn.last > 0
    /\ pkDst' = store(pkDst, pkFn.w - Fn.last, Round(pkFn.w - Fn.last, Fn.last))
    /\ pkRead' = ReadUpTo(Offset(pkFn.src, pkFn.w))
    /\ pkFn' = [pkFn EXCEPT !.done = TRUE]
    /\ UNCHANGED pkX

\* The C loops write whole groups.
PkRest ==
    /\ pkFn # NoFn /\ ~pkFn.done
    /\ Running = {} /\ Fn.last = 0
    /\ LET n == Bytes(pkFn.dst) IN
       pkDst' = [i \in DOMAIN pkDst |->
                    IF i \in 8 * n * pkX .. 8 * n * pkFn.w - 1
                    THEN PixelInC(pkFn.src, pkFn.dst, Line, i \div (8 * n))[i % (8 * n)]
                    ELSE pkDst[i]]
    /\ pkRead' = ReadUpTo(Offset(pkFn.src, pkFn.w))
    /\ pkFn' = [pkFn EXCEPT !.done = TRUE]
    /\ UNCHANGED pkX

PkReturn ==
    /\ pkFn.done
    /\ pkFn' = NoFn /\ pkX' = 0 /\ pkDst' = <<>> /\ pkRead' = 0

PkNext ==
    \/ \E arch \in PkArchs, src \in Layouts, dst \in Targets, w \in PkWidths : PkCall(arch, src, dst, w)
    \/ PkRound \/ PkLastRound \/ PkRest \/ PkReturn

-----------------------------------------------------------------------------

\* The colour bytes of a target pixel; what follows them is alpha.
Coloured(dst, i) == dst \notin {"BGRA32", "BGRA64"} \/ i % (8 * Bytes(dst)) < 6 * Bytes(dst)

\* However a line is packed, whichever of the vector functions converts it and
\* wherever its loop stops short of the end: when the call returns, every pixel of the
\* target consists of the highest bits of the same pixel of the source, nothing
\* outside the target line was written and nothing behind the source line was read.
LineIsRepacked ==
    pkFn # NoFn =>
        /\ pkRead <= Offset(pkFn.src, pkFn.w)
        /\ LET n == 8 * Bytes(pkFn.dst) IN
           \A i \in DOMAIN pkDst :
            IF i < 0 \/ i >= n * pkFn.w THEN pkDst[i] = Unwritten
            ELSE pkFn.done /\ Coloured(pkFn.dst, i) =>
                    pkDst[i] = Wanted(pkFn.src, pkFn.dst, i \div n, i)
=============================================================================
