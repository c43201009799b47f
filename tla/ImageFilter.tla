---------------------------- MODULE ImageFilter ----------------------------
(***************************************************************************)
(* What the tcamconvert element does with one image                        *)
(* (src/gstreamer-1.0/tcamconvert/transform_impl.cpp and libs/dutils_image)*)
(* : white balance of a Bayer image, conversion to 8 bit with or without   *)
(* white balance, and edge sensing debayering, in SSE, NEON and plain C.   *)
(*                                                                         *)
(* A sample is a pixel of the camera together with the factors it has been *)
(* multiplied with; a colour of a BGR pixel is the set of the samples it   *)
(* was computed from.  How bits are packed in a line is PixelPack.         *)
(***************************************************************************)
EXTENDS Integers, Sequences

CONSTANTS ImArchs,     \* the builds: "sse", "arm" or "c"
          ImDims,      \* the image sizes <<cx, cy>>
          ImLayouts    \* the source layouts: "fcc8", "fcc16" and packed ones

VARIABLES imFn,        \* transform_context: what setup() chose, and the image type
          imTodo,      \* the stages left for the image in work
          imY,         \* the line of the first of them
          imImg,       \* the images: the source, the intermediate buffer, the target
          imBgr,       \* the target, when it is BGRA32
          imApply      \* params.apply

imVars == <<imFn, imTodo, imY, imImg, imBgr, imApply>>

Patterns == {"BG", "GB", "GR", "RG"}
Blank == [at |-> <<-1, -1>>, by |-> <<>>]
Black == {Blank}                 \* a colour from a zero or from outside of the image

cx == imFn.dim[1]
cy == imFn.dim[2]
Rows == 0 .. cy - 1
Columns == 0 .. cx - 1

-----------------------------------------------------------------------------
(* White balance of a line *)

\* bayer_pattern_parameters: the factors of x0y0, x1y0, x0y1, x1y1
bayer_pattern_parameters(pat) ==
    CASE pat = "BG" -> <<"b", "gb", "gr", "r">>
      [] pat = "GB" -> <<"gb", "b", "r", "gr">>
      [] pat = "GR" -> <<"gr", "r", "b", "gb">>
      [] pat = "RG" -> <<"r", "gr", "gb", "b">>

\* the two factors of line y
LineFactors(y) == [i \in {0, 1} |-> bayer_pattern_parameters(imFn.pat)[2 * (y % 2) + i + 1]]

Multiply(s, f) == [s EXCEPT !.by = Append(s.by, f)]

wb_line_c(line, f) == [x \in Columns |-> Multiply(line[x], f[x % 2])]

\* A register of n pixels at x, multiplied by f0, f1, f0, f1...
wb_step(line, x, n, f) == [i \in 0 .. n - 1 |-> Multiply(line[x + i], f[i % 2])]

\* The whole blocks of the line; what is left over is stored afterwards.
wb_by8_line_loop(line, n, f) ==
    [x \in Columns |-> IF x < cx - (cx % n) THEN wb_step(line, x - (x % n), n, f)[x % n] ELSE line[x]]

LastAfterLoop(line, n, f) ==
    LET balanced == wb_by8_line_loop(line, n, f)
    IN  [x \in Columns |-> IF x < cx - n THEN balanced[x] ELSE Multiply(balanced[x], f[x % 2])]

\* The last register is loaded before the loop overwrites a part of it.
wb_line_simd(line, n, f) ==
    LET balanced == wb_by8_line_loop(line, n, f)
        swapped == [i \in {0, 1} |-> f[1 - i]]
        last == wb_step(line, cx - n, n, IF cx % 2 = 0 THEN f ELSE swapped)
    IN  IF cx % n = 0 THEN balanced
        ELSE [x \in Columns |-> IF x < cx - n THEN balanced[x] ELSE last[x - (cx - n)]]

wb_by8_line_sse2(line, f) == wb_line_simd(line, 16, f)
wb_by16_line_sse4_1(line, f) == wb_line_simd(line, 8, f)
wb_by8_line_neon(line, f) == wb_line_simd(line, 16, f)
wb_by16_line_neon(line, f) == wb_line_simd(line, 8, f)

wb_line(line, f, bits) ==
    CASE imFn.arch = "sse" /\ bits = 8 -> wb_by8_line_sse2(line, f)
      [] imFn.arch = "sse" /\ bits = 16 -> wb_by16_line_sse4_1(line, f)
      [] imFn.arch = "arm" /\ bits = 8 -> wb_by8_line_neon(line, f)
      [] imFn.arch = "arm" /\ bits = 16 -> wb_by16_line_neon(line, f)
      [] OTHER -> wb_line_c(line, f)

\* get_apply_img_sse41, get_apply_img_neon, get_apply_img_c
find_transform_unary_wb_func(arch, dim) == IF arch # "c" /\ dim[1] < 16 THEN "null" ELSE "wb"

\* Conversion to 8 bit and white balance in one go: blocks of 16, the last one
\* ends at the end of the line and is computed from the source a second time.
transform_wb_fcc1x_to_fcc8_neon_line_v0(line, f) ==
    [x \in Columns |-> IF x < cx - 16 THEN wb_step(line, x - (x % 16), 16, f)[x % 16]
                       ELSE wb_step(line, cx - 16, 16, f)[x - (cx - 16)]]

apply_wb_line_c(line, f) == wb_line_c(line, f)

-----------------------------------------------------------------------------
(* Debayering a line *)

next_pixel(pat) == CASE pat = "BG" -> "GB" [] pat = "GB" -> "BG" [] pat = "GR" -> "RG" [] pat = "RG" -> "GR"
next_line(pat) == CASE pat = "BG" -> "GR" [] pat = "GB" -> "RG" [] pat = "GR" -> "BG" [] pat = "RG" -> "GB"

is_red_line(pat) == pat \in {"RG", "GR"}
is_gx_line(pat) == pat \in {"GR", "GB"}

NoPixel == [r |-> {}, g |-> {}, b |-> {}]

\* conv_edge: of the red, green and blue of a pixel one is its own sample.  lines are the
\* line before, the line itself and the line after.
At(line, x) == {line[x]}
CALC_LR(l, x) == At(l[2], x - 1) \cup At(l[2], x + 1)
CALC_OB(l, x) == At(l[1], x) \cup At(l[3], x)
CALC_DIAGONAL(l, x) == UNION {At(l[k], x + d) : k \in {1, 3}, d \in {-1, 1}}
edgesensing_aroundgreen(l, x) == CALC_LR(l, x) \cup CALC_OB(l, x)

conv_edge(pat, l, x) ==
    CASE pat = "GR" -> [r |-> CALC_LR(l, x), g |-> At(l[2], x), b |-> CALC_OB(l, x)]
      [] pat = "RG" -> [r |-> At(l[2], x), g |-> edgesensing_aroundgreen(l, x), b |-> CALC_DIAGONAL(l, x)]
      [] pat = "GB" -> [r |-> CALC_OB(l, x), g |-> At(l[2], x), b |-> CALC_LR(l, x)]
      [] pat = "BG" -> [r |-> CALC_DIAGONAL(l, x), g |-> edgesensing_aroundgreen(l, x), b |-> At(l[2], x)]

\* conv_line_c between the two borders, which repeat their neighbour
conv_line_c(pat, l) ==
    LET ends == 2 + 2 * ((cx - 3) \div 2)      \* x after the loop
        of(x) == conv_edge(IF x % 2 = 0 THEN pat ELSE next_pixel(pat), l, x)
    IN  [x \in Columns |-> CASE x = 0 -> of(1)
                             [] x = ends + 1 -> of(ends)
                             [] x > ends + 1 -> NoPixel
                             [] OTHER -> of(x)]

(* The same with registers of 16 bytes; a 16 bit lane is an even and an odd byte. *)
Lanes == 0 .. 15
LoadLine(line, x) == [i \in Lanes |-> IF x + i \in Columns THEN {line[x + i]} ELSE Black]
Average(u, v) == [i \in Lanes |-> u[i] \cup v[i]]
Combine(u, v) == [i \in Lanes |-> IF u[i] = Black THEN v[i] ELSE IF v[i] = Black THEN u[i] ELSE u[i] \cup v[i]]
Blend(even, odd) == [i \in Lanes |-> IF i % 2 = 0 THEN even[i] ELSE odd[i]]
NoBytes == [i \in Lanes |-> Black]
mask_0x00FF(v) == Blend(v, NoBytes)
UpByte(v) == [i \in Lanes |-> IF i % 2 = 1 THEN v[i - 1] ELSE Black]         \* _mm_slli_epi16 by 8
DownByte(v) == [i \in Lanes |-> IF i % 2 = 0 THEN v[i + 1] ELSE Black]       \* _mm_srli_epi16 by 8

\* p0 and p2 are the line from one before and from one after the pixels in work.
calc_x_from_xg_line(cur0, cur2) == Blend(Average(cur0, cur2), UpByte(cur2))
calc_x_from_gx_line(cur0, cur2) == Blend(DownByte(cur0), Average(cur0, cur2))

calc_y_from_xg_line(prv0, prv2, nxt0, nxt2) ==
    Blend(DownByte(Average(nxt0, prv0)), Average(Average(prv0, prv2), Average(nxt0, nxt2)))
calc_y_from_gx_line(prv0, prv2, nxt0, nxt2) ==
    Blend(Average(Average(prv0, prv2), Average(nxt0, nxt2)), UpByte(Average(nxt2, prv2)))

\* left and right, above and below, or all four, by which differ least
calc_edge_g(cur0, cur2, prv, nxt) == Average(Average(cur0, cur2), Average(prv, nxt))

calc_g_from_xg_line(prv2, cur0, cur2, nxt2) ==
    Combine(DownByte(cur0),
            UpByte(calc_edge_g(DownByte(cur0), DownByte(cur2), mask_0x00FF(prv2), mask_0x00FF(nxt2))))
calc_g_from_gx_line(prv, cur0, cur2, nxt) ==
    Combine(calc_edge_g(mask_0x00FF(cur0), mask_0x00FF(cur2), DownByte(prv), DownByte(nxt)),
            UpByte(mask_0x00FF(cur2)))

\* The NEON versions compare bytes: the other byte of the lane is masked at the end.
calc_g_from_xg_line_neon(prv2, cur0, cur2, nxt2) ==
    Combine(DownByte(cur0), UpByte(calc_edge_g(DownByte(cur0), DownByte(cur2), prv2, nxt2)))
calc_g_from_gx_line_neon(prv, cur0, cur2, nxt) ==
    Combine(mask_0x00FF(calc_edge_g(cur0, cur2, DownByte(prv), DownByte(nxt))), UpByte(cur2))

Channels(pat, x, y, g) == IF is_red_line(pat) THEN [r |-> x, g |-> g, b |-> y] ELSE [r |-> y, g |-> g, b |-> x]

\* c0 and c2 are the registers of the three lines
conv_sse_reg(pat, c0, c2) ==
    IF is_gx_line(pat)
    THEN Channels(pat, calc_x_from_gx_line(c0[2], c2[2]), calc_y_from_gx_line(c0[1], c2[1], c0[3], c2[3]),
                  calc_g_from_gx_line(c0[1], c0[2], c2[2], c0[3]))
    ELSE Channels(pat, calc_x_from_xg_line(c0[2], c2[2]), calc_y_from_xg_line(c0[1], c2[1], c0[3], c2[3]),
                  calc_g_from_xg_line(c2[1], c0[2], c2[2], c2[3]))

conv_neon_reg(pat, c0, c2) ==
    IF is_gx_line(pat)
    THEN Channels(pat, calc_x_from_gx_line(c0[2], c2[2]), calc_y_from_gx_line(c0[1], c2[1], c0[3], c2[3]),
                  calc_g_from_gx_line_neon(c0[1], c0[2], c2[2], c0[3]))
    ELSE Channels(pat, calc_x_from_xg_line(c0[2], c2[2]), calc_y_from_xg_line(c0[1], c2[1], c0[3], c2[3]),
                  calc_g_from_xg_line_neon(c2[1], c0[2], c2[2], c2[3]))

conv_reg(pat, c0, c2) == IF imFn.arch = "sse" THEN conv_sse_reg(pat, c0, c2) ELSE conv_neon_reg(pat, c0, c2)

\* The register in front of the line: SSE shifts in a zero, NEON repeats pixel 1.
FirstRegister(line) ==
    LET v == LoadLine(line, 0)
    IN  [i \in Lanes |-> IF i > 0 THEN v[i - 1] ELSE IF imFn.arch = "sse" THEN Black ELSE v[1]]

lo(line, x) == IF x = 0 THEN FirstRegister(line) ELSE LoadLine(line, x - 1)
alignr(high, low, n) == [i \in Lanes |-> IF i + n < 16 THEN low[i + n] ELSE high[i + n - 16]]

Registers(l, Reg(_)) == [k \in 1 .. 3 |-> Reg(l[k])]

DoubleLast(v) == [i \in Lanes |-> IF i < 15 THEN v[i + 1] ELSE v[15]]      \* shuf_last_byte

\* conv_line: blocks of 16 while 32 pixels are left, one more block, and a last one that
\* ends with the line; the last block starts with the other colour and drops its first lane.
conv_line(pat, l) ==
    LET whole == IF cx > 32 THEN 16 * ((cx - 17) \div 16) ELSE 0            \* x after the loop
        loop(x) == LET p2(line) == alignr(LoadLine(line, x + 15), lo(line, x), 2)
                       p0(line) == lo(line, x)
                   IN  conv_reg(next_pixel(pat), Registers(l, p0), Registers(l, p2))
        more == LET p2(line) == LoadLine(line, whole + 1)
                    p0(line) == lo(line, whole)
                IN  conv_reg(next_pixel(pat), Registers(l, p0), Registers(l, p2))
        last == LET p2(line) == LoadLine(line, cx - 16)
                    p0(line) == LoadLine(line, cx - 18)
                    v == conv_reg(pat, Registers(l, p0), Registers(l, p2))
                IN  [r |-> DoubleLast(v.r), g |-> DoubleLast(v.g), b |-> DoubleLast(v.b)]
        hasLast == IF imFn.arch = "sse" THEN cx > 18 ELSE cx >= 18
        lane(v, i) == [r |-> v.r[i], g |-> v.g[i], b |-> v.b[i]]
    IN  [x \in Columns |->
            CASE hasLast /\ x >= cx - 16 -> lane(last, x - (cx - 16))
              [] x < whole -> lane(loop(x - (x % 16)), x % 16)
              [] whole < cx - 17 /\ x \in whole .. whole + 15 -> lane(more, x - whole)
              [] OTHER -> NoPixel]

\* convert_by8_to_rgb_edge: the first pixel repeats the second
convert_by8_to_rgb_edge(pat, l) ==
    LET line == conv_line(pat, l) IN [line EXCEPT ![0] = line[1]]

debayer_line(pat, l) ==
    IF imFn.arch = "c" THEN conv_line_c(pat, l) ELSE convert_by8_to_rgb_edge(pat, l)

get_transform_by8_to_dst(arch, dim) ==
    IF dim[2] >= 2 /\ dim[1] >= (CASE arch = "c" -> 4 [] arch = "sse" -> 18 [] arch = "arm" -> 32)
    THEN "edge" ELSE "null"

\* by_edge_image_loop: the first and the last line see their neighbour twice
init_src_param(img, y) ==
    <<img[IF y = 0 THEN y + 1 ELSE y - 1], img[y], img[IF y = cy - 1 THEN y - 1 ELSE y + 1]>>
LinePattern(y) == IF y % 2 = 0 THEN imFn.pat ELSE next_line(imFn.pat)

flip_image_in_img_desc(y) == cy - 1 - y

-----------------------------------------------------------------------------
(* transform_context *)

Stage(fn, from, to) == [fn |-> fn, from |-> from, to |-> to]
Packed(layout) == layout \notin {"fcc8", "fcc16"}
Bits(layout) == IF layout = "fcc16" THEN 16 ELSE 8

\* The white balance of the intermediate or the target image is done by itself, except where
\* one function does both.
find_transform_function_wb_type(arch, layout, target, dim, to) ==
    IF ~Packed(layout) \/ target = "fcc16"
    THEN <<Stage("convert", "src", to), Stage(find_transform_unary_wb_func(arch, dim), to, to)>>
    ELSE IF arch = "arm" /\ layout \in {"fcc12_spacked", "fcc10_spacked", "fcc10_mipi"}
    THEN <<Stage("convert", "src", to), Stage(find_transform_unary_wb_func(arch, dim), to, to)>>
    ELSE <<Stage("convert_wb", "src", to)>>

find_bayer8_to_bgra_func(arch, dim, from) == <<Stage(get_transform_by8_to_dst(arch, dim), from, "dst")>>

get_transform_context_mode(layout, pat, target) ==
    CASE layout = target -> IF pat = "mono" THEN "unary_mono" ELSE "unary_bayer"
      [] target = "BGRA32" -> "binary_rgb"
      [] OTHER -> IF pat = "mono" THEN "binary_mono" ELSE "binary_bayer"

ToRgb(arch, layout, pat, dim) ==
    CASE pat = "mono" /\ layout = "fcc8" -> <<Stage("mono_to_bgr", "src", "dst")>>
      [] pat = "mono" /\ layout # "fcc8" -> <<Stage("convert", "src", "mid"), Stage("mono_to_bgr", "mid", "dst")>>
      [] pat # "mono" /\ layout = "fcc8" ->
            <<Stage(find_transform_unary_wb_func(arch, dim), "src", "src")>>
            \o find_bayer8_to_bgra_func(arch, dim, "src")
      [] OTHER -> find_transform_function_wb_type(arch, layout, "fcc8", dim, "mid")
                  \o find_bayer8_to_bgra_func(arch, dim, "mid")

\* setup(); a function that was not found is noticed for unary_bayer only
setup(arch, layout, pat, target, dim) ==
    CASE get_transform_context_mode(layout, pat, target) = "unary_mono" -> <<Stage("copy", "src", "dst")>>
      [] get_transform_context_mode(layout, pat, target) = "unary_bayer" ->
            <<Stage("copy", "src", "dst"), Stage(find_transform_unary_wb_func(arch, dim), "dst", "dst")>>
      [] get_transform_context_mode(layout, pat, target) = "binary_mono" -> <<Stage("convert", "src", "dst")>>
      [] get_transform_context_mode(layout, pat, target) = "binary_bayer" ->
            find_transform_function_wb_type(arch, layout, target, dim, "dst")
      [] OTHER -> ToRgb(arch, layout, pat, dim)

\* transform_entries: an 8 bit source to itself or BGRA32, any other to 8 or 16 bit or BGRA32
tcamconvert_get_supported_output_fccs(layout) ==
    IF layout = "fcc8" THEN {"fcc8", "BGRA32"} ELSE {"fcc8", "fcc16", "BGRA32"}

NoImage == <<>>
NoTransform == [arch |-> "none", layout |-> "fcc8", pat |-> "mono", target |-> "fcc8", dim |-> <<0, 0>>]

ImInit ==
    /\ imFn = NoTransform /\ imTodo = <<>> /\ imY = 0 /\ imApply = FALSE
    /\ imImg = [i \in {"src", "mid", "dst"} |-> NoImage] /\ imBgr = NoImage

\* gst_tcamconvert_set_caps; when it fails no image arrives
ImSetup(arch, layout, pat, target, dim) ==
    /\ imFn = NoTransform
    /\ target \in tcamconvert_get_supported_output_fccs(layout)
    /\ ~(get_transform_context_mode(layout, pat, target) = "unary_bayer"
            /\ find_transform_unary_wb_func(arch, dim) = "null")
    /\ imFn' = [arch |-> arch, layout |-> layout, pat |-> pat, target |-> target, dim |-> dim]
    /\ UNCHANGED <<imTodo, imY, imImg, imBgr, imApply>>

Fresh == [y \in Rows |-> [x \in Columns |-> [at |-> <<x, y>>, by |-> <<>>]]]
Empty == [y \in Rows |-> [x \in Columns |-> Blank]]

\* A new image; the intermediate buffer and the target hold anything.
ImStart(apply, stages, inPlace) ==
    /\ imFn # NoTransform /\ imTodo = <<>> /\ imImg["src"] = NoImage
    /\ imTodo' = stages /\ imY' = 0 /\ imApply' = apply
    /\ imImg' = [src |-> Fresh, mid |-> Empty, dst |-> IF inPlace THEN NoImage ELSE Empty]
    /\ imBgr' = [y \in Rows |-> [x \in Columns |-> NoPixel]]
    /\ UNCHANGED imFn

\* transform(): the white balance after a plain copy is asked for, in the other cases it is
\* part of what setup() chose and params.apply = FALSE means factors of 1.
transform(apply) ==
    LET all == setup(imFn.arch, imFn.layout, imFn.pat, imFn.target, imFn.dim)
    IN  ImStart(apply, IF get_transform_context_mode(imFn.layout, imFn.pat, imFn.target) = "unary_bayer" /\ ~apply
                       THEN <<Head(all)>> ELSE all, FALSE)

\* filter(): gst_tcamconvert_transform_ip works on the image itself
filter(apply) ==
    /\ imFn.layout = imFn.target
    /\ ImStart(apply, IF imFn.pat # "mono" /\ apply THEN <<Stage("wb", "src", "src")>> ELSE <<>>, TRUE)

ImAdvance ==
    IF imY + 1 < cy THEN imY' = imY + 1 /\ imTodo' = imTodo
                    ELSE imY' = 0 /\ imTodo' = Tail(imTodo)

On(fn) == imTodo # <<>> /\ Head(imTodo).fn = fn
From == imImg[Head(imTodo).from][imY]
WriteLine(line) == imImg' = [imImg EXCEPT ![Head(imTodo).to][imY] = line]

memcpy_image == On("copy") /\ WriteLine(From) /\ ImAdvance /\ UNCHANGED <<imFn, imBgr, imApply>>
ConvertLine == On("convert") /\ WriteLine(From) /\ ImAdvance /\ UNCHANGED <<imFn, imBgr, imApply>>

\* With factors of 1 the apply_wb functions return at once.
BalanceNothing ==
    /\ On("wb") /\ ~imApply
    /\ imTodo' = Tail(imTodo)
    /\ UNCHANGED <<imFn, imY, imImg, imBgr, imApply>>

BalancedBits == IF Head(imTodo).to = "dst" THEN Bits(imFn.target)
                ELSE IF Head(imTodo).to = "mid" THEN 8 ELSE Bits(imFn.layout)

apply_wb ==
    /\ On("wb") /\ imApply
    /\ WriteLine(wb_line(From, LineFactors(imY), BalancedBits))
    /\ ImAdvance
    /\ UNCHANGED <<imFn, imBgr, imApply>>

transform_fcc1x_to_fcc8 ==
    /\ On("convert_wb")
    /\ WriteLine(IF ~imApply THEN From
                 ELSE IF imFn.arch = "arm" THEN transform_wb_fcc1x_to_fcc8_neon_line_v0(From, LineFactors(imY))
                 ELSE apply_wb_line_c(From, LineFactors(imY)))
    /\ ImAdvance
    /\ UNCHANGED <<imFn, imBgr, imApply>>

\* transform() hands over a flipped target and the functions flip it once more.
BgrLine == flip_image_in_img_desc(flip_image_in_img_desc(imY))

transform_mono_to_bgr ==
    /\ On("mono_to_bgr")
    /\ imBgr' = [imBgr EXCEPT ![BgrLine] = [x \in Columns |-> [r |-> {From[x]}, g |-> {From[x]}, b |-> {From[x]}]]]
    /\ ImAdvance
    /\ UNCHANGED <<imFn, imImg, imApply>>

by_edge_image_loop ==
    /\ On("edge")
    /\ imBgr' = [imBgr EXCEPT ![BgrLine] =
                    debayer_line(LinePattern(imY), init_src_param(imImg[Head(imTodo).from], imY))]
    /\ ImAdvance
    /\ UNCHANGED <<imFn, imImg, imApply>>

\* A null function is called: the process ends.
CallNull ==
    /\ On("null")
    /\ imTodo' = <<Stage("crashed", "src", "src")>>
    /\ UNCHANGED <<imFn, imY, imImg, imBgr, imApply>>

ImDone == imFn # NoTransform /\ imTodo = <<>> /\ imImg["src"] # NoImage

\* The image is delivered; the caps may change before the next one.
ImDeliver ==
    /\ ImDone
    /\ imFn' = NoTransform /\ imTodo' = <<>> /\ imY' = 0 /\ imApply' = FALSE
    /\ imImg' = [i \in DOMAIN imImg |-> NoImage] /\ imBgr' = NoImage

ImNext ==
    \/ \E arch \in ImArchs, layout \in ImLayouts, pat \in Patterns \cup {"mono"},
          target \in {"fcc8", "fcc16", "BGRA32"}, dim \in ImDims : ImSetup(arch, layout, pat, target, dim)
    \/ \E apply \in BOOLEAN : transform(apply) \/ filter(apply)
    \/ memcpy_image \/ ConvertLine \/ BalanceNothing \/ apply_wb \/ transform_fcc1x_to_fcc8
    \/ transform_mono_to_bgr \/ by_edge_image_loop \/ CallNull \/ ImDeliver

-----------------------------------------------------------------------------
(* The reference: what is red, green and blue on the sensor *)

Mosaic == [BG |-> <<"b", "g", "g", "r">>, GB |-> <<"g", "b", "r", "g">>,
           GR |-> <<"g", "r", "b", "g">>, RG |-> <<"r", "g", "g", "b">>]
Color(x, y) == Mosaic[imFn.pat][2 * (y % 2) + (x % 2) + 1]

\* Greens are told apart by the line they are in.
OwnFactor(p) ==
    IF Color(p[1], p[2]) # "g" THEN Color(p[1], p[2])
    ELSE IF Color(p[1] + 1, p[2]) = "r" THEN "gr" ELSE "gb"

Balanced(s) == s.by = IF imApply /\ imFn.pat # "mono" THEN <<OwnFactor(s.at)>> ELSE <<>>

Near(s, x, y) == s.at[1] \in x - 2 .. x + 2 /\ s.at[2] \in y - 1 .. y + 1

\* A colour of a BGR pixel: computed from samples of that colour nearby, each of them balanced;
\* where the sensor has this colour and the pixel is not at the border, it is the sample itself.
ColorIs(samples, c, x, y) ==
    /\ samples # {}
    /\ \A s \in samples : Balanced(s) /\ Near(s, x, y) /\ (imFn.pat = "mono" \/ Color(s.at[1], s.at[2]) = c)
    /\ (imFn.pat = "mono" \/ (Color(x, y) = c /\ x \in 1 .. cx - 2)) => {s.at : s \in samples} = {<<x, y>>}

\* SSE accepts a width of 18 and leaves the last two pixels of a line alone.
Debayered18 == imFn.arch = "sse" /\ imFn.pat # "mono" /\ cx = 18

(* An image is converted as a whole: every pixel of the target is written from the sample in  *)
(* its place, white balanced exactly once with the factor of its own colour when white balance *)
(* is on and not at all when it is off, although the vector loops reach the end of a line by   *)
(* a block that overlaps the one before; after debayering the red, green and blue of every     *)
(* pixel come from red, green and blue samples next to it (transform_context::transform and    *)
(* the functions it calls, images with even width and height).                                 *)
ImageIsConverted ==
    ImDone =>
        IF imFn.target = "BGRA32"
        THEN ~Debayered18 =>
             \A x \in Columns, y \in Rows :
                /\ ColorIs(imBgr[y][x].r, "r", x, y)
                /\ ColorIs(imBgr[y][x].g, "g", x, y)
                /\ ColorIs(imBgr[y][x].b, "b", x, y)
        ELSE LET img == imImg[IF imImg["dst"] = NoImage THEN "src" ELSE "dst"]
             IN  \A x \in Columns, y \in Rows : img[y][x].at = <<x, y>> /\ Balanced(img[y][x])
==============================================================================
