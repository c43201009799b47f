------------------------------ MODULE CapsSelect ------------------------------
(***************************************************************************)
(* How the format of a stream is chosen: the caps tcambind.cpp derives from *)
(* the formats of a camera, the negotiation of tcammainsrc with its peer    *)
(* (gsttcammainsrc.cpp), and the caps tcambin picks for its source          *)
(* (tcambinconversion.cpp, tcamgstbase.cpp).                                *)
(*                                                                          *)
(* A structure is a record of the sets of values its fields allow.  A field *)
(* that is absent allows every value, 0 included, which no camera offers.   *)
(* Caps are sequences of structures; <<>> stands for EMPTY and for ANY.     *)
(***************************************************************************)
EXTENDS Integers, Sequences, FiniteSets, SequencesExt, FiniteSetsExt

CONSTANTS
    Formats,       \* the formats of the cameras
    MaxSize,       \* widths and heights are 1..MaxSize
    MaxRate,       \* frame rates are 1..MaxRate
    Binnings,      \* factors of horizontal and vertical binning
    StandardSizes, \* the resolutions of get_standard_resolutions, a sequence of <<width, height>>
    Descriptions,  \* the format lists of the cameras: sizes with their rates, and the sizes
                   \* for which get_framerate_info fails
    PeerCaps       \* what the element downstream accepts

VARIABLES
    csAt,          \* "described", "caps", "negotiated"
    csDesc,        \* the formats of the camera
    csCaps,        \* their caps
    csPeer,        \* the caps of the peer
    csMain,        \* what gst_tcam_mainsrc_negotiate sets, <<>> when it fails
    csBin          \* what find_input_caps picks, <<>> for none

csVars == <<csAt, csDesc, csCaps, csPeer, csMain, csBin>>

-----------------------------------------------------------------------------
(* Structures and caps (GStreamer) *)

Absent == [format |-> Formats \cup {"none"}, w |-> 0..MaxSize, h |-> 0..MaxSize, fps |-> 0..MaxRate,
           binning |-> Binnings \cup {0}]
Fields == DOMAIN Absent

Has(s, k) == s[k] # Absent[k]
IsInt(s, k) == Cardinality(s[k]) = 1

Meet(a, b) == [k \in Fields |-> a[k] \cap b[k]]
NonEmpty(s) == \A k \in Fields : s[k] # {}
Within(a, b) == \A k \in Fields : a[k] \subseteq b[k]

gst_caps_intersect(a, b) ==
    FlattenSeq([i \in DOMAIN a |-> SelectSeq([j \in DOMAIN b |-> Meet(a[i], b[j])], NonEmpty)])

gst_caps_is_fixed(caps) ==
    Len(caps) = 1 /\ \A k \in Fields : Has(caps[1], k) => IsInt(caps[1], k)

Dim(s, k) == CHOOSE v \in s[k] : TRUE

-----------------------------------------------------------------------------
(* tcambind.cpp *)

get_standard_resolutions(min, max) ==
    SelectSeq(StandardSizes, LAMBDA r : \A d \in 1..2 : min[d] <= r[d] /\ r[d] <= max[d])

(* front() and back() of an empty list are not defined: the memory read may or may not *)
(* hold min_size, max_size                                                             *)
resolution_lists(r) ==
    LET std == get_standard_resolutions(r.min, r.max)
        withMin == IF std # <<>> THEN {IF r.min # Head(std) THEN <<r.min>> \o std ELSE std}
                   ELSE {<<r.min>>, <<>>}
        withMax(l) == IF l = <<>> THEN {<<r.max>>, <<>>}
                      ELSE {IF r.max # Last(l) THEN Append(l, r.max) ELSE l}
    IN IF r.binning # 1 THEN {<<>>} ELSE UNION {withMax(l) : l \in withMin}

Sized(format, w, h, fps, binning) ==
    [format |-> {format}, w |-> w, h |-> h, fps |-> fps,
     binning |-> IF binning = 1 THEN Absent.binning ELSE {binning}]

(* a size whose frame rates cannot be read keeps a structure with only the format *)
fill_structure_fixed_resolution(format, r) ==
    IF r.max \in r.unread THEN [Absent EXCEPT !.format = {format}]
    ELSE Sized(format, {r.max[1]}, {r.max[2]}, r.fps, r.binning)

(* the sizes of a list whose frame rates can be read, and then the range they are in, if *)
(* those of both its ends can                                                            *)
append_gst_structs_for_res_type_range(format, r, list) ==
    LET read == SelectSeq(list, LAMBDA size : size \notin r.unread) IN
    [i \in DOMAIN read |-> Sized(format, {read[i][1]}, {read[i][2]}, r.fps, 1)]
    \o (IF r.min \in r.unread \/ r.max \in r.unread THEN <<>>
        ELSE <<Sized(format, r.min[1]..r.max[1], r.min[2]..r.max[2],
                     Min(r.fps)..Max(r.fps), r.binning)>>)

is_totally_ordered_less(a, b) == a[1] < b[1] \/ (a[1] = b[1] /\ a[2] < b[2])

ResolutionLess(a, b) ==
    IF a.binning = b.binning THEN is_totally_ordered_less(a.max, b.max)
    ELSE a.binning = 1 \/ a.binning < b.binning

(* every caps the formats can give, one for each choice left open *)
convert_videoformatsdescription_to_caps(desc) ==
    LET sorted(d) == SetToSortSeq(d.res, ResolutionLess)
        structs(d, r) == IF r.type = "range"
                         THEN {append_gst_structs_for_res_type_range(d.format, r, l) : l \in resolution_lists(r)}
                         ELSE {<<fill_structure_fixed_resolution(d.format, r)>>}
        ofFormat(d) == LET s == sorted(d) IN
            {FlattenSeq(c) : c \in {f \in [DOMAIN s -> UNION {structs(d, r) : r \in d.res}] :
                                       \A i \in DOMAIN s : f[i] \in structs(d, s[i])}}
    IN {FlattenSeq(c) : c \in {f \in [DOMAIN desc -> UNION {ofFormat(desc[i]) : i \in DOMAIN desc}] :
                                  \A i \in DOMAIN desc : f[i] \in ofFormat(desc[i])}}

-----------------------------------------------------------------------------
(* gsttcammainsrc.cpp *)

Fixate(s, Pick(_)) ==
    [k \in Fields |-> IF k \in {"w", "h", "fps"} /\ Has(s, k) THEN {Pick(s[k])} ELSE s[k]]

(* walked backwards: the last structure replaced by ever larger ones *)
BestSize(icaps) ==
    LET larger(i, best) ==
            LET s == icaps[i] IN
            IF /\ IsInt(s, "w") /\ IsInt(s, "h")
               /\ Dim(s, "w") >= best.w /\ Dim(s, "h") >= best.h
            THEN [at |-> i, w |-> Dim(s, "w"), h |-> Dim(s, "h")] ELSE best
    IN FoldLeft(LAMBDA best, i : larger(i, best), [at |-> 1, w |-> 0, h |-> 0],
                [n \in DOMAIN icaps |-> Len(icaps) + 1 - n]).at

(* mutant: without common caps the own ones are used *)
CommonOrOwn(thiscaps, peercaps) ==
    LET tmp == gst_caps_intersect(thiscaps, peercaps) IN
    IF tmp = <<>> THEN thiscaps ELSE gst_caps_intersect(thiscaps, <<tmp[Len(tmp)]>>)

(* the last structure in common, and then all that overlap with it *)
Common(thiscaps, peercaps) ==
    LET tmp == gst_caps_intersect(thiscaps, peercaps) IN
    IF tmp = <<>> THEN <<>> ELSE gst_caps_intersect(thiscaps, <<tmp[Len(tmp)]>>)

gst_tcam_mainsrc_fixate_caps(s) == Fixate(s, Min)

G_MAXINT == 2147483647
(* G_MAXUINT, which the int parameter takes as -1 *)
G_MAXUINT == -1

Nearest(S, target) ==
    CHOOSE v \in S : \A u \in S : (IF v < target THEN target - v ELSE v - target)
                                 <= (IF u < target THEN target - u ELSE u - target)

(* the only structure in common: the loop over its sizes ends before it begins *)
FixateSingle(s) ==
    [k \in Fields |-> IF k \notin {"w", "h", "fps"} \/ ~Has(s, k) THEN s[k]
                     ELSE {Nearest(s[k], IF k = "fps" THEN G_MAXINT ELSE G_MAXUINT)}]

gst_tcam_mainsrc_negotiate(thiscaps, peercaps) ==
    LET icaps == Common(thiscaps, peercaps)
        caps == CASE peercaps = <<>> -> thiscaps
                  [] Len(icaps) > 1 -> <<icaps[BestSize(icaps)]>>
                  [] Len(icaps) = 1 -> <<FixateSingle(icaps[1])>>
                  [] OTHER -> <<>>
    IN IF caps = <<>> THEN <<>> ELSE <<gst_tcam_mainsrc_fixate_caps(Head(caps))>>

-----------------------------------------------------------------------------
(* tcamgstbase.cpp *)

(* the rank of a format: the smallest is preferred *)
Rank(format) ==
    CASE format = "bayer8" -> 0 [] format = "bgr" -> 10 [] format = "yuv" -> 20 [] format = "jpeg" -> 30
      [] format = "mono8" -> 40 [] format = "mono16" -> 50 [] format = "bayer12" -> 70

index_format_fourccs(caps) == UNION {IF Has(caps[i], "format") THEN caps[i].format ELSE {} : i \in DOMAIN caps}

find_preferred_format(fccs) == CHOOSE f \in fccs : \A g \in fccs : Rank(f) <= Rank(g)

tcam_gst_fixate_caps(s) == Fixate(s, Max)

(* the last structure of the preferred format that is wider, or as high, as those before it *)
LargestIndex(incoming, preferred) ==
    LET step(best, i) ==
            LET s == incoming[i]
                wider == IsInt(s, "w") /\ best.w < Dim(s, "w")
                higher == IsInt(s, "h") /\ best.h <= Dim(s, "h")
            IN IF s.format # {preferred} THEN best
               ELSE [at |-> IF wider \/ higher THEN i ELSE best.at,
                     w |-> IF wider THEN Dim(s, "w") ELSE best.w,
                     h |-> IF higher THEN Dim(s, "h") ELSE best.h]
    IN FoldLeft(step, [at |-> 1, w |-> -1, h |-> -1], [i \in DOMAIN incoming |-> i]).at

tcam_gst_find_largest_caps(incoming, filter) ==
    LET all == index_format_fourccs(incoming)
        asked == all \cap index_format_fourccs(filter)
        preferred == find_preferred_format(IF gst_caps_is_fixed(filter) /\ asked # {} THEN asked ELSE all)
        largest == incoming[LargestIndex(incoming, preferred)]
    IN IF incoming = <<>> THEN <<>>
       ELSE IF gst_caps_is_fixed(incoming) THEN incoming
       ELSE IF gst_caps_is_fixed(<<largest>>) THEN <<largest>>
       ELSE <<[tcam_gst_fixate_caps(largest) EXCEPT !.binning = {1}]>>

contains_jpeg(caps) == \E i \in DOMAIN caps : "jpeg" \in caps[i].format /\ Has(caps[i], "format")

-----------------------------------------------------------------------------
(* tcambinconversion.cpp, gsttcambin.cpp *)

(* narrowed to the sizes and rates of the first structure of the filter, whatever its format *)
filter_by_caps_properties(input, filter) ==
    IF input[1].format = {"jpeg"} THEN input
    ELSE SelectSeq([i \in DOMAIN input |->
                       Meet(input[i], [filter[1] EXCEPT !.format = input[i].format \ {"jpeg"}])], NonEmpty)

find_input_caps(available, wanted) ==
    LET out == IF wanted = <<>> THEN available ELSE wanted IN
    IF available = <<>> THEN <<>>
    ELSE IF gst_caps_is_fixed(available) THEN available
    ELSE tcam_gst_find_largest_caps(filter_by_caps_properties(available, out), out)

(* BGR and YUV are not for tcambin; the memory features are left out *)
tcambin_filter_unsupported_caps(caps) ==
    SelectSeq(caps, LAMBDA s : s.format \notin {{"bgr"}, {"yuv"}})

-----------------------------------------------------------------------------
csInit ==
    /\ csAt = "described" /\ csDesc \in Descriptions /\ csPeer \in PeerCaps
    /\ csCaps = <<>> /\ csMain = <<>> /\ csBin = <<>>

csDescribe ==
    /\ csAt = "described" /\ csAt' = "caps"
    /\ csCaps' \in convert_videoformatsdescription_to_caps(csDesc)
    /\ UNCHANGED <<csDesc, csPeer, csMain, csBin>>

csNegotiate ==
    /\ csAt = "caps" /\ csAt' = "negotiated"
    /\ csMain' = gst_tcam_mainsrc_negotiate(csCaps, csPeer)
    /\ csBin' = find_input_caps(csCaps, csPeer)
    /\ UNCHANGED <<csDesc, csCaps, csPeer>>

csNext == csDescribe \/ csNegotiate

-----------------------------------------------------------------------------
(* no structure is left with only its format *)
Readable == \A i \in DOMAIN csDesc : \A r \in csDesc[i].res : r.type = "fixed" => r.max \notin r.unread
Offered(s) == \E i \in DOMAIN csCaps : NonEmpty(Meet(s, csCaps[i]))

(* What tcammainsrc negotiates is fixed, is offered by the camera and accepted by the peer,  *)
(* and it only fails when there is nothing in common.                                        *)
NegotiatedIsCommon ==
    csAt = "negotiated" /\ Readable =>
        /\ csMain = <<>> => csCaps = <<>> \/ gst_caps_intersect(csCaps, csPeer) = <<>>
        /\ csMain # <<>> =>
            /\ gst_caps_is_fixed(csMain)
            /\ \E i \in DOMAIN csCaps : Within(csMain[1], csCaps[i])
            /\ csPeer # <<>> => \E i \in DOMAIN csPeer : NonEmpty(Meet(csMain[1], csPeer[i]))

(* Which size tcammainsrc settles for.  Of several structures in common it is a listed size   *)
(* than which no other is larger both ways, although the comments of the loop ask for the     *)
(* smallest one that is bigger than the peer's.  Of a single one it is the smallest size, at  *)
(* the highest rate, although the comment asks for a high resolution: G_MAXUINT is -1 as an   *)
(* int.  Without caps of a peer it is the smallest size and rate of the camera's first        *)
(* structure.                                                                                 *)
SizeChosen ==
    csAt = "negotiated" /\ Readable /\ csMain # <<>> =>
        LET icaps == Common(csCaps, csPeer)
            chosen == csMain[1]
            listed == {i \in DOMAIN icaps : IsInt(icaps[i], "w") /\ IsInt(icaps[i], "h")}
            smallest(s) == chosen.w = {Min(s.w)} /\ chosen.h = {Min(s.h)}
        IN IF csPeer = <<>> THEN smallest(csCaps[1]) /\ chosen.fps = {Min(csCaps[1].fps)}
           ELSE IF Len(icaps) = 1 THEN smallest(icaps[1]) /\ chosen.fps = {Max(icaps[1].fps)}
           ELSE /\ \A i \in listed : Dim(icaps[i], "w") <= Dim(chosen, "w") \/ Dim(icaps[i], "h") <= Dim(chosen, "h")
                /\ listed # {} => \E i \in listed : chosen.w = icaps[i].w /\ chosen.h = icaps[i].h

(* What find_input_caps picks for tcambin's source is fixed, and it has the size and rate   *)
(* the first structure of the peer's caps asks for.  A camera that can be read offers it,    *)
(* but for the binning: the structure picked may be a binned one, and is labelled 1x1.       *)
PickedIsOffered ==
    csAt = "negotiated" /\ csBin # <<>> /\ Readable =>
        /\ gst_caps_is_fixed(csBin) /\ Offered([csBin[1] EXCEPT !.binning = Absent.binning])
        /\ csPeer # <<>> /\ Len(csCaps) > 1 /\ csCaps[1].format # {"jpeg"} =>
               \A k \in {"w", "h", "fps"} : csBin[1][k] \subseteq csPeer[1][k]

(* A range of sizes lists both its ends, except when no standard size is inside it or the    *)
(* frame rates of the end cannot be read.                                                    *)
EndsAreListed ==
    csAt # "described" =>
        \A i \in DOMAIN csDesc : \A r \in csDesc[i].res :
            /\ r.type = "range" /\ r.binning = 1
            /\ get_standard_resolutions(r.min, r.max) # <<>>
            => \A end \in {r.min, r.max} \ r.unread :
                   \E j \in DOMAIN csCaps : /\ csCaps[j].w = {end[1]} /\ csCaps[j].h = {end[2]}
                                            /\ csCaps[j].format = {csDesc[i].format}

(* The caps list the unbinned sizes of a format before the binned ones, and the sizes of a   *)
(* format with one range, or with only fixed sizes, from the smallest to the largest.        *)
SizesAreOrdered ==
    csAt # "described" =>
        \A d \in Range(csDesc) : \A i, j \in DOMAIN csCaps :
            i < j /\ csCaps[i].format = {d.format} /\ csCaps[j].format = {d.format} =>
                LET a == csCaps[i]
                    b == csCaps[j]
                    sized == \A k \in {"w", "h"} : IsInt(a, k) /\ IsInt(b, k)
                IN /\ Has(a, "binning") /\ Has(b, "w") => Has(b, "binning")
                   /\ /\ sized /\ a.binning = b.binning
                      /\ Cardinality(d.res) = 1 \/ \A r \in d.res : r.type = "fixed"
                      => is_totally_ordered_less(<<Dim(a, "w"), Dim(a, "h")>>, <<Dim(b, "w"), Dim(b, "h")>>)

(* What describing and choosing caps promises for every camera and every peer.               *)
NegotiationHolds ==
    NegotiatedIsCommon /\ SizeChosen /\ PickedIsOffered /\ EndsAreListed /\ SizesAreOrdered
==============================================================================
