-------------------------------- MODULE Edid --------------------------------
(***************************************************************************)
(* The EDID decoder of the HDMI driver (ledos/adv7513/edid): the base      *)
(* block, its four 18-byte descriptors and the CEA-861 extension, decoded  *)
(* into one structure that the caller may use again for the next monitor.  *)
(* bin is the 256-byte image of the connected monitor, edid the structure  *)
(* (struct base_edid).  alone is a second structure, all zero before each  *)
(* decoding and filled by the same steps: what edid_print_v14 shows of the *)
(* two must agree, or something of an earlier monitor is shown.            *)
(*                                                                         *)
(* Real-valued results are kept as the integers they are computed from     *)
(* (hundredths), an established timing is its index in the table, and the  *)
(* flag words of the structure are sets of flag names.                     *)
(***************************************************************************)
EXTENDS Integers, Sequences, FiniteSets, SequencesExt

CONSTANT Monitors \* the EDID images a monitor may have: [0..255 -> 0..255]

VARIABLES bin, edid, alone, pc, i, c, ret

vars == <<bin, edid, alone, pc, i, c, ret>>

-----------------------------------------------------------------------------
(* Bytes. *)

Bits(b, hi, lo) == (b \div 2 ^ lo) % 2 ^ (hi - lo + 1)
Bit(b, k) == Bits(b, k, k) = 1
Word(msb, lsb) == 256 * msb + lsb
\* The names at the bits of b that are set.
Flags(b, names) == {names[k] : k \in {j \in DOMAIN names : Bit(b, j)}}

EDID_EXT_TAG_CEA == 2
CEA_DB_AUDIO == 1
CEA_DB_VIDEO == 2
CEA_DB_VENDOR == 3
CEA_DB_SPEAKER == 4
CEA_DB_DTC == 5
CEA_DB_EXTENDED == 7
CEA_DBE_TAGS == 0 .. 5 \union 16 .. 18
MAX_EXT == 1 \* extensions decoded, whatever byte 0x7e says

-----------------------------------------------------------------------------
(* The enumerations of edid.h and edid_cea.h.  One that stands for a code is   *)
(* the sequence of its members from code 0 on; one that stands for flags maps   *)
(* the bit of the image to the flag.                                           *)

eb_video_in_level == <<"0P700_0P300_1P000", "0P714_0P286_1P000", "1P000_0P400_1P400",
                       "0P700_0P000_0P700">>
eb_video_in_setup == <<"BLANK_LEVEL_EQ_BLACK_LEVEL", "BLANK_TO_BLACK_PEDESTAL">>
eb_video_in_sync_type == 3 :> "SEPERATE_H_V_SYNC" @@ 2 :> "COMPOSITE_H_SYNC" @@
                         1 :> "COMPOSITE_G_VIDEO"
eb_video_in_serration == 0 :> "VSYNC"
eb_video_in_depth == <<"NOT_DEFINED", "6BITS", "8BITS", "10BITS", "12BITS", "14BITS", "16BITS">>
eb_video_in_interface == <<"NOT_DEFINED", "DVI", "HDMI_A", "HDMI_B", "MDDI", "DISPLAYPORT">>
eb_feature_support == 0 :> "CONTINUOUS_FREQ" @@ 1 :> "NATIVE_PREFERRED" @@ 2 :> "SRGB_DEFAULT" @@
                      5 :> "ACTIVE_OFF" @@ 6 :> "SUSPEND" @@ 7 :> "STANDBY"

DT_DETAILED_TIMING == 0
DT_DISPLAY_DESCRIPTOR == 1

DTAG_PRODUCT_SERIAL == 255
DTAG_DATA_STRING == 254
DTAG_RANGE_LIMIT == 253
DTAG_PRODUCT_NAME == 252
DTAG_COLOR_POINT == 251
DTAG_STANDARD_TIMING == 250
DTAG_DCM_DATA == 249
DTAG_CVT_TIMING == 248
DTAG_ESTABLISHED_TIMING_III == 247
DTAG_DUMMY == 16

\* By bits 6, 5 and 0 of the last byte of a timing.
eb_stereo_support == <<"NONE", "NONE", "FIELD_SEQUENTIAL_RIGHT_SYNC",
                       "2WAY_INTERLEAVE_RIGHT_EVEN", "FIELD_SEQUENTIAL_LEFT_SYNC",
                       "2WAY_INTERLEAVE_LEFT_EVEN", "4WAY_INTERLEAVE",
                       "SIDE_BY_SIDE_INTERLEAVE">>

A_COMPOSITE_SYNC == 1
A_BIPOLAR_COMPOSITE_SYNC == 2
A_BIPOLAR_SERRATION == 4
A_BIPOLAR_SERRATION_SYNC_G == 8
A_BIPOLAR_SERRATION_SYNC_RGB == 16
D_COMPOSITE_SYNC == 32
D_COMPOSITE_SERRATION == 64
D_SEPERATE_SYNC == 128
D_SEPERATE_VSYNC_N == 256
D_SEPERATE_VSYNC_P == 512
D_SEPERATE_HSYNC_N == 1024
D_SEPERATE_HSYNC_P == 2048

eb_h_rate_offset == <<"ZERO", "MAX_255_MIN_ZERO", "MAX_255_MIN_255">>
eb_v_rate_offset == <<"ZERO", "MAX_255_MIN_ZERO", "MAX_255_MIN_255">>

TF_DEFAULT_GTF == 0 \* is no flag
TF_RANGE_LIMITS == 1
TF_SECOND_GTF == 2
TF_CVT == 4

eb_supported_aspect == <<"4_3", "16_9", "16_10", "5_4", "15_9">>
eb_cvt_blanking == 3 :> "STANDARD_BLANKING" @@ 4 :> "REDUCED_BLANKING"
eb_cvt_scaling == 7 :> "H_SHRINK" @@ 6 :> "H_STRETCH" @@ 5 :> "V_SHRINK" @@ 4 :> "V_STRETCH"
eb_cvt_v_rate == <<50, 60, 75, 85>>

CEA_SAD_FMT_LPCM == 1
CEA_SAD_FMT_AC3 == 2
CEA_SAD_FMT_ATRAC == 8
cea_sad_sample_freq == 6 :> "192K" @@ 5 :> "176P4K" @@ 4 :> "96K" @@ 3 :> "88P2K" @@
                       2 :> "48K" @@ 1 :> "44P1K" @@ 0 :> "32K"
cea_speaker_designation == 6 :> "RLC_RRC" @@ 5 :> "FLC_FRC" @@ 4 :> "RC" @@ 3 :> "RL_RR" @@
                           2 :> "FC" @@ 1 :> "LFE" @@ 0 :> "FL_FR"
cea_primaries == 0 :> "XVYCC601" @@ 1 :> "XVYCC709"
cea_gamut_metadata == 0 :> "MD0" @@ 1 :> "MD1" @@ 2 :> "MD2"
cea_pt_scan_behavior == <<"NONE", "OVERSCAN", "UNDERSCAN", "BOTH">>
cea_it_scan_behavior == <<"NONE", "OVERSCAN", "UNDERSCAN", "BOTH">>
cea_ce_scan_behavior == <<"NONE", "OVERSCAN", "UNDERSCAN", "BOTH">>

\* The member of a code, the first one for a code that has none.
Member(enum, v) == IF v < Len(enum) THEN enum[v + 1] ELSE enum[1]

-----------------------------------------------------------------------------
(* The structure. *)

NoTiming == [horizontal |-> 0, aspect_ratio |-> 0, refresh_rate |-> 0]
NoVsdb == [ieee_reg_id |-> 0, nr_vic_3d |-> 0, vic_3d |-> <<>>]

Descriptor0 ==
    [type |-> 0, tag |-> 0, u |-> <<>>, timing_3 |-> {},
     extra |-> [s \in 0..5 |-> NoTiming], dcm |-> <<>>,
     cvt |-> [s \in 0..3 |-> [lines |-> 0, aspect |-> {}, rate |-> {}, supported |-> {}]]]

Cea0 ==
    [rev |-> 0, off_dtd |-> 0, nr_dtd |-> 0, flags |-> {}, dbc_tags |-> <<>>,
     dbe_tags |-> [k \in 0..61 |-> 0], svd |-> <<>>, sad |-> <<>>, speaker |-> {},
     vsdb |-> NoVsdb, colorimetry |-> <<>>, vcdb |-> <<>>, detailed_timing |-> <<>>]

Zeroed ==
    [base |-> <<>>, standard_timings |-> [k \in 0..7 |-> NoTiming],
     descriptors |-> [k \in 0..3 |-> Descriptor0],
     extensions |-> 0, ext_tag |-> 0, cea |-> Cea0]

-----------------------------------------------------------------------------
(* The base block. *)

Header(b) == /\ b[0] = 0 /\ b[7] = 0
             /\ \A k \in 1..6 : b[k] = 255

\* The sum of the bytes up to n, in eight bits.
ByteSum(b, n) == LET S[k \in 0..n] == IF k = 0 THEN b[0] ELSE (S[k - 1] + b[k]) % 256
                 IN  S[n]

Checksum(b) == ByteSum(b, 127) = 0

Identity(b) ==
    [id_mfg |-> <<64 + Bits(b[8], 6, 2), 64 + 8 * Bits(b[8], 1, 0) + Bits(b[9], 7, 5),
                  64 + Bits(b[9], 4, 0)>>,
     id_prod |-> Word(b[11], b[10]),
     id_sn |-> <<b[15], b[14], b[13], b[12]>>,
     mfg_week |-> IF b[16] \in 1..54 THEN b[16] ELSE 0,
     model_year |-> IF b[16] = 255 THEN 1990 + b[17] ELSE 0,
     mfg_year |-> IF b[16] = 255 THEN 0 ELSE 1990 + b[17],
     ver |-> <<b[18], b[19]>>,
     checksum |-> b[127]]

Input(b) ==
    IF Bit(b[20], 7)
    THEN [digital_if |-> 1,
          depth |-> Member(eb_video_in_depth, Bits(b[20], 6, 4)),
          interface |-> Member(eb_video_in_interface, Bits(b[20], 3, 0))]
    ELSE [digital_if |-> 0,
          level |-> Member(eb_video_in_level, Bits(b[20], 6, 5)),
          setup |-> Member(eb_video_in_setup, Bits(b[20], 4, 4)),
          sync_type |-> Flags(b[20], eb_video_in_sync_type),
          serrations |-> Flags(b[20], eb_video_in_serration)]

Screen(b) ==
    CASE b[21] # 0 /\ b[22] # 0 -> [size |-> <<b[21], b[22]>>]
      [] b[21] # 0 /\ b[22] = 0 -> [landscape |-> b[21] + 99]
      [] b[21] = 0 /\ b[22] # 0 -> [portrait |-> b[22] + 99]
      [] OTHER -> [size |-> <<0, 0>>]

\* In hundredths; 0 stands for "in an extension block".
Gamma(v) == IF v < 255 THEN v + 100 ELSE 0

Feature(b) ==
    LET v == b[24]
        colour == Bits(v, 4, 3)
    IN  Flags(v, eb_feature_support)
        \union IF Bit(b[20], 7)
               THEN {"RGB444"} \union Flags(colour, 0 :> "YCBCR444" @@ 1 :> "YCBCR422")
               ELSE IF colour = 3 THEN {} ELSE {<<"MONO_GRAY", "RGB", "NON_RGB">>[colour + 1]}

Chromaticity(b) ==
    [k \in 0..7 |-> 4 * b[27 + k] + Bits(b[25 + k \div 4], 7 - 2 * (k % 4), 6 - 2 * (k % 4))]

\* An entry of an established-timing table, with its mode or with nothing: its
\* index k stands for resolution, rate, interlace and blanking.
eb_establish_timing(k, valid) == IF valid THEN {k} ELSE {}

\* The valid entries of an established-timing table of n bits from byte o on.
Established(b, o, n) ==
    UNION {eb_establish_timing(k, Bit(b[o + k \div 8], 7 - (k % 8))) : k \in 0 .. n - 1}

Timing(b, o) ==
    [horizontal |-> (b[o] + 31) * 8, aspect_ratio |-> Bits(b[o + 1], 7, 6),
     refresh_rate |-> Bits(b[o + 1], 5, 0) + 60]

\* n two-byte timings from o on: a blank one leaves its entry as it was.
StandardTimings(old, b, o, n) ==
    [k \in 0 .. n - 1 |-> IF b[o + 2 * k] = 0 THEN old[k] ELSE Timing(b, o + 2 * k)]

BaseBlock(e, b) ==
    [e EXCEPT !.base = [identity |-> Identity(b), input |-> Input(b), screen |-> Screen(b),
                        gamma |-> Gamma(b[23]), feature |-> Feature(b),
                        chromaticity |-> Chromaticity(b),
                        timing_1_2 |-> Established(b, 35, 17)],
              !.standard_timings = StandardTimings(@, b, 38, 8)]

-----------------------------------------------------------------------------
(* The descriptors. *)

Stereo(v) == eb_stereo_support[2 * Bits(v, 6, 5) + Bits(v, 0, 0) + 1]

\* The CEA decoder knows no polarity of the horizontal sync (hsync = FALSE).
Sync(v, hsync) ==
    IF Bit(v, 4)
    THEN IF Bit(v, 3)
         THEN {D_SEPERATE_SYNC, IF Bit(v, 2) THEN D_SEPERATE_VSYNC_P ELSE D_SEPERATE_VSYNC_N}
              \union IF hsync
                     THEN {IF Bit(v, 1) THEN D_SEPERATE_HSYNC_P ELSE D_SEPERATE_HSYNC_N}
                     ELSE {}
         ELSE {D_COMPOSITE_SYNC} \union Flags(v, 2 :> D_COMPOSITE_SERRATION)
    ELSE IF Bit(v, 7)
         THEN {A_BIPOLAR_COMPOSITE_SYNC} \union
              IF Bit(v, 6)
              THEN {A_BIPOLAR_SERRATION,
                    IF Bit(v, 5) THEN A_BIPOLAR_SERRATION_SYNC_RGB
                                 ELSE A_BIPOLAR_SERRATION_SYNC_G}
              ELSE {}
         ELSE {A_COMPOSITE_SYNC}

DetailedTiming(b, o, hsync) ==
    LET v(k) == b[o + k]
        wide(hi, lo) == 256 * Bits(v(hi), 7, 4) + v(lo)
        low(hi, lo) == 256 * Bits(v(hi), 3, 0) + v(lo)
    IN  [pixel_clock |-> Word(v(1), v(0)) * 10000,
         width |-> wide(4, 2), height |-> wide(7, 5),
         h_blank |-> low(4, 3), v_blank |-> low(7, 6),
         h_fp |-> 256 * Bits(v(11), 7, 6) + v(8), h_sync |-> 256 * Bits(v(11), 5, 4) + v(9),
         v_fp |-> 16 * Bits(v(11), 3, 2) + Bits(v(10), 7, 4),
         v_sync |-> 16 * Bits(v(11), 1, 0) + Bits(v(10), 3, 0),
         h_size |-> wide(14, 12), v_size |-> low(14, 13),
         border |-> <<v(15), v(16)>>, interlaced |-> Bit(v(17), 7),
         stereo |-> Stereo(v(17)), sync |-> Sync(v(17), hsync)]

\* Thirteen characters; a line feed becomes the end of the string.
Text(b, o) == [k \in 1..13 |-> IF b[o + 4 + k] = 10 THEN 0 ELSE b[o + 4 + k]]

RangeLimits(b, o, feature) ==
    LET v(k) == b[o + k]
        rate(k, mask) == IF v(k) = 0 THEN 0 ELSE v(k) + IF mask THEN 255 ELSE 0
        continuous == "CONTINUOUS_FREQ" \in feature
        offset(enum, low, high, x) ==
            CASE x = low -> enum[2] [] x = high -> enum[3] [] OTHER -> enum[1]
    IN  [h_offset |-> offset(eb_h_rate_offset, 8, 12, v(4) - Bits(v(4), 1, 0)),
         v_offset |-> offset(eb_v_rate_offset, 2, 3, v(4) - 4 * Bits(v(4), 3, 2)),
         v_min |-> rate(5, Bits(v(4), 1, 0) = 3), v_max |-> rate(6, Bit(v(4), 1)),
         h_min |-> rate(7, Bits(v(4), 3, 2) = 3), h_max |-> rate(8, Bit(v(4), 3)),
         p_max |-> v(9) * 10,
         timing |-> CASE v(10) = 0 /\ continuous -> <<TF_DEFAULT_GTF>>
                      [] v(10) = 4 /\ continuous ->
                            <<TF_CVT, Bits(v(11), 7, 4), Bits(v(11), 3, 0), v(12) \div 4,
                              IF v(13) = 0 THEN 0 ELSE 8 * Word(Bits(v(12), 1, 0), v(13)),
                              {eb_supported_aspect[k] : k \in {j \in 1..5 : Bit(v(14), 8 - j)}},
                              {eb_supported_aspect[k] : k \in {Bits(v(15), 7, 5) + 1} \cap 1..5},
                              Flags(v(15), eb_cvt_blanking), Flags(v(16), eb_cvt_scaling), v(17)>>
                      [] v(10) = 1 -> <<TF_RANGE_LIMITS>>
                      [] v(10) = 2 -> <<TF_SECOND_GTF, v(12) * 2, v(13) \div 2,
                                        Word(v(15), v(14)), v(16), v(17) \div 2>>
                      [] OTHER -> <<0>>]

WhitePoint(b, o) ==
    [index |-> b[o], x |-> 4 * b[o + 2] + Bits(b[o + 1], 3, 2),
     y |-> 4 * b[o + 3] + Bits(b[o + 1], 1, 0), gamma |-> Gamma(b[o + 4])]

Dcm(b, o) == [ver |-> b[o + 5],
              a |-> [k \in 0..5 |-> Word(b[o + 7 + 2 * k], b[o + 6 + 2 * k])]]

\* The aspect and the preferred rate are or-ed into the words they are kept in.
Cvt(old, b, o) ==
    [lines |-> 256 * Bits(b[o + 1], 7, 4) + b[o],
     aspect |-> old.aspect \union {eb_supported_aspect[<<1, 2, 3, 5>>[Bits(b[o + 1], 3, 2) + 1]]},
     rate |-> old.rate \union {eb_cvt_v_rate[Bits(b[o + 2], 6, 5) + 1]},
     supported |-> Flags(b[o + 2], 4 :> "50" @@ 3 :> "60" @@ 2 :> "75" @@ 1 :> "85" @@
                                   0 :> "60rb")]

MoreTimings(old, b, o) == StandardTimings(old, b, o + 5, 6)
EstablishedIII(b, o) == Established(b, o + 6, 44)

\* The product name is kept as a string like the serial number and the data string.
ProductName(b, o) == Text(b, o)

Descriptor(d0, b, o, feature) ==
    IF b[o] # 0 \/ b[o + 1] # 0
    THEN [d0 EXCEPT !.type = DT_DETAILED_TIMING, !.u = DetailedTiming(b, o, TRUE)]
    ELSE LET tag == b[o + 3]
             d == [d0 EXCEPT !.type = DT_DISPLAY_DESCRIPTOR]
             t == [d EXCEPT !.tag = tag]
         IN  CASE tag \in {DTAG_PRODUCT_SERIAL, DTAG_DATA_STRING} -> [t EXCEPT !.u = Text(b, o)]
               [] tag = DTAG_RANGE_LIMIT -> [t EXCEPT !.u = RangeLimits(b, o, feature)]
               [] tag = DTAG_PRODUCT_NAME -> [t EXCEPT !.u = ProductName(b, o)]
               [] tag = DTAG_COLOR_POINT ->
                      [t EXCEPT !.u = <<WhitePoint(b, o + 5), WhitePoint(b, o + 10)>>]
               [] tag = DTAG_STANDARD_TIMING -> [t EXCEPT !.extra = MoreTimings(@, b, o)]
               [] tag = DTAG_DCM_DATA -> [t EXCEPT !.dcm = Dcm(b, o)]
               [] tag = DTAG_CVT_TIMING ->
                      [t EXCEPT !.cvt = [s \in 0..3 |-> Cvt(@[s], b, o + 6 + 3 * s)]]
               [] tag = DTAG_ESTABLISHED_TIMING_III -> [t EXCEPT !.timing_3 = EstablishedIII(b, o)]
               [] tag = DTAG_DUMMY -> t
               [] OTHER -> d

-----------------------------------------------------------------------------
(* The CEA extension: offsets are into its block, which starts at 128. *)

Ext(b, k) == b[128 + k]
BlockLen(b, p) == Bits(Ext(b, p), 4, 0)
BlockTag(b, p) == Bits(Ext(b, p), 7, 5)
\* Where the detailed timings start; 0 when the pointer is left null.
DtdAt(b) == IF Ext(b, 2) > 4 THEN Ext(b, 2) ELSE 0

\* A bug to catch: nr_dbcs is not set to zero, the blocks of the last monitor stay listed.
CeaHeader_NoReset(cea, b) ==
    [cea EXCEPT !.rev = Ext(b, 1), !.off_dtd = Ext(b, 2), !.nr_dtd = Bits(Ext(b, 3), 3, 0),
                !.flags = Flags(Ext(b, 3), 7 :> "underscan" @@ 6 :> "audio" @@
                                           5 :> "ycbcr444" @@ 4 :> "ycbcr422")]

CeaHeader(cea, b) ==
    [cea EXCEPT !.rev = Ext(b, 1), !.off_dtd = Ext(b, 2), !.nr_dtd = Bits(Ext(b, 3), 3, 0),
                !.flags = Flags(Ext(b, 3), 7 :> "underscan" @@ 6 :> "audio" @@
                                           5 :> "ycbcr444" @@ 4 :> "ycbcr422"),
                !.dbc_tags = <<>>]

\* The first n entries of an array, replaced by f; those beyond are kept.
Refill(old, n, f(_)) ==
    [k \in 1 .. (IF n > Len(old) THEN n ELSE Len(old)) |-> IF k <= n THEN f(k) ELSE old[k]]

Sad(b, q) ==
    LET format == Bits(Ext(b, q), 6, 3) IN
    [format |-> format, channels |-> Bits(Ext(b, q), 2, 0) + 1,
     freq |-> Flags(Ext(b, q + 1), cea_sad_sample_freq),
     third |-> CASE format = CEA_SAD_FMT_LPCM -> Bits(Ext(b, q + 2), 2, 0)
                 [] format \in CEA_SAD_FMT_AC3 .. CEA_SAD_FMT_ATRAC -> Ext(b, q + 2) * 8
                 [] OTHER -> 0]

Svd(b, q) == [native |-> Bit(Ext(b, q), 7), vic |-> Bits(Ext(b, q), 6, 0)]

\* The list of 3D formats: two bytes for a structure of 8 or more, else one.
Vic3dFrom(b, q, n) ==
    LET V[q1 \in q .. q + n] ==
            IF q1 >= q + n THEN <<>>
            ELSE LET s == Bits(Ext(b, q1), 3, 0)
                     rest == IF s < 8 THEN q1 + 1 ELSE q1 + 2
                 IN  <<[vic_2d |-> Bits(Ext(b, q1), 7, 4), struct_3d |-> s,
                        detail_3d |-> IF s < 8 THEN 0 ELSE Bits(Ext(b, q1 + 1), 7, 4)]>>
                     \o IF rest > q + n THEN <<>> ELSE V[rest]
    IN  V[q]

Vsdb(old, b, p) ==
    IF <<Ext(b, p + 1), Ext(b, p + 2), Ext(b, p + 3)>> # <<3, 12, 0>>
    THEN [old EXCEPT !.ieee_reg_id = 0]
    ELSE
    LET len == BlockLen(b, p)
        at(k, n) == IF len >= n THEN Ext(b, p + k) ELSE 0
        p_lat == Bit(at(8, 8), 7)
        i_lat == Bit(at(8, 8), 6)
        video == Bit(at(8, 8), 5)
        i_at == p + 9 + IF p_lat THEN 2 ELSE 0
        hv == i_at + IF i_lat THEN 2 ELSE 0
        ms(q) == (Ext(b, q) - 1) * 2
        multi == IF video THEN Bits(Ext(b, hv), 6, 5) ELSE 0
        xx_len == IF video THEN Bits(Ext(b, hv + 1), 7, 5) ELSE 0
        d3_len == IF video THEN Bits(Ext(b, hv + 1), 4, 0) ELSE 0
        d == hv + 2 + xx_len
        skip == IF multi = 1 THEN 2 ELSE 4 \* bytes before the list
        list == IF multi \in {1, 2} /\ d3_len > skip
                THEN Vic3dFrom(b, d + skip, d3_len - skip) ELSE <<>>
    IN  [ieee_reg_id |-> 3075, ext_len |-> len,
         addr |-> <<Bits(Ext(b, p + 4), 7, 4), Bits(Ext(b, p + 4), 3, 0),
                    Bits(Ext(b, p + 5), 7, 4), Bits(Ext(b, p + 5), 3, 0)>>,
         flags |-> Flags(at(6, 6), 7 :> "ai" @@ 6 :> "bpp48" @@ 5 :> "bpp36" @@
                                   4 :> "bpp30" @@ 3 :> "ycbcr444" @@ 0 :> "dvi_dual"),
         max_tmds_clk |-> at(7, 7) * 5,
         latency_p |-> IF p_lat THEN <<ms(p + 9), ms(p + 10)>> ELSE <<>>,
         latency_i |-> IF i_lat THEN <<ms(i_at), ms(i_at + 1)>> ELSE <<>>,
         hdmi_video |-> video, present_3d |-> video /\ Bit(Ext(b, hv), 7), multi_3d |-> multi,
         image_size |-> IF video THEN Bits(Ext(b, hv), 4, 3) ELSE 0,
         xx_len |-> xx_len, hdmi_3d_len |-> d3_len,
         struct_all_3d |-> IF d3_len > 0 /\ multi \in {1, 2}
                           THEN Word(Ext(b, d), Ext(b, d + 1)) ELSE 0,
         mask_3d |-> IF d3_len > 0 /\ multi = 2 THEN Word(Ext(b, d + 2), Ext(b, d + 3)) ELSE 0,
         nr_vic_3d |-> IF d3_len > 0 THEN Len(list) ELSE old.nr_vic_3d,
         vic_3d |-> Refill(old.vic_3d, Len(list), LAMBDA k : list[k])]

\* An extended block: the tag of an unknown one is left as it was.
Extended(cea, b, p) ==
    LET x == Ext(b, p + 1)
        k == Len(cea.dbc_tags)
    IN  [cea EXCEPT !.dbe_tags[k] = IF x \in CEA_DBE_TAGS THEN x ELSE @,
                    !.vcdb = IF x # 0 THEN @ ELSE
                             <<Bits(Ext(b, p + 2), 6, 6),
                               Member(cea_pt_scan_behavior, Bits(Ext(b, p + 2), 5, 4)),
                               Member(cea_it_scan_behavior, Bits(Ext(b, p + 2), 3, 2)),
                               Member(cea_ce_scan_behavior, Bits(Ext(b, p + 2), 1, 0))>>,
                    !.colorimetry = IF x # 5 THEN @ ELSE
                                    <<Flags(Ext(b, p + 2), cea_primaries),
                                      Flags(Ext(b, p + 3), cea_gamut_metadata)>>]

SpeakerBlock(b, p) == Flags(Ext(b, p + 1), cea_speaker_designation)

\* One data block of the collection, at offset p.
DataBlock(cea, b, p) ==
    LET tag == BlockTag(b, p)
        len == BlockLen(b, p)
        done == CASE tag = CEA_DB_AUDIO ->
                       [cea EXCEPT !.sad = Refill(<<>>, len \div 3,
                                                  LAMBDA k : Sad(b, p + 1 + 3 * (k - 1)))]
                  [] tag = CEA_DB_VIDEO ->
                       [cea EXCEPT !.svd = Refill(<<>>, len, LAMBDA k : Svd(b, p + k))]
                  [] tag = CEA_DB_VENDOR -> [cea EXCEPT !.vsdb = Vsdb(@, b, p)]
                  [] tag = CEA_DB_SPEAKER -> [cea EXCEPT !.speaker = SpeakerBlock(b, p)]
                  [] tag = CEA_DB_DTC -> cea
                  [] tag = CEA_DB_EXTENDED -> Extended(cea, b, p)
    IN  [done EXCEPT !.dbc_tags = Append(@, tag)]

\* The timing that is n-th of the extension.
CeaTiming(cea, b, n) ==
    [cea EXCEPT !.detailed_timing =
        Refill(@, n + 1, LAMBDA k : IF k = n + 1
                                    THEN DetailedTiming(b, 128 + DtdAt(b) + 18 * n, FALSE)
                                    ELSE @[k])]

-----------------------------------------------------------------------------
(* The decoder, one step per part it decodes. *)

Init ==
    /\ bin \in Monitors
    /\ edid = Zeroed
    /\ alone = Zeroed
    /\ pc = "start" /\ i = 0 /\ c = 0 /\ ret = 0

\* The same step on the structure in use and on the one that was zeroed.
Both(f(_)) == /\ edid' = f(edid)
              /\ alone' = f(alone)

\* Another monitor, and edid_decode_v14 called for it with the same structure.
Connect ==
    /\ pc = "done"
    /\ bin' \in Monitors
    /\ alone' = Zeroed
    /\ pc' = "start" /\ i' = 0 /\ c' = 0 /\ ret' = 0
    /\ UNCHANGED edid

Reject ==
    /\ pc = "start"
    /\ ~(Header(bin) /\ Checksum(bin))
    /\ pc' = "done" /\ ret' = -1
    /\ UNCHANGED <<bin, edid, alone, i, c>>

edid_decode_v14 ==
    /\ pc = "start"
    /\ Header(bin) /\ Checksum(bin)
    /\ Both(LAMBDA e : BaseBlock(e, bin))
    /\ pc' = "descriptors"
    /\ UNCHANGED <<bin, i, c, ret>>

Descriptors ==
    /\ pc = "descriptors"
    /\ Both(LAMBDA e : [e EXCEPT
            !.descriptors[i] = Descriptor(@, bin, 54 + 18 * i, e.base.feature),
            !.extensions = IF i = 3 THEN bin[126] ELSE @])
    /\ i' = (i + 1) % 4
    /\ pc' = IF i < 3 THEN pc ELSE IF bin[126] # 0 THEN "extensions" ELSE "done"
    /\ UNCHANGED <<bin, c, ret>>

\* Extension i; what edid_decode_cea answers is not passed on.
edid_decode_extensions ==
    /\ pc = "extensions"
    /\ IF i < bin[126] /\ i < MAX_EXT /\ Ext(bin, 0) = EDID_EXT_TAG_CEA /\ Ext(bin, 1) = 3
       THEN /\ Both(LAMBDA e : [e EXCEPT !.ext_tag = EDID_EXT_TAG_CEA,
                                         !.cea = CeaHeader(@, bin)])
            /\ c' = 4
            /\ pc' = "blocks"
       ELSE /\ pc' = "done"
            /\ UNCHANGED <<edid, alone, c>>
    /\ UNCHANGED <<bin, i, ret>>

edid_decode_cea ==
    /\ pc = "blocks"
    /\ c < DtdAt(bin)
    /\ IF BlockTag(bin, c) \in {0, 6}
       THEN c' = DtdAt(bin) /\ UNCHANGED <<edid, alone>>
       ELSE /\ Both(LAMBDA e : [e EXCEPT !.cea = DataBlock(@, bin, c)])
            /\ c' = c + BlockLen(bin, c) + 1
    /\ UNCHANGED <<bin, pc, i, ret>>

CeaTimings ==
    /\ pc = "blocks"
    /\ c >= DtdAt(bin)
    /\ IF DtdAt(bin) # 0 /\ i < Bits(Ext(bin, 3), 3, 0)
       THEN /\ Both(LAMBDA e : [e EXCEPT !.cea = CeaTiming(@, bin, i)])
            /\ i' = i + 1
            /\ UNCHANGED pc
       ELSE /\ pc' = "done"
            /\ UNCHANGED <<edid, alone, i>>
    /\ UNCHANGED <<bin, c, ret>>

Next ==
    \/ Connect \/ Reject \/ edid_decode_v14 \/ Descriptors
    \/ edid_decode_extensions \/ edid_decode_cea \/ CeaTimings

Spec == Init /\ [][Next]_vars

-----------------------------------------------------------------------------
(* What edid_print_v14 and edid_print_cea show of a structure.             *)
(* "kept" marks the places where the decoder leaves what an earlier        *)
(* monitor put there and the printing code has no way to tell.             *)

kept == "kept"

\* The identity without its checksum, the chromaticity not at all.
PrintedBase(base) ==
    [identity |-> [f \in DOMAIN base.identity \ {"checksum"} |-> base.identity[f]],
     input |-> base.input, screen |-> base.screen, gamma |-> base.gamma,
     feature |-> base.feature, established |-> base.timing_1_2]

\* A bipolar sync is not mentioned; without a flag the polarity is positive.
PrintedSync(sync) ==
    CASE A_COMPOSITE_SYNC \in sync -> {A_COMPOSITE_SYNC}
      [] D_COMPOSITE_SYNC \in sync -> sync
      [] D_SEPERATE_SYNC \in sync ->
             {D_SEPERATE_SYNC,
              IF D_SEPERATE_VSYNC_N \in sync THEN D_SEPERATE_VSYNC_N ELSE D_SEPERATE_VSYNC_P,
              IF D_SEPERATE_HSYNC_N \in sync THEN D_SEPERATE_HSYNC_N ELSE D_SEPERATE_HSYNC_P}
      [] OTHER -> {}

PrintedDetailed(t) == [t EXCEPT !.sync = PrintedSync(@)]

PrintedTimings(t, b, o) ==
    [k \in DOMAIN t |-> IF b[o + 2 * k] = 0 THEN kept ELSE t[k]]

\* A string that fills its thirteen bytes runs into the bytes after it.
PrintedText(text) ==
    LET ends == {k \in 1..13 : text[k] = 0} IN
    IF ends = {} THEN <<text, kept>>
    ELSE SubSeq(text, 1, (CHOOSE k \in ends : \A j \in ends : k <= j) - 1)

PrintedDescriptor(d, b, o) ==
    LET tag == b[o + 3] IN
    CASE d.type = DT_DETAILED_TIMING -> PrintedDetailed(d.u)
      [] d.type = DT_DISPLAY_DESCRIPTOR
         /\ tag \in {DTAG_PRODUCT_SERIAL, DTAG_DATA_STRING, DTAG_PRODUCT_NAME} ->
             <<d.tag, PrintedText(d.u)>>
      [] d.type = DT_DISPLAY_DESCRIPTOR /\ tag \in {DTAG_RANGE_LIMIT, DTAG_COLOR_POINT} ->
             <<d.tag, d.u>>
      [] d.type = DT_DISPLAY_DESCRIPTOR /\ tag = DTAG_STANDARD_TIMING ->
             <<d.tag, PrintedTimings(d.extra, b, o + 5)>>
      [] d.type = DT_DISPLAY_DESCRIPTOR /\ tag = DTAG_ESTABLISHED_TIMING_III ->
             <<d.tag, d.timing_3 \intersect 0..16>>
      [] d.type = DT_DISPLAY_DESCRIPTOR /\ tag \in {DTAG_DCM_DATA, DTAG_CVT_TIMING, DTAG_DUMMY} ->
             <<d.tag>>
      [] OTHER -> <<kept>>

PrintedVsdb(v) ==
    IF v.ieee_reg_id # 3075 THEN "other vendor"
    ELSE IF v.hdmi_video /\ v.hdmi_3d_len = 0
         THEN [v EXCEPT !.vic_3d = kept, !.nr_vic_3d = kept]
         ELSE [v EXCEPT !.vic_3d = IF v.hdmi_video THEN SubSeq(@, 1, v.nr_vic_3d) ELSE <<>>,
                        !.nr_vic_3d = IF v.hdmi_video THEN @ ELSE 0]

\* Formats 1 to 8 have a third line: resolution or bit rate.
PrintedAudio(sad) ==
    [k \in DOMAIN sad |-> <<sad[k].format, sad[k].channels, sad[k].freq>>
                          \o IF sad[k].format \in CEA_SAD_FMT_LPCM .. CEA_SAD_FMT_ATRAC
                             THEN <<sad[k].third>> ELSE <<>>]

PrintedVideo(svd) ==
    [k \in DOMAIN svd |-> <<svd[k].vic, IF svd[k].vic < 60 THEN "named" ELSE "unknown",
                            svd[k].native>>]

PrintedExtended(cea, n) ==
    <<cea.dbe_tags[n - 1]>> \o IF cea.dbe_tags[n - 1] = 0 THEN cea.vcdb ELSE <<>>

\* One entry of the listing of data blocks; several blocks of a kind share a field.
PrintedBlock(cea, n) ==
    LET tag == cea.dbc_tags[n] IN
    CASE tag = CEA_DB_AUDIO -> PrintedAudio(cea.sad)
      [] tag = CEA_DB_VIDEO -> PrintedVideo(cea.svd)
      [] tag = CEA_DB_VENDOR -> PrintedVsdb(cea.vsdb)
      [] tag = CEA_DB_SPEAKER -> cea.speaker
      [] tag = CEA_DB_DTC -> <<>>
      [] tag = CEA_DB_EXTENDED -> PrintedExtended(cea, n)

PrintedCeaTimings(cea) ==
    IF cea.off_dtd > 4
    THEN [k \in 1 .. cea.nr_dtd |-> PrintedDetailed(cea.detailed_timing[k])]
    ELSE kept

PrintedCea(cea, blocks) ==
    [header |-> <<cea.rev, cea.flags, cea.off_dtd, cea.nr_dtd>>,
     blocks |-> [n \in DOMAIN cea.dbc_tags |->
                    IF n \in blocks THEN <<cea.dbc_tags[n], kept>>
                    ELSE <<cea.dbc_tags[n], PrintedBlock(cea, n)>>],
     timings |-> PrintedCeaTimings(cea)]

-----------------------------------------------------------------------------
(* What the image says, without the decoder's loops. *)

\* The offsets of the data blocks: they follow each other from 4 up to the
\* first timing, or up to a block of a reserved kind.
Starts(b) ==
    LET S[p \in 4..160] == IF p >= DtdAt(b) \/ BlockTag(b, p) \in {0, 6} THEN <<>>
                           ELSE <<p>> \o S[p + BlockLen(b, p) + 1]
    IN  S[4]

HasCea(b) == b[126] # 0 /\ Ext(b, 0) = EDID_EXT_TAG_CEA /\ Ext(b, 1) = 3

\* The entries of the listing that are extended blocks of an unknown kind.
UnknownExtended(b) ==
    {n \in DOMAIN Starts(b) : /\ BlockTag(b, Starts(b)[n]) = CEA_DB_EXTENDED
                              /\ Ext(b, Starts(b)[n] + 1) \notin CEA_DBE_TAGS}

Printed(e, b) ==
    [base |-> PrintedBase(e.base), extensions |-> e.extensions,
     standard |-> PrintedTimings(e.standard_timings, b, 38),
     descriptors |-> [k \in 0..3 |-> PrintedDescriptor(e.descriptors[k], b, 54 + 18 * k)],
     cea |-> IF HasCea(b) THEN PrintedCea(e.cea, UnknownExtended(b)) ELSE kept]

-----------------------------------------------------------------------------
(* Properties. *)

\* After a decoding that succeeded, what is printed is what the same image
\* decodes to in an empty structure, except at the seven places marked "kept".
NothingOld == pc = "done" /\ ret = 0 => Printed(edid, bin) = Printed(alone, bin)

\* The listing has every data block of the collection, once and in order, and
\* the audio and video fields are those of the last block of their kind.
BlocksListed ==
    pc = "done" /\ ret = 0 /\ HasCea(bin) =>
        LET s == Starts(bin)
            last(tag) == {n \in DOMAIN s : /\ BlockTag(bin, s[n]) = tag
                                           /\ \A m \in n + 1 .. Len(s) : BlockTag(bin, s[m]) # tag}
        IN  /\ edid.cea.dbc_tags = [n \in DOMAIN s |-> BlockTag(bin, s[n])]
            /\ \A n \in last(CEA_DB_AUDIO) : Len(edid.cea.sad) = BlockLen(bin, s[n]) \div 3
            /\ \A n \in last(CEA_DB_VIDEO) :
                  [k \in DOMAIN edid.cea.svd |-> edid.cea.svd[k].vic]
                      = [k \in 1 .. BlockLen(bin, s[n]) |-> Ext(bin, s[n] + k) % 128]

\* The report of an accepted monitor never mixes two monitors and leaves out no
\* data block (edid_decode_v14 fills a structure that is used again, field by
\* field, and edid_decode_cea walks blocks of any length).
ShowsThisMonitor == NothingOld /\ BlocksListed

=============================================================================
