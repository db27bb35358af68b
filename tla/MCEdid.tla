------------------------------- MODULE MCEdid -------------------------------
(***************************************************************************)
(* Images of monitors for the decoder: between them every kind of          *)
(* descriptor, data block and rejection, and the places where the decoder  *)
(* leaves a field of the structure as the monitor before left it.          *)
(***************************************************************************)
EXTENDS Edid

Zeros(n) == [k \in 1..n |-> 0]

Descr(tag, bytes) == <<0, 0, 0, tag>> \o bytes \o Zeros(14 - Len(bytes))
Timing1 == <<2, 58, 128, 24, 113, 56, 45, 64, 88, 44, 69, 0, 224, 14, 17, 0, 0, 30>>
Timing2 == <<1, 29, 0, 114, 81, 208, 30, 32, 110, 40, 85, 0, 160, 90, 0, 1, 2, 160>>
Name == Descr(252, <<0, 77, 49, 10, 32, 32, 32, 32, 32, 32, 32, 32, 32, 32>>)
FullSerial == Descr(255, <<0>> \o [k \in 1..13 |-> 48 + k])
String == Descr(254, <<0, 83, 10>>)
RangeCvt == Descr(253, <<15, 50, 75, 30, 83, 17, 4, 17, 9, 240, 248, 40, 160, 60>>)
RangeGtf2 == Descr(253, <<2, 0, 75, 30, 0, 17, 2, 0, 40, 80, 1, 2, 3, 4>>)
RangeOnly == Descr(253, <<8, 50, 75, 30, 83, 17, 1>>)
RangeGtf == Descr(253, <<0, 50, 75, 30, 83, 17, 0>>)
ColorPoint == Descr(251, <<0, 1, 6, 80, 84, 120, 2, 9, 90, 94, 255>>)
ExtraTimings(t) == Descr(250, <<0, 97, t, 0, 0, 129, 64>>)
DcmData == Descr(249, <<0, 3, 1, 2, 3, 4, 5, 6, 7, 8, 9, 10, 11, 12>>)
CvtTiming == Descr(248, <<0, 1, 44, 20, 63, 44, 68, 80, 44, 72, 32, 44, 76, 96>>)
Timing3 == Descr(247, <<0, 10, 129, 64, 32, 16, 8, 16>>)
Dummy == Descr(16, <<>>)
Unknown == Descr(17, <<0, 5>>)

Base(input, feature, std, descrs, nr) ==
    <<0, 255, 255, 255, 255, 255, 255, 0, 4, 105, 3, 39, 1, 2, 3, 4>>
    \o (IF feature = 31 THEN <<255, 22, 1, 4>> ELSE <<12, 20, 1, 3>>)
    \o <<input>> \o (IF feature = 31 THEN <<79, 0>> ELSE <<52, 29>>) \o <<120, feature>>
    \o <<238, 149, 163, 84, 76, 153, 38, 15, 80, 84>> \o <<33, 8, 128>>
    \o std \o Zeros(16 - Len(std))
    \o descrs[1] \o descrs[2] \o descrs[3] \o descrs[4] \o <<nr>>

Cea(tag, version, dtd, third, blocks, timings) ==
    LET s == <<tag, version, dtd, third>> \o blocks \o timings
    IN  s \o Zeros(128 - Len(s))

\* The image, its checksum wrong by err.
Image(base, ext, err) ==
    LET sum == ByteSum([k \in 0..126 |-> base[k + 1]], 126)
        s == base \o <<(256 - sum + err) % 256>> \o ext
    IN  [k \in 0..255 |-> s[k + 1]]

Audio == <<38, 9, 7, 7, 21, 4, 80>>
Audio1 == <<35, 73, 7, 1>>
Video == <<67, 144, 5, 60>>
Hdmi3D == <<113, 3, 12, 0, 16, 0, 248, 45, 160, 31, 33, 160, 5, 0, 65, 24, 16, 33>>
HdmiLatency == <<110, 3, 12, 0, 32, 0, 128, 60, 224, 7, 9, 11, 13, 192, 0>>
HdmiShort == <<101, 3, 12, 0, 16, 0>>
OtherVendor == <<100, 90, 1, 0, 7>>
Speaker == <<131, 79, 0, 0>>
VesaDtc == <<161, 3>>
VideoCap == <<226, 0, 107>>
Colorimetry == <<227, 5, 3, 1>>
HdrStatic == <<226, 6, 7>>
Reserved == <<193, 9>>

Full ==
    LET blocks == Video \o Audio \o Hdmi3D \o Speaker \o VideoCap \o Colorimetry
    IN  Image(Base(165, 11, <<97, 64, 129, 128>>, <<Timing1, Name, RangeCvt, FullSerial>>, 1),
              Cea(2, 3, 4 + Len(blocks), 242, blocks, Timing2 \o Timing1), 0)
Plain ==
    Image(Base(10, 31, <<0, 0, 81, 192>>, <<Timing2, ColorPoint, ExtraTimings(1), RangeGtf2>>, 0),
          Zeros(128), 0)
Mixed ==
    LET blocks == Audio1 \o HdrStatic \o VesaDtc \o OtherVendor \o Reserved \o Video
    IN  Image(Base(130, 18, <<1, 1>>, <<DcmData, CvtTiming, Timing3, String>>, 2),
              Cea(2, 3, 4 + Len(blocks), 65, blocks, Timing1), 0)
Overlong == \* the last block runs past the first timing
    LET blocks == HdmiLatency \o Video \o VideoCap
    IN  Image(Base(178, 9, <<>>, <<Dummy, Unknown, RangeOnly, Name>>, 1),
              Cea(2, 3, 3 + Len(blocks), 0, blocks, <<>>), 0)
NoBlocks ==
    Image(Base(128, 1, <<>>, <<Timing1, ExtraTimings(66), RangeGtf, Dummy>>, 1),
          Cea(2, 3, 4, 1, <<>>, Timing2), 0)
ShortVendor ==
    LET blocks == HdmiShort \o Audio1
    IN  Image(Base(128, 1, <<>>, <<Timing1, String, Dummy, Name>>, 1),
              Cea(2, 3, 4 + Len(blocks), 1, blocks, Timing1), 0)
OldVersion ==
    Image(Base(128, 1, <<>>, <<Timing1, String, Dummy, Name>>, 1),
          Cea(2, 1, 4, 0, <<>>, <<>>), 0)
OtherExt ==
    Image(Base(128, 1, <<>>, <<Timing1, Name, Dummy, Dummy>>, 1),
          Cea(16, 3, 4, 0, <<>>, <<>>), 0)
BadChecksum == Image(Base(128, 1, <<>>, <<Timing1, Name, Dummy, Dummy>>, 0), Zeros(128), 1)
BadHeader == [Plain EXCEPT ![0] = 1, ![127] = (@ + 255) % 256]

MonitorSet == {Full, Plain, Mixed, Overlong, NoBlocks, ShortVendor, OldVersion, OtherExt,
               BadChecksum, BadHeader}
=============================================================================
