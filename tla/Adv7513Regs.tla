---------------------------- MODULE Adv7513Regs ----------------------------
(***************************************************************************)
(* What the ADV7513 firmware asks of its encoder chip: every routine of    *)
(* adv7513.c that only reads and writes registers is the sequence of its   *)
(* register operations, in the order of the code.  A routine stops at the  *)
(* first operation that fails.  Bytes are numbers; masks act bit by bit.   *)
(***************************************************************************)
EXTENDS Naturals, Sequences, FiniteSetsExt, SequencesExt

Bit(n, i) == (n \div 2^i) % 2
Bits(n) == {i \in 0..7 : Bit(n, i) = 1}
\* The byte whose bits are b(0) to b(7).
Byte(b(_)) ==
  b(0) + 2 * b(1) + 4 * b(2) + 8 * b(3) + 16 * b(4) + 32 * b(5) + 64 * b(6) + 128 * b(7)
AndNot(n, v) == LET b(i) == IF Bit(v, i) = 1 THEN 0 ELSE Bit(n, i) IN Byte(b)
SetBit(n, i) == IF Bit(n, i) = 1 THEN n ELSE n + 2^i

\* (x & (2^w - 1)) << s, the way the code packs a field
Pack(x, w, s) == (x % 2^w) * 2^s

\* reg_read, reg_write, reg_update_bits and reg_clear_bits of encoder.c
Rd(r) == [k |-> "rd", r |-> r]
Wr(r, d) == [k |-> "wr", r |-> r, d |-> d]
Upd(r, mask, d) == [k |-> "upd", r |-> r, mask |-> mask, d |-> d]
Clr(r, mask) == Upd(r, mask, 0)

\* The byte a read-modify-write operation puts back.
Merge(old, mask, d) == LET b(i) == IF Bit(mask, i) = 1 THEN Bit(d, i) ELSE Bit(old, i) IN Byte(b)

ADV7513_REG_CHIP_REVISION == \h00
ADV7513_REG_CHIP_ID_LOW == \hf6
ADV7513_REG_CHIP_ID_HIGH == \hf5
ADV7513_REG_STATUS == \h42
ADV7513_STATUS_HPD == 6
ADV7513_STATUS_MONITOR_SENSE == 5

\* Bits of the interrupt mask 0x94 and of the interrupt status 0x96.
hpd == 7
monitor_sense == 6

-----------------------------------------------------------------------------
chip_identify ==
  << Rd(ADV7513_REG_CHIP_REVISION), Rd(ADV7513_REG_CHIP_ID_LOW), Rd(ADV7513_REG_CHIP_ID_HIGH) >>

do_hpd_powerup ==
  << Upd(\h41, \h40, 0), Wr(\h98, \h03), Upd(\h9a, \he0, Pack(7, 3, 5)), Wr(\h9c, \h30),
     Upd(\h9d, \h03, 1), Wr(\ha2, \ha4), Wr(\ha3, \ha4), Wr(\he0, \hd0), Wr(\h96, \hff) >>

kick_up == << Upd(\h41, \h40, 0) >>
do_hpd_powerdown == << Upd(\h41, \h40, \h40) >>

\* What the caller of power_state, mode_state is told.  The test compares the
\* masked byte with 1, which the mask 0x40 never leaves.
power_state(regv) == IF Bit(regv, 6) * 2^6 = 1 THEN 0 ELSE 1
mode_state(regv) == LET vic == regv % 32 IN IF vic < 60 THEN vic ELSE 0

config_csc(enable) == << Upd(\h18, \h80, enable * 2^7) >>

\* adv7513.h: the arguments of the routines below
INPUT_ID_24BIT_RGB444_YCBCR444 == 0
INPUT_COLOR_DEPTH_8BIT == 3
INPUT_COLOR_SPACE_RGB == 0
INPUT_ASPECT_4V3 == 0
INPUT_ASPECT_16V9 == 1
INPUT_INVALID == 0
OUTPUT_444 == 0
MODE_DVI == 0
MODE_HDMI == 1

video_in_format(id, depth, space, aspect, style) ==
  << Upd(\h15, \h0f, id),
     Upd(\h16, \h3d, Pack(depth, 2, 4) + Pack(style, 2, 2) + Pack(space, 1, 0)),
     Upd(\h17, \h02, Pack(aspect, 1, 1)) >>

video_out_format(format, dvi) ==
  << Upd(\h16, \h80, Pack(format, 1, 7)) >> \o config_csc(0)
  \o << Upd(\haf, \h82, Pack(dvi, 1, 1)),
        IF dvi = MODE_HDMI THEN Upd(\h40, \h80, Pack(1, 1, 7)) ELSE Clr(\h40, \h80),
        Upd(\h4c, \h0f, 4) >>

\* The four bars (top, bottom, left, right), low byte first.
BarBytes(avi, i) ==
  << Wr(\h58 + 2 * i, avi.bar[i] % 256), Wr(\h59 + 2 * i, (avi.bar[i] \div 256) % 256) >>

\* The registers of the AVI infoframe avi, written between the locking and the
\* unlocking of the packet buffer.
AviPacket(avi) ==
  << Upd(\h44, \h10, 2^4), Upd(\h4a, \hc0, Pack(3, 2, 6)),
     Upd(\h55, \h70, Pack(avi.rgb_ycbcr, 2, 5) + Pack(avi.active_fmt, 1, 4)
                       + Pack(avi.bar_info, 2, 2) + Pack(avi.scan_info, 2, 0)),
     Wr(\h56, Pack(avi.colorimetry, 2, 6) + Pack(avi.pict_ar, 2, 4) + Pack(avi.active_fmt_ar, 4, 0)),
     Wr(\h57, Pack(avi.itc, 1, 7) + Pack(avi.colorimetry_ext, 3, 4) + Pack(avi.quant, 2, 2)
                + Pack(avi.scaling, 2, 0)),
     Wr(\h59, Pack(avi.yq1yq0, 4, 4)) >>
  \o BarBytes(avi, 1) \o BarBytes(avi, 2) \o BarBytes(avi, 3) \o BarBytes(avi, 4)
  \o << Clr(\h4a, \h40) >>

avi_infoframe ==
  AviPacket([scan_info |-> 2, rgb_ycbcr |-> 0, active_fmt |-> 1, active_fmt_ar |-> 8, pict_ar |-> 1,
             colorimetry |-> 0, colorimetry_ext |-> 0, scaling |-> 0, quant |-> 0, itc |-> 0,
             yq1yq0 |-> 0, bar_info |-> 1, bar |-> <<0, 0, 0, 0>>])

chip_init(dvi) ==
  video_in_format(INPUT_ID_24BIT_RGB444_YCBCR444, INPUT_COLOR_DEPTH_8BIT, INPUT_COLOR_SPACE_RGB,
                  INPUT_ASPECT_4V3, INPUT_INVALID)
  \o video_out_format(OUTPUT_444, IF dvi # 0 THEN MODE_DVI ELSE MODE_HDMI)
  \o avi_infoframe

-----------------------------------------------------------------------------
(***************************************************************************)
(* The 3D variants.  A video code outside 1..24 takes no case of either    *)
(* switch: the aspect and the picture aspect ratio keep whatever the stack *)
(* and the structure held, here the parameters junk.                       *)
(***************************************************************************)
Vic43 == {1, 2, 6, 8, 10, 12, 14, 17, 21, 23}
Vic169 == (1..24) \ Vic43

video_in_format_3d(id, depth, space, style, vic, junk) ==
  video_in_format(id, depth, space,
                  CASE vic \in Vic43 -> INPUT_ASPECT_4V3 [] vic \in Vic169 -> INPUT_ASPECT_16V9
                    [] OTHER -> junk, style)

avi_infoframe_3d(vic, junk) ==
  AviPacket([scan_info |-> 2, rgb_ycbcr |-> 0, active_fmt |-> 1, active_fmt_ar |-> 8,
             pict_ar |-> CASE vic \in Vic43 -> 1 [] vic \in Vic169 -> 2 [] OTHER -> junk,
             colorimetry |-> 0, colorimetry_ext |-> 0, scaling |-> 0, quant |-> 0, itc |-> 0,
             yq1yq0 |-> 0, bar_info |-> 0, bar |-> <<0, 0, 0, 0>>])

video_out_format_3d(format, vic) ==
  << Upd(\h16, \h80, Pack(format, 1, 7)) >> \o config_csc(0)
  \o << Upd(\haf, \h82, Pack(1, 1, 1)), Upd(\h40, \h80, Pack(1, 1, 7)), Upd(\h4c, \h0f, 4),
        Upd(\h3b, \h7e, 2 * 2^5), Upd(\h3c, \h3f, vic) >>

chip_init_3d(vic, junk) ==
  video_in_format_3d(INPUT_ID_24BIT_RGB444_YCBCR444, INPUT_COLOR_DEPTH_8BIT, INPUT_COLOR_SPACE_RGB,
                     INPUT_INVALID, vic, junk)
  \o video_out_format_3d(OUTPUT_444, vic) \o avi_infoframe_3d(vic, junk)

-----------------------------------------------------------------------------
\* Interrupt setup: the masks of the three interrupt groups, their statuses.
MaskRegs == <<\h92, \h94, \h95>>
StatusRegs == <<\h93, \h96, \h97>>
int_mask == [r \in {\h92, \h94, \h95} |-> IF r = \h94 THEN 2^hpd + 2^monitor_sense ELSE 0]

Masks(f) == [i \in 1..3 |-> Wr(MaskRegs[i], f[MaskRegs[i]])]
MasksOff == [i \in 1..3 |-> Wr(MaskRegs[i], 0)]
StatusClear == [i \in 1..3 |-> Wr(StatusRegs[i], \hff)]

\* Mutant: the interrupt is enabled before the chip's stale events are cleared.
int_setup_EnableFirst ==
  << [k |-> "irq", on |-> FALSE] >> \o MasksOff \o Masks(int_mask)
  \o << [k |-> "irq", on |-> TRUE] >> \o StatusClear
int_setup ==
  << [k |-> "irq", on |-> FALSE] >> \o MasksOff \o StatusClear \o Masks(int_mask)
  \o << [k |-> "irq", on |-> TRUE] >>

adv7513_init == chip_identify \o int_setup \o kick_up

\* Every register the driver touches.
AdvRegs ==
  {\h00, \hf5, \hf6, \h3d, \h41, \h42} \cup Range(MaskRegs) \cup Range(StatusRegs)
  \cup {op.r : op \in Range(do_hpd_powerup \o chip_init(0) \o chip_init_3d(1, 0))}
=============================================================================
